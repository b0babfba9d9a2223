------------------------------ MODULE MCAgents ------------------------------
(* Small instances of the two modules about sub-agents, checked together: a *)
(* behaviour is one of one module, with the other one at rest.              *)
EXTENDS Subagent, DetachedTasks

VARIABLE part
agentsVars == <<part, subVars, taskVars>>

AgentsInit ==
  /\ part \in {"subagent", "tasks"} /\ SubInit /\ TaskInit
  \* A module at rest has one profile, so that the other is not multiplied.
  /\ part # "subagent" => wrong = CHOOSE p \in SubFaults : TRUE

AgentsNext ==
  \/ part = "subagent" /\ SubNext /\ UNCHANGED <<part, taskVars>>
  \/ part = "tasks" /\ TaskNext /\ UNCHANGED <<part, subVars>>

AgentsSpec ==
  /\ AgentsInit /\ [][AgentsNext]_agentsVars
  \* A module at rest is left alone, also where it could take a step.
  /\ \/ part = "subagent" /\ SubFairness
     \/ part = "tasks" /\ TaskFairness

\* However its runs are steered, resumed, stopped or fail, a sub-agent comes to
\* rest and its card says so, and a background run is reported to its parent.
AgentsSettle == SubagentEnds /\ ReportComes
=============================================================================
