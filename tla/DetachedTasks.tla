--------------------------- MODULE DetachedTasks ---------------------------
(***************************************************************************)
(* The background sub-agents of one parent session: DetachedTaskRegistry   *)
(* and handle_task_detached of crates/moon-coder/src/runner.rs, the        *)
(* `check` and `stop` tools, the user's second Esc, deletion of the        *)
(* session, a restart of the IDE, and the parent's turns as far as they    *)
(* are woken by a report and tell the user that the agent is done.         *)
(*                                                                         *)
(* Of a run of the sub-agent itself (module Subagent) only its end is      *)
(* seen: an answer, a failure, or the cancelled token.                     *)
(***************************************************************************)
EXTENDS Naturals, FiniteSets

CONSTANTS Tasks,      \* detached sub-agents of the parent
          ParentTurn, \* the turn loop as a holder of a RunningTurnGuard
          MaxTurns,   \* bound: turns begun by the user
          MaxSettling,\* bound: finished turns that have not told the user yet
          TaskFaults  \* "provider", "cap" (a run hits its iteration cap, where the
              \* token is not looked at), "stop", "delete", "restart"

ASSUME TaskAssumption ==
  /\ ParentTurn \notin Tasks
  /\ MaxTurns \in Nat /\ MaxSettling \in Nat
  /\ TaskFaults \subseteq {"provider", "cap", "stop", "delete", "restart"}

VARIABLES task,      \* per task: where the spawned tokio task is
          outcome,   \* per task: what run_subagent returned
          finish,    \* per task: DetachedEntry.finish
          cancelled, \* tasks whose token is cancelled
          reg,       \* DetachedTaskRegistry: by_parent and entries agree
          records,   \* SubagentSpawned / SubagentFinished in the parent's JSONL
          parent,    \* the parent's runtime: "idle", "turn", "deleting", "gone"
          settling,  \* turns that gave up the slot and have not yet published
          inbox,     \* reports accepted by send_to and not yet served
          told,      \* per task: reports the parent's model has read
          stopping,  \* tasks that a `stop` call has seen unfinished
          halted,    \* tasks stopped before their report was handed over
          notified,  \* the user was told the agent is done since the last turn began
          turns,     \* turns begun by the user
          restarts   \* the IDE was restarted

taskVars == <<task, outcome, finish, cancelled, reg, records, parent, settling,
              inbox, told, stopping, halted, notified, turns, restarts>>

-----------------------------------------------------------------------------

Ends == {"none", "done", "failed", "aborted"}
Spawned(t) == <<"spawned", t>>
Finished(t, how) == <<how, t>>
Deleted == parent \in {"deleting", "gone"}

TaskTypeOK ==
  /\ task \in [Tasks -> {"off", "call", "spawn", "live", "over", "settled", "reported",
                         "done", "lost"}]
  /\ outcome \in [Tasks -> Ends] /\ finish \in [Tasks -> Ends]
  /\ cancelled \subseteq Tasks /\ reg \subseteq Tasks
  /\ records \subseteq {"spawned", "ok", "error"} \X Tasks
  /\ parent \in {"idle", "turn", "deleting", "gone"} /\ settling \in 0..MaxSettling
  /\ inbox \subseteq Tasks /\ told \in [Tasks -> 0..1]
  /\ stopping \subseteq Tasks /\ halted \subseteq Tasks
  /\ notified \in BOOLEAN /\ turns \in 0..MaxTurns /\ restarts \in 0..1

TaskInit ==
  /\ task = [t \in Tasks |-> "off"]
  /\ outcome = [t \in Tasks |-> "none"] /\ finish = [t \in Tasks |-> "none"]
  /\ cancelled = {} /\ reg = {} /\ records = {}
  /\ parent = "idle" /\ settling = 0 /\ inbox = {}
  /\ told = [t \in Tasks |-> 0]
  /\ stopping = {} /\ halted = {} /\ notified = FALSE /\ turns = 0 /\ restarts = 0

-----------------------------------------------------------------------------
(* The parent's turns.                                                     *)

BeginParentTurn ==
  /\ parent = "idle" /\ turns < MaxTurns
  /\ parent' = "turn" /\ turns' = turns + 1 /\ notified' = FALSE
  /\ UNCHANGED <<task, outcome, finish, cancelled, reg, records, settling, inbox,
                 told, stopping, halted, restarts>>

\* Mutant of ServeReport: the report stays queued and is served again.
ServeReportKeeps(t) ==
  /\ parent = "turn" /\ t \in inbox
  /\ told' = [told EXCEPT ![t] = @ + 1]
  /\ UNCHANGED <<task, outcome, finish, cancelled, reg, records, parent, settling,
                 inbox, stopping, halted, notified, turns, restarts>>

\* The turn loop puts a queued report before the model.
ServeReport(t) ==
  /\ parent = "turn" /\ t \in inbox
  /\ inbox' = inbox \ {t}
  /\ told' = [told EXCEPT ![t] = @ + 1]
  /\ UNCHANGED <<task, outcome, finish, cancelled, reg, records, parent, settling,
                 stopping, halted, notified, turns, restarts>>

\* Mutant of EndParentTurn: the turn ends without looking at its queue.
EndParentTurnBlind ==
  /\ parent = "turn" /\ stopping = {}
  /\ \A t \in Tasks : task[t] \notin {"call", "spawn"}
  /\ settling < MaxSettling
  /\ parent' = "idle" /\ settling' = settling + 1
  /\ UNCHANGED <<task, outcome, finish, cancelled, reg, records, inbox, told,
                 stopping, halted, notified, turns, restarts>>

\* The slot is given up only with an empty queue; the user is told afterwards.
EndParentTurn ==
  /\ parent = "turn" /\ inbox = {} /\ stopping = {}
  /\ \A t \in Tasks : task[t] \notin {"call", "spawn"}
  /\ settling < MaxSettling
  /\ parent' = "idle" /\ settling' = settling + 1
  /\ UNCHANGED <<task, outcome, finish, cancelled, reg, records, inbox, told,
                 stopping, halted, notified, turns, restarts>>

\* Mutant of PublishSettled: settled entries still count as background work.
PublishSettledStrict ==
  /\ settling > 0
  /\ settling' = settling - 1
  /\ notified' = (notified \/ reg = {})
  /\ UNCHANGED <<task, outcome, finish, cancelled, reg, records, parent, inbox,
                 told, stopping, halted, turns, restarts>>

\* publish_turn_settled: silent while a background sub-agent is unsettled.
PublishSettled ==
  /\ settling > 0
  /\ settling' = settling - 1
  /\ notified' = (notified \/ \A t \in reg : finish[t] # "none")
  /\ UNCHANGED <<task, outcome, finish, cancelled, reg, records, parent, inbox,
                 told, stopping, halted, turns, restarts>>

-----------------------------------------------------------------------------
(* handle_task_detached: register, record the spawn, then a task of its    *)
(* own that runs the sub-agent, settles, reports and records the finish.   *)

CallTask(t) ==
  /\ task[t] = "off" /\ parent = "turn"
  /\ task' = [task EXCEPT ![t] = "call"]
  /\ UNCHANGED <<outcome, finish, cancelled, reg, records, parent, settling, inbox,
                 told, stopping, halted, notified, turns, restarts>>

RegisterTask(t) ==
  /\ task[t] = "call"
  /\ task' = [task EXCEPT ![t] = "spawn"]
  /\ reg' = reg \cup {t}
  /\ UNCHANGED <<outcome, finish, cancelled, records, parent, settling, inbox,
                 told, stopping, halted, notified, turns, restarts>>

Record(rec) == records' = IF Deleted THEN records ELSE records \cup {rec}

SpawnTask(t) ==
  /\ task[t] = "spawn"
  /\ task' = [task EXCEPT ![t] = "live"]
  /\ Record(Spawned(t))
  /\ UNCHANGED <<outcome, finish, cancelled, reg, parent, settling, inbox, told,
                 stopping, halted, notified, turns, restarts>>

TaskEnds(t) ==
  /\ task[t] = "live"
  /\ task' = [task EXCEPT ![t] = "over"]
  /\ \E how \in {"done", "failed", "aborted"} :
        /\ how = "aborted" <=> t \in cancelled /\ ~("cap" \in TaskFaults /\ how = "done")
        /\ how = "failed" => "provider" \in TaskFaults
        /\ outcome' = [outcome EXCEPT ![t] = how]
  /\ UNCHANGED <<finish, cancelled, reg, records, parent, settling, inbox, told,
                 stopping, halted, notified, turns, restarts>>

\* Mutant of Settle: the entry is settled after the report is sent.
SettleLate(t) ==
  /\ task[t] = "over"
  /\ task' = [task EXCEPT ![t] = "settled"]
  /\ UNCHANGED <<outcome, finish, cancelled, reg, records, parent, settling, inbox,
                 told, stopping, halted, notified, turns, restarts>>

Settle(t) ==
  /\ task[t] = "over"
  /\ task' = [task EXCEPT ![t] = "settled"]
  /\ finish' = [finish EXCEPT ![t] = outcome[t]]
  /\ UNCHANGED <<outcome, cancelled, reg, records, parent, settling, inbox, told,
                 stopping, halted, notified, turns, restarts>>

\* Mutant of DeliverReport: an aborted run reports, too.
DeliverReportAlways(t) ==
  IF Deleted THEN UNCHANGED <<parent, inbox, notified>>
  ELSE /\ inbox' = inbox \cup {t}
       /\ parent' = "turn"
       /\ notified' = (notified /\ parent = "turn")

\* send_to: queued into the running turn, or the start of one.
DeliverReport(t) ==
  IF outcome[t] = "aborted" \/ Deleted
  THEN UNCHANGED <<parent, inbox, notified>>
  ELSE /\ inbox' = inbox \cup {t}
       /\ parent' = "turn"
       /\ notified' = (notified /\ parent = "turn")

Report(t) ==
  /\ task[t] = "settled"
  /\ task' = [task EXCEPT ![t] = "reported"]
  /\ DeliverReport(t)
  /\ UNCHANGED <<outcome, finish, cancelled, reg, records, settling, told, stopping,
                 halted, turns, restarts>>

RecordFinish(t) ==
  /\ task[t] = "reported"
  /\ task' = [task EXCEPT ![t] = "done"]
  /\ Record(Finished(t, IF outcome[t] = "done" THEN "ok" ELSE "error"))
  /\ UNCHANGED <<outcome, finish, cancelled, reg, parent, settling, inbox, told,
                 stopping, halted, notified, turns, restarts>>

-----------------------------------------------------------------------------
(* Stopping.                                                               *)

\* The `stop` tool looks at the finish in one section ...
StopLook(t) ==
  /\ "stop" \in TaskFaults
  /\ parent = "turn" /\ t \in reg \ stopping /\ t \notin cancelled
  /\ finish[t] = "none"
  /\ stopping' = stopping \cup {t}
  /\ UNCHANGED <<task, outcome, finish, cancelled, reg, records, parent, settling,
                 inbox, told, halted, notified, turns, restarts>>

Unreported(S) == {t \in S : task[t] \in {"spawn", "live", "over", "settled"}}

\* ... and cancels the token in another.
StopCancel(t) ==
  /\ t \in stopping
  /\ stopping' = stopping \ {t}
  /\ cancelled' = cancelled \cup {t}
  /\ halted' = halted \cup Unreported({t})
  /\ UNCHANGED <<task, outcome, finish, reg, records, parent, settling, inbox, told,
                 notified, turns, restarts>>

\* stop_background: the second Esc cancels every token of the session.
StopBackground ==
  /\ "stop" \in TaskFaults /\ reg \ cancelled # {} /\ ~Deleted
  /\ cancelled' = cancelled \cup reg
  /\ halted' = halted \cup Unreported(reg)
  /\ UNCHANGED <<task, outcome, finish, reg, records, parent, settling, inbox, told,
                 stopping, notified, turns, restarts>>

-----------------------------------------------------------------------------
(* Deletion and restart.                                                   *)

\* delete_session_in: the runtime goes (and with it its queue), its turn's
\* token is cancelled, then the registry is pruned.
DeleteSession ==
  /\ "delete" \in TaskFaults /\ ~Deleted /\ turns > 0
  /\ parent' = "deleting" /\ inbox' = {} /\ stopping' = {}
  /\ UNCHANGED <<task, outcome, finish, cancelled, reg, records, settling, told,
                 halted, notified, turns, restarts>>

PruneParent ==
  /\ parent = "deleting"
  /\ parent' = "gone" /\ reg' = {}
  /\ cancelled' = cancelled \cup reg
  /\ UNCHANGED <<task, outcome, finish, records, settling, inbox, told,
                 stopping, halted, notified, turns, restarts>>

\* The registry and the runs die with the process, the records do not.
RestartIde ==
  /\ "restart" \in TaskFaults /\ restarts = 0 /\ ~Deleted /\ turns > 0
  /\ restarts' = 1
  /\ task' = [t \in Tasks |-> IF task[t] = "off" THEN "off" ELSE "lost"]
  /\ reg' = {} /\ inbox' = {} /\ stopping' = {} /\ settling' = 0
  /\ parent' = "idle" /\ notified' = TRUE
  /\ UNCHANGED <<outcome, finish, cancelled, records, told, halted, turns>>

-----------------------------------------------------------------------------

TaskStep(t) ==
  RegisterTask(t) \/ SpawnTask(t) \/ TaskEnds(t) \/ Settle(t) \/ Report(t) \/ RecordFinish(t)
ParentStep ==
  \/ EndParentTurn \/ PublishSettled \/ PruneParent
  \/ \E t \in Tasks : ServeReport(t) \/ StopCancel(t)

TaskNext ==
  \/ BeginParentTurn \/ ParentStep
  \/ StopBackground \/ DeleteSession \/ RestartIde
  \/ \E t \in Tasks : CallTask(t) \/ TaskStep(t) \/ StopLook(t)

TaskSpec == TaskInit /\ [][TaskNext]_taskVars

\* A spawned task and a turn make progress; the turn itself ends (TurnLoop).
TaskFairness ==
  /\ \A t \in Tasks : WF_taskVars(TaskStep(t)) /\ WF_taskVars(ServeReport(t))
                        /\ WF_taskVars(StopCancel(t))
  /\ WF_taskVars(EndParentTurn) /\ WF_taskVars(PublishSettled)
  /\ WF_taskVars(PruneParent)
TaskFairSpec == TaskSpec /\ TaskFairness

-----------------------------------------------------------------------------
(* What the rest of the IDE sees of it.                                    *)

\* Mutant of Busy: the guard of a run is dropped before its report is sent.
BusyDropsEarly == {t \in Tasks : task[t] \in {"live", "over"}}
          \cup {x \in {ParentTurn} : parent = "turn" \/ settling > 0}

\* Who still counts as agent activity: the guard of a task is held across its
\* callback, and a turn's from before it is spawned to the end of its task.
Busy == {t \in Tasks : task[t] \in {"live", "over", "settled", "reported"}}
          \cup {x \in {ParentTurn} : parent = "turn" \/ settling > 0}

\* A spawn without a finish record.
Unfinished(t) == Finished(t, "ok") \notin records /\ Finished(t, "error") \notin records

\* Mutant of ReopenedCard: a run that nothing knows is taken to be running.
ReopenedCardHopeful(t) ==
  IF ~Unfinished(t) THEN IF Finished(t, "ok") \in records THEN "done" ELSE "error"
  ELSE IF t \in reg /\ finish[t] # "none" THEN IF finish[t] = "done" THEN "done" ELSE "error"
  ELSE "running"

\* What reopening the session makes of the card of a task: without a record a
\* registered run is looked up, any other one was lost.
ReopenedCard(t) ==
  IF ~Unfinished(t) THEN IF Finished(t, "ok") \in records THEN "done" ELSE "error"
  ELSE IF t \in reg /\ finish[t] = "none" THEN "running"
  ELSE IF t \in reg /\ finish[t] = "done" THEN "done"
  ELSE "error"

-----------------------------------------------------------------------------
(* Properties.                                                             *)

\* A parent that is woken by a report and then calls `check` is never told that
\* the run is still running.
ReportedIsSettled ==
  \A t \in Tasks : t \in inbox \/ told[t] > 0 => finish[t] \in {"done", "failed"}

\* No report is handed over twice, and none of a run that was aborted.
ReportOnce ==
  \A t \in Tasks :
    /\ told[t] + Cardinality(inbox \cap {t}) <= 1
    /\ t \in inbox \/ told[t] > 0 => outcome[t] # "aborted"

\* The activity count is not zero between the end of a run and the turn its
\* report starts.
NoGap ==
  inbox # {} \/ (\E t \in Tasks : task[t] \in {"over", "settled"}) => Busy # {}

\* Reopening the session at any time, also after a restart, shows "running"
\* only for a run that will still end, and "done" only for one that answered.
ReopenRight ==
  \A t \in Tasks :
    Spawned(t) \in records /\ ~Deleted =>
      /\ ReopenedCard(t) = "running" => task[t] \in {"live", "over"}
      /\ ReopenedCard(t) = "done" => outcome[t] = "done"

Quiet ==
  /\ parent = "idle" /\ settling = 0 /\ inbox = {}
  /\ \A t \in Tasks : task[t] \in {"off", "done", "lost"}

\* When all is quiet the user has been told that the agent is done: by the last
\* turn, or by the one that the last report started.
UserIsTold == Quiet /\ turns > 0 /\ cancelled = {} => notified

\* A run that was not aborted is reported to the model, unless its parent is
\* deleted or the IDE restarted.
ReportComes ==
  \A t \in Tasks :
    task[t] = "live" ~>
      (told[t] = 1 \/ outcome[t] = "aborted" \/ Deleted \/ restarts > 0)

\* "Stopped work sends no result": a run that was stopped before its report was
\* handed over does not wake its parent.
StoppedIsSilent == \A t \in halted : t \notin inbox /\ told[t] = 0

\* The same for the user who stops work: told when all is quiet.
AlwaysTold == Quiet /\ turns > 0 => notified

\* A deleted session leaves no run behind that nothing can stop.
NoOrphanRun ==
  parent = "gone" => \A t \in Tasks : task[t] = "live" => t \in cancelled

\* Well typed, with cards and checks that tell the truth and an activity count
\* without a gap.
TasksOK == TaskTypeOK /\ ReportedIsSettled /\ NoGap /\ ReopenRight
=============================================================================
