---------------------------- MODULE AgentsProofs ----------------------------
(* What the modules about sub-agents guarantee, for any tasks and          *)
(* messages, whatever fails, is stopped or races: DetachedTasks, Subagent. *)
EXTENDS DetachedTasks, Subagent, FiniteSetTheorems, SequenceTheorems, TLAPS

-----------------------------------------------------------------------------
(***************************************************************************)
(* What DetachedTasks guarantees for any tasks and any of its faults.      *)
(***************************************************************************)
Before == {"off", "call", "spawn", "live"}
After == {"settled", "reported", "done"}
Begun == {"spawn", "live", "over"} \cup After
Stages == Before \cup {"over", "lost"} \cup After

\* What has come of a task.
OutcomeRight(t) ==
  /\ task[t] \in Before => outcome[t] = "none"
  /\ task[t] \in Before \cup {"over"} => finish[t] = "none"
  /\ task[t] \in {"over"} \cup After => outcome[t] # "none"
  /\ task[t] \in After => finish[t] = outcome[t]
  /\ finish[t] \in {"none", outcome[t]}
  /\ outcome[t] = "aborted" => t \in cancelled

\* A report is made once, of a run that was not aborted.
ReportRight(t) ==
  /\ t \in inbox \/ told[t] > 0 =>
       task[t] \in {"reported", "done", "lost"} /\ finish[t] \in {"done", "failed"}
  /\ t \in inbox => told[t] = 0

\* What the registry and the parent's file say of a task.
WrittenRight(t) ==
  /\ t \in reg => task[t] \in Begun
  /\ task[t] \in Begun /\ parent # "gone" => t \in reg
  /\ Spawned(t) \in records => task[t] \notin {"off", "call", "spawn"}
  /\ Finished(t, "ok") \in records => outcome[t] = "done"

TaskRight(t) == OutcomeRight(t) /\ ReportRight(t) /\ WrittenRight(t)

\* While the user is to be told, somebody will: a turn, or a run that starts one.
WillTell ==
  turns > 0 /\ cancelled = {} /\ ~notified =>
    parent # "idle" \/ settling > 0 \/ \E t \in Tasks : task[t] \in {"spawn", "live", "over", "settled"}

TasksTyped ==
  /\ task \in [Tasks -> Stages]
  /\ outcome \in [Tasks -> Ends] /\ finish \in [Tasks -> Ends]
  /\ cancelled \subseteq Tasks /\ reg \subseteq Tasks
  /\ records \subseteq {"spawned", "ok", "error"} \X Tasks
  /\ parent \in {"idle", "turn", "deleting", "gone"} /\ settling \in 0..MaxSettling
  /\ inbox \subseteq Tasks /\ told \in [Tasks -> 0..1]
  /\ stopping \subseteq Tasks /\ halted \subseteq Tasks
  /\ notified \in BOOLEAN /\ turns \in 0..MaxTurns /\ restarts \in 0..1

TasksInv ==
  /\ TasksTyped
  /\ \A t \in Tasks : TaskRight(t)
  /\ inbox # {} => parent = "turn"
  /\ WillTell

LEMMA TaskMoves ==
  ASSUME TasksTyped, NEW t \in Tasks, NEW w \in Stages, task' = [task EXCEPT ![t] = w]
  PROVE  task' \in [Tasks -> Stages] /\ task'[t] = w /\ \A u \in Tasks : u # t => task'[u] = task[u]
  BY DEF TasksTyped

\* What a task's own rights are about does not change when nothing of it does.
LEMMA OthersRight ==
  ASSUME NEW u \in Tasks, TaskRight(u),
         task'[u] = task[u], outcome'[u] = outcome[u], finish'[u] = finish[u], told'[u] = told[u],
         u \in cancelled => u \in cancelled', u \in inbox' => u \in inbox,
         (u \in reg') <=> (u \in reg), parent' # "gone" => parent # "gone",
         Spawned(u) \in records' => Spawned(u) \in records,
         Finished(u, "ok") \in records' => Finished(u, "ok") \in records
  PROVE  TaskRight(u)'
  BY DEF TaskRight, OutcomeRight, ReportRight, WrittenRight, Spawned, Finished

LEMMA TasksInitHolds == ASSUME TaskInit PROVE TasksInv
  <1> USE DEF TaskInit
  <1>1. 0 \in 0..MaxSettling /\ 0 \in 0..MaxTurns
    BY TaskAssumption
  <1>2. TasksTyped
    <2>1. /\ task \in [Tasks -> Stages] /\ outcome \in [Tasks -> Ends] /\ finish \in [Tasks -> Ends]
          /\ told \in [Tasks -> 0..1]
      BY DEF Stages, Before, Ends
    <2>2. records \subseteq {"spawned", "ok", "error"} \X Tasks /\ restarts \in 0..1
      OBVIOUS
    <2>3. notified \in BOOLEAN
      OBVIOUS
    <2> QED BY <1>1, <2>1, <2>2, <2>3 DEF TasksTyped
  <1>3. \A t \in Tasks : TaskRight(t)
    BY DEF TaskRight, OutcomeRight, ReportRight, WrittenRight, Before, After, Begun
  <1> QED BY <1>2, <1>3 DEF TasksInv, WillTell

-----------------------------------------------------------------------------
(* The parent's turns.                                                     *)

LEMMA BeginKeeps == ASSUME TasksInv, BeginParentTurn PROVE TasksInv'
  <1>1. /\ parent = "idle" /\ turns < MaxTurns /\ parent' = "turn" /\ turns' = turns + 1 /\ notified' = FALSE
        /\ UNCHANGED <<task, outcome, finish, cancelled, reg, records, settling, inbox, told, stopping, halted, restarts>>
    BY DEF BeginParentTurn
  <1>2. TasksTyped'
    <2>1. turns \in 0..MaxTurns
      BY DEF TasksInv, TasksTyped
    <2>2. turns' \in 0..MaxTurns
      BY <1>1, <2>1, TaskAssumption
    <2> QED BY <1>1, <2>2 DEF TasksInv, TasksTyped
  <1>3. \A t \in Tasks : TaskRight(t)'
    BY <1>1, OthersRight DEF TasksInv
  <1> QED BY <1>1, <1>2, <1>3 DEF TasksInv, WillTell

LEMMA ServeKeeps == ASSUME TasksInv, NEW t \in Tasks, ServeReport(t) PROVE TasksInv'
  <1>1. /\ parent = "turn" /\ t \in inbox /\ inbox' = inbox \ {t} /\ told' = [told EXCEPT ![t] = @ + 1]
        /\ UNCHANGED <<task, outcome, finish, cancelled, reg, records, parent, settling, stopping, halted, notified, turns, restarts>>
    BY DEF ServeReport
  <1>2. TasksTyped /\ \A u \in Tasks : TaskRight(u)
    BY DEF TasksInv
  <1>3. told[t] = 0 /\ told \in [Tasks -> 0..1]
    BY <1>1, <1>2 DEF TaskRight, ReportRight, TasksTyped
  <1>4. told' \in [Tasks -> 0..1] /\ told'[t] = 1 /\ \A u \in Tasks : u # t => told'[u] = told[u]
    BY <1>1, <1>3
  <1>5. TasksTyped'
    BY <1>1, <1>2, <1>4 DEF TasksTyped
  <1>6. ASSUME NEW u \in Tasks PROVE TaskRight(u)'
    <2>1. CASE u # t
      BY <1>1, <1>2, <1>4, <2>1, OthersRight
    <2>2. CASE u = t
      BY <1>1, <1>2, <1>4, <2>2 DEF TaskRight, OutcomeRight, ReportRight, WrittenRight, Spawned, Finished
    <2> QED BY <2>1, <2>2
  <1> QED BY <1>1, <1>5, <1>6 DEF TasksInv, WillTell

LEMMA EndKeeps == ASSUME TasksInv, EndParentTurn PROVE TasksInv'
  <1>1. /\ inbox = {} /\ settling < MaxSettling /\ parent = "turn" /\ parent' = "idle" /\ settling' = settling + 1
        /\ UNCHANGED <<task, outcome, finish, cancelled, reg, records, inbox, told, stopping, halted, notified, turns, restarts>>
    BY DEF EndParentTurn
  <1>2. TasksTyped' /\ settling' > 0
    BY <1>1, TaskAssumption DEF TasksInv, TasksTyped
  <1>3. \A t \in Tasks : TaskRight(t)'
    BY <1>1, OthersRight DEF TasksInv
  <1> QED BY <1>1, <1>2, <1>3 DEF TasksInv, WillTell

LEMMA PublishKeeps == ASSUME TasksInv, PublishSettled PROVE TasksInv'
  <1>1. /\ settling > 0 /\ settling' = settling - 1 /\ notified' = (notified \/ \A t \in reg : finish[t] # "none")
        /\ UNCHANGED <<task, outcome, finish, cancelled, reg, records, parent, inbox, told, stopping, halted, turns, restarts>>
    BY DEF PublishSettled
  <1>2. TasksTyped'
    BY <1>1, TaskAssumption DEF TasksInv, TasksTyped
  <1>3. \A t \in Tasks : TaskRight(t)'
    BY <1>1, OthersRight DEF TasksInv
  <1>4. ASSUME ~notified' PROVE \E t \in Tasks : task[t] \in {"spawn", "live", "over", "settled"}
    <2>1. PICK t \in reg : finish[t] = "none"
      BY <1>1, <1>4
    <2>2. t \in Tasks /\ TaskRight(t)
      BY DEF TasksInv, TasksTyped
    <2> QED BY <2>1, <2>2 DEF TaskRight, OutcomeRight, WrittenRight, Begun, After
  <1>5. WillTell'
    BY <1>1, <1>4 DEF WillTell
  <1> QED BY <1>1, <1>2, <1>3, <1>5 DEF TasksInv

-----------------------------------------------------------------------------
(* A background run.                                                       *)

\* A task that goes on, as far as its parent and the user are not concerned.
LEMMA TaskGoesOn ==
  ASSUME TasksInv, NEW t \in Tasks, NEW w \in Stages, task' = [task EXCEPT ![t] = w],
         task[t] = "settled" => FALSE, task[t] \in {"spawn", "live", "over"} => w \in {"live", "over", "settled"},
         UNCHANGED <<cancelled, parent, settling, inbox, told, stopping, halted, notified, turns, restarts>>,
         outcome' \in [Tasks -> Ends], finish' \in [Tasks -> Ends], reg' \subseteq Tasks,
         records' \subseteq {"spawned", "ok", "error"} \X Tasks,
         \A u \in Tasks : u # t =>
           /\ outcome'[u] = outcome[u] /\ finish'[u] = finish[u] /\ (u \in reg' <=> u \in reg)
           /\ (Spawned(u) \in records' => Spawned(u) \in records)
           /\ (Finished(u, "ok") \in records' => Finished(u, "ok") \in records),
         TaskRight(t)'
  PROVE  TasksInv'
  <1>1. TasksTyped /\ \A u \in Tasks : TaskRight(u)
    BY DEF TasksInv
  <1>2. task' \in [Tasks -> Stages] /\ task'[t] = w /\ \A u \in Tasks : u # t => task'[u] = task[u]
    BY <1>1, TaskMoves
  <1>3. TasksTyped'
    BY <1>1, <1>2 DEF TasksTyped
  <1>4. \A u \in Tasks : TaskRight(u)'
    BY <1>1, <1>2, OthersRight
  <1>5. WillTell'
    <2>1. ASSUME NEW u \in Tasks, task[u] \in {"spawn", "live", "over", "settled"}
          PROVE  task'[u] \in {"spawn", "live", "over", "settled"}
      BY <1>2, <2>1
    <2> QED BY <2>1 DEF WillTell, TasksInv
  <1> QED BY <1>3, <1>4, <1>5 DEF TasksInv

LEMMA CallKeeps == ASSUME TasksInv, NEW t \in Tasks, CallTask(t) \/ RegisterTask(t) PROVE TasksInv'
  <1>1. PICK w \in {"call", "spawn"} :
          /\ task' = [task EXCEPT ![t] = w]
          /\ w = "call" => task[t] = "off" /\ reg' = reg
          /\ w = "spawn" => task[t] = "call" /\ reg' = reg \cup {t}
    BY DEF CallTask, RegisterTask
  <1>2. UNCHANGED <<outcome, finish, cancelled, records, parent, settling, inbox, told, stopping, halted, notified, turns, restarts>>
    BY DEF CallTask, RegisterTask
  <1>3. TasksTyped /\ TaskRight(t) /\ w \in Stages
    BY DEF TasksInv, Stages, Before
  <1>4. task'[t] = w
    BY <1>1, <1>3, TaskMoves
  <1>5. TaskRight(t)'
    BY <1>1, <1>2, <1>3, <1>4
       DEF TaskRight, OutcomeRight, ReportRight, WrittenRight, Before, After, Begun, Spawned, Finished
  <1>6. outcome' \in [Tasks -> Ends] /\ finish' \in [Tasks -> Ends] /\ reg' \subseteq Tasks
        /\ records' \subseteq {"spawned", "ok", "error"} \X Tasks
    BY <1>1, <1>2, <1>3 DEF TasksTyped
  <1> QED BY <1>1, <1>2, <1>3, <1>5, <1>6, TaskGoesOn

LEMMA SpawnKeeps == ASSUME TasksInv, NEW t \in Tasks, SpawnTask(t) PROVE TasksInv'
  <1>1. /\ task[t] = "spawn" /\ task' = [task EXCEPT ![t] = "live"]
        /\ records' = (IF Deleted THEN records ELSE records \cup {<<"spawned", t>>})
        /\ UNCHANGED <<outcome, finish, cancelled, reg, parent, settling, inbox, told, stopping, halted, notified, turns, restarts>>
    BY DEF SpawnTask, Record, Spawned
  <1>2. TasksTyped /\ TaskRight(t) /\ "live" \in Stages
    BY DEF TasksInv, Stages, Before
  <1>3. task'[t] = "live"
    BY <1>1, <1>2, TaskMoves
  <1>4. Finished(t, "ok") \in records' => Finished(t, "ok") \in records
    BY <1>1 DEF Finished
  <1>5. TaskRight(t)'
    BY <1>1, <1>2, <1>3, <1>4
       DEF TaskRight, OutcomeRight, ReportRight, WrittenRight, Before, After, Begun, Finished
  <1>6. outcome' \in [Tasks -> Ends] /\ finish' \in [Tasks -> Ends] /\ reg' \subseteq Tasks
        /\ records' \subseteq {"spawned", "ok", "error"} \X Tasks
    BY <1>1, <1>2 DEF TasksTyped
  <1>7. \A u \in Tasks : u # t => /\ (Spawned(u) \in records' => Spawned(u) \in records)
                                  /\ (Finished(u, "ok") \in records' => Finished(u, "ok") \in records)
    BY <1>1 DEF Finished, Spawned
  <1> QED BY <1>1, <1>2, <1>5, <1>6, <1>7, TaskGoesOn

LEMMA EndsKeeps == ASSUME TasksInv, NEW t \in Tasks, TaskEnds(t) PROVE TasksInv'
  <1>1. PICK how \in {"done", "failed", "aborted"} :
          /\ how = "aborted" => t \in cancelled
          /\ outcome' = [outcome EXCEPT ![t] = how]
    BY DEF TaskEnds
  <1>2. /\ task[t] = "live" /\ task' = [task EXCEPT ![t] = "over"]
        /\ UNCHANGED <<finish, cancelled, reg, records, parent, settling, inbox, told, stopping, halted, notified, turns, restarts>>
    BY DEF TaskEnds
  <1>3. TasksTyped /\ TaskRight(t) /\ "over" \in Stages /\ how \in Ends
    BY DEF TasksInv, Stages, Before, Ends
  <1>4. task'[t] = "over"
    BY <1>2, <1>3, TaskMoves
  <1>5. outcome' \in [Tasks -> Ends] /\ outcome'[t] = how /\ \A u \in Tasks : u # t => outcome'[u] = outcome[u]
    BY <1>1, <1>3 DEF TasksTyped
  <1>6. finish[t] = "none" /\ t \notin inbox /\ ~(told[t] > 0) /\ Finished(t, "ok") \notin records
    BY <1>2, <1>3 DEF TaskRight, OutcomeRight, ReportRight, WrittenRight, Before
  <1>7. TaskRight(t)'
    BY <1>1, <1>2, <1>3, <1>4, <1>5, <1>6
       DEF TaskRight, OutcomeRight, ReportRight, WrittenRight, Before, After, Begun, Finished, Spawned
  <1>8. finish' \in [Tasks -> Ends] /\ reg' \subseteq Tasks /\ records' \subseteq {"spawned", "ok", "error"} \X Tasks
    BY <1>2, <1>3 DEF TasksTyped
  <1> QED BY <1>2, <1>3, <1>5, <1>7, <1>8, TaskGoesOn

LEMMA SettleKeeps == ASSUME TasksInv, NEW t \in Tasks, Settle(t) PROVE TasksInv'
  <1>1. /\ task[t] = "over" /\ task' = [task EXCEPT ![t] = "settled"] /\ finish' = [finish EXCEPT ![t] = outcome[t]]
        /\ UNCHANGED <<outcome, cancelled, reg, records, parent, settling, inbox, told, stopping, halted, notified, turns, restarts>>
    BY DEF Settle
  <1>2. TasksTyped /\ TaskRight(t) /\ "settled" \in Stages
    BY DEF TasksInv, Stages, After
  <1>3. task'[t] = "settled"
    BY <1>1, <1>2, TaskMoves
  <1>4. finish' \in [Tasks -> Ends] /\ finish'[t] = outcome[t] /\ \A u \in Tasks : u # t => finish'[u] = finish[u]
    BY <1>1, <1>2 DEF TasksTyped
  <1>5. TaskRight(t)'
    BY <1>1, <1>2, <1>3, <1>4
       DEF TaskRight, OutcomeRight, ReportRight, WrittenRight, Before, After, Begun, Finished, Spawned
  <1>6. outcome' \in [Tasks -> Ends] /\ reg' \subseteq Tasks /\ records' \subseteq {"spawned", "ok", "error"} \X Tasks
    BY <1>1, <1>2 DEF TasksTyped
  <1> QED BY <1>1, <1>2, <1>4, <1>5, <1>6, TaskGoesOn

LEMMA ReportKeeps == ASSUME TasksInv, NEW t \in Tasks, Report(t) PROVE TasksInv'
  <1>1. /\ task[t] = "settled" /\ task' = [task EXCEPT ![t] = "reported"]
        /\ UNCHANGED <<outcome, finish, cancelled, reg, records, settling, told, stopping, halted, turns, restarts>>
    BY DEF Report
  <1>2. \/ (outcome[t] = "aborted" \/ Deleted) /\ UNCHANGED <<parent, inbox, notified>>
        \/ /\ outcome[t] # "aborted" /\ ~Deleted
           /\ inbox' = inbox \cup {t} /\ parent' = "turn" /\ notified' = (notified /\ parent = "turn")
    BY DEF Report, DeliverReport
  <1>3. TasksTyped /\ (\A u \in Tasks : TaskRight(u)) /\ "reported" \in Stages
    BY DEF TasksInv, Stages, After
  <1>4. task' \in [Tasks -> Stages] /\ task'[t] = "reported" /\ \A u \in Tasks : u # t => task'[u] = task[u]
    BY <1>1, <1>3, TaskMoves
  <1>5. TasksTyped'
    BY <1>1, <1>2, <1>3, <1>4 DEF TasksTyped
  <1>6. parent' # "gone" => parent # "gone"
    BY <1>2 DEF Deleted
  <1>7. ASSUME NEW u \in Tasks PROVE TaskRight(u)'
    <2>1. CASE u # t
      BY <1>1, <1>2, <1>3, <1>4, <1>6, <2>1, OthersRight
    <2>2. CASE u = t
      <3>1. /\ t \notin inbox /\ told[t] = 0 /\ finish[t] = outcome[t] /\ outcome[t] # "none"
            /\ outcome[t] \in Ends
        BY <1>1, <1>3 DEF TaskRight, OutcomeRight, ReportRight, After, TasksTyped
      <3>2. OutcomeRight(t)'
        BY <1>1, <1>3, <1>4 DEF TaskRight, OutcomeRight, Before, After
      <3>3. WrittenRight(t)'
        BY <1>1, <1>3, <1>4, <1>6 DEF TaskRight, WrittenRight, Begun, After, Spawned, Finished
      <3>4. ReportRight(t)'
        BY <1>1, <1>2, <1>4, <3>1 DEF ReportRight, Ends
      <3> QED BY <2>2, <3>2, <3>3, <3>4 DEF TaskRight
    <2> QED BY <2>1, <2>2
  <1>8. WillTell'
    <2>1. CASE Deleted
      BY <1>2, <2>1 DEF Deleted, WillTell
    <2>2. CASE outcome[t] = "aborted"
      BY <1>1, <1>3, <2>2 DEF TaskRight, OutcomeRight, WillTell
    <2>3. CASE outcome[t] # "aborted" /\ ~Deleted
      BY <1>2, <2>3 DEF WillTell
    <2> QED BY <2>1, <2>2, <2>3
  <1>9. inbox' # {} => parent' = "turn"
    BY <1>2 DEF TasksInv
  <1> QED BY <1>5, <1>7, <1>8, <1>9 DEF TasksInv

LEMMA RecordKeeps == ASSUME TasksInv, NEW t \in Tasks, RecordFinish(t) PROVE TasksInv'
  <1>1. PICK how \in {"ok", "error"} :
          /\ how = "ok" => outcome[t] = "done"
          /\ records' = (IF Deleted THEN records ELSE records \cup {<<how, t>>})
    BY DEF RecordFinish, Record, Finished
  <1>2. /\ task[t] = "reported" /\ task' = [task EXCEPT ![t] = "done"]
        /\ UNCHANGED <<outcome, finish, cancelled, reg, parent, settling, inbox, told, stopping, halted, notified, turns, restarts>>
    BY DEF RecordFinish
  <1>3. TasksTyped /\ TaskRight(t) /\ "done" \in Stages
    BY DEF TasksInv, Stages, After
  <1>4. task'[t] = "done"
    BY <1>2, <1>3, TaskMoves
  <1>5. Finished(t, "ok") \in records' => outcome[t] = "done"
    BY <1>1, <1>3 DEF Finished, TaskRight, WrittenRight
  <1>6. TaskRight(t)'
    BY <1>1, <1>2, <1>3, <1>4, <1>5
       DEF TaskRight, OutcomeRight, ReportRight, WrittenRight, Before, After, Begun, Finished
  <1>7. outcome' \in [Tasks -> Ends] /\ finish' \in [Tasks -> Ends] /\ reg' \subseteq Tasks
        /\ records' \subseteq {"spawned", "ok", "error"} \X Tasks
    BY <1>1, <1>2, <1>3 DEF TasksTyped
  <1>8. \A u \in Tasks : u # t => /\ (Spawned(u) \in records' => Spawned(u) \in records)
                                  /\ (Finished(u, "ok") \in records' => Finished(u, "ok") \in records)
    BY <1>1 DEF Finished, Spawned
  <1> QED BY <1>2, <1>3, <1>6, <1>7, <1>8, TaskGoesOn

-----------------------------------------------------------------------------
(* Stopping, deletion, restart.                                            *)

LEMMA StopKeeps ==
  ASSUME TasksInv, StopBackground \/ \E t \in Tasks : StopLook(t) \/ StopCancel(t)
  PROVE  TasksInv'
  <1>1. UNCHANGED <<task, outcome, finish, reg, records, parent, settling, inbox, told, notified, turns, restarts>>
    BY DEF StopBackground, StopLook, StopCancel
  <1>2. cancelled \subseteq cancelled' /\ cancelled' \subseteq Tasks /\ stopping' \subseteq Tasks /\ halted' \subseteq Tasks
    BY DEF TasksInv, TasksTyped, StopBackground, StopLook, StopCancel, Unreported
  <1>3. TasksTyped'
    BY <1>1, <1>2 DEF TasksInv, TasksTyped
  <1>4. \A t \in Tasks : TaskRight(t)'
    BY <1>1, <1>2, OthersRight DEF TasksInv
  <1> QED BY <1>1, <1>2, <1>3, <1>4 DEF TasksInv, WillTell

LEMMA DeleteKeeps == ASSUME TasksInv, DeleteSession \/ PruneParent PROVE TasksInv'
  <1>1. UNCHANGED <<task, outcome, finish, records, settling, told, halted, notified, turns, restarts>>
    BY DEF DeleteSession, PruneParent
  <1>2. /\ cancelled \subseteq cancelled' /\ cancelled' \subseteq Tasks /\ stopping' \subseteq Tasks
        /\ reg' \subseteq Tasks /\ inbox' = {} /\ parent' \in {"deleting", "gone"}
        /\ (parent' = "gone" /\ reg' = {}) \/ (parent # "gone" /\ reg' = reg)
    BY DEF TasksInv, TasksTyped, DeleteSession, PruneParent, Deleted
  <1>3. TasksTyped'
    BY <1>1, <1>2 DEF TasksInv, TasksTyped
  <1>4. ASSUME NEW t \in Tasks PROVE TaskRight(t)'
    <2>1. TaskRight(t)
      BY DEF TasksInv
    <2> QED BY <1>1, <1>2, <2>1
        DEF TaskRight, OutcomeRight, ReportRight, WrittenRight, Spawned, Finished
  <1> QED BY <1>1, <1>2, <1>3, <1>4 DEF TasksInv, WillTell

LEMMA RestartKeeps == ASSUME TasksInv, RestartIde PROVE TasksInv'
  <1>1. /\ task' = [t \in Tasks |-> IF task[t] = "off" THEN "off" ELSE "lost"]
        /\ restarts' = 1 /\ reg' = {} /\ inbox' = {} /\ stopping' = {} /\ settling' = 0
        /\ parent' = "idle" /\ notified' = TRUE
        /\ UNCHANGED <<outcome, finish, cancelled, records, told, halted, turns>>
    BY DEF RestartIde
  <1>2. task' \in [Tasks -> Stages] /\ \A t \in Tasks : task'[t] = IF task[t] = "off" THEN "off" ELSE "lost"
    BY <1>1 DEF Stages, Before
  <1>3. TasksTyped'
    BY <1>1, <1>2, TaskAssumption DEF TasksInv, TasksTyped
  <1>4. ASSUME NEW t \in Tasks PROVE TaskRight(t)'
    <2>1. TaskRight(t)
      BY DEF TasksInv
    <2> QED BY <1>1, <1>2, <2>1
        DEF TaskRight, OutcomeRight, ReportRight, WrittenRight, Before, After, Begun, Spawned, Finished
  <1> QED BY <1>1, <1>3, <1>4 DEF TasksInv, WillTell

-----------------------------------------------------------------------------
LEMMA TasksKeep == ASSUME TasksInv, [TaskNext]_taskVars PROVE TasksInv'
  <1>1. ASSUME UNCHANGED taskVars PROVE TasksInv'
    BY <1>1 DEF taskVars, TasksInv, TasksTyped, TaskRight, OutcomeRight, ReportRight, WrittenRight, WillTell,
                Spawned, Finished
  <1>2. ASSUME ParentStep PROVE TasksInv'
    BY <1>2, EndKeeps, PublishKeeps, DeleteKeeps, ServeKeeps, StopKeeps DEF ParentStep
  <1>3. ASSUME NEW t \in Tasks, CallTask(t) \/ TaskStep(t) \/ StopLook(t) PROVE TasksInv'
    BY <1>3, CallKeeps, SpawnKeeps, EndsKeeps, SettleKeeps, ReportKeeps, RecordKeeps, StopKeeps DEF TaskStep
  <1> QED BY <1>1, <1>2, <1>3, BeginKeeps, StopKeeps, DeleteKeeps, RestartKeeps DEF TaskNext

LEMMA TasksInvImplies == ASSUME TasksInv PROVE TasksOK /\ ReportOnce /\ UserIsTold
  <1>1. TasksTyped /\ \A t \in Tasks : TaskRight(t)
    BY DEF TasksInv
  <1>2. TaskTypeOK
    BY <1>1 DEF TaskTypeOK, TasksTyped, Stages, Before, After
  <1>3. ReportedIsSettled
    BY <1>1 DEF ReportedIsSettled, TaskRight, ReportRight
  <1>4. NoGap
    <2>1. \A t \in Tasks : task[t] \in {"over", "settled"} => t \in Busy
      BY DEF Busy
    <2>2. inbox # {} => ParentTurn \in Busy
      BY DEF TasksInv, Busy
    <2> QED BY <2>1, <2>2 DEF NoGap
  <1>5. ReopenRight
    <2>1. ASSUME NEW t \in Tasks, Spawned(t) \in records, ~Deleted
          PROVE  /\ ReopenedCard(t) = "running" => task[t] \in {"live", "over"}
                 /\ ReopenedCard(t) = "done" => outcome[t] = "done"
      BY <1>1, <2>1 DEF ReopenedCard, Unfinished, TaskRight, OutcomeRight, WrittenRight, Begun, After
    <2> QED BY <2>1 DEF ReopenRight
  <1>6. ReportOnce
    <2>1. ASSUME NEW t \in Tasks
          PROVE  told[t] + Cardinality(inbox \cap {t}) <= 1 /\ (t \in inbox \/ told[t] > 0 => outcome[t] # "aborted")
      <3>1. TaskRight(t) /\ told[t] \in 0..1
        BY <1>1 DEF TasksTyped
      <3>2. Cardinality({t}) = 1 /\ Cardinality({}) = 0
        BY FS_Singleton, FS_EmptySet
      <3>3. CASE t \in inbox
        <4>1. inbox \cap {t} = {t} /\ told[t] = 0
          BY <3>1, <3>3 DEF TaskRight, ReportRight
        <4> QED BY <3>1, <3>2, <4>1 DEF TaskRight, ReportRight, OutcomeRight
      <3>4. CASE t \notin inbox
        <4>1. inbox \cap {t} = {}
          BY <3>4
        <4> QED BY <3>1, <3>2, <4>1 DEF TaskRight, ReportRight, OutcomeRight
      <3> QED BY <3>3, <3>4
    <2> QED BY <2>1 DEF ReportOnce
  <1>7. UserIsTold
    BY DEF UserIsTold, Quiet, TasksInv, WillTell
  <1> QED BY <1>2, <1>3, <1>4, <1>5, <1>6, <1>7 DEF TasksOK

\* Cards and checks tell the truth about background sub-agents, also after a reopening
\* or a restart, and the activity count has no gap: TasksOK, whatever fails.
THEOREM CardsTellTheTruth == TaskSpec => []TasksOK
  <1>1. TaskInit => TasksInv
    BY TasksInitHolds
  <1>2. TasksInv /\ [TaskNext]_taskVars => TasksInv'
    BY TasksKeep
  <1>3. TasksInv => TasksOK
    BY TasksInvImplies
  <1> QED BY <1>1, <1>2, <1>3, PTL DEF TaskSpec

\* The parent's model reads the report of a background sub-agent at most once, and
\* none of an aborted run (send_to, DetachedTaskRegistry): ReportOnce.
THEOREM OneReport == TaskSpec => []ReportOnce
  <1>1. TaskInit => TasksInv
    BY TasksInitHolds
  <1>2. TasksInv /\ [TaskNext]_taskVars => TasksInv'
    BY TasksKeep
  <1>3. TasksInv => ReportOnce
    BY TasksInvImplies
  <1> QED BY <1>1, <1>2, <1>3, PTL DEF TaskSpec

\* When all is quiet and nothing was cancelled, the user has been told that the agent
\* is done (publish_turn_settled): UserIsTold.
THEOREM QuietMeansTold == TaskSpec => []UserIsTold
  <1>1. TaskInit => TasksInv
    BY TasksInitHolds
  <1>2. TasksInv /\ [TaskNext]_taskVars => TasksInv'
    BY TasksKeep
  <1>3. TasksInv => UserIsTold
    BY TasksInvImplies
  <1> QED BY <1>1, <1>2, <1>3, PTL DEF TaskSpec

-----------------------------------------------------------------------------
(***************************************************************************)
(* What Subagent guarantees for any messages, bounds and faults.           *)
(***************************************************************************)
\* Until the parent's call nothing happens.
NotYet ==
  run[First] = "off" =>
    /\ \A r \in SubRuns : run[r] = "off"
    /\ \A s \in Steers : sent[s] = "idle"
    /\ channel = NoOne /\ trace = <<>> /\ chat[First] = <<>>

\* A follow-up run belongs to the request that claimed the channel.
RunsFollow == \A s \in Steers : run[s] # "off" <=> sent[s] = "follow"

\* Where a message is.
Queued(s) == \E i \in DOMAIN queue : queue[i] = s
Speaks(h, s) == \E i \in DOMAIN h : h[i] = Said(s)
Placed(s) ==
  /\ Queued(s) => sent[s] = "steer" /\ ~Speaks(trace, s) /\ s \notin dropped
  /\ s \in dropped => sent[s] = "steer" /\ ~Speaks(trace, s)
  /\ run[s] = "claimed" => ~Speaks(trace, s)
  /\ Speaks(trace, s) => sent[s] \in {"follow", "steer"}
  /\ sent[s] = "steer" => Queued(s) \/ Speaks(trace, s) \/ s \in dropped
  /\ sent[s] = "follow" => run[s] = "claimed" \/ Speaks(trace, s)

\* No message is anywhere twice.
OnceIn(h) == \A i, j \in DOMAIN h : h[i] = h[j] => i = j
SaidOnce(h) == \A i, j \in DOMAIN h : h[i][1] = "user" /\ h[i] = h[j] => i = j

\* A history that holds r's task or follow-up once, and from there on the results of
\* every batch of calls but for the last `due` of them.
OwnHolds(h, r, due) ==
  \E k \in DOMAIN h :
    /\ h[k] = Said(r) /\ \A i \in DOMAIN h : h[i] = Said(r) => i = k
    /\ \A i \in DOMAIN h :
         i >= k /\ h[i][1] = "calls" =>
           /\ i + h[i][2] <= Len(h) + due
           /\ \A j \in 1..h[i][2] : i + j <= Len(h) => h[i + j] = Outcome

\* What a run and the history that a request has loaded are like.
RunRight(r) ==
  /\ run[r] # "calls" => todo[r] = 0
  /\ run[r] \in Looping => OwnHolds(chat[r], r, todo[r])
Unheard ==
  \A s \in Steers :
    /\ sent[s] = "claim" => ~Speaks(seen[s], s)
    /\ run[s] = "claimed" => ~Speaks(chat[s], s)

SubInv ==
  /\ SubTypeOK /\ NotYet /\ RunsFollow /\ OneLoop
  /\ channel = NoOne => queue = <<>>
  /\ \A s \in Steers : Placed(s)
  /\ OnceIn(queue) /\ SaidOnce(trace)
  /\ \A r \in SubRuns : RunRight(r)
  /\ Unheard /\ SteersServedFirst /\ CardRight

-----------------------------------------------------------------------------
(* Histories.                                                              *)

LEMMA EntriesAre ==
  /\ \A r \in SubRuns : Said(r) \in SubEntries /\ Said(r)[1] = "user" /\ Said(r)[2] = r
  /\ \A n \in 1..SubBatch : Batch(n) \in SubEntries /\ Batch(n)[1] = "calls" /\ Batch(n)[2] = n
  /\ \A e \in {Text, Outcome, Sentinel} : e \in SubEntries /\ e[1] \notin {"user", "calls"}
  /\ \A e \in SubEntries : e[1] = "calls" => e[2] \in 1..SubBatch
  /\ \A e \in SubEntries : e[1] = "user" => e[2] \in SubRuns /\ e = Said(e[2])
  BY DEF SubEntries, Said, Batch, Text, Outcome, Sentinel

\* Two histories, one after the other.
LEMMA Joined ==
  ASSUME NEW h \in Seq(SubEntries), NEW q \in Seq(SubEntries)
  PROVE  /\ h \o q \in Seq(SubEntries) /\ Len(h) \in Nat /\ Len(q) \in Nat
         /\ Len(h \o q) = Len(h) + Len(q)
         /\ DOMAIN h = 1..Len(h) /\ DOMAIN q = 1..Len(q) /\ DOMAIN (h \o q) = 1..Len(h) + Len(q)
         /\ \A i \in DOMAIN h : i \in DOMAIN (h \o q) /\ (h \o q)[i] = h[i]
         /\ \A i \in DOMAIN q : Len(h) + i \in DOMAIN (h \o q) /\ (h \o q)[Len(h) + i] = q[i]
         /\ \A i \in DOMAIN (h \o q) : i \notin DOMAIN h => i - Len(h) \in DOMAIN q /\ (h \o q)[i] = q[i - Len(h)]
  <1>1. /\ h \o q \in Seq(SubEntries) /\ Len(h) \in Nat /\ Len(q) \in Nat
        /\ Len(h \o q) = Len(h) + Len(q)
        /\ DOMAIN h = 1..Len(h) /\ DOMAIN q = 1..Len(q) /\ DOMAIN (h \o q) = 1..Len(h) + Len(q)
    BY ConcatProperties, LenProperties
  <1>2. \A i \in 1 .. Len(h) + Len(q) : (h \o q)[i] = IF i <= Len(h) THEN h[i] ELSE q[i - Len(h)]
    BY ConcatProperties
  <1> QED BY <1>1, <1>2

\* A record by itself.
LEMMA Single ==
  ASSUME NEW e \in SubEntries
  PROVE  <<e>> \in Seq(SubEntries) /\ DOMAIN <<e>> = {1} /\ <<e>>[1] = e /\ Len(<<e>>) = 1
  OBVIOUS

LEMMA SpeaksJoined ==
  ASSUME NEW h \in Seq(SubEntries), NEW q \in Seq(SubEntries), NEW s
  PROVE  Speaks(h \o q, s) <=> Speaks(h, s) \/ Speaks(q, s)
  <1>1. ASSUME Speaks(h \o q, s) PROVE Speaks(h, s) \/ Speaks(q, s)
    BY <1>1, Joined DEF Speaks
  <1>2. ASSUME Speaks(h, s) PROVE Speaks(h \o q, s)
    <2>1. PICK i \in DOMAIN h : h[i] = Said(s)
      BY <1>2 DEF Speaks
    <2> QED BY <2>1, Joined DEF Speaks
  <1>3. ASSUME Speaks(q, s) PROVE Speaks(h \o q, s)
    <2>1. PICK i \in DOMAIN q : q[i] = Said(s)
      BY <1>3 DEF Speaks
    <2>2. Len(h) + i \in DOMAIN (h \o q) /\ (h \o q)[Len(h) + i] = q[i]
      BY Joined
    <2> QED BY <2>1, <2>2 DEF Speaks
  <1> QED BY <1>1, <1>2, <1>3

\* No message said in both, each said once.
LEMMA SaidOnceJoined ==
  ASSUME NEW h \in Seq(SubEntries), NEW q \in Seq(SubEntries), SaidOnce(h), SaidOnce(q),
         \A r \in SubRuns : ~(Speaks(h, r) /\ Speaks(q, r))
  PROVE  SaidOnce(h \o q)
  <1> DEFINE g == h \o q
  <1>1. SUFFICES ASSUME NEW i \in DOMAIN g, NEW j \in DOMAIN g, g[i][1] = "user", g[i] = g[j]
                 PROVE  i = j
    BY DEF SaidOnce
  <1>2. PICK r \in SubRuns : g[i] = Said(r)
    <2>1. g[i] \in SubEntries
      BY Joined, ElementOfSeq
    <2> QED BY <1>1, <2>1, EntriesAre
  <1>3. i \in DOMAIN h => g[i] = h[i] /\ Speaks(h, r)
    BY <1>2, Joined DEF Speaks
  <1>4. j \in DOMAIN h => g[j] = h[j] /\ Speaks(h, r)
    BY <1>1, <1>2, Joined DEF Speaks
  <1>a. \A m \in DOMAIN g : m \notin DOMAIN h => m - Len(h) \in DOMAIN q /\ g[m] = q[m - Len(h)]
    BY Joined
  <1>5. i \notin DOMAIN h => i - Len(h) \in DOMAIN q /\ g[i] = q[i - Len(h)] /\ Speaks(q, r)
    BY <1>2, <1>a DEF Speaks
  <1>6. j \notin DOMAIN h => j - Len(h) \in DOMAIN q /\ g[j] = q[j - Len(h)] /\ Speaks(q, r)
    BY <1>1, <1>2, <1>a DEF Speaks
  <1>7. CASE i \in DOMAIN h
    BY <1>1, <1>3, <1>4, <1>6, <1>7 DEF SaidOnce
  <1>8. CASE i \notin DOMAIN h
    <2>1. j \notin DOMAIN h
      BY <1>4, <1>5, <1>8
    <2>2. i - Len(h) = j - Len(h)
      BY <1>1, <1>5, <1>6, <1>8, <2>1 DEF SaidOnce
    <2>3. i \in Nat /\ j \in Nat /\ Len(h) \in Nat
      BY Joined
    <2> QED BY <2>2, <2>3
  <1> QED BY <1>7, <1>8

\* Neither a message nor a batch of calls.
Plain(q) == q \in Seq(SubEntries) /\ \A i \in DOMAIN q : q[i][1] \notin {"user", "calls"}
Wordless(q) == q \in Seq(SubEntries) /\ \A i \in DOMAIN q : q[i][1] # "user"

LEMMA WordlessJoined ==
  ASSUME NEW h \in Seq(SubEntries), NEW q, Wordless(q), SaidOnce(h)
  PROVE  SaidOnce(h \o q) /\ \A s \in SubRuns : Speaks(h \o q, s) <=> Speaks(h, s)
  <1>1. q \in Seq(SubEntries) /\ (\A s \in SubRuns : ~Speaks(q, s)) /\ SaidOnce(q)
    BY EntriesAre DEF Wordless, Speaks, SaidOnce
  <1> QED BY <1>1, SpeaksJoined, SaidOnceJoined

LEMMA Singles ==
  /\ \A n \in 1..SubBatch : Wordless(<<Batch(n)>>)
  /\ Plain(<<>>) /\ Plain(<<Text>>) /\ Plain(<<Outcome>>) /\ Plain(<<Sentinel>>) /\ Plain(<<Text, Sentinel>>)
  <1>1. \A n \in 1..SubBatch : Wordless(<<Batch(n)>>)
    BY EntriesAre, Single DEF Wordless
  <1>2. \A e \in {Text, Outcome, Sentinel} : Plain(<<e>>)
    BY EntriesAre, Single DEF Plain
  <1>3. <<Text, Sentinel>> \in Seq(SubEntries) /\ DOMAIN <<Text, Sentinel>> = {1, 2}
    BY EntriesAre
  <1>4. Plain(<<Text, Sentinel>>)
    BY <1>3, EntriesAre DEF Plain
  <1>5. Plain(<<>>)
    BY DEF Plain
  <1> QED BY <1>1, <1>2, <1>4, <1>5

-----------------------------------------------------------------------------
(* What is left of a batch.                                                *)

\* Everything that was called is answered, and more is said.
LEMMA OwnGrows ==
  ASSUME NEW h \in Seq(SubEntries), NEW r \in SubRuns, OwnHolds(h, r, 0),
         NEW q \in Seq(SubEntries), ~Speaks(q, r), \A i \in DOMAIN q : q[i][1] # "calls"
  PROVE  OwnHolds(h \o q, r, 0)
  <1> DEFINE g == h \o q
  <1>1. PICK k \in DOMAIN h :
          /\ h[k] = Said(r) /\ \A i \in DOMAIN h : h[i] = Said(r) => i = k
          /\ \A i \in DOMAIN h :
               i >= k /\ h[i][1] = "calls" =>
                 /\ i + h[i][2] <= Len(h) + 0
                 /\ \A j \in 1..h[i][2] : i + j <= Len(h) => h[i + j] = Outcome
    BY DEF OwnHolds
  <1>2. k \in DOMAIN g /\ g[k] = Said(r)
    BY <1>1, Joined
  <1>3. ASSUME NEW i \in DOMAIN g, g[i] = Said(r) PROVE i = k
    <2>1. i \in DOMAIN h
      BY <1>3, Joined DEF Speaks
    <2> QED BY <1>1, <1>3, <2>1, Joined
  <1>4. ASSUME NEW i \in DOMAIN g, i >= k, g[i][1] = "calls"
        PROVE  i + g[i][2] <= Len(g) + 0 /\ \A j \in 1..g[i][2] : i + j <= Len(g) => g[i + j] = Outcome
    <2>1. i \in DOMAIN h /\ g[i] = h[i]
      BY <1>4, Joined
    <2>2. i + h[i][2] <= Len(h) /\ \A j \in 1..h[i][2] : i + j <= Len(h) => h[i + j] = Outcome
      BY <1>1, <1>4, <2>1, Joined
    <2>3. h[i][2] \in Nat
      <3>1. h[i] \in SubEntries
        BY <2>1, Joined, ElementOfSeq
      <3> QED BY <1>4, <2>1, <3>1, EntriesAre
    <2>4. i \in Nat \ {0} /\ Len(h) \in Nat /\ Len(q) \in Nat /\ Len(g) = Len(h) + Len(q) /\ DOMAIN h = 1..Len(h)
      BY <2>1, Joined
    <2>5. ASSUME NEW j \in 1..h[i][2] PROVE g[i + j] = Outcome
      <3>1. i + j \in DOMAIN h /\ h[i + j] = Outcome
        BY <2>2, <2>3, <2>4, <2>5
      <3> QED BY <3>1, Joined
    <2> QED BY <2>1, <2>2, <2>3, <2>4, <2>5
  <1> QED BY <1>2, <1>3, <1>4 DEF OwnHolds

\* A batch is called, or one of its calls answered.
LEMMA OwnGoesOn ==
  ASSUME NEW h \in Seq(SubEntries), NEW r \in SubRuns, NEW due \in Nat, OwnHolds(h, r, due),
         NEW e \in SubEntries, NEW left \in Nat,
         \/ due = 0 /\ left \in 1..SubBatch /\ e = Batch(left)
         \/ due = left + 1 /\ e = Outcome
  PROVE  OwnHolds(h \o <<e>>, r, left)
  <1> DEFINE g == h \o <<e>>
  <1>0. /\ g \in Seq(SubEntries) /\ Len(h) \in Nat /\ Len(g) = Len(h) + 1
        /\ DOMAIN h = 1..Len(h) /\ DOMAIN g = 1..Len(h) + 1
        /\ g[Len(h) + 1] = e /\ \A i \in DOMAIN h : g[i] = h[i]
    BY Joined, Single
  <1>1. PICK k \in DOMAIN h :
          /\ h[k] = Said(r) /\ \A i \in DOMAIN h : h[i] = Said(r) => i = k
          /\ \A i \in DOMAIN h :
               i >= k /\ h[i][1] = "calls" =>
                 /\ i + h[i][2] <= Len(h) + due
                 /\ \A j \in 1..h[i][2] : i + j <= Len(h) => h[i + j] = Outcome
    BY DEF OwnHolds
  <1>2. k \in DOMAIN g /\ g[k] = Said(r) /\ e # Said(r)
    BY <1>0, <1>1, EntriesAre
  <1>3. \A i \in DOMAIN g : g[i] = Said(r) => i = k
    BY <1>0, <1>1, <1>2
  <1>4. ASSUME NEW i \in DOMAIN g, i >= k, g[i][1] = "calls"
        PROVE  i + g[i][2] <= Len(g) + left /\ \A j \in 1..g[i][2] : i + j <= Len(g) => g[i + j] = Outcome
    <2>1. g[i] \in SubEntries /\ g[i][2] \in Nat /\ i \in Nat
      BY <1>0, <1>4, ElementOfSeq, EntriesAre
    <2>2. CASE i \in DOMAIN h
      <3>1. g[i] = h[i] /\ i + h[i][2] <= Len(h) + due /\ \A j \in 1..h[i][2] : i + j <= Len(h) => h[i + j] = Outcome
        BY <1>0, <1>1, <1>4, <2>2
      <3>2. Len(h) + due <= Len(g) + left
        BY <1>0
      <3>3. ASSUME NEW j \in 1..g[i][2], i + j <= Len(g) PROVE g[i + j] = Outcome
        <4>1. CASE i + j <= Len(h)
          BY <1>0, <2>1, <3>1, <3>3, <4>1
        <4>2. CASE i + j > Len(h)
          <5>1. i + j = Len(h) + 1
            BY <1>0, <2>1, <3>3, <4>2
          <5>2. due # 0
            BY <1>0, <2>1, <3>1, <3>3, <4>2
          <5> QED BY <1>0, <5>1, <5>2
        <4>3. j \in Nat
          BY <2>1
        <4>4. i + j <= Len(h) \/ i + j > Len(h)
          BY <1>0, <2>1, <4>3
        <4> QED BY <4>1, <4>2, <4>4
      <3>4. i + g[i][2] <= Len(h) + due /\ due \in Nat /\ left \in Nat /\ Len(g) \in Nat /\ Len(h) \in Nat
        BY <1>0, <3>1
      <3>5. i + g[i][2] <= Len(g) + left
        BY <2>1, <3>2, <3>4
      <3> QED BY <3>3, <3>5
    <2>3. CASE i \notin DOMAIN h
      <3>1. i = Len(h) + 1 /\ g[i] = e
        BY <1>0, <2>3
      <3>2. e = Batch(left) /\ g[i][2] = left
        BY <1>4, <3>1, EntriesAre
      <3> QED BY <1>0, <3>1, <3>2
    <2> QED BY <2>2, <2>3
  <1> QED BY <1>2, <1>3, <1>4 DEF OwnHolds

\* A run begins with its task or follow-up.
LEMMA OwnBegins ==
  ASSUME NEW h \in Seq(SubEntries), NEW r \in SubRuns, ~Speaks(h, r)
  PROVE  OwnHolds(h \o <<Said(r)>>, r, 0)
  <1> DEFINE g == h \o <<Said(r)>>
  <1>0. /\ Len(h) \in Nat /\ Len(g) = Len(h) + 1
        /\ DOMAIN h = 1..Len(h) /\ DOMAIN g = 1..Len(h) + 1
        /\ g[Len(h) + 1] = Said(r) /\ \A i \in DOMAIN h : g[i] = h[i]
    BY Joined, Single, EntriesAre
  <1>1. \A i \in DOMAIN g : g[i] = Said(r) => i = Len(h) + 1
    BY <1>0 DEF Speaks
  <1>2. \A i \in DOMAIN g : ~(i >= Len(h) + 1 /\ g[i][1] = "calls")
    BY <1>0, EntriesAre
  <1> QED BY <1>0, <1>1, <1>2 DEF OwnHolds

\* With nothing due the model may be asked.
LEMMA OwnImplies ==
  ASSUME NEW r \in SubRuns, chat[r] \in Seq(SubEntries), OwnHolds(chat[r], r, 0)
  PROVE  WellFormed(Own(r))
  <1> DEFINE h == chat[r]
  <1>1. PICK k \in DOMAIN h :
          /\ h[k] = Said(r) /\ \A i \in DOMAIN h : h[i] = Said(r) => i = k
          /\ \A i \in DOMAIN h :
               i >= k /\ h[i][1] = "calls" =>
                 /\ i + h[i][2] <= Len(h) + 0
                 /\ \A j \in 1..h[i][2] : i + j <= Len(h) => h[i + j] = Outcome
    BY DEF OwnHolds
  <1>2. (CHOOSE i \in DOMAIN h : h[i] = Said(r)) = k
    BY <1>1
  <1>3. Own(r) = SubSeq(h, k, Len(h))
    BY <1>2 DEF Own
  <1>4. Len(h) \in Nat /\ DOMAIN h = 1..Len(h) /\ k \in 1..Len(h)
    BY LenProperties
  <1> DEFINE o == SubSeq(h, k, Len(h))
  <1>5. /\ o \in Seq(SubEntries) /\ Len(o) = Len(h) - k + 1
        /\ \A i \in 1 .. Len(h) - k + 1 : o[i] = h[k + i - 1]
    <2>1. \A i \in k .. Len(h) : h[i] \in SubEntries
      BY <1>4, ElementOfSeq
    <2> QED BY <1>4, <2>1, SubSeqProperties
  <1>6. DOMAIN o = 1 .. Len(h) - k + 1
    BY <1>5, LenProperties
  <1>7. ASSUME NEW i \in DOMAIN o, o[i][1] = "calls", NEW j \in 1..o[i][2]
        PROVE  i + j \in DOMAIN o /\ o[i + j] = Outcome
    <2>1. o[i] = h[k + i - 1] /\ k + i - 1 \in DOMAIN h /\ k + i - 1 >= k
      BY <1>4, <1>5, <1>6
    <2>2. h[k + i - 1] \in SubEntries
      BY <1>4, <2>1, ElementOfSeq
    <2>3. o[i][2] \in Nat
      BY <1>7, <2>1, <2>2, EntriesAre
    <2>4. /\ k + i - 1 + o[i][2] <= Len(h)
          /\ k + i - 1 + j <= Len(h) => h[k + i - 1 + j] = Outcome
      BY <1>1, <1>4, <1>7, <2>1, <2>3
    <2>a. /\ j \in Nat /\ j >= 1 /\ j <= o[i][2] /\ i \in Nat /\ i >= 1
          /\ k \in Nat /\ Len(h) \in Nat
      BY <1>4, <1>6, <2>3
    <2>b. k + i - 1 + j <= Len(h)
      BY <2>3, <2>4, <2>a
    <2>c. i + j \in 1 .. Len(h) - k + 1
      BY <2>a, <2>b
    <2>5. i + j \in DOMAIN o /\ h[k + i - 1 + j] = Outcome
      BY <1>6, <2>4, <2>b, <2>c
    <2>6. o[i + j] = h[k + (i + j) - 1]
      BY <1>5, <1>6, <2>5
    <2>7. k + (i + j) - 1 = k + i - 1 + j
      BY <1>4, <1>6, <2>3
    <2> QED BY <2>5, <2>6, <2>7
  <1> HIDE DEF o
  <1> QED BY <1>3, <1>7 DEF WellFormed, o

-----------------------------------------------------------------------------
(* The loop.                                                               *)

LEMMA RunMoves ==
  ASSUME SubTypeOK, NEW r \in SubRuns, NEW w \in Working \cup {"off", "gone"}, run' = [run EXCEPT ![r] = w]
  PROVE  /\ run' \in [SubRuns -> Working \cup {"off", "gone"}]
         /\ run'[r] = w /\ \A u \in SubRuns : u # r => run'[u] = run[u]
  BY DEF SubTypeOK

LEMMA Written ==
  ASSUME SubTypeOK, NEW r \in SubRuns, NEW q \in Seq(SubEntries), Write(r, q)
  PROVE  /\ chat[r] \in Seq(SubEntries) /\ chat' \in [SubRuns -> Seq(SubEntries)] /\ trace' \in Seq(SubEntries)
         /\ chat'[r] = chat[r] \o q /\ trace' = trace \o q /\ \A u \in SubRuns : u # r => chat'[u] = chat[u]
  <1>1. chat \in [SubRuns -> Seq(SubEntries)] /\ trace \in Seq(SubEntries)
    BY DEF SubTypeOK
  <1>2. chat' = [chat EXCEPT ![r] = @ \o q] /\ trace' = trace \o q
    BY DEF Write
  <1>3. chat[r] \in Seq(SubEntries) /\ chat[r] \o q \in Seq(SubEntries) /\ trace \o q \in Seq(SubEntries)
    BY <1>1, ConcatProperties
  <1> QED BY <1>1, <1>2, <1>3

LEMMA NothingWritten ==
  ASSUME SubTypeOK, NEW r \in SubRuns, UNCHANGED <<chat, trace>>
  PROVE  Write(r, <<>>)
  <1>1. chat \in [SubRuns -> Seq(SubEntries)] /\ chat[r] \in Seq(SubEntries) /\ trace \in Seq(SubEntries)
    BY DEF SubTypeOK
  <1>2. chat[r] \o <<>> = chat[r] /\ trace \o <<>> = trace
    BY <1>1, ConcatEmptySeq
  <1>3. [chat EXCEPT ![r] = chat[r] \o <<>>] = chat
    BY <1>1, <1>2
  <1> QED BY <1>2, <1>3 DEF Write

LEMMA LoopEnds ==
  ASSUME SubTypeOK, NEW r \in SubRuns, NEW how \in EndKinds, EndLoop(r, how)
  PROVE  /\ run' = [run EXCEPT ![r] = "closing"]
         /\ todo' \in [SubRuns -> 0..SubBatch] /\ ended' \in [SubRuns -> EndKinds]
         /\ todo'[r] = 0 /\ ended'[r] = how
         /\ \A u \in SubRuns : u # r => todo'[u] = todo[u] /\ ended'[u] = ended[u]
  <1>1. 0 \in 0..SubBatch
    BY SubAssumption
  <1> QED BY <1>1 DEF EndLoop, SubTypeOK

\* Who works in the loop is the only one.
LEMMA AloneInLoop ==
  ASSUME SubInv, NEW r \in SubRuns, run[r] \in Looping \cup {"claimed", "closing"}
  PROVE  /\ channel = r /\ \A u \in SubRuns : u # r => run[u] \notin Looping \cup {"claimed", "closing"}
         /\ run[First] # "off" /\ (r \in Steers => sent[r] = "follow")
  <1>1. \A u \in SubRuns : run[u] \in Looping \cup {"claimed", "closing"} => channel = u
    BY DEF SubInv, OneLoop, Working, Looping
  <1> QED BY <1>1 DEF SubInv, NotYet, RunsFollow, Looping

LEMMA LoopWrites ==
  ASSUME SubInv, NEW r \in SubRuns, run[r] \in Looping,
         NEW w \in Looping \cup {"closing"}, run' = [run EXCEPT ![r] = w],
         NEW q, Wordless(q), Write(r, q), UNCHANGED queue, LoopKeeps,
         iter' \in [SubRuns -> 0..SubIters], todo' \in [SubRuns -> 0..SubBatch], ended' \in [SubRuns -> EndKinds],
         \A u \in SubRuns : u # r => todo'[u] = todo[u] /\ ended'[u] = ended[u],
         w # "calls" => todo'[r] = 0,
         w \in Looping => OwnHolds(chat[r] \o q, r, todo'[r]),
         w = "closing" /\ ended'[r] = "done" => queue = <<>>
  PROVE  SubInv'
  <1>0. SubTypeOK /\ q \in Seq(SubEntries)
    BY DEF SubInv, Wordless
  <1>1. UNCHANGED <<queue, channel, cut, seen, sent, card, late, dropped, wrong>>
    BY DEF LoopKeeps
  <1>2. /\ run' \in [SubRuns -> Working \cup {"off", "gone"}]
        /\ run'[r] = w /\ (\A u \in SubRuns : u # r => run'[u] = run[u])
        /\ w \in Working /\ w \notin {"claimed", "closed"}
    BY <1>0, RunMoves DEF Working, Looping
  <1>3. /\ chat[r] \in Seq(SubEntries) /\ chat' \in [SubRuns -> Seq(SubEntries)] /\ trace' \in Seq(SubEntries)
        /\ chat'[r] = chat[r] \o q /\ trace' = trace \o q /\ \A u \in SubRuns : u # r => chat'[u] = chat[u]
    BY <1>0, Written
  <1>4. /\ channel = r /\ \A u \in SubRuns : u # r => run[u] \notin Looping \cup {"claimed", "closing"}
        /\ run[First] # "off" /\ (r \in Steers => sent[r] = "follow")
    BY AloneInLoop
  <1>5. SubTypeOK'
    BY <1>0, <1>1, <1>2, <1>3 DEF SubTypeOK
  <1>6. \A u \in SubRuns : (run'[u] = "off" <=> run[u] = "off") /\ (run'[u] = "claimed" <=> run[u] = "claimed")
    BY <1>2, <1>4 DEF Working, Looping
  <1>7. NotYet' /\ RunsFollow'
    BY <1>1, <1>4, <1>6 DEF SubInv, NotYet, RunsFollow, SubRuns
  <1>8. OneLoop'
    BY <1>1, <1>2, <1>4 DEF SubInv, OneLoop
  <1>9. /\ SaidOnce(trace') /\ \A s \in SubRuns : Speaks(trace', s) <=> Speaks(trace, s)
    BY <1>0, <1>3, WordlessJoined DEF SubInv, SubTypeOK
  <1>10. ASSUME NEW s \in Steers PROVE Placed(s)'
    BY <1>1, <1>6, <1>9 DEF SubInv, Placed, Queued, Speaks, Said, SubRuns
  <1>11. ASSUME NEW u \in SubRuns PROVE RunRight(u)'
    <2>1. CASE u = r
      BY <1>2, <1>3, <2>1 DEF RunRight
    <2>2. CASE u # r
      BY <1>2, <1>3, <2>2 DEF SubInv, RunRight
    <2> QED BY <2>1, <2>2
  <1>12. Unheard'
    <2>2. \A s \in Steers : run'[s] = "claimed" => chat'[s] = chat[s] /\ run[s] = "claimed"
      BY <1>2, <1>3, <1>6 DEF SubRuns
    <2> QED BY <1>1, <2>2 DEF SubInv, Unheard, Speaks, Said
  <1>13. SteersServedFirst'
    <2>1. ASSUME NEW u \in SubRuns, run'[u] = "closing", ended'[u] = "done" PROVE queue = <<>>
      BY <1>2, <1>4, <2>1
    <2>2. ToSet(<<>>) = {}
      BY DEF ToSet
    <2> QED BY <1>1, <2>1, <2>2 DEF SteersServedFirst
  <1>14. CardRight'
    BY <1>2 DEF CardRight
  <1>15. OnceIn(queue') /\ (channel' = NoOne => queue' = <<>>)
    BY <1>1 DEF SubInv
  <1> QED BY <1>5, <1>7, <1>8, <1>9, <1>10, <1>11, <1>12, <1>13, <1>14, <1>15 DEF SubInv, OnceIn, SaidOnce

\* A loop that is not in a batch has nothing due.
LEMMA NothingDue ==
  ASSUME SubInv, NEW r \in SubRuns, run[r] \in {"top", "ask", "wrap"}
  PROVE  /\ run[r] \in Looping /\ todo[r] = 0 /\ chat[r] \in Seq(SubEntries) /\ OwnHolds(chat[r], r, 0)
         /\ \A q : Plain(q) => Wordless(q) /\ OwnHolds(chat[r] \o q, r, 0)
  <1>1. run[r] \in Looping /\ todo[r] = 0 /\ chat[r] \in Seq(SubEntries) /\ OwnHolds(chat[r], r, 0)
    BY DEF SubInv, RunRight, Looping, SubTypeOK
  <1>2. ASSUME NEW q, Plain(q) PROVE Wordless(q) /\ OwnHolds(chat[r] \o q, r, 0)
    <2>1. q \in Seq(SubEntries) /\ Wordless(q) /\ ~Speaks(q, r) /\ \A i \in DOMAIN q : q[i][1] # "calls"
      BY <1>2, EntriesAre DEF Plain, Wordless, Speaks
    <2> QED BY <1>1, <2>1, OwnGrows
  <1> QED BY <1>1, <1>2

\* A loop that ends.
LEMMA EndWrites ==
  ASSUME SubInv, NEW r \in SubRuns, run[r] \in Looping, NEW how \in EndKinds, EndLoop(r, how),
         NEW q, Wordless(q), Write(r, q), how = "done" => queue = <<>>,
         UNCHANGED <<queue, iter>>, LoopKeeps
  PROVE  SubInv'
  <1>1. SubTypeOK
    BY DEF SubInv
  <1>2. /\ run' = [run EXCEPT ![r] = "closing"]
        /\ todo' \in [SubRuns -> 0..SubBatch] /\ ended' \in [SubRuns -> EndKinds]
        /\ todo'[r] = 0 /\ ended'[r] = how
        /\ \A u \in SubRuns : u # r => todo'[u] = todo[u] /\ ended'[u] = ended[u]
    BY <1>1, LoopEnds
  <1>3. iter' \in [SubRuns -> 0..SubIters] /\ "closing" \notin Looping
    BY <1>1 DEF SubTypeOK, Looping
  <1> QED BY <1>2, <1>3, LoopWrites

\* A loop that goes on, with nothing due.
LEMMA GoesOnWrites ==
  ASSUME SubInv, NEW r \in SubRuns, run[r] \in {"top", "ask", "wrap"}, NEW w \in {"top", "ask", "wrap"},
         run' = [run EXCEPT ![r] = w], NEW q, Plain(q), Write(r, q),
         UNCHANGED <<queue, todo, ended, iter>>, LoopKeeps
  PROVE  SubInv'
  <1>1. SubTypeOK
    BY DEF SubInv
  <1>2. run[r] \in Looping /\ todo[r] = 0 /\ Wordless(q) /\ OwnHolds(chat[r] \o q, r, 0)
    BY NothingDue
  <1>3. /\ todo' \in [SubRuns -> 0..SubBatch] /\ ended' \in [SubRuns -> EndKinds] /\ iter' \in [SubRuns -> 0..SubIters]
        /\ w \in Looping /\ w # "calls" /\ w # "closing"
    BY <1>1 DEF SubTypeOK, Looping
  <1> QED BY <1>2, <1>3, LoopWrites

LEMMA AskFailsKeeps == ASSUME SubInv, NEW r \in SubRuns, AskFails(r) PROVE SubInv'
  <1>1. /\ run[r] = "ask" /\ UNCHANGED <<queue, iter, chat, trace>> /\ LoopKeeps
        /\ \E how \in {"failed", "aborted"} : EndLoop(r, how)
    BY DEF AskFails
  <1>2. Write(r, <<>>) /\ Wordless(<<>>) /\ {"failed", "aborted"} \subseteq EndKinds
    BY <1>1, NothingWritten, NothingDue, Singles DEF SubInv, EndKinds
  <1> QED BY <1>1, <1>2, EndWrites DEF Looping

LEMMA AskEmptyKeeps == ASSUME SubInv, NEW r \in SubRuns, AskEmpty(r) PROVE SubInv'
  <1>1. Write(r, <<>>) /\ Plain(<<>>)
    BY NothingWritten, Singles DEF SubInv, AskEmpty
  <1> QED BY <1>1, GoesOnWrites DEF AskEmpty

LEMMA AskTextKeeps == ASSUME SubInv, NEW r \in SubRuns, AskText(r) PROVE SubInv'
  <1>1. run[r] = "ask" /\ UNCHANGED <<queue, iter>> /\ LoopKeeps
    BY DEF AskText
  <1>2. CASE run' = [run EXCEPT ![r] = "top"] /\ (\E q \in {<<Text>>, <<Text, Sentinel>>} : Write(r, q)) /\ UNCHANGED <<todo, ended>>
    BY <1>1, <1>2, Singles, GoesOnWrites
  <1>3. CASE queue = <<>> /\ EndLoop(r, "done") /\ Write(r, <<Text>>)
    <2>1. Wordless(<<Text>>) /\ run[r] \in Looping /\ "done" \in EndKinds
      BY <1>1, Singles, NothingDue DEF EndKinds
    <2> QED BY <1>1, <1>3, <2>1, EndWrites
  <1> QED BY <1>2, <1>3 DEF AskText

LEMMA AskCallsKeeps == ASSUME SubInv, NEW r \in SubRuns, AskCalls(r) PROVE SubInv'
  <1>1. PICK n \in 1..SubBatch :
          /\ Write(r, <<Batch(n)>>)
          /\ \/ /\ run' = [run EXCEPT ![r] = "calls"]
                /\ todo' = [todo EXCEPT ![r] = n]
                /\ UNCHANGED ended
             \/ "provider" \in wrong /\ EndLoop(r, "failed")
    BY DEF AskCalls
  <1>2. run[r] = "ask" /\ UNCHANGED <<queue, iter>> /\ LoopKeeps
    BY DEF AskCalls
  <1>3. /\ SubTypeOK /\ run[r] \in Looping /\ chat[r] \in Seq(SubEntries) /\ OwnHolds(chat[r], r, 0)
        /\ Wordless(<<Batch(n)>>)
    BY <1>2, NothingDue, Singles DEF SubInv
  <1>4. CASE "provider" \in wrong /\ EndLoop(r, "failed")
    BY <1>1, <1>2, <1>3, <1>4, EndWrites DEF EndKinds
  <1>5. CASE run' = [run EXCEPT ![r] = "calls"] /\ todo' = [todo EXCEPT ![r] = n] /\ UNCHANGED ended
    <2>1. /\ todo' \in [SubRuns -> 0..SubBatch] /\ todo'[r] = n
          /\ \A u \in SubRuns : u # r => todo'[u] = todo[u]
      BY <1>3, <1>5, SubAssumption DEF SubTypeOK
    <2>2. OwnHolds(chat[r] \o <<Batch(n)>>, r, n)
      BY <1>3, OwnGoesOn, EntriesAre, SubAssumption
    <2>3. ended' \in [SubRuns -> EndKinds] /\ iter' \in [SubRuns -> 0..SubIters] /\ "calls" \in Looping
      BY <1>2, <1>3, <1>5 DEF SubTypeOK, Looping
    <2> QED BY <1>1, <1>2, <1>3, <1>5, <2>1, <2>2, <2>3, LoopWrites
  <1> QED BY <1>1, <1>4, <1>5

LEMMA DispatchKeeps == ASSUME SubInv, NEW r \in SubRuns, DispatchCall(r) PROVE SubInv'
  <1>1. run[r] = "calls" /\ UNCHANGED <<queue, iter>> /\ LoopKeeps /\ run[r] \in Looping
    BY DEF DispatchCall, Looping
  <1>2. SubTypeOK /\ chat[r] \in Seq(SubEntries) /\ OwnHolds(chat[r], r, todo[r]) /\ todo[r] \in Nat
    BY <1>1, SubAssumption DEF SubInv, SubTypeOK, RunRight
  <1>3. iter' \in [SubRuns -> 0..SubIters]
    BY <1>1, <1>2 DEF SubTypeOK
  <1>4. CASE EndLoop(r, "aborted") /\ UNCHANGED <<chat, trace>>
    <2>1. Write(r, <<>>) /\ Wordless(<<>>) /\ "aborted" \in EndKinds
      BY <1>2, <1>4, NothingWritten, Singles DEF EndKinds, Plain, Wordless
    <2> QED BY <1>1, <1>4, <2>1, EndWrites
  <1>5. CASE todo[r] > 0 /\ todo' = [todo EXCEPT ![r] = @ - 1] /\ Write(r, <<Outcome>>) /\ UNCHANGED <<run, ended>>
    <2>1. /\ todo' \in [SubRuns -> 0..SubBatch] /\ todo'[r] = todo[r] - 1 /\ todo'[r] \in Nat
          /\ \A u \in SubRuns : u # r => todo'[u] = todo[u]
      BY <1>2, <1>5, SubAssumption DEF SubTypeOK
    <2>2. OwnHolds(chat[r] \o <<Outcome>>, r, todo'[r])
      BY <1>2, <2>1, OwnGoesOn, EntriesAre
    <2>3. ended' \in [SubRuns -> EndKinds] /\ run' = [run EXCEPT ![r] = "calls"] /\ "calls" \in Looping
      BY <1>1, <1>2, <1>5 DEF SubTypeOK, Looping
    <2>4. Wordless(<<Outcome>>)
      BY Singles DEF Plain, Wordless
    <2> QED BY <1>1, <1>3, <1>5, <2>1, <2>2, <2>3, <2>4, LoopWrites
  <1>6. CASE todo[r] = 0 /\ run' = [run EXCEPT ![r] = "top"] /\ UNCHANGED <<todo, ended, chat, trace>>
    <2>1. Write(r, <<>>) /\ Wordless(<<>>) /\ "top" \in Looping
      BY <1>2, <1>6, NothingWritten, Singles DEF Plain, Wordless, Looping
    <2>2. chat[r] \o <<>> = chat[r]
      BY <1>2, ConcatEmptySeq
    <2>3. /\ todo' \in [SubRuns -> 0..SubBatch] /\ ended' \in [SubRuns -> EndKinds]
          /\ todo'[r] = 0 /\ \A u \in SubRuns : u # r => todo'[u] = todo[u] /\ ended'[u] = ended[u]
      BY <1>2, <1>6 DEF SubTypeOK
    <2>4. OwnHolds(chat[r] \o <<>>, r, todo'[r])
      BY <1>2, <1>6, <2>2, <2>3
    <2>5. run' = [run EXCEPT ![r] = "top"] /\ UNCHANGED queue /\ LoopKeeps
      BY <1>1, <1>6
    <2>6. \A w \in {"top"} : w \in Looping \cup {"closing"} /\ w # "calls" /\ w # "closing"
      BY DEF Looping
    <2> QED BY <1>1, <1>3, <2>1, <2>3, <2>4, <2>5, <2>6, LoopWrites
  <1> QED BY <1>4, <1>5, <1>6 DEF DispatchCall

LEMMA CapKeeps == ASSUME SubInv, NEW r \in SubRuns, CapReached(r) PROVE SubInv'
  BY Singles, GoesOnWrites DEF CapReached

LEMMA WrapUpKeeps == ASSUME SubInv, NEW r \in SubRuns, WrapUp(r) PROVE SubInv'
  <1>1. run[r] = "wrap" /\ EndLoop(r, "capped") /\ UNCHANGED <<queue, iter>> /\ LoopKeeps
    BY DEF WrapUp
  <1>2. \E q \in {<<Text>>, <<>>} : Write(r, q)
    BY NothingWritten DEF WrapUp, SubInv
  <1>3. Wordless(<<Text>>) /\ Wordless(<<>>) /\ run[r] \in Looping /\ "capped" \in EndKinds
    BY <1>1, Singles, NothingDue DEF EndKinds
  <1> QED BY <1>1, <1>2, <1>3, EndWrites

\* The loop's top takes the queue.
LEMMA QueueSpoken ==
  ASSUME SubInv, NEW q, q = [i \in DOMAIN queue |-> Said(queue[i])]
  PROVE  /\ q \in Seq(SubEntries) /\ SaidOnce(q) /\ (\A i \in DOMAIN q : q[i][1] # "calls")
         /\ \A r \in SubRuns : Speaks(q, r) <=> r \in Steers /\ Queued(r)
  <1>1. queue \in Seq(Steers) /\ Len(queue) \in Nat /\ DOMAIN queue = 1..Len(queue) /\ OnceIn(queue)
    BY LenProperties DEF SubInv, SubTypeOK
  <1>2. \A i \in 1..Len(queue) : queue[i] \in Steers /\ Said(queue[i]) \in SubEntries
    BY <1>1, ElementOfSeq, EntriesAre DEF SubRuns
  <1>3. q \in [1..Len(queue) -> SubEntries]
    BY <1>1, <1>2
  <1>4. q \in Seq(SubEntries) /\ DOMAIN q = DOMAIN queue /\ \A i \in DOMAIN q : q[i] = Said(queue[i])
    BY <1>1, <1>3
  <1>5. \A r, s : Said(r) = Said(s) => r = s
    BY DEF Said
  <1>6. SaidOnce(q)
    BY <1>1, <1>4, <1>5 DEF SaidOnce, OnceIn
  <1>7. \A i \in DOMAIN q : q[i][1] # "calls"
    BY <1>4 DEF Said
  <1>8. ASSUME NEW r \in SubRuns PROVE Speaks(q, r) <=> r \in Steers /\ Queued(r)
    BY <1>1, <1>2, <1>4, <1>5 DEF Speaks, Queued
  <1> QED BY <1>4, <1>6, <1>7, <1>8

LEMMA LoopTopKeeps == ASSUME SubInv, NEW r \in SubRuns, LoopTop(r) PROVE SubInv'
  <1>0. SubTypeOK /\ run[r] = "top" /\ run[r] \in Looping /\ iter[r] < SubIters /\ LoopKeeps
    BY DEF SubInv, LoopTop, Looping
  <1>1. CASE EndLoop(r, "aborted") /\ UNCHANGED <<iter, queue, chat, trace>>
    <2>1. Write(r, <<>>) /\ Wordless(<<>>) /\ "aborted" \in EndKinds
      BY <1>0, <1>1, NothingWritten, Singles DEF EndKinds, Plain, Wordless
    <2> QED BY <1>0, <1>1, <2>1, EndWrites
  <1>2. CASE /\ run' = [run EXCEPT ![r] = "ask"] /\ iter' = [iter EXCEPT ![r] = @ + 1] /\ queue' = <<>>
             /\ Write(r, [i \in DOMAIN queue |-> Said(queue[i])]) /\ UNCHANGED <<todo, ended>>
    <2>1. PICK q : q = [i \in DOMAIN queue |-> Said(queue[i])]
      OBVIOUS
    <2>2. /\ q \in Seq(SubEntries) /\ SaidOnce(q) /\ (\A i \in DOMAIN q : q[i][1] # "calls")
          /\ \A u \in SubRuns : Speaks(q, u) <=> u \in Steers /\ Queued(u)
      BY <2>1, QueueSpoken
    <2>3. UNCHANGED <<channel, cut, seen, sent, card, late, dropped, wrong, todo, ended>> /\ queue' = <<>>
      BY <1>0, <1>2 DEF LoopKeeps
    <2>4. /\ run' \in [SubRuns -> Working \cup {"off", "gone"}]
          /\ run'[r] = "ask" /\ \A u \in SubRuns : u # r => run'[u] = run[u]
      BY <1>0, <1>2, RunMoves DEF Working, Looping
    <2>5. /\ chat[r] \in Seq(SubEntries) /\ chat' \in [SubRuns -> Seq(SubEntries)] /\ trace' \in Seq(SubEntries)
          /\ chat'[r] = chat[r] \o q /\ trace' = trace \o q /\ \A u \in SubRuns : u # r => chat'[u] = chat[u]
      BY <1>0, <1>2, <2>1, <2>2, Written
    <2>6. /\ channel = r /\ \A u \in SubRuns : u # r => run[u] \notin Looping \cup {"claimed", "closing"}
          /\ run[First] # "off" /\ (r \in Steers => sent[r] = "follow")
      BY <1>0, AloneInLoop
    <2>7. iter' \in [SubRuns -> 0..SubIters]
      <3>1. iter \in [SubRuns -> 0..SubIters] /\ iter[r] + 1 \in 0..SubIters
        BY <1>0, SubAssumption DEF SubTypeOK
      <3> QED BY <1>2, <3>1
    <2>8. SubTypeOK'
      <3>1. queue' \in Seq(Steers)
        BY <2>3
      <3> QED BY <1>0, <2>3, <2>4, <2>5, <2>7, <3>1 DEF SubTypeOK
    <2>9. \A u \in SubRuns : (run'[u] = "off" <=> run[u] = "off") /\ (run'[u] = "claimed" <=> run[u] = "claimed")
      BY <1>0, <2>4
    <2>10. NotYet' /\ RunsFollow'
      BY <2>3, <2>6, <2>9 DEF SubInv, NotYet, RunsFollow, SubRuns
    <2>11. OneLoop'
      BY <2>3, <2>4, <2>6 DEF SubInv, OneLoop
    <2>12. \A s \in SubRuns : Speaks(q, s) => s \in Steers /\ sent[s] = "steer" /\ ~Speaks(trace, s) /\ s \notin dropped
      BY <2>2 DEF SubInv, Placed
    <2>13. SaidOnce(trace')
      BY <1>0, <2>2, <2>5, <2>12, SaidOnceJoined DEF SubInv, SubTypeOK
    <2>14. \A s \in SubRuns : Speaks(trace', s) <=> Speaks(trace, s) \/ Speaks(q, s)
      BY <1>0, <2>2, <2>5, SpeaksJoined DEF SubTypeOK
    <2>15. ASSUME NEW s \in Steers PROVE Placed(s)'
      <3>1. ~Queued(s)' /\ s \in SubRuns /\ Speaks(trace', s) = Speaks(trace, s)'
        BY <2>3 DEF Queued, SubRuns, Speaks, Said
      <3>2. Placed(s) /\ RunsFollow
        BY DEF SubInv
      <3>3. Speaks(trace, s)' <=> Speaks(trace, s) \/ Queued(s)
        BY <2>2, <2>14, <3>1
      <3>4. run'[s] = "claimed" <=> run[s] = "claimed"
        BY <2>9, <3>1
      <3>5. run[s] = "claimed" => sent[s] = "follow"
        BY <3>2 DEF RunsFollow
      <3> QED BY <2>3, <3>1, <3>2, <3>3, <3>4, <3>5 DEF Placed
    <2>16. ~Speaks(q, r)
      BY <2>6, <2>12
    <2>17. ASSUME NEW u \in SubRuns PROVE RunRight(u)'
      <3>1. CASE u = r
        <4>1. todo[r] = 0 /\ OwnHolds(chat[r], r, 0)
          BY <1>0, NothingDue
        <4>2. OwnHolds(chat'[r], r, 0)
          BY <2>2, <2>5, <2>16, <4>1, OwnGrows
        <4> QED BY <2>3, <2>4, <3>1, <4>1, <4>2 DEF RunRight
      <3>2. CASE u # r
        BY <2>3, <2>4, <2>5, <3>2 DEF SubInv, RunRight
      <3> QED BY <3>1, <3>2
    <2>18. Unheard'
      <3>1. \A s \in Steers : run'[s] = "claimed" => chat'[s] = chat[s] /\ run[s] = "claimed"
        BY <1>0, <2>4, <2>5 DEF SubRuns
      <3> QED BY <2>3, <3>1 DEF SubInv, Unheard, Speaks, Said
    <2>19. SteersServedFirst'
      BY <2>3, <2>4, <2>6 DEF SteersServedFirst
    <2>20. CardRight'
      BY <2>4 DEF CardRight, Working, Looping
    <2>21. OnceIn(queue') /\ (channel' = NoOne => queue' = <<>>)
      BY <2>3 DEF OnceIn
    <2> QED BY <2>8, <2>10, <2>11, <2>13, <2>15, <2>17, <2>18, <2>19, <2>20, <2>21 DEF SubInv, OnceIn, SaidOnce
  <1> QED BY <1>1, <1>2 DEF LoopTop

-----------------------------------------------------------------------------
(* Where a run begins and ends, and the requests.                          *)

LEMMA StartKeeps == ASSUME SubInv, StartRun PROVE SubInv'
  <1>0. SubTypeOK /\ First \in SubRuns /\ First \notin Steers /\ First # NoOne
    BY SubAssumption DEF SubInv, SubRuns
  <1>1. /\ \A r \in SubRuns : run[r] = "off" /\ todo[r] = 0
        /\ \A s \in Steers : sent[s] = "idle" /\ s \notin dropped
        /\ trace = <<>> /\ chat[First] = <<>>
    BY DEF StartRun, SubInv, NotYet, Placed, RunRight, SubRuns
  <1>2. /\ UNCHANGED <<cut, iter, todo, ended, seen, sent, late, dropped, wrong>>
        /\ channel' = First /\ queue' = <<>> /\ card' = "running" /\ Write(First, <<Said(First)>>)
    BY DEF StartRun
  <1>3. /\ run' \in [SubRuns -> Working \cup {"off", "gone"}]
        /\ run'[First] = "top" /\ \A u \in SubRuns : u # First => run'[u] = "off"
    BY <1>0, <1>1, RunMoves DEF StartRun, Working, Looping
  <1>4. Said(First) \in SubEntries /\ <<Said(First)>> \in Seq(SubEntries)
    BY <1>0, EntriesAre, Single
  <1>5. /\ chat' \in [SubRuns -> Seq(SubEntries)] /\ trace' \in Seq(SubEntries)
        /\ chat'[First] = <<>> \o <<Said(First)>> /\ trace' = <<>> \o <<Said(First)>>
    BY <1>0, <1>1, <1>2, <1>4, Written
  <1>6. trace' = <<Said(First)>>
    BY <1>4, <1>5, ConcatEmptySeq
  <1>7. SubTypeOK'
    <2>1. queue' \in Seq(Steers)
      BY <1>2
    <2> QED BY <1>0, <1>2, <1>3, <1>5, <2>1 DEF SubTypeOK
  <1>8. OwnHolds(chat'[First], First, 0)
    <2>1. <<>> \in Seq(SubEntries) /\ ~Speaks(<<>>, First)
      BY DEF Speaks
    <2> QED BY <1>0, <1>5, <2>1, OwnBegins
  <1>9. ASSUME NEW s \in Steers PROVE Placed(s)'
    <2>1. ~Speaks(trace', s)
      BY <1>0, <1>6 DEF Speaks, Said
    <2>2. run'[s] = "off" /\ sent'[s] = "idle" /\ s \notin dropped' /\ ~Queued(s)'
      BY <1>0, <1>1, <1>2, <1>3 DEF Queued, SubRuns
    <2> QED BY <2>1, <2>2 DEF Placed, Speaks, Said
  <1>10. OnceIn(queue') /\ SaidOnce(trace')
    BY <1>2, <1>6 DEF OnceIn, SaidOnce
  <1>11. NotYet' /\ RunsFollow' /\ OneLoop' /\ (channel' = NoOne => queue' = <<>>)
    BY <1>0, <1>1, <1>2, <1>3 DEF NotYet, RunsFollow, OneLoop, SubRuns, Working, Looping
  <1>12. ASSUME NEW r \in SubRuns PROVE RunRight(r)'
    BY <1>1, <1>2, <1>3, <1>8 DEF RunRight, Looping
  <1>13. Unheard'
    BY <1>0, <1>1, <1>2, <1>3 DEF Unheard, SubRuns
  <1>14. SteersServedFirst' /\ CardRight'
    BY <1>0, <1>3 DEF SteersServedFirst, CardRight, Working, Looping
  <1> QED BY <1>7, <1>9, <1>10, <1>11, <1>12, <1>13, <1>14 DEF SubInv, OnceIn, SaidOnce

\* A message goes on the queue of a channel that is there.
LEMMA EnqueueKeeps ==
  ASSUME SubInv, NEW s \in Steers, sent[s] \in {"idle", "stray"}, channel # NoOne, Enqueue(s),
         UNCHANGED <<channel, cut, run, iter, todo, ended, chat, trace, seen, card, dropped, wrong>>
  PROVE  SubInv'
  <1>0. SubTypeOK /\ s \in SubRuns /\ run[First] # "off" /\ run[s] = "off"
    BY DEF SubInv, SubRuns, NotYet, RunsFollow
  <1>1. ~Queued(s) /\ ~Speaks(trace, s) /\ s \notin dropped
    BY DEF SubInv, Placed
  <1>2. /\ sent' \in [Steers -> {"idle", "load", "claim", "stray", "follow", "steer", "refused"}]
        /\ sent'[s] = "steer" /\ \A t \in Steers : t # s => sent'[t] = sent[t]
    BY <1>0 DEF Enqueue, SubTypeOK
  <1>3. /\ queue \in Seq(Steers) /\ queue' \in Seq(Steers) /\ Len(queue) \in Nat /\ DOMAIN queue = 1..Len(queue)
        /\ DOMAIN queue' = 1..Len(queue) + 1 /\ queue'[Len(queue) + 1] = s
        /\ \A i \in DOMAIN queue : queue'[i] = queue[i]
    <2>1. queue' = Append(queue, s) /\ queue \in Seq(Steers)
      BY <1>0 DEF Enqueue, SubTypeOK
    <2> QED BY <2>1, AppendProperties, LenProperties
  <1>4. \A t : Queued(t)' <=> Queued(t) \/ t = s
    BY <1>3 DEF Queued
  <1>5. late \subseteq late' /\ late' \subseteq Steers
    BY <1>0 DEF Enqueue, SubTypeOK
  <1>6. SubTypeOK'
    BY <1>0, <1>2, <1>3, <1>5 DEF SubTypeOK
  <1>7. NotYet' /\ RunsFollow' /\ OneLoop' /\ (channel' = NoOne => queue' = <<>>)
    BY <1>0, <1>2 DEF SubInv, NotYet, RunsFollow, OneLoop
  <1>8. ASSUME NEW t \in Steers PROVE Placed(t)'
    <2>1. Speaks(trace, t)' <=> Speaks(trace, t)
      BY DEF Speaks, Said
    <2>2. Placed(t)
      BY DEF SubInv
    <2> QED BY <1>0, <1>1, <1>2, <1>4, <2>1, <2>2 DEF Placed
  <1>9. OnceIn(queue')
    BY <1>1, <1>3 DEF SubInv, OnceIn, Queued
  <1>10. SaidOnce(trace') /\ \A r \in SubRuns : RunRight(r)'
    <2>1. ASSUME NEW r \in SubRuns PROVE RunRight(r)'
      <3>1. RunRight(r)
        BY DEF SubInv
      <3> QED BY <3>1 DEF RunRight, OwnHolds, Said
    <2> QED BY <2>1 DEF SubInv, SaidOnce
  <1>11. Unheard'
    BY <1>2 DEF SubInv, Unheard, Speaks, Said
  <1>12. SteersServedFirst'
    <2>1. ASSUME NEW r \in SubRuns, run[r] = "closing", ended[r] = "done" PROVE ToSet(queue') \subseteq late'
      <3>1. ~\E u \in SubRuns : run[u] \in Looping \cup {"claimed"}
        BY <2>1, AloneInLoop DEF Looping
      <3>2. s \in late'
        BY <3>1 DEF Enqueue
      <3>3. ToSet(queue) \subseteq late
        BY <2>1 DEF SubInv, SteersServedFirst
      <3>4. \A i \in DOMAIN queue' : queue'[i] = s \/ queue'[i] \in ToSet(queue)
        BY <1>3 DEF ToSet
      <3> QED BY <1>5, <3>2, <3>3, <3>4 DEF ToSet
    <2> QED BY <2>1 DEF SteersServedFirst
  <1>13. CardRight'
    BY DEF SubInv, CardRight
  <1> QED BY <1>6, <1>7, <1>8, <1>9, <1>10, <1>11, <1>12, <1>13 DEF SubInv, OnceIn, SaidOnce

\* A request goes on, or is refused, with its message nowhere yet.
LEMMA RequestMoves ==
  ASSUME SubInv, NEW s \in Steers, sent[s] \in {"idle", "load", "claim"}, run[First] # "off",
         NEW w \in {"load", "claim", "stray", "refused"}, sent' = [sent EXCEPT ![s] = w],
         seen' \in [Steers -> Seq(SubEntries)], \A t \in Steers : t # s => seen'[t] = seen[t],
         w = "claim" => ~Speaks(seen'[s], s),
         UNCHANGED <<channel, queue, cut, run, iter, todo, ended, chat, trace, card, late, dropped, wrong>>
  PROVE  SubInv'
  <1>0. SubTypeOK /\ run[s] = "off"
    BY DEF SubInv, SubRuns, RunsFollow
  <1>1. ~Queued(s) /\ ~Speaks(trace, s) /\ s \notin dropped
    BY DEF SubInv, Placed
  <1>2. /\ sent' \in [Steers -> {"idle", "load", "claim", "stray", "follow", "steer", "refused"}]
        /\ sent'[s] = w /\ \A t \in Steers : t # s => sent'[t] = sent[t]
    BY <1>0 DEF SubTypeOK
  <1>3. SubTypeOK'
    BY <1>0, <1>2 DEF SubTypeOK
  <1>4. NotYet' /\ RunsFollow' /\ OneLoop' /\ (channel' = NoOne => queue' = <<>>)
    BY <1>0, <1>2 DEF SubInv, NotYet, RunsFollow, OneLoop
  <1>5. ASSUME NEW t \in Steers PROVE Placed(t)'
    <2>1. (Speaks(trace, t)' <=> Speaks(trace, t)) /\ (Queued(t)' <=> Queued(t))
      BY DEF Speaks, Said, Queued
    <2>2. Placed(t)
      BY DEF SubInv
    <2> QED BY <1>0, <1>1, <1>2, <2>1, <2>2 DEF Placed
  <1>6. OnceIn(queue') /\ SaidOnce(trace') /\ \A r \in SubRuns : RunRight(r)'
    <2>1. ASSUME NEW r \in SubRuns PROVE RunRight(r)'
      <3>1. RunRight(r)
        BY DEF SubInv
      <3> QED BY <3>1 DEF RunRight, OwnHolds, Said
    <2> QED BY <2>1 DEF SubInv, OnceIn, SaidOnce
  <1>7. Unheard'
    <2>1. ASSUME NEW t \in Steers, sent'[t] = "claim" PROVE ~Speaks(seen'[t], t)
      BY <1>2, <2>1 DEF SubInv, Unheard
    <2>2. ASSUME NEW t \in Steers, run'[t] = "claimed" PROVE ~Speaks(chat'[t], t)
      BY <2>2 DEF SubInv, Unheard
    <2> QED BY <2>1, <2>2 DEF Unheard, Speaks, Said
  <1>8. SteersServedFirst' /\ CardRight'
    BY DEF SubInv, SteersServedFirst, CardRight
  <1> QED BY <1>3, <1>4, <1>5, <1>6, <1>7, <1>8 DEF SubInv, OnceIn, SaidOnce

LEMMA SteerKeeps == ASSUME SubInv, NEW s \in Steers, Steer(s) PROVE SubInv'
  <1>1. /\ sent[s] = "idle" /\ run[First] # "off"
        /\ UNCHANGED <<channel, cut, run, iter, todo, ended, chat, trace, seen, card, dropped, wrong>>
    BY DEF Steer
  <1>2. CASE channel # NoOne /\ Enqueue(s)
    BY <1>1, <1>2, EnqueueKeeps
  <1>3. CASE sent' = [sent EXCEPT ![s] = IF s \in Orders THEN "refused" ELSE "load"] /\ UNCHANGED <<queue, late>>
    <2>1. PICK w \in {"load", "refused"} : sent' = [sent EXCEPT ![s] = w]
      BY <1>3
    <2>2. seen' \in [Steers -> Seq(SubEntries)]
      BY <1>1 DEF SubInv, SubTypeOK
    <2> QED BY <1>1, <1>3, <2>1, <2>2, RequestMoves
  <1> QED BY <1>2, <1>3 DEF Steer

LEMMA LoadTraceKeeps == ASSUME SubInv, NEW s \in Steers, LoadTrace(s) PROVE SubInv'
  <1>1. /\ sent[s] = "load" /\ SubTypeOK
        /\ UNCHANGED <<channel, queue, cut, run, iter, todo, ended, chat, trace, card, late, dropped, wrong>>
    BY DEF LoadTrace, SubInv
  <1>2. run[First] # "off" /\ ~Speaks(trace, s)
    BY <1>1 DEF SubInv, NotYet, Placed
  <1>3. CASE sent' = [sent EXCEPT ![s] = "claim"] /\ seen' = [seen EXCEPT ![s] = trace]
    <2>1. seen' \in [Steers -> Seq(SubEntries)] /\ seen'[s] = trace /\ \A t \in Steers : t # s => seen'[t] = seen[t]
      BY <1>1, <1>3 DEF SubTypeOK
    <2>2. ~Speaks(seen'[s], s)
      BY <1>2, <2>1
    <2> QED BY <1>1, <1>2, <1>3, <2>1, <2>2, RequestMoves
  <1>4. CASE sent' = [sent EXCEPT ![s] = "refused"] /\ UNCHANGED seen
    <2>1. seen' \in [Steers -> Seq(SubEntries)]
      BY <1>1, <1>4 DEF SubTypeOK
    <2> QED BY <1>1, <1>2, <1>4, <2>1, RequestMoves
  <1> QED BY <1>3, <1>4 DEF LoadTrace

LEMMA ClaimResumeKeeps == ASSUME SubInv, NEW s \in Steers, ClaimResume(s) PROVE SubInv'
  <1>0. /\ sent[s] = "claim" /\ SubTypeOK /\ s \in SubRuns /\ s # NoOne /\ seen' = [seen EXCEPT ![s] = <<>>]
        /\ UNCHANGED <<cut, iter, todo, ended, trace, card, late, dropped, wrong>>
    BY SubAssumption DEF ClaimResume, SubInv, SubRuns
  <1>1. /\ run[First] # "off" /\ run[s] = "off" /\ s # First
        /\ ~Queued(s) /\ ~Speaks(trace, s) /\ s \notin dropped /\ ~Speaks(seen[s], s)
    BY <1>0, SubAssumption DEF SubInv, NotYet, RunsFollow, Placed, Unheard
  <1>2. seen' \in [Steers -> Seq(SubEntries)] /\ \A t \in Steers : t # s => seen'[t] = seen[t]
    BY <1>0 DEF SubTypeOK
  <1>3. CASE /\ channel = NoOne /\ channel' = s /\ queue' = <<>> /\ run' = [run EXCEPT ![s] = "claimed"]
             /\ chat' = [chat EXCEPT ![s] = seen[s]] /\ sent' = [sent EXCEPT ![s] = "follow"]
    <2>1. /\ run' \in [SubRuns -> Working \cup {"off", "gone"}]
          /\ run'[s] = "claimed" /\ \A u \in SubRuns : u # s => run'[u] = run[u]
      BY <1>0, <1>3, RunMoves DEF Working
    <2>2. /\ sent' \in [Steers -> {"idle", "load", "claim", "stray", "follow", "steer", "refused"}]
          /\ sent'[s] = "follow" /\ \A t \in Steers : t # s => sent'[t] = sent[t]
      BY <1>0, <1>3 DEF SubTypeOK
    <2>3. /\ chat' \in [SubRuns -> Seq(SubEntries)] /\ chat'[s] = seen[s]
          /\ \A u \in SubRuns : u # s => chat'[u] = chat[u]
      BY <1>0, <1>3 DEF SubTypeOK
    <2>4. SubTypeOK'
      <3>1. queue' \in Seq(Steers) /\ channel' \in SubRuns
        BY <1>0, <1>3
      <3> QED BY <1>0, <1>2, <2>1, <2>2, <2>3, <3>1 DEF SubTypeOK
    <2>5. \A u \in SubRuns : run[u] \notin Working \ {"closed"} /\ queue = <<>>
      BY <1>3, SubAssumption DEF SubInv, OneLoop
    <2>6. NotYet' /\ RunsFollow' /\ OneLoop' /\ (channel' = NoOne => queue' = <<>>)
      BY <1>0, <1>1, <1>3, <2>1, <2>2, <2>5, SubAssumption DEF SubInv, NotYet, RunsFollow, OneLoop, SubRuns
    <2>7. ASSUME NEW t \in Steers PROVE Placed(t)'
      <3>1. (Speaks(trace, t)' <=> Speaks(trace, t)) /\ ~Queued(t)' /\ ~Queued(t) /\ t \in SubRuns
        BY <1>0, <1>3, <2>5 DEF Speaks, Said, Queued, SubRuns
      <3>2. Placed(t)
        BY DEF SubInv
      <3> QED BY <1>0, <1>1, <2>1, <2>2, <3>1, <3>2 DEF Placed
    <2>8. OnceIn(queue') /\ SaidOnce(trace')
      BY <1>0, <1>3 DEF SubInv, OnceIn, SaidOnce
    <2>9. ASSUME NEW u \in SubRuns PROVE RunRight(u)'
      <3>1. RunRight(u)
        BY DEF SubInv
      <3>2. run'[u] \notin Looping /\ todo'[u] = 0
        BY <1>0, <1>1, <2>1, <2>5, <3>1 DEF RunRight, Working, Looping
      <3> QED BY <3>2 DEF RunRight
    <2>10. Unheard'
      <3>1. ASSUME NEW t \in Steers, sent'[t] = "claim" PROVE ~Speaks(seen'[t], t)
        BY <1>2, <2>2, <3>1 DEF SubInv, Unheard
      <3>2. ASSUME NEW t \in Steers, run'[t] = "claimed" PROVE ~Speaks(chat'[t], t)
        BY <1>1, <2>1, <2>3, <2>5, <3>2 DEF SubRuns, Working
      <3> QED BY <3>1, <3>2 DEF Unheard, Speaks, Said
    <2>11. SteersServedFirst' /\ CardRight'
      BY <1>0, <2>1, <2>5 DEF SteersServedFirst, CardRight, Working
    <2> QED BY <2>4, <2>6, <2>7, <2>8, <2>9, <2>10, <2>11 DEF SubInv, OnceIn, SaidOnce
  <1>4. CASE sent' = [sent EXCEPT ![s] = "stray"] /\ UNCHANGED <<channel, queue, run, chat>>
    BY <1>0, <1>1, <1>2, <1>4, RequestMoves
  <1> QED BY <1>3, <1>4 DEF ClaimResume

LEMMA ClaimSteersKeeps == ASSUME SubInv, NEW s \in Steers, ClaimSteers(s) PROVE SubInv'
  <1>0. /\ sent[s] = "stray" /\ SubTypeOK /\ s \in SubRuns
        /\ UNCHANGED <<channel, cut, run, iter, todo, ended, chat, trace, seen, card, wrong>>
    BY DEF ClaimSteers, SubInv, SubRuns
  <1>1. CASE channel # NoOne /\ Enqueue(s) /\ UNCHANGED dropped
    BY <1>0, <1>1, EnqueueKeeps
  <1>2. CASE /\ channel = NoOne /\ sent' = [sent EXCEPT ![s] = "steer"]
             /\ dropped' = dropped \cup {s} /\ late' = late \cup {s} /\ UNCHANGED queue
    <2>1. run[First] # "off" /\ run[s] = "off" /\ ~Queued(s) /\ ~Speaks(trace, s) /\ s \notin dropped
      BY <1>0 DEF SubInv, NotYet, RunsFollow, Placed
    <2>2. /\ sent' \in [Steers -> {"idle", "load", "claim", "stray", "follow", "steer", "refused"}]
          /\ sent'[s] = "steer" /\ \A t \in Steers : t # s => sent'[t] = sent[t]
      BY <1>0, <1>2 DEF SubTypeOK
    <2>3. SubTypeOK'
      BY <1>0, <1>2, <2>2 DEF SubTypeOK
    <2>4. NotYet' /\ RunsFollow' /\ OneLoop' /\ (channel' = NoOne => queue' = <<>>)
      BY <1>0, <1>2, <2>1, <2>2 DEF SubInv, NotYet, RunsFollow, OneLoop
    <2>5. ASSUME NEW t \in Steers PROVE Placed(t)'
      <3>1. (Speaks(trace, t)' <=> Speaks(trace, t)) /\ (Queued(t)' <=> Queued(t))
        BY <1>0, <1>2 DEF Speaks, Said, Queued
      <3>2. Placed(t)
        BY DEF SubInv
      <3> QED BY <1>0, <1>2, <2>1, <2>2, <3>1, <3>2 DEF Placed
    <2>6. OnceIn(queue') /\ SaidOnce(trace') /\ \A r \in SubRuns : RunRight(r)'
      <3>1. ASSUME NEW r \in SubRuns PROVE RunRight(r)'
        <4>1. RunRight(r)
          BY DEF SubInv
        <4> QED BY <1>0, <4>1 DEF RunRight, OwnHolds, Said
      <3> QED BY <1>0, <1>2, <3>1 DEF SubInv, OnceIn, SaidOnce
    <2>7. Unheard'
      BY <1>0, <2>2 DEF SubInv, Unheard, Speaks, Said
    <2>8. SteersServedFirst' /\ CardRight'
      BY <1>0, <1>2 DEF SubInv, SteersServedFirst, CardRight
    <2> QED BY <2>3, <2>4, <2>5, <2>6, <2>7, <2>8 DEF SubInv, OnceIn, SaidOnce
  <1> QED BY <1>1, <1>2 DEF ClaimSteers

LEMMA ResumeKeeps == ASSUME SubInv, NEW s \in Steers, Resume(s) PROVE SubInv'
  <1>0. /\ run[s] = "claimed" /\ SubTypeOK /\ s \in SubRuns /\ Write(s, <<Said(s)>>) /\ card' = "running"
        /\ UNCHANGED <<channel, queue, cut, iter, todo, ended, seen, sent, late, dropped, wrong>>
    BY DEF Resume, SubInv, SubRuns
  <1>1. Said(s) \in SubEntries /\ <<Said(s)>> \in Seq(SubEntries) /\ DOMAIN <<Said(s)>> = {1} /\ <<Said(s)>>[1] = Said(s)
    BY <1>0, EntriesAre, Single
  <1>2. /\ chat[s] \in Seq(SubEntries) /\ chat' \in [SubRuns -> Seq(SubEntries)] /\ trace' \in Seq(SubEntries)
        /\ chat'[s] = chat[s] \o <<Said(s)>> /\ trace' = trace \o <<Said(s)>>
        /\ \A u \in SubRuns : u # s => chat'[u] = chat[u]
    BY <1>0, <1>1, Written
  <1>3. /\ run' \in [SubRuns -> Working \cup {"off", "gone"}]
        /\ run'[s] = "top" /\ \A u \in SubRuns : u # s => run'[u] = run[u]
    BY <1>0, RunMoves DEF Resume, Working, Looping
  <1>4. /\ channel = s /\ \A u \in SubRuns : u # s => run[u] \notin Looping \cup {"claimed", "closing"}
        /\ run[First] # "off" /\ sent[s] = "follow"
    BY <1>0, AloneInLoop
  <1>5. ~Speaks(trace, s) /\ ~Speaks(chat[s], s) /\ ~Queued(s) /\ s \notin dropped /\ todo[s] = 0
    BY <1>0, <1>4 DEF SubInv, Placed, Unheard, RunRight
  <1>6. SubTypeOK'
    BY <1>0, <1>2, <1>3 DEF SubTypeOK
  <1>7. NotYet' /\ RunsFollow' /\ OneLoop' /\ (channel' = NoOne => queue' = <<>>)
    BY <1>0, <1>3, <1>4, SubAssumption DEF SubInv, NotYet, RunsFollow, OneLoop, SubRuns
  <1>8. \A r \in SubRuns : Speaks(<<Said(s)>>, r) <=> r = s
    BY <1>1 DEF Speaks, Said
  <1>9. \A r \in SubRuns : Speaks(trace', r) <=> Speaks(trace, r) \/ r = s
    BY <1>0, <1>1, <1>2, <1>8, SpeaksJoined DEF SubTypeOK
  <1>10. SaidOnce(trace') /\ OnceIn(queue')
    <2>1. SaidOnce(<<Said(s)>>)
      BY <1>1 DEF SaidOnce
    <2> QED BY <1>0, <1>1, <1>2, <1>5, <1>8, <2>1, SaidOnceJoined DEF SubInv, SubTypeOK, OnceIn
  <1>11. ASSUME NEW t \in Steers PROVE Placed(t)'
    <2>1. t \in SubRuns /\ (Speaks(trace, t)' <=> Speaks(trace', t)) /\ (Queued(t)' <=> Queued(t))
      BY <1>0 DEF Speaks, Said, Queued, SubRuns
    <2>2. Placed(t)
      BY DEF SubInv
    <2> QED BY <1>0, <1>3, <1>4, <1>5, <1>9, <2>1, <2>2 DEF Placed
  <1>12. ASSUME NEW u \in SubRuns PROVE RunRight(u)'
    <2>1. CASE u = s
      <3>1. OwnHolds(chat'[s], s, 0)
        BY <1>0, <1>2, <1>5, OwnBegins
      <3> QED BY <1>0, <1>5, <2>1, <3>1 DEF RunRight
    <2>2. CASE u # s
      BY <1>0, <1>2, <1>3, <2>2 DEF SubInv, RunRight
    <2> QED BY <2>1, <2>2
  <1>13. Unheard'
    <2>1. ASSUME NEW t \in Steers, run'[t] = "claimed" PROVE ~Speaks(chat'[t], t)
      BY <1>3, <1>4, <2>1 DEF SubRuns
    <2> QED BY <1>0, <2>1 DEF SubInv, Unheard, Speaks, Said
  <1>14. SteersServedFirst' /\ CardRight'
    BY <1>0, <1>3, <1>4 DEF SteersServedFirst, CardRight, Working, Looping
  <1> QED BY <1>6, <1>7, <1>10, <1>11, <1>12, <1>13, <1>14 DEF SubInv, OnceIn, SaidOnce

LEMMA StopSubagentKeeps == ASSUME SubInv, StopSubagent PROVE SubInv'
  <1>1. UNCHANGED <<channel, queue, run, iter, todo, ended, chat, trace, seen, sent, card, late, dropped, wrong>>
    BY DEF StopSubagent
  <1>2. cut' \subseteq SubRuns
    BY DEF StopSubagent, SubInv, SubTypeOK
  <1>3. SubTypeOK'
    BY <1>1, <1>2 DEF SubInv, SubTypeOK
  <1>4. ASSUME NEW t \in Steers PROVE Placed(t)'
    <2>1. Placed(t)
      BY DEF SubInv
    <2> QED BY <1>1, <2>1 DEF Placed, Queued, Speaks, Said
  <1>5. ASSUME NEW r \in SubRuns PROVE RunRight(r)'
    <2>1. RunRight(r)
      BY DEF SubInv
    <2> QED BY <1>1, <2>1 DEF RunRight, OwnHolds, Said
  <1>6. NotYet' /\ RunsFollow' /\ OneLoop' /\ (channel' = NoOne => queue' = <<>>)
    BY <1>1 DEF SubInv, NotYet, RunsFollow, OneLoop
  <1>7. OnceIn(queue') /\ SaidOnce(trace') /\ Unheard' /\ SteersServedFirst' /\ CardRight'
    BY <1>1 DEF SubInv, OnceIn, SaidOnce, Unheard, Speaks, Said, SteersServedFirst, CardRight
  <1> QED BY <1>3, <1>4, <1>5, <1>6, <1>7 DEF SubInv, OnceIn, SaidOnce

LEMMA CloseKeeps == ASSUME SubInv, NEW r \in SubRuns, CloseChannel(r) PROVE SubInv'
  <1>0. /\ run[r] = "closing" /\ SubTypeOK /\ channel' = NoOne /\ queue' = <<>> /\ dropped' = dropped \cup ToSet(queue)
        /\ UNCHANGED <<cut, iter, todo, ended, chat, trace, seen, sent, card, late, wrong>>
    BY DEF CloseChannel, SubInv
  <1>1. /\ run' \in [SubRuns -> Working \cup {"off", "gone"}]
        /\ run'[r] = "closed" /\ \A u \in SubRuns : u # r => run'[u] = run[u]
    BY <1>0, RunMoves DEF CloseChannel, Working
  <1>2. /\ \A u \in SubRuns : u # r => run[u] \notin Looping \cup {"claimed", "closing"}
        /\ run[First] # "off" /\ (r \in Steers => sent[r] = "follow")
    BY <1>0, AloneInLoop
  <1>3. \A t : t \in ToSet(queue) <=> Queued(t)
    BY DEF ToSet, Queued
  <1>4. SubTypeOK'
    <2>1. queue' \in Seq(Steers) /\ ToSet(queue) \subseteq Steers
      BY <1>0, ElementOfSeq, LenProperties DEF SubTypeOK, ToSet
    <2> QED BY <1>0, <1>1, <2>1 DEF SubTypeOK
  <1>5. NotYet' /\ RunsFollow' /\ OneLoop' /\ (channel' = NoOne => queue' = <<>>)
    BY <1>0, <1>1, <1>2 DEF SubInv, NotYet, RunsFollow, OneLoop, SubRuns, Working
  <1>6. ASSUME NEW t \in Steers PROVE Placed(t)'
    <2>1. t \in SubRuns /\ (Speaks(trace, t)' <=> Speaks(trace, t)) /\ ~Queued(t)'
      BY <1>0 DEF Speaks, Said, Queued, SubRuns
    <2>2. Placed(t)
      BY DEF SubInv
    <2>3. run'[t] = "claimed" <=> run[t] = "claimed"
      BY <1>0, <1>1, <2>1
    <2> QED BY <1>0, <1>3, <2>1, <2>2, <2>3 DEF Placed
  <1>7. OnceIn(queue') /\ SaidOnce(trace')
    BY <1>0 DEF SubInv, OnceIn, SaidOnce
  <1>8. ASSUME NEW u \in SubRuns PROVE RunRight(u)'
    <2>1. RunRight(u) /\ (u # r => run'[u] = run[u]) /\ (u = r => run'[u] = "closed" /\ run[u] = "closing")
      BY <1>0, <1>1 DEF SubInv
    <2> QED BY <1>0, <2>1 DEF RunRight, OwnHolds, Said, Looping
  <1>9. Unheard'
    <2>1. \A t \in Steers : run'[t] = "claimed" => run[t] = "claimed"
      BY <1>1 DEF SubRuns
    <2> QED BY <1>0, <2>1 DEF SubInv, Unheard, Speaks, Said
  <1>10. SteersServedFirst' /\ CardRight'
    BY <1>1, <1>2 DEF SteersServedFirst, CardRight, Working
  <1> QED BY <1>4, <1>5, <1>6, <1>7, <1>8, <1>9, <1>10 DEF SubInv, OnceIn, SaidOnce

LEMMA AnnounceKeeps == ASSUME SubInv, NEW r \in SubRuns, AnnounceEnd(r) PROVE SubInv'
  <1>0. /\ run[r] = "closed" /\ SubTypeOK /\ card' = "finished" /\ chat' = [chat EXCEPT ![r] = <<>>]
        /\ UNCHANGED <<channel, queue, cut, iter, todo, ended, trace, seen, sent, late, dropped, wrong>>
    BY DEF AnnounceEnd, SubInv
  <1>1. /\ run' \in [SubRuns -> Working \cup {"off", "gone"}]
        /\ run'[r] = "gone" /\ \A u \in SubRuns : u # r => run'[u] = run[u]
    BY <1>0, RunMoves DEF AnnounceEnd
  <1>2. chat' \in [SubRuns -> Seq(SubEntries)] /\ \A u \in SubRuns : u # r => chat'[u] = chat[u]
    BY <1>0 DEF SubTypeOK
  <1>3. SubTypeOK'
    BY <1>0, <1>1, <1>2 DEF SubTypeOK
  <1>4. run[First] # "off" /\ run'[First] # "off"
    BY <1>0, <1>1, SubAssumption DEF SubInv, NotYet, SubRuns
  <1>5. NotYet' /\ RunsFollow' /\ OneLoop' /\ (channel' = NoOne => queue' = <<>>)
    BY <1>0, <1>1, <1>4 DEF SubInv, NotYet, RunsFollow, OneLoop, SubRuns, Working, Looping
  <1>6. ASSUME NEW t \in Steers PROVE Placed(t)'
    <2>1. t \in SubRuns /\ (Speaks(trace, t)' <=> Speaks(trace, t)) /\ (Queued(t)' <=> Queued(t))
      BY <1>0 DEF Speaks, Said, Queued, SubRuns
    <2>2. Placed(t)
      BY DEF SubInv
    <2>3. run'[t] = "claimed" <=> run[t] = "claimed"
      BY <1>0, <1>1, <2>1
    <2> QED BY <1>0, <2>1, <2>2, <2>3 DEF Placed
  <1>7. OnceIn(queue') /\ SaidOnce(trace')
    BY <1>0 DEF SubInv, OnceIn, SaidOnce
  <1>8. ASSUME NEW u \in SubRuns PROVE RunRight(u)'
    <2>1. RunRight(u) /\ (u # r => run'[u] = run[u] /\ chat'[u] = chat[u]) /\ (u = r => run'[u] = "gone" /\ todo[u] = 0)
      BY <1>0, <1>1, <1>2 DEF SubInv, RunRight
    <2> QED BY <1>0, <2>1 DEF RunRight, OwnHolds, Said, Looping
  <1>9. Unheard'
    <2>1. \A t \in Steers : run'[t] = "claimed" => run[t] = "claimed" /\ chat'[t] = chat[t]
      BY <1>0, <1>1, <1>2 DEF SubRuns
    <2> QED BY <1>0, <2>1 DEF SubInv, Unheard, Speaks, Said
  <1>10. SteersServedFirst' /\ CardRight'
    BY <1>0, <1>1 DEF SubInv, SteersServedFirst, CardRight
  <1> QED BY <1>3, <1>5, <1>6, <1>7, <1>8, <1>9, <1>10 DEF SubInv, OnceIn, SaidOnce

-----------------------------------------------------------------------------

LEMMA SubStarts == SubInit => SubInv
  <1> SUFFICES ASSUME SubInit PROVE SubInv
    OBVIOUS
  <1>1. SubTypeOK
    <2>1. 0 \in 0..SubIters /\ 0 \in 0..SubBatch
      BY SubAssumption
    <2>2. queue \in Seq(Steers) /\ chat \in [SubRuns -> Seq(SubEntries)] /\ trace \in Seq(SubEntries)
          /\ seen \in [Steers -> Seq(SubEntries)]
      BY DEF SubInit
    <2> QED BY <2>1, <2>2 DEF SubInit, SubTypeOK, EndKinds
  <1>2. First \in SubRuns /\ \A s \in Steers : s \in SubRuns
    BY DEF SubRuns
  <1>3. NotYet /\ RunsFollow /\ OneLoop /\ (channel = NoOne => queue = <<>>)
    BY <1>2 DEF SubInit, NotYet, RunsFollow, OneLoop, Working, Looping
  <1>4. ASSUME NEW s \in Steers PROVE Placed(s)
    BY <1>2 DEF SubInit, Placed, Queued, Speaks
  <1>5. OnceIn(queue) /\ SaidOnce(trace)
    BY DEF SubInit, OnceIn, SaidOnce
  <1>6. \A r \in SubRuns : RunRight(r)
    BY DEF SubInit, RunRight, Looping
  <1>7. Unheard /\ SteersServedFirst /\ CardRight
    BY <1>2 DEF SubInit, Unheard, SteersServedFirst, CardRight
  <1> QED BY <1>1, <1>3, <1>4, <1>5, <1>6, <1>7 DEF SubInv

LEMMA SubKeeps == SubInv /\ [SubNext]_subVars => SubInv'
  <1> SUFFICES ASSUME SubInv, [SubNext]_subVars PROVE SubInv'
    OBVIOUS
  <1>1. ASSUME NEW s \in Steers, Steer(s) \/ RequestStep(s) PROVE SubInv'
    BY <1>1, SteerKeeps, LoadTraceKeeps, ClaimResumeKeeps, ClaimSteersKeeps, ResumeKeeps DEF RequestStep
  <1>2. ASSUME NEW r \in SubRuns, RunStep(r) PROVE SubInv'
    BY <1>2, LoopTopKeeps, AskFailsKeeps, AskEmptyKeeps, AskTextKeeps, AskCallsKeeps, DispatchKeeps, CapKeeps,
       WrapUpKeeps, CloseKeeps, AnnounceKeeps DEF RunStep
  <1>3. CASE UNCHANGED subVars
    <2>1. ASSUME NEW t \in Steers PROVE Placed(t)'
      <3>1. Placed(t)
        BY DEF SubInv
      <3> QED BY <1>3, <3>1 DEF Placed, Queued, Speaks, Said, subVars
    <2>2. ASSUME NEW r \in SubRuns PROVE RunRight(r)'
      <3>1. RunRight(r)
        BY DEF SubInv
      <3> QED BY <1>3, <3>1 DEF RunRight, OwnHolds, Said, subVars
    <2>3. SubTypeOK' /\ NotYet' /\ RunsFollow' /\ OneLoop' /\ (channel' = NoOne => queue' = <<>>)
      BY <1>3 DEF SubInv, SubTypeOK, NotYet, RunsFollow, OneLoop, subVars
    <2>4. OnceIn(queue') /\ SaidOnce(trace') /\ Unheard' /\ SteersServedFirst' /\ CardRight'
      BY <1>3 DEF SubInv, OnceIn, SaidOnce, Unheard, Speaks, Said, SteersServedFirst, CardRight, subVars
    <2> QED BY <2>1, <2>2, <2>3, <2>4 DEF SubInv, OnceIn, SaidOnce
  <1> QED BY <1>1, <1>2, <1>3, StartKeeps, StopSubagentKeeps DEF SubNext

\* A message is in one place.
LEMMA OnePlace == SubInv => SteerKept
  <1> SUFFICES ASSUME SubInv, NEW s \in Steers
               PROVE  LET Places == {<<"queue", i>> : i \in {j \in DOMAIN queue : queue[j] = s}}
                            \cup {<<"trace", i>> : i \in {j \in DOMAIN trace : trace[j] = Said(s)}}
                            \cup {<<"dropped", 0>> : x \in {s} \cap dropped}
                            \cup {<<"claimed", 0>> : x \in {r \in {s} : run[r] = "claimed"}}
                      IN Cardinality(Places) = IF sent[s] \in {"follow", "steer"} THEN 1 ELSE 0
    BY DEF SteerKept
  <1> DEFINE Q == {<<"queue", i>> : i \in {j \in DOMAIN queue : queue[j] = s}}
             T == {<<"trace", i>> : i \in {j \in DOMAIN trace : trace[j] = Said(s)}}
             D == {<<"dropped", 0>> : x \in {s} \cap dropped}
             C == {<<"claimed", 0>> : x \in {r \in {s} : run[r] = "claimed"}}
             Places == Q \cup T \cup D \cup C
  <1>1. Q = {} \/ \E i : Q = {<<"queue", i>>}
    <2>1. \A i, j \in DOMAIN queue : queue[i] = s /\ queue[j] = s => i = j
      BY DEF SubInv, OnceIn
    <2>2. CASE \E i \in DOMAIN queue : queue[i] = s
      <3>1. PICK i \in DOMAIN queue : queue[i] = s
        BY <2>2
      <3>2. Q = {<<"queue", i>>}
        BY <2>1, <3>1
      <3> QED BY <3>2
    <2>3. CASE ~\E i \in DOMAIN queue : queue[i] = s
      BY <2>3
    <2> QED BY <2>2, <2>3
  <1>2. T = {} \/ \E i : T = {<<"trace", i>>}
    <2>1. \A i, j \in DOMAIN trace : trace[i] = Said(s) /\ trace[j] = Said(s) => i = j
      <3>1. Said(s)[1] = "user"
        BY DEF Said
      <3> QED BY <3>1 DEF SubInv, SaidOnce
    <2>2. CASE \E i \in DOMAIN trace : trace[i] = Said(s)
      <3>1. PICK i \in DOMAIN trace : trace[i] = Said(s)
        BY <2>2
      <3>2. T = {<<"trace", i>>}
        BY <2>1, <3>1
      <3> QED BY <3>2
    <2>3. CASE ~\E i \in DOMAIN trace : trace[i] = Said(s)
      BY <2>3
    <2> QED BY <2>2, <2>3
  <1>3. (D = {} \/ D = {<<"dropped", 0>>}) /\ (C = {} \/ C = {<<"claimed", 0>>})
    OBVIOUS
  <1>4. /\ Q # {} <=> Queued(s)
        /\ T # {} <=> Speaks(trace, s)
        /\ D # {} <=> s \in dropped
        /\ C # {} <=> run[s] = "claimed"
    BY DEF Queued, Speaks
  <1>5. Placed(s) /\ (run[s] = "claimed" => sent[s] = "follow")
    BY DEF SubInv, RunsFollow
  <1>6. CASE sent[s] \in {"follow", "steer"}
    <2>1. \E p : Places = {p}
      BY <1>1, <1>2, <1>3, <1>4, <1>5, <1>6 DEF Placed
    <2> QED BY <1>6, <2>1, FS_Singleton
  <1>7. CASE sent[s] \notin {"follow", "steer"}
    <2>1. Places = {}
      BY <1>4, <1>5, <1>7 DEF Placed
    <2> QED BY <1>7, <2>1, FS_EmptySet
  <1> QED BY <1>6, <1>7

\* What the composer was told is accepted is in one place, one loop works on the JSONL,
\* the messages accepted while it worked are answered, the model is asked with every call
\* of the run answered, and the card does not spin, for any messages and any bounds.
THEOREM OneSubagent == SubSpec => []SubagentOK
  <1>1. SubInv => SubagentOK
    <2>1. ASSUME SubInv PROVE AskedWellFormed
      <3>1. ASSUME NEW r \in SubRuns, run[r] \in {"ask", "wrap"} PROVE WellFormed(Own(r))
        BY <2>1, <3>1, NothingDue, OwnImplies
      <3> QED BY <3>1 DEF AskedWellFormed
    <2> QED BY <2>1, OnePlace DEF SubInv, SubagentOK
  <1> QED BY <1>1, SubStarts, SubKeeps, PTL DEF SubSpec
=============================================================================
