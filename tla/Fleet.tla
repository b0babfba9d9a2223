------------------------------- MODULE Fleet --------------------------------
(***************************************************************************)
(* The coordinator fleet of moon-ide (crates/moon-coder/src/runner.rs): the *)
(* in-memory `CoordinatorRegistry` of links between coordinators and their *)
(* workers, the dispatch feeder that turns a worker's events into messages *)
(* to its coordinator, and the operations that make and break a link:      *)
(* spawn_worker, attach, disconnect, retire_worker and the rebuild after a *)
(* restart.                                                                *)
(*                                                                         *)
(* A worker's session is reduced to its turn slot and the `TurnComplete`   *)
(* it owes once the slot is free (TurnLoop models the rest).  An operation *)
(* in flight is a record in `calls`: where it is, its coordinator and its  *)
(* worker.  One action is one section of the registry lock, one append to  *)
(* a JSONL, or one look at a worker's turn slot: the code releases every   *)
(* lock before it takes the next.                                          *)
(***************************************************************************)
EXTENDS Naturals, Sequences, FiniteSets

CONSTANTS Coordinators, \* sessions in coordinator mode
          Workers,      \* sessions that may work for a coordinator
          Existing,     \* those the user had before: they can be attached
          Nobody,       \* no coordinator, no worker
          Gestures,     \* what users, coordinators and the environment do
          MaxCalls,     \* bound: operations in flight
          MaxAttaches,  \* bound: attaches among them
          MaxQueue,     \* bound: events a feeder has yet to receive
          MaxRestarts   \* bound: restarts of the IDE

AllGestures == {"spawn", "attach", "disconnect", "retire", "stop", "fail",
                "seedfail", "lag", "restart"}

ASSUME FleetAssumption ==
  /\ Existing \subseteq Workers
  /\ Nobody \notin Coordinators \cup Workers
  /\ Gestures \subseteq AllGestures
  /\ {MaxCalls, MaxAttaches, MaxQueue, MaxRestarts} \subseteq Nat

VARIABLES workers,   \* registry: the workers of each coordinator
          cut,       \* registry: the disconnected ones among them
          feeding,   \* registry: coordinators whose feeder_running is set
          feeder,    \* per coordinator: where its dispatch feeder is
          held,      \* per coordinator: the worker whose event it handles
          queue,     \* per coordinator: broadcast events it has not received
          turn,      \* per worker: its session, and whether a turn runs
          tripped,   \* workers whose running turn has been cancelled
          owed,      \* workers that have freed the slot and owe TurnComplete
          calls,     \* operations in flight
          told,      \* per coordinator: the fleet as it has been told
          listed,    \* per coordinator: the fleet its JSONL folds to
          stage,     \* per coordinator: mounted, and how far its rebuild is
          folded,    \* per coordinator: the fleet read by that rebuild
          restarts

registry == <<workers, cut, feeding>>
delivery == <<feeder, held, queue>>
session  == <<turn, tripped, owed>>
mounting == <<stage, folded, restarts>>
vars == <<registry, delivery, session, calls, told, listed, mounting>>

Places == {"cut", "stop", "forget", "probe", "unlink", "tell",
           "link", "a_feed", "a_record", "notice",
           "s_feed", "s_record", "seed", "s_unlink", "s_forget",
           "busy", "r_unlink", "r_forget"}
Calls  == [at : Places, c : Coordinators, w : Workers]
Events == {"complete", "ask"} \X Workers
Turns  == {"unborn", "made", "idle", "turn", "ask", "gone"}

TypeOK ==
  /\ workers \in [Coordinators -> SUBSET Workers]
  /\ cut \in [Coordinators -> SUBSET Workers]
  /\ \A c \in Coordinators : cut[c] \subseteq workers[c]
  /\ feeding \subseteq Coordinators
  /\ feeder \in [Coordinators -> {"off", "recv", "wake", "unhook", "bye"}]
  /\ held \in [Coordinators -> Workers \cup {Nobody}]
  /\ \A c \in Coordinators : feeder[c] \in {"wake", "unhook", "bye"} <=> held[c] # Nobody
  /\ queue \in [Coordinators -> Seq(Events)]
  /\ turn \in [Workers -> Turns]
  /\ tripped \subseteq Workers
  /\ owed \subseteq Workers
  /\ calls \subseteq Calls
  /\ told \in [Coordinators -> SUBSET Workers]
  /\ listed \in [Coordinators -> SUBSET Workers]
  /\ stage \in [Coordinators -> {"off", "mounted", "feed", "remount", "on"}]
  /\ folded \in [Coordinators -> SUBSET Workers]
  /\ restarts \in 0..MaxRestarts

NoFleet == [c \in Coordinators |-> {}]

Init ==
  /\ workers = NoFleet /\ cut = NoFleet /\ feeding = {}
  /\ feeder = [c \in Coordinators |-> "off"]
  /\ held = [c \in Coordinators |-> Nobody]
  /\ queue = [c \in Coordinators |-> <<>>]
  /\ turn = [w \in Workers |-> IF w \in Existing THEN "idle" ELSE "unborn"]
  /\ tripped = {} /\ owed = {} /\ calls = {}
  /\ told = NoFleet /\ listed = NoFleet
  /\ stage = [c \in Coordinators |-> "on"]
  /\ folded = NoFleet /\ restarts = 0

-----------------------------------------------------------------------------
(* Pieces the operations share.                                            *)

Add(f, c, w)  == [f EXCEPT ![c] = @ \cup {w}]
Drop(f, c, w) == [f EXCEPT ![c] = @ \ {w}]

\* `feeds`: a live link, the worker is registered and not disconnected.
Feeds(c, w) == w \in workers[c] /\ w \notin cut[c]
Owners(w) == {c \in Coordinators : w \in workers[c]}

Running(w) == turn[w] \in {"turn", "ask"}
\* The session's JSONL exists: the user can see the session and click on it.
OnDisk(w) == turn[w] \in {"idle", "turn", "ask"}

Call(at, c, w) == [at |-> at, c |-> c, w |-> w]
Begin(gesture, at, c, w) ==
  /\ gesture \in Gestures
  /\ Cardinality(calls) < MaxCalls
  /\ Call(at, c, w) \notin calls
  /\ calls' = calls \cup {Call(at, c, w)}
Goto(o, at) == calls' = (calls \ {o}) \cup {Call(at, o.c, o.w)}
Return(o) == calls' = calls \ {o}

\* Mutant of Register: feeder_running is not set.
RegisterUnflagged(c, S) ==
  /\ workers' = [workers EXCEPT ![c] = @ \cup S]
  /\ UNCHANGED feeding

Register(c, S) ==
  /\ workers' = [workers EXCEPT ![c] = @ \cup S]
  /\ feeding' = feeding \cup {c}

\* Mutant of Remove: the mark of a disconnected worker stays behind.
RemoveLeavesMark(c, w) == workers' = Drop(workers, c, w) /\ UNCHANGED cut

Remove(c, w) == workers' = Drop(workers, c, w) /\ cut' = Drop(cut, c, w)

\* A subscriber gets every event sent after it has subscribed.
Emit(e) ==
  queue' = [c \in Coordinators |-> IF feeder[c] = "off" THEN queue[c]
                                   ELSE Append(queue[c], e)]
Room == \A c \in Coordinators : Len(queue[c]) < MaxQueue

Subscribe(c) ==
  /\ feeder' = [feeder EXCEPT ![c] = "recv"]
  /\ UNCHANGED <<held, queue>>

-----------------------------------------------------------------------------
(* disconnect_worker: the button in a worker's session bar.                *)

Disconnect(c, w) ==
  /\ w \in workers[c] /\ OnDisk(w)
  /\ w \in cut[c] => "stop" \in Gestures
  /\ Begin("disconnect", "cut", c, w)
  /\ UNCHANGED <<registry, delivery, session, told, listed, mounting>>

Cut(o) ==
  /\ o.at = "cut" /\ Feeds(o.c, o.w)
  /\ cut' = Add(cut, o.c, o.w)
  /\ Goto(o, "forget")
  /\ UNCHANGED <<workers, feeding, delivery, session, told, listed, mounting>>

CutAgain(o) ==
  /\ o.at = "cut" /\ ~Feeds(o.c, o.w)
  /\ Goto(o, "stop")
  /\ UNCHANGED <<registry, delivery, session, told, listed, mounting>>

StopTurn(o) ==
  /\ o.at = "stop"
  /\ tripped' = IF Running(o.w) THEN tripped \cup {o.w} ELSE tripped
  /\ Return(o)
  /\ UNCHANGED <<registry, delivery, turn, owed, told, listed, mounting>>

\* Mutant of Probe: an idle worker is left to a TurnComplete that never comes.
ProbeTrusting(o) ==
  /\ o.at = "probe"
  /\ Return(o)
  /\ UNCHANGED <<registry, delivery, session, told, listed, mounting>>

Probe(o) ==
  /\ o.at = "probe"
  /\ IF Running(o.w) THEN Return(o) ELSE Goto(o, "unlink")
  /\ UNCHANGED <<registry, delivery, session, told, listed, mounting>>

\* The detached task that tells the coordinator of an idle worker's end.
Tell(o) ==
  /\ o.at = "tell"
  /\ told' = Drop(told, o.c, o.w)
  /\ Return(o)
  /\ UNCHANGED <<registry, delivery, session, listed, mounting>>

-----------------------------------------------------------------------------
(* Steps that disconnect, retire and a failed spawn have in common.        *)

Unlink(o) ==
  /\ \/ o.at = "unlink"   /\ Goto(o, "tell")
     \/ o.at = "r_unlink" /\ Goto(o, "r_forget")
     \/ o.at = "s_unlink" /\ Goto(o, "s_forget")
  /\ Remove(o.c, o.w)
  /\ UNCHANGED <<feeding, delivery, session, told, listed, mounting>>

\* Mutant of Forget: only a disconnect is written to the JSONL.
ForgetDisconnectsOnly(o) ==
  /\ \/ o.at = "forget" /\ Goto(o, "probe") /\ listed' = Drop(listed, o.c, o.w)
     \/ o.at \in {"r_forget", "s_forget"} /\ Return(o) /\ UNCHANGED listed
  /\ told' = IF o.at = "r_forget" THEN Drop(told, o.c, o.w) ELSE told
  /\ UNCHANGED <<registry, delivery, session, mounting>>

\* persist_worker_detached; a retirement is answered right after it.
Forget(o) ==
  /\ \/ o.at = "forget" /\ Goto(o, "probe")
     \/ o.at \in {"r_forget", "s_forget"} /\ Return(o)
  /\ listed' = Drop(listed, o.c, o.w)
  /\ told' = IF o.at = "r_forget" THEN Drop(told, o.c, o.w) ELSE told
  /\ UNCHANGED <<registry, delivery, session, mounting>>

-----------------------------------------------------------------------------
(* attach_worker: hand an existing session to a coordinator.               *)

Attaching == {o \in calls : o.at \in {"link", "a_feed", "a_record", "notice"}}

\* Mutant of Attach: a worker of another coordinator is not refused.
AttachAnyway(c, w) ==
  /\ Cardinality(Attaching) < MaxAttaches
  /\ stage[c] # "off" /\ OnDisk(w) /\ ~Feeds(c, w)
  /\ Begin("attach", "link", c, w)
  /\ UNCHANGED <<registry, delivery, session, told, listed, mounting>>

\* ownership_of returns the first entry it finds for the worker.
Attach(c, w) ==
  /\ Cardinality(Attaching) < MaxAttaches
  /\ stage[c] # "off" /\ OnDisk(w)
  /\ Owners(w) = {} \/ \E d \in Owners(w) : w \in cut[d]
  /\ Begin("attach", "link", c, w)
  /\ UNCHANGED <<registry, delivery, session, told, listed, mounting>>

Linked(o) == IF o.c \in feeding THEN "a_record" ELSE "a_feed"

\* Mutant of LinkWorker: residue under another coordinator is not purged.
LinkWorkerOver(o) ==
  /\ o.at = "link"
  /\ Register(o.c, {o.w})
  /\ cut' = Drop(cut, o.c, o.w)
  /\ Goto(o, Linked(o))
  /\ UNCHANGED <<delivery, session, told, listed, mounting>>

\* Mutant of LinkWorker: the purge forgets the disconnected marks.
LinkWorkerMarked(o) ==
  /\ o.at = "link"
  /\ workers' = [d \in Coordinators |-> IF d = o.c THEN workers[d] \cup {o.w}
                                        ELSE workers[d] \ {o.w}]
  /\ feeding' = feeding \cup {o.c}
  /\ Goto(o, Linked(o))
  /\ UNCHANGED <<cut, delivery, session, told, listed, mounting>>

\* purge_worker and register, in one section of the registry lock.
LinkWorker(o) ==
  /\ o.at = "link"
  /\ workers' = [d \in Coordinators |-> IF d = o.c THEN workers[d] \cup {o.w}
                                        ELSE workers[d] \ {o.w}]
  /\ cut' = [d \in Coordinators |-> cut[d] \ {o.w}]
  /\ feeding' = feeding \cup {o.c}
  /\ Goto(o, Linked(o))
  /\ UNCHANGED <<delivery, session, told, listed, mounting>>

SpawnFeeder(o) ==
  /\ \/ o.at = "a_feed" /\ Goto(o, "a_record")
     \/ o.at = "s_feed" /\ Goto(o, "s_record")
  /\ Subscribe(o.c)
  /\ UNCHANGED <<registry, session, told, listed, mounting>>

\* The spawn record in the coordinator's JSONL, for the rebuild.
Record(o) ==
  /\ \/ o.at = "a_record" /\ Goto(o, "notice")
     \/ o.at = "s_record" /\ Goto(o, "seed")
  /\ listed' = Add(listed, o.c, o.w)
  /\ UNCHANGED <<registry, delivery, session, told, mounting>>

Notice(o) ==
  /\ o.at = "notice"
  /\ told' = Add(told, o.c, o.w)
  /\ Return(o)
  /\ UNCHANGED <<registry, delivery, session, listed, mounting>>

-----------------------------------------------------------------------------
(* spawn_worker and retire_worker: the coordinator's own tools.            *)

\* A tool runs after a round-trip to the model.  open_session goes on to rebuild
\* the registry as soon as it has mounted the coordinator: that is assumed to be
\* over by then, the remounting of the workers is not.
Ready(c) == stage[c] \in {"remount", "on"}

Spawn(c, w) ==
  /\ Ready(c) /\ turn[w] = "unborn"
  /\ Begin("spawn", IF c \in feeding THEN "s_record" ELSE "s_feed", c, w)
  /\ turn' = [turn EXCEPT ![w] = "made"]
  /\ Register(c, {w})
  /\ UNCHANGED <<cut, delivery, tripped, owed, told, listed, mounting>>

\* The seed starts the worker's first turn and writes its JSONL.
Seed(o) ==
  /\ o.at = "seed"
  /\ turn' = [turn EXCEPT ![o.w] = "turn"]
  /\ told' = Add(told, o.c, o.w)
  /\ Return(o)
  /\ UNCHANGED <<registry, delivery, tripped, owed, listed, mounting>>

SeedFails(o) ==
  /\ o.at = "seed" /\ "seedfail" \in Gestures
  /\ turn' = [turn EXCEPT ![o.w] = "gone"]
  /\ Goto(o, "s_unlink")
  /\ UNCHANGED <<registry, delivery, tripped, owed, told, listed, mounting>>

Retire(c, w) ==
  /\ Ready(c) /\ w \in workers[c]
  /\ Begin("retire", "busy", c, w)
  /\ UNCHANGED <<registry, delivery, session, told, listed, mounting>>

RetireCheck(o) ==
  /\ o.at = "busy"
  /\ IF Running(o.w) THEN Return(o) ELSE Goto(o, "r_unlink")
  /\ UNCHANGED <<registry, delivery, session, told, listed, mounting>>

-----------------------------------------------------------------------------
(* A worker's turns, reduced to what the fleet sees of them.               *)

BeginTurn(w) ==
  /\ turn[w] = "idle" /\ Room
  /\ turn' = [turn EXCEPT ![w] = "turn"]
  /\ UNCHANGED <<registry, delivery, tripped, owed, calls, told, listed, mounting>>

AskUser(w) ==
  /\ turn[w] = "turn" /\ Room
  /\ turn' = [turn EXCEPT ![w] = "ask"]
  /\ Emit(<<"ask", w>>)
  /\ UNCHANGED <<registry, feeder, held, tripped, owed, calls, told, listed, mounting>>

Answer(w) ==
  /\ turn[w] = "ask"
  /\ turn' = [turn EXCEPT ![w] = "turn"]
  /\ UNCHANGED <<registry, delivery, tripped, owed, calls, told, listed, mounting>>

\* The slot is freed here, TurnComplete is sent later, by TurnCompletes.
EndTurn(w) ==
  /\ turn[w] = "turn" /\ w \notin owed
  /\ turn' = [turn EXCEPT ![w] = "idle"]
  /\ tripped' = tripped \ {w}
  /\ owed' = owed \cup {w}
  /\ UNCHANGED <<registry, delivery, calls, told, listed, mounting>>

TurnCompletes(w) ==
  /\ w \in owed
  /\ owed' = owed \ {w}
  /\ Emit(<<"complete", w>>)
  /\ UNCHANGED <<registry, feeder, held, turn, tripped, calls, told, listed, mounting>>

\* Esc in the worker's session, or abort_worker.
AbortWorker(w) ==
  /\ "stop" \in Gestures /\ Running(w)
  /\ tripped' = tripped \cup {w}
  /\ UNCHANGED <<registry, delivery, turn, owed, calls, told, listed, mounting>>

\* An aborted turn emits `Aborted`, a failed one `Error`: the feeder looks at
\* neither.
TurnDies(w) ==
  /\ \/ Running(w) /\ w \in tripped
     \/ turn[w] = "turn" /\ "fail" \in Gestures
  /\ turn' = [turn EXCEPT ![w] = "idle"]
  /\ tripped' = tripped \ {w}
  /\ UNCHANGED <<registry, delivery, owed, calls, told, listed, mounting>>

-----------------------------------------------------------------------------
(* The dispatch feeder.                                                    *)

FeederTo(c, at, w) ==
  /\ feeder' = [feeder EXCEPT ![c] = at]
  /\ held' = [held EXCEPT ![c] = w]

\* Mutant of Receive: TurnComplete is taken for an ordinary event.
ReceiveAsksOnly(c) ==
  /\ feeder[c] = "recv" /\ queue[c] # <<>>
  /\ queue' = [queue EXCEPT ![c] = Tail(@)]
  /\ LET w == Head(queue[c])[2]
     IN IF Feeds(c, w) /\ Head(queue[c])[1] = "ask" THEN FeederTo(c, "wake", w)
        ELSE IF ~Feeds(c, w) /\ Head(queue[c])[1] = "complete"
        THEN FeederTo(c, "unhook", w) ELSE UNCHANGED <<feeder, held>>
  /\ UNCHANGED <<registry, session, calls, told, listed, mounting>>

\* Mutant of Receive: every TurnComplete unhooks its worker.
ReceiveUnchecked(c) ==
  /\ feeder[c] = "recv" /\ queue[c] # <<>>
  /\ queue' = [queue EXCEPT ![c] = Tail(@)]
  /\ LET w == Head(queue[c])[2]
     IN IF Head(queue[c])[1] = "complete" THEN FeederTo(c, "unhook", w)
        ELSE IF Feeds(c, w) THEN FeederTo(c, "wake", w) ELSE UNCHANGED <<feeder, held>>
  /\ UNCHANGED <<registry, session, calls, told, listed, mounting>>

Receive(c) ==
  /\ feeder[c] = "recv" /\ queue[c] # <<>>
  /\ queue' = [queue EXCEPT ![c] = Tail(@)]
  /\ LET w == Head(queue[c])[2]
     IN IF Feeds(c, w) THEN FeederTo(c, "wake", w)
        ELSE IF Head(queue[c])[1] = "complete" THEN FeederTo(c, "unhook", w)
        ELSE UNCHANGED <<feeder, held>>
  /\ UNCHANGED <<registry, session, calls, told, listed, mounting>>

\* The channel is full: the oldest event is overwritten, `Lagged` is skipped.
Lag(c) ==
  /\ "lag" \in Gestures /\ feeder[c] # "off" /\ queue[c] # <<>>
  /\ queue' = [queue EXCEPT ![c] = Tail(@)]
  /\ UNCHANGED <<registry, feeder, held, session, calls, told, listed, mounting>>

\* send_to the coordinator's session: the packet wakes it or is queued.
Wake(c) ==
  /\ feeder[c] = "wake"
  /\ FeederTo(c, "recv", Nobody)
  /\ UNCHANGED <<registry, queue, session, calls, told, listed, mounting>>

Unhook(c) ==
  /\ feeder[c] = "unhook"
  /\ Remove(c, held[c])
  /\ IF held[c] \in workers[c] THEN FeederTo(c, "bye", held[c])
     ELSE FeederTo(c, "recv", Nobody)
  /\ UNCHANGED <<feeding, queue, session, calls, told, listed, mounting>>

\* Mutant of Farewell: the packet is built but never sent.
FarewellUnsent(c) ==
  /\ feeder[c] = "bye"
  /\ FeederTo(c, "recv", Nobody)
  /\ UNCHANGED <<registry, queue, session, calls, told, listed, mounting>>

Farewell(c) ==
  /\ feeder[c] = "bye"
  /\ told' = Drop(told, c, held[c])
  /\ FeederTo(c, "recv", Nobody)
  /\ UNCHANGED <<registry, queue, session, calls, listed, mounting>>

-----------------------------------------------------------------------------
(* The IDE is restarted; a coordinator's cold mount rebuilds its fleet.    *)

Restart ==
  /\ "restart" \in Gestures /\ restarts < MaxRestarts
  /\ restarts' = restarts + 1
  /\ workers' = NoFleet /\ cut' = NoFleet /\ feeding' = {}
  /\ feeder' = [c \in Coordinators |-> "off"]
  /\ held' = [c \in Coordinators |-> Nobody]
  /\ queue' = [c \in Coordinators |-> <<>>]
  /\ turn' = [w \in Workers |-> IF Running(w) THEN "idle"
                                ELSE IF turn[w] = "made" THEN "gone" ELSE turn[w]]
  /\ tripped' = {} /\ owed' = {} /\ calls' = {}
  /\ stage' = [c \in Coordinators |-> "off"] /\ folded' = NoFleet
  /\ UNCHANGED <<told, listed>>

\* fold_worker_fleet over the records, and the mount of the session.
Open(c) ==
  /\ stage[c] = "off"
  /\ folded' = [folded EXCEPT ![c] = listed[c]]
  /\ stage' = [stage EXCEPT ![c] = IF listed[c] = {} THEN "on" ELSE "mounted"]
  /\ UNCHANGED <<registry, delivery, session, calls, told, listed, restarts>>

\* Mutant of Rebuild: the feeder is spawned whether it runs or not.
RebuildUnasked(c) ==
  /\ stage[c] = "mounted"
  /\ Register(c, folded[c])
  /\ stage' = [stage EXCEPT ![c] = "feed"]
  /\ UNCHANGED <<cut, delivery, session, calls, told, listed, folded, restarts>>

Rebuild(c) ==
  /\ stage[c] = "mounted"
  /\ Register(c, folded[c])
  /\ stage' = [stage EXCEPT ![c] = IF c \in feeding THEN "remount" ELSE "feed"]
  /\ UNCHANGED <<cut, delivery, session, calls, told, listed, folded, restarts>>

RebuildFeeder(c) ==
  /\ stage[c] = "feed"
  /\ Subscribe(c)
  /\ stage' = [stage EXCEPT ![c] = "remount"]
  /\ UNCHANGED <<registry, session, calls, told, listed, folded, restarts>>

\* Mutant of Remount: a worker that cannot be loaded stays in the fleet.
RemountGhosts(c) ==
  /\ stage[c] = "remount"
  /\ stage' = [stage EXCEPT ![c] = "on"]
  /\ folded' = [folded EXCEPT ![c] = {}]
  /\ UNCHANGED <<registry, delivery, session, calls, told, listed, restarts>>

\* A worker whose session cannot be loaded is unregistered.
Remount(c) ==
  /\ stage[c] = "remount"
  /\ LET lost == {w \in folded[c] : ~OnDisk(w)}
     IN /\ workers' = [workers EXCEPT ![c] = @ \ lost]
        /\ cut' = [cut EXCEPT ![c] = @ \ lost]
  /\ stage' = [stage EXCEPT ![c] = "on"]
  /\ folded' = [folded EXCEPT ![c] = {}]
  /\ UNCHANGED <<feeding, delivery, session, calls, told, listed, restarts>>

-----------------------------------------------------------------------------
CallStep(o) ==
  \/ Cut(o) \/ CutAgain(o) \/ StopTurn(o) \/ Probe(o) \/ Tell(o)
  \/ Unlink(o) \/ Forget(o)
  \/ LinkWorker(o) \/ SpawnFeeder(o) \/ Record(o) \/ Notice(o)
  \/ Seed(o) \/ SeedFails(o) \/ RetireCheck(o)
FeederStep(c) == Receive(c) \/ Wake(c) \/ Unhook(c) \/ Farewell(c)
OpenStep(c) == Rebuild(c) \/ RebuildFeeder(c) \/ Remount(c)
TurnStep(w) ==
  \/ BeginTurn(w) \/ AskUser(w) \/ Answer(w) \/ EndTurn(w) \/ TurnCompletes(w)
  \/ AbortWorker(w) \/ TurnDies(w)

Next ==
  \/ \E c \in Coordinators, w \in Workers :
       Disconnect(c, w) \/ Attach(c, w) \/ Spawn(c, w) \/ Retire(c, w)
  \/ \E o \in calls : CallStep(o)
  \/ \E w \in Workers : TurnStep(w)
  \/ \E c \in Coordinators : FeederStep(c) \/ Lag(c) \/ Open(c) \/ OpenStep(c)
  \/ Restart

Spec == Init /\ [][Next]_vars

\* Tasks and awaited appends make progress; a turn ends unless it waits for
\* an answer.  Nobody is obliged to click, to answer or to open a session.
Fairness ==
  /\ \A o \in Calls : WF_vars(o \in calls /\ CallStep(o))
  /\ \A c \in Coordinators : WF_vars(FeederStep(c)) /\ WF_vars(OpenStep(c))
  /\ \A w \in Workers : /\ WF_vars(TurnCompletes(w))
                        /\ WF_vars(EndTurn(w) \/ TurnDies(w))
FairSpec == Spec /\ Fairness

-----------------------------------------------------------------------------
(* Properties.                                                             *)

\* A worker is registered with one coordinator at most, as attach_worker
\* promises when it refuses a worker that is attached elsewhere.
SoleOwner ==
  \A w \in Workers : \A c, d \in Owners(w) : c = d

\* No mark that an earlier coordinator left vetoes the control tools (steer,
\* abort, merge...) on an attached worker: that is what purge_worker is for.
Controlled ==
  \A c, d \in Coordinators, w \in Workers : Feeds(c, w) => w \notin cut[d]

\* Operations that have been told, by `register`, to spawn c's feeder.
Starting(c) == {o \in calls : o.c = c /\ o.at \in {"a_feed", "s_feed"}}

\* However attaches, spawns and rebuilds overlap, a coordinator gets one feeder:
\* a second one would wake it twice for every event.
OneFeeder ==
  \A c \in Coordinators :
    /\ \A o, p \in Starting(c) : o = p
    /\ Starting(c) # {} => feeder[c] = "off" /\ stage[c] # "feed"
    /\ stage[c] = "feed" => feeder[c] = "off"

\* Nothing is in flight that still has to change c's fleet or its JSONL.
Quiet(c) == calls = {} /\ stage[c] = "on"

\* Once things are quiet, the fleet that a rebuild would read from the JSONL is
\* the live one: a restart neither resurrects a worker nor loses one (ADR 0065).
FleetOnDisk ==
  \A c \in Coordinators :
    Quiet(c) => {w \in listed[c] : OnDisk(w)} = workers[c] \ cut[c]

\* Every event has been handled and no disconnected worker still runs.
Settled(c) ==
  /\ Quiet(c) /\ queue[c] = <<>> /\ feeder[c] \in {"off", "recv"}
  /\ \A w \in cut[c] : ~Running(w) /\ w \notin owed

\* A coordinator that has heard everything there is to hear believes in its
\* actual fleet: it neither waits for a worker it has lost nor forgets one.
BeliefRight ==
  \A c \in Coordinators : Settled(c) => told[c] = workers[c] \ cut[c]

\* A coordinator is told once, not twice, that a worker has been disconnected.
HeardOnce ==
  [][/\ \A o \in calls : Tell(o) => o.w \in told[o.c]
     /\ \A c \in Coordinators : Farewell(c) => held[c] \in told[c]]_vars

\* The feeder takes out the links that disconnect_worker has cut, and no other.
FeederKeepsLinks ==
  [][\A c \in Coordinators : Unhook(c) => ~Feeds(c, held[c])]_vars

\* A worker is never retired while a turn of its runs.
RetiredIdle ==
  [][\A o \in calls : o.at = "r_unlink" /\ Unlink(o) => ~Running(o.w)]_vars

\* When an attached worker has ended a turn, its coordinator is woken, unless
\* the link is cut first.
WakeComes ==
  \A c \in Coordinators, w \in Workers :
    (w \in owed /\ Feeds(c, w) /\ feeder[c] # "off")
      ~> ((feeder[c] = "wake" /\ held[c] = w) \/ ~Feeds(c, w))

\* When a worker has been disconnected, its coordinator hears of it, unless the
\* worker's last turn is waiting for an answer.
FarewellComes ==
  \A c \in Coordinators, w \in Workers :
    w \in cut[c] ~> (w \notin told[c] \/ turn[w] = "ask")

\* The live links implement the ownership that ADR 0084 describes: a worker is
\* never taken over from a coordinator that it is attached to.
Holder(w) == IF \E c \in Coordinators : Feeds(c, w)
             THEN CHOOSE c \in Coordinators : Feeds(c, w) ELSE Nobody
Promise == INSTANCE Ownership WITH owner <- [w \in Workers |-> Holder(w)]
NeverStolen == Promise!Spec

\* A worker has one owner, who can control it.
LinksControlled == SoleOwner /\ Controlled

\* A coordinator hears of the end of its worker's turn and of the end of the
\* link, whichever way they overlap.
CoordinatorHears == WakeComes /\ FarewellComes
=============================================================================
