---------------------------- MODULE FleetProofs -----------------------------
(***************************************************************************)
(* What Fleet guarantees for any coordinators, workers and operations.     *)
(***************************************************************************)
EXTENDS Fleet, SequenceTheorems, FiniteSetTheorems, TLAPS

\* What typing needs besides itself: a feeder that is about to be spawned does
\* not run yet, and a coordinator without the flag has no feeder at all.
FeederInv ==
  /\ OneFeeder
  /\ \A c \in Coordinators :
       c \notin feeding => Starting(c) = {} /\ stage[c] # "feed" /\ feeder[c] = "off"

TypeInv == TypeOK /\ FeederInv

\* Where an operation can be once it has taken a step.
LEMMA CallType ==
  ASSUME TypeOK, NEW o \in calls, NEW at \in Places, Goto(o, at) \/ Return(o)
  PROVE  /\ calls' \in SUBSET Calls
         /\ o \in Calls /\ o.c \in Coordinators /\ o.w \in Workers
         /\ \A p \in calls' : p \in calls \/ p = Call(at, o.c, o.w)
  <1>1. o \in Calls
    BY DEF TypeOK
  <1>2. o.c \in Coordinators /\ o.w \in Workers
    BY <1>1 DEF Calls
  <1>3. Call(at, o.c, o.w) \in Calls
    BY <1>2 DEF Call, Calls
  <1> QED BY <1>1, <1>2, <1>3 DEF TypeOK, Goto, Return

\* An operation that does not go where feeders are spawned starts no feeder.
LEMMA StartingShrinks ==
  ASSUME TypeOK, NEW o \in calls, NEW at \in Places, Goto(o, at) \/ Return(o),
         at \notin {"a_feed", "s_feed"}
  PROVE  \A c \in Coordinators : Starting(c)' \subseteq Starting(c)
  BY CallType DEF Starting, Call

\* A fleet per coordinator stays one when a worker is added or dropped.
LEMMA AddDropType ==
  ASSUME NEW f \in [Coordinators -> SUBSET Workers],
         NEW c \in Coordinators, NEW w \in Workers
  PROVE  /\ Add(f, c, w) \in [Coordinators -> SUBSET Workers]
         /\ Drop(f, c, w) \in [Coordinators -> SUBSET Workers]
         /\ \A d \in Coordinators :
              /\ Add(f, c, w)[d] = IF d = c THEN f[d] \cup {w} ELSE f[d]
              /\ Drop(f, c, w)[d] = IF d = c THEN f[d] \ {w} ELSE f[d]
  BY DEF Add, Drop

\* A worker is marked as disconnected, or leaves the registry, mark included.
LEMMA MarkType ==
  ASSUME TypeOK, NEW c \in Coordinators, NEW w \in workers[c],
         cut' = Add(cut, c, w), workers' = workers
  PROVE  /\ workers' \in [Coordinators -> SUBSET Workers]
         /\ cut' \in [Coordinators -> SUBSET Workers]
         /\ \A d \in Coordinators : cut'[d] \subseteq workers'[d]
  BY DEF Add, TypeOK

LEMMA RemoveType ==
  ASSUME TypeOK, NEW c \in Coordinators, NEW w, Remove(c, w)
  PROVE  /\ workers' \in [Coordinators -> SUBSET Workers]
         /\ cut' \in [Coordinators -> SUBSET Workers]
         /\ \A d \in Coordinators : cut'[d] \subseteq workers'[d]
  BY DEF Remove, Drop, TypeOK

LEMMA InitType == Init => TypeInv
  BY FleetAssumption
  DEF Init, TypeInv, TypeOK, FeederInv, OneFeeder, Starting, NoFleet, Calls, Turns

\* Steps that touch neither the feeders nor the flags keep FeederInv.
LEMMA FeederFrame ==
  ASSUME FeederInv, UNCHANGED <<feeding, feeder, stage>>,
         \A c \in Coordinators : Starting(c)' \subseteq Starting(c)
  PROVE  FeederInv'
  BY DEF FeederInv, OneFeeder

\* disconnect_worker, and the steps it shares with retire_worker and rollback.
LEMMA DisconnectType ==
  ASSUME TypeInv, NEW o \in calls,
         \/ Cut(o) \/ CutAgain(o) \/ StopTurn(o) \/ Probe(o) \/ Tell(o)
         \/ Unlink(o) \/ Forget(o) \/ RetireCheck(o)
  PROVE  TypeInv'
  <1> USE DEF TypeInv
  <1>1. PICK at \in Places \ {"a_feed", "s_feed"} : Goto(o, at) \/ Return(o)
    BY DEF Cut, CutAgain, StopTurn, Probe, Tell, Unlink, Forget, RetireCheck, Places
  <1>2. /\ calls' \in SUBSET Calls /\ o.c \in Coordinators /\ o.w \in Workers
    BY <1>1, CallType
  <1>3. \A c \in Coordinators : Starting(c)' \subseteq Starting(c)
    BY <1>1, StartingShrinks
  <1>4. UNCHANGED <<feeding, delivery, turn, owed, mounting>>
    BY DEF Cut, CutAgain, StopTurn, Probe, Tell, Unlink, Forget, RetireCheck,
           registry, delivery, session, mounting
  <1>5. FeederInv'
    BY <1>3, <1>4, FeederFrame DEF delivery, mounting
  <1>6. tripped' \subseteq Workers
    BY <1>2 DEF Cut, CutAgain, StopTurn, Probe, Tell, Unlink, Forget, RetireCheck,
           session, TypeOK
  <1>7. /\ workers' \in [Coordinators -> SUBSET Workers]
        /\ cut' \in [Coordinators -> SUBSET Workers]
        /\ \A c \in Coordinators : cut'[c] \subseteq workers'[c]
    <2>1. CASE Cut(o)
      <3>1. cut' = Add(cut, o.c, o.w) /\ workers' = workers /\ o.w \in workers[o.c]
        BY <2>1 DEF Cut, Feeds
      <3> QED BY <1>2, <3>1, MarkType
    <2>2. CASE Unlink(o)
      BY <1>2, <2>2, RemoveType DEF Unlink
    <2>3. CASE UNCHANGED <<workers, cut>>
      BY <2>3 DEF TypeOK
    <2> QED BY <2>1, <2>2, <2>3
            DEF CutAgain, StopTurn, Probe, Tell, Forget, RetireCheck, registry
  <1>8. /\ told' \in [Coordinators -> SUBSET Workers]
        /\ listed' \in [Coordinators -> SUBSET Workers]
    <2>1. CASE Tell(o)
      BY <1>2, <2>1, AddDropType DEF Tell, TypeOK
    <2>2. CASE Forget(o)
      BY <1>2, <2>2, AddDropType DEF Forget, TypeOK
    <2>3. CASE UNCHANGED <<told, listed>>
      BY <2>3 DEF TypeOK
    <2> QED BY <2>1, <2>2, <2>3 DEF Cut, CutAgain, StopTurn, Probe, Unlink, RetireCheck
  <1> QED BY <1>2, <1>4, <1>5, <1>6, <1>7, <1>8 DEF TypeOK, delivery, mounting

\* attach_worker.
LEMMA AttachType ==
  ASSUME TypeInv, NEW o \in calls, LinkWorker(o) \/ Notice(o) \/ Record(o)
  PROVE  TypeInv'
  <1> USE DEF TypeInv
  <1>1. PICK at \in Places : Goto(o, at) \/ Return(o)
    BY DEF LinkWorker, Linked, Notice, Record, Places
  <1>2. /\ calls' \in SUBSET Calls /\ o.c \in Coordinators /\ o.w \in Workers
        /\ \A p \in calls' : p \in calls \/ p = Call(at, o.c, o.w)
    BY <1>1, CallType
  <1>3. CASE LinkWorker(o)
    <2>1. Goto(o, Linked(o)) /\ Linked(o) \in Places
      BY <1>3 DEF LinkWorker, Linked, Places
    <2>2. \A p \in calls' : p \in calls \/ p = Call(Linked(o), o.c, o.w)
      BY <2>1, CallType
    <2>3. \A c \in Coordinators :
            \/ Starting(c)' \subseteq Starting(c)
            \/ /\ c = o.c /\ c \notin feeding
               /\ Starting(c)' \subseteq {Call("a_feed", o.c, o.w)} \cup Starting(c)
      BY <2>2 DEF Starting, Linked, Call
    <2>4. feeding' = feeding \cup {o.c} /\ UNCHANGED <<feeder, stage>>
      BY <1>3 DEF LinkWorker, delivery, mounting
    <2>5. FeederInv'
      BY <2>3, <2>4, <1>2 DEF FeederInv, OneFeeder
    <2>6. TypeOK'
      BY <1>2, <1>3 DEF LinkWorker, TypeOK, delivery, session, mounting
    <2> QED BY <2>5, <2>6
  <1>4. CASE Notice(o) \/ Record(o)
    <2>1. PICK to \in Places \ {"a_feed", "s_feed"} : Goto(o, to) \/ Return(o)
      BY <1>4 DEF Notice, Record, Places
    <2>2. \A c \in Coordinators : Starting(c)' \subseteq Starting(c)
      BY <2>1, StartingShrinks
    <2>3. UNCHANGED <<registry, delivery, session, mounting>>
      BY <1>4 DEF Notice, Record
    <2>4. FeederInv'
      BY <2>2, <2>3, FeederFrame DEF registry, delivery, mounting
    <2>5. /\ told' \in [Coordinators -> SUBSET Workers]
          /\ listed' \in [Coordinators -> SUBSET Workers]
      <3>1. /\ Add(told, o.c, o.w) \in [Coordinators -> SUBSET Workers]
            /\ Add(listed, o.c, o.w) \in [Coordinators -> SUBSET Workers]
        BY <1>2, AddDropType DEF TypeOK
      <3> QED BY <1>4, <3>1 DEF Notice, Record, TypeOK
    <2> QED BY <1>2, <2>3, <2>4, <2>5 DEF TypeOK, registry, delivery, session, mounting
  <1> QED BY <1>3, <1>4

\* The caller that `register` has told to spawns the feeder.
LEMMA SpawnFeederType ==
  ASSUME TypeInv, NEW o \in calls, SpawnFeeder(o)
  PROVE  TypeInv'
  <1> USE DEF TypeInv
  <1>1. PICK at \in {"a_record", "s_record"} :
          Goto(o, at) /\ o.at \in {"a_feed", "s_feed"}
    BY DEF SpawnFeeder
  <1>2. /\ calls' \in SUBSET Calls /\ o.c \in Coordinators /\ o.w \in Workers
        /\ \A p \in calls' : p \in calls \/ p = Call(at, o.c, o.w)
    BY <1>1, CallType DEF Places
  <1>3. o \in Starting(o.c) /\ Call(at, o.c, o.w).at = at
    BY <1>1 DEF Starting, Call
  <1>4. Starting(o.c)' = {}
    BY <1>1, <1>2, <1>3 DEF Starting, FeederInv, OneFeeder, Goto, Call
  <1>5. \A c \in Coordinators : Starting(c)' \subseteq Starting(c)
    BY <1>1, <1>2, <1>3 DEF Starting
  <1>6. feeder[o.c] = "off" /\ held[o.c] = Nobody /\ stage[o.c] # "feed" /\ o.c \in feeding
    BY <1>2, <1>3 DEF FeederInv, OneFeeder, TypeOK
  <1>7. /\ feeder' = [feeder EXCEPT ![o.c] = "recv"]
        /\ UNCHANGED <<registry, held, queue, session, told, listed, mounting>>
    BY DEF SpawnFeeder, Subscribe
  <1>8. FeederInv'
    BY <1>2, <1>4, <1>5, <1>6, <1>7 DEF FeederInv, OneFeeder, TypeOK, registry, mounting
  <1>9. TypeOK'
    BY <1>2, <1>6, <1>7 DEF TypeOK, registry, session, mounting
  <1> QED BY <1>8, <1>9

\* spawn_worker.
LEMMA SpawnType ==
  ASSUME TypeInv, NEW c \in Coordinators, NEW w \in Workers, Spawn(c, w)
  PROVE  TypeInv'
  <1> USE DEF TypeInv
  <1> DEFINE at == IF c \in feeding THEN "s_record" ELSE "s_feed"
  <1>1. /\ calls' = calls \cup {Call(at, c, w)}
        /\ workers' = [workers EXCEPT ![c] = @ \cup {w}]
        /\ feeding' = feeding \cup {c}
        /\ turn' = [turn EXCEPT ![w] = "made"]
        /\ UNCHANGED <<cut, delivery, tripped, owed, told, listed, mounting>>
    BY DEF Spawn, Begin, Register
  <1>2. Call(at, c, w) \in Calls
    BY DEF Call, Calls, Places
  <1>3. \A d \in Coordinators :
          \/ Starting(d)' \subseteq Starting(d)
          \/ /\ d = c /\ d \notin feeding
             /\ Starting(d)' \subseteq {Call("s_feed", c, w)} \cup Starting(d)
    BY <1>1 DEF Starting, Call
  <1>4. FeederInv'
    <2>1. stage[c] # "feed"
      BY DEF Spawn, Ready
    <2> QED BY <1>1, <1>3, <2>1 DEF FeederInv, OneFeeder, delivery, mounting
  <1>5. TypeOK'
    BY <1>1, <1>2 DEF TypeOK, Turns, delivery, mounting
  <1> QED BY <1>4, <1>5

LEMMA SeedType ==
  ASSUME TypeInv, NEW o \in calls, Seed(o) \/ SeedFails(o)
  PROVE  TypeInv'
  <1> USE DEF TypeInv
  <1>1. PICK at \in Places \ {"a_feed", "s_feed"} : Goto(o, at) \/ Return(o)
    BY DEF Seed, SeedFails, Places
  <1>2. calls' \in SUBSET Calls /\ o.c \in Coordinators /\ o.w \in Workers
    BY <1>1, CallType
  <1>3. \A c \in Coordinators : Starting(c)' \subseteq Starting(c)
    BY <1>1, StartingShrinks
  <1>4. UNCHANGED <<registry, delivery, tripped, owed, listed, mounting>>
    BY DEF Seed, SeedFails
  <1>5. FeederInv'
    BY <1>3, <1>4, FeederFrame DEF registry, delivery, mounting
  <1>6. turn' \in [Workers -> Turns]
    BY <1>2 DEF Seed, SeedFails, TypeOK, Turns
  <1>7. told' \in [Coordinators -> SUBSET Workers]
    <2>1. Add(told, o.c, o.w) \in [Coordinators -> SUBSET Workers]
      BY <1>2, AddDropType DEF TypeOK
    <2> QED BY <2>1 DEF Seed, SeedFails, TypeOK
  <1> QED BY <1>2, <1>4, <1>5, <1>6, <1>7 DEF TypeOK, registry, delivery, mounting

\* The operations that only begin.
LEMMA BeginType ==
  ASSUME TypeInv, NEW c \in Coordinators, NEW w \in Workers,
         Disconnect(c, w) \/ Attach(c, w) \/ Retire(c, w)
  PROVE  TypeInv'
  <1> USE DEF TypeInv
  <1>1. PICK at \in {"cut", "link", "busy"} : calls' = calls \cup {Call(at, c, w)}
    BY DEF Disconnect, Attach, Retire, Begin
  <1>2. Call(at, c, w) \in Calls /\ Call(at, c, w).at = at
    BY DEF Call, Calls, Places
  <1>3. UNCHANGED <<registry, delivery, session, told, listed, mounting>>
    BY DEF Disconnect, Attach, Retire
  <1>4. \A d \in Coordinators : Starting(d)' \subseteq Starting(d)
    BY <1>1, <1>2 DEF Starting
  <1>5. FeederInv'
    BY <1>3, <1>4, FeederFrame DEF registry, delivery, mounting
  <1> QED BY <1>1, <1>2, <1>3, <1>5 DEF TypeOK, registry, delivery, session, mounting

\* A sequence of events stays one when an event is sent or taken.
LEMMA EmitType ==
  ASSUME TypeOK, NEW e \in Events, Emit(e)
  PROVE  queue' \in [Coordinators -> Seq(Events)]
  <1>1. \A c \in Coordinators : queue[c] \in Seq(Events)
    BY DEF TypeOK
  <1>2. \A c \in Coordinators : Append(queue[c], e) \in Seq(Events)
    BY <1>1
  <1> QED BY <1>1, <1>2 DEF Emit

LEMMA TakeType ==
  ASSUME TypeOK, NEW c \in Coordinators, queue[c] # <<>>,
         queue' = [queue EXCEPT ![c] = Tail(@)]
  PROVE  queue' \in [Coordinators -> Seq(Events)] /\ Head(queue[c])[2] \in Workers
  <1>1. queue[c] \in Seq(Events) /\ queue \in [Coordinators -> Seq(Events)]
    BY DEF TypeOK
  <1>2. Head(queue[c]) \in Events /\ Tail(queue[c]) \in Seq(Events)
    BY <1>1
  <1> QED BY <1>1, <1>2 DEF Events

\* A worker's turns.
LEMMA TurnType ==
  ASSUME TypeInv, NEW w \in Workers, TurnStep(w)
  PROVE  TypeInv'
  <1> USE DEF TypeInv
  <1>1. UNCHANGED <<registry, feeder, held, calls, told, listed, mounting>>
    BY DEF TurnStep, BeginTurn, AskUser, Answer, EndTurn, TurnCompletes,
           AbortWorker, TurnDies, delivery
  <1>2. queue' \in [Coordinators -> Seq(Events)]
    <2>1. CASE UNCHANGED queue
      BY <2>1 DEF TypeOK
    <2>2. CASE AskUser(w) \/ TurnCompletes(w)
      <3>1. <<"ask", w>> \in Events /\ <<"complete", w>> \in Events
        BY DEF Events
      <3> QED BY <2>2, <3>1, EmitType DEF AskUser, TurnCompletes
    <2> QED BY <2>1, <2>2
            DEF TurnStep, BeginTurn, Answer, EndTurn, AbortWorker, TurnDies, delivery
  <1>3. /\ turn' \in [Workers -> Turns] /\ tripped' \subseteq Workers
        /\ owed' \subseteq Workers
    <2>1. turn' \in [Workers -> Turns]
      BY ZenonT(40) DEF TurnStep, BeginTurn, AskUser, Answer, EndTurn, TurnCompletes,
             AbortWorker, TurnDies, TypeOK, Turns
    <2>2. tripped' \subseteq Workers
      BY DEF TurnStep, BeginTurn, AskUser, Answer, EndTurn, TurnCompletes,
             AbortWorker, TurnDies, TypeOK
    <2>3. owed' \subseteq Workers
      BY DEF TurnStep, BeginTurn, AskUser, Answer, EndTurn, TurnCompletes,
             AbortWorker, TurnDies, TypeOK
    <2> QED BY <2>1, <2>2, <2>3
  <1>4. \A c \in Coordinators : Starting(c)' \subseteq Starting(c)
    BY <1>1 DEF Starting
  <1>5. FeederInv'
    BY <1>1, <1>4, FeederFrame DEF registry, mounting
  <1> QED BY <1>1, <1>2, <1>3, <1>5 DEF TypeOK, registry, mounting

\* The dispatch feeder: it runs only where no feeder is about to be spawned.
LEMMA FeederType ==
  ASSUME TypeInv, NEW c \in Coordinators, FeederStep(c) \/ Lag(c)
  PROVE  TypeInv'
  <1> USE DEF TypeInv
  <1>1. feeder[c] # "off" /\ UNCHANGED <<feeding, session, calls, listed, mounting>>
    BY DEF FeederStep, Lag, Receive, Wake, Unhook, Farewell, registry
  <1>2. \A d \in Coordinators : d # c => feeder'[d] = feeder[d]
    BY DEF FeederStep, Lag, Receive, Wake, Unhook, Farewell, FeederTo, TypeOK
  <1>3. /\ queue' \in [Coordinators -> Seq(Events)]
        /\ feeder' \in [Coordinators -> {"off", "recv", "wake", "unhook", "bye"}]
        /\ held' \in [Coordinators -> Workers \cup {Nobody}]
        /\ \A d \in Coordinators :
             feeder'[d] \in {"wake", "unhook", "bye"} <=> held'[d] # Nobody
    <2>1. CASE Receive(c)
      <3>1. queue' \in [Coordinators -> Seq(Events)] /\ Head(queue[c])[2] \in Workers
        BY <2>1, TakeType DEF Receive
      <3>2. Head(queue[c])[2] # Nobody
        BY <3>1, FleetAssumption
      <3> QED BY ZenonT(40), <2>1, <3>1, <3>2 DEF Receive, FeederTo, TypeOK
    <2>2. CASE Lag(c)
      BY <2>2, TakeType DEF Lag, TypeOK
    <2>3. CASE Wake(c) \/ Unhook(c) \/ Farewell(c)
      BY <2>3 DEF Wake, Unhook, Farewell, FeederTo, TypeOK
    <2> QED BY <2>1, <2>2, <2>3 DEF FeederStep
  <1>4. /\ workers' \in [Coordinators -> SUBSET Workers]
        /\ cut' \in [Coordinators -> SUBSET Workers]
        /\ \A d \in Coordinators : cut'[d] \subseteq workers'[d]
    <2>1. CASE Unhook(c)
      BY <2>1 DEF Unhook, Remove, Drop, TypeOK
    <2> QED BY <2>1 DEF FeederStep, Lag, Receive, Wake, Farewell, registry, TypeOK
  <1>5. told' \in [Coordinators -> SUBSET Workers]
    <2>1. CASE Farewell(c)
      BY <2>1 DEF Farewell, Drop, TypeOK
    <2> QED BY <2>1 DEF FeederStep, Lag, Receive, Wake, Unhook, TypeOK
  <1>6. feeder'[c] # "off"
    BY <1>1 DEF FeederStep, Lag, Receive, Wake, Unhook, Farewell, FeederTo, TypeOK
  <1>7. FeederInv'
    BY <1>1, <1>2, <1>6 DEF FeederInv, OneFeeder, Starting, mounting
  <1> QED BY <1>1, <1>3, <1>4, <1>5, <1>7 DEF TypeOK, session, mounting

\* A restart, and the rebuild of a coordinator's fleet.
LEMMA RestartType ==
  ASSUME TypeInv, Restart
  PROVE  TypeInv'
  <1>1. TypeOK'
    BY FleetAssumption DEF TypeInv, TypeOK, Restart, NoFleet, Turns, Calls
  <1>2. FeederInv'
    BY DEF Restart, FeederInv, OneFeeder, Starting
  <1> QED BY <1>1, <1>2 DEF TypeInv

LEMMA OpenType ==
  ASSUME TypeInv, NEW c \in Coordinators, Open(c) \/ OpenStep(c)
  PROVE  TypeInv'
  <1> USE DEF TypeInv
  <1>1. /\ UNCHANGED <<session, calls, told, listed, restarts, queue, held>>
        /\ \A d \in Coordinators : Starting(d)' = Starting(d)
    BY DEF Open, OpenStep, Rebuild, RebuildFeeder, Remount, Subscribe, delivery, Starting
  <1>2. CASE Open(c)
    BY <1>1, <1>2 DEF Open, TypeOK, FeederInv, OneFeeder, session, registry, delivery
  <1>3. CASE Rebuild(c)
    BY <1>1, <1>3 DEF Rebuild, Register, TypeOK, FeederInv, OneFeeder, session, delivery
  <1>4. CASE RebuildFeeder(c)
    <2>1. feeder[c] = "off" /\ held[c] = Nobody /\ Starting(c) = {} /\ c \in feeding
      BY <1>4 DEF RebuildFeeder, FeederInv, OneFeeder, TypeOK
    <2>2. TypeOK'
      BY <1>1, <1>4, <2>1 DEF RebuildFeeder, Subscribe, TypeOK, session, registry
    <2>3. FeederInv'
      BY <1>1, <1>4, <2>1 DEF RebuildFeeder, Subscribe, TypeOK, FeederInv, OneFeeder, registry
    <2> QED BY <2>2, <2>3
  <1>5. CASE Remount(c)
    BY <1>1, <1>5 DEF Remount, TypeOK, FeederInv, OneFeeder, session, delivery
  <1> QED BY <1>2, <1>3, <1>4, <1>5 DEF OpenStep

LEMMA CallStepType ==
  ASSUME TypeInv, NEW o \in calls, CallStep(o)
  PROVE  TypeInv'
  BY DisconnectType, AttachType, SpawnFeederType, SeedType DEF CallStep

LEMMA StepType ==
  ASSUME TypeInv, [Next]_vars
  PROVE  TypeInv'
  <1>1. CASE UNCHANGED vars
    BY <1>1 DEF vars, registry, delivery, session, mounting, TypeInv, TypeOK,
                FeederInv, OneFeeder, Starting
  <1>2. CASE Next
    BY <1>2, BeginType, SpawnType, CallStepType, TurnType, FeederType, OpenType,
       RestartType DEF Next
  <1> QED BY <1>1, <1>2

\* Types, and one feeder per coordinator, in every reachable state.
LEMMA TypeInvariant == Spec => []TypeInv
  <1>1. Init => TypeInv
    BY InitType
  <1>2. TypeInv /\ [Next]_vars => TypeInv'
    BY StepType
  <1> QED BY <1>1, <1>2, PTL DEF Spec

\* Every reachable state of the fleet is well typed; in particular a mark of a
\* disconnected worker never outlives its link, and the feeder holds a worker
\* exactly while it handles one of its events.
THEOREM FleetTypeCorrect == Spec => []TypeOK
  <1>1. TypeInv => TypeOK
    BY DEF TypeInv
  <1> QED BY <1>1, TypeInvariant, PTL

\* However spawns, attaches, rebuilds and restarts overlap, `register` tells
\* one caller at most to spawn a coordinator's feeder.
THEOREM FeederSpawnedOnce == Spec => []OneFeeder
  <1>1. TypeInv => OneFeeder
    BY DEF TypeInv, FeederInv
  <1> QED BY <1>1, TypeInvariant, PTL

-----------------------------------------------------------------------------
(* One owner, as long as the registry lives.                               *)

\* Why no link is made twice: only attach takes a worker that may have an owner,
\* and purges it; a spawn takes a session that nobody can have attached yet,
\* because no operation is about a session that is not born.
OwnInv ==
  /\ SoleOwner
  /\ \A o \in calls : turn[o.w] # "unborn"
  /\ \A w \in Workers : turn[w] = "unborn" => Owners(w) = {}
  /\ \A c \in Coordinators : stage[c] = "on"

\* Steps that register nobody and bring no new worker into an operation.
LEMMA OwnFrame ==
  ASSUME OwnInv,
         \A c \in Coordinators : workers'[c] \subseteq workers[c],
         \A w \in Workers : turn'[w] = "unborn" => turn[w] = "unborn",
         \A p \in calls' : p.w \in Workers /\ \E o \in calls : p.w = o.w,
         UNCHANGED stage
  PROVE  OwnInv'
  BY DEF OwnInv, SoleOwner, Owners

\* Only Spawn touches a session that is not born, and no step unmakes one.
LEMMA BornStays ==
  ASSUME TypeInv, [Next]_vars, NEW w \in Workers
  PROVE  turn'[w] = "unborn" => turn[w] = "unborn"
  <1> USE DEF TypeInv, TypeOK
  <1>1. ASSUME NEW o \in calls, CallStep(o)
        PROVE  turn'[w] = "unborn" => turn[w] = "unborn"
    BY <1>1 DEF CallStep, Cut, CutAgain, StopTurn, Probe, Tell, Unlink, Forget,
                LinkWorker, SpawnFeeder, Record, Notice, Seed, SeedFails, RetireCheck,
                session
  <1>2. ASSUME NEW v \in Workers, TurnStep(v)
        PROVE  turn'[w] = "unborn" => turn[w] = "unborn"
    BY <1>2 DEF TurnStep, BeginTurn, AskUser, Answer, EndTurn, TurnCompletes,
                AbortWorker, TurnDies
  <1>3. ASSUME NEW c \in Coordinators, FeederStep(c) \/ Lag(c) \/ Open(c) \/ OpenStep(c)
        PROVE  UNCHANGED turn
    BY <1>3 DEF FeederStep, Receive, Wake, Unhook, Farewell, Lag, Open, OpenStep,
                Rebuild, RebuildFeeder, Remount, session
  <1>4. ASSUME NEW c \in Coordinators, NEW v \in Workers,
               Disconnect(c, v) \/ Attach(c, v) \/ Spawn(c, v) \/ Retire(c, v)
        PROVE  turn'[w] = "unborn" => turn[w] = "unborn"
    BY <1>4 DEF Disconnect, Attach, Spawn, Retire, session
  <1>5. ASSUME Restart PROVE turn'[w] = "unborn" => turn[w] = "unborn"
    BY <1>5 DEF Restart
  <1> QED BY <1>1, <1>2, <1>3, <1>4, <1>5 DEF Next, vars, session

LEMMA OwnBegin ==
  ASSUME TypeInv, OwnInv, NEW c \in Coordinators, NEW w \in Workers,
         Disconnect(c, w) \/ Attach(c, w) \/ Retire(c, w)
  PROVE  OwnInv'
  <1>1. turn[w] # "unborn"
    BY DEF Disconnect, Attach, Retire, OnDisk, OwnInv, Owners
  <1>2. PICK at : calls' = calls \cup {Call(at, c, w)}
    BY DEF Disconnect, Attach, Retire, Begin
  <1>3. UNCHANGED <<workers, turn, stage>>
    BY DEF Disconnect, Attach, Retire, registry, session, mounting
  <1>4. Call(at, c, w).w = w
    BY DEF Call
  <1> QED BY <1>1, <1>2, <1>3, <1>4 DEF OwnInv, SoleOwner, Owners

LEMMA OwnSpawn ==
  ASSUME TypeInv, OwnInv, NEW c \in Coordinators, NEW w \in Workers, Spawn(c, w)
  PROVE  OwnInv'
  <1>1. PICK at : calls' = calls \cup {Call(at, c, w)}
    BY DEF Spawn, Begin
  <1>2. /\ workers' = [workers EXCEPT ![c] = @ \cup {w}]
        /\ turn' = [turn EXCEPT ![w] = "made"]
        /\ UNCHANGED stage /\ turn[w] = "unborn"
    BY DEF Spawn, Register, mounting
  <1>3. Call(at, c, w).w = w
    BY DEF Call
  <1>4. \A o \in calls : o.w \in Workers
    BY DEF TypeInv, TypeOK, Calls
  <1> QED BY <1>1, <1>2, <1>3, <1>4 DEF OwnInv, SoleOwner, Owners, TypeInv, TypeOK

\* The steps of an operation keep to its worker.
LEMMA CallKeepsWorker ==
  ASSUME TypeOK, NEW o \in calls, CallStep(o)
  PROVE  \A p \in calls' : p.w \in Workers /\ \E q \in calls : p.w = q.w
  <1>1. \E at \in Places : Goto(o, at) \/ Return(o)
    BY DEF CallStep, Cut, CutAgain, StopTurn, Probe, Tell, Unlink, Forget, LinkWorker,
           Linked, SpawnFeeder, Record, Notice, Seed, SeedFails, RetireCheck, Places
  <1>2. \A p \in calls : p.w \in Workers
    BY DEF TypeOK, Calls
  <1> QED BY <1>1, <1>2 DEF Goto, Return, Call

LEMMA OwnCall ==
  ASSUME TypeInv, OwnInv, "restart" \notin Gestures, NEW o \in calls, CallStep(o)
  PROVE  OwnInv'
  <1>1. \A p \in calls' : p.w \in Workers /\ \E q \in calls : p.w = q.w
    BY CallKeepsWorker DEF TypeInv
  <1>2. \A w \in Workers : turn'[w] = "unborn" => turn[w] = "unborn"
    BY BornStays DEF Next
  <1>3. UNCHANGED stage
    BY DEF CallStep, Cut, CutAgain, StopTurn, Probe, Tell, Unlink, Forget,
           LinkWorker, SpawnFeeder, Record, Notice, Seed, SeedFails, RetireCheck, mounting
  <1>4. o.c \in Coordinators /\ o.w \in Workers
    BY DEF TypeInv, TypeOK, Calls
  <1>5. CASE LinkWorker(o)
    <2>1. \A d \in Coordinators :
            workers'[d] = IF d = o.c THEN workers[d] \cup {o.w} ELSE workers[d] \ {o.w}
      BY <1>5 DEF LinkWorker
    <2>2. turn[o.w] # "unborn" /\ UNCHANGED turn
      BY <1>5 DEF OwnInv, LinkWorker, session
    <2>3. ASSUME NEW c \in Coordinators, NEW w \in Workers, w \in workers'[c]
          PROVE  IF w = o.w THEN c = o.c ELSE w \in workers[c]
      <3>1. CASE c = o.c
        BY <2>1, <2>3, <3>1
      <3>2. CASE c # o.c
        <4>1. workers'[c] = workers[c] \ {o.w}
          BY <2>1, <3>2
        <4> QED BY <2>3, <4>1
      <3> QED BY <3>1, <3>2
    <2>4. ASSUME NEW w \in Workers PROVE \A c, d \in Owners(w)' : c = d
      BY <2>3 DEF OwnInv, SoleOwner, Owners
    <2>6. ASSUME NEW w \in Workers, turn'[w] = "unborn" PROVE Owners(w)' = {}
      <3>1. w # o.w /\ Owners(w) = {}
        BY <2>2, <2>6 DEF OwnInv
      <3> QED BY <2>3, <3>1 DEF Owners
    <2>5. \A p \in calls' : turn'[p.w] # "unborn"
      BY <1>1, <2>2 DEF OwnInv
    <2> QED BY <1>3, <2>4, <2>5, <2>6 DEF OwnInv, SoleOwner
  <1>6. CASE ~LinkWorker(o)
    <2>1. Unlink(o) => \A c \in Coordinators : workers'[c] \subseteq workers[c]
      BY <1>4 DEF Unlink, Remove, Drop, TypeInv, TypeOK
    <2>2. ~Unlink(o) => UNCHANGED workers
      BY <1>6
         DEF CallStep, Cut, CutAgain, StopTurn, Probe, Tell, Forget, SpawnFeeder,
             Record, Notice, Seed, SeedFails, RetireCheck, registry
    <2> QED BY <1>1, <1>2, <1>3, <2>1, <2>2, OwnFrame
  <1> QED BY <1>5, <1>6

LEMMA OwnStep ==
  ASSUME TypeInv, OwnInv, "restart" \notin Gestures, [Next]_vars
  PROVE  OwnInv'
  <1> \A p \in calls : p.w \in Workers
    BY DEF TypeInv, TypeOK, Calls
  <1>1. \A w \in Workers : turn'[w] = "unborn" => turn[w] = "unborn"
    BY BornStays
  <1>2. ASSUME NEW c \in Coordinators PROVE ~Open(c) /\ ~OpenStep(c)
    BY DEF OwnInv, Open, OpenStep, Rebuild, RebuildFeeder, Remount
  <1>3. ASSUME NEW w \in Workers, TurnStep(w) PROVE OwnInv'
    <2>1. UNCHANGED <<workers, calls, stage>>
      BY <1>3 DEF TurnStep, BeginTurn, AskUser, Answer, EndTurn, TurnCompletes,
                  AbortWorker, TurnDies, registry, mounting
    <2> QED BY <1>1, <2>1, OwnFrame
  <1>4. ASSUME NEW c \in Coordinators, FeederStep(c) \/ Lag(c) PROVE OwnInv'
    <2>1. UNCHANGED <<calls, stage>>
      BY <1>4 DEF FeederStep, Receive, Wake, Unhook, Farewell, Lag, mounting
    <2>2. \A d \in Coordinators : workers'[d] \subseteq workers[d]
      BY ZenonT(40), <1>4 DEF FeederStep, Receive, Wake, Unhook, Farewell, Lag, registry, Remove,
                  Drop, TypeInv, TypeOK
    <2> QED BY <1>1, <2>1, <2>2, OwnFrame
  <1>5. CASE UNCHANGED vars
    BY <1>1, <1>5, OwnFrame DEF vars, registry, mounting
  <1>6. ~Restart
    BY DEF Restart
  <1> QED BY <1>2, <1>3, <1>4, <1>5, <1>6, OwnBegin, OwnSpawn, OwnCall DEF Next

\* While the IDE runs, however clients, coordinators and feeders interleave, a
\* worker is registered with one coordinator at most, and no stale mark vetoes
\* the control tools on a worker that is attached.
THEOREM OneOwner == "restart" \notin Gestures => (Spec => []LinksControlled)
  <1> SUFFICES ASSUME "restart" \notin Gestures
               PROVE  Spec => []LinksControlled
    OBVIOUS
  <1>1. Init => OwnInv
    BY DEF Init, OwnInv, SoleOwner, Owners, NoFleet
  <1>2. TypeInv /\ OwnInv /\ [Next]_vars => OwnInv'
    BY OwnStep
  <1>3. TypeInv /\ OwnInv => LinksControlled
    BY DEF LinksControlled, OwnInv, SoleOwner, Owners, Controlled, Feeds, TypeInv, TypeOK
  <1> QED BY <1>1, <1>2, <1>3, TypeInvariant, PTL DEF Spec

-----------------------------------------------------------------------------
(* Links.                                                                  *)

LEMMA CallNames ==
  ASSUME TypeOK, NEW o \in calls
  PROVE  o \in Calls /\ o.c \in Coordinators /\ o.w \in Workers /\ o.at \in Places
  BY DEF TypeOK, Calls

\* The steps that touch the registry's links, and how.
LEMMA LinkSteps ==
  ASSUME TypeInv, [Next]_vars
  PROVE  \/ UNCHANGED <<workers, cut>>
         \/ \E o \in calls : Cut(o) \/ Unlink(o) \/ LinkWorker(o)
         \/ \E c \in Coordinators, w \in Workers : Spawn(c, w)
         \/ \E c \in Coordinators : Unhook(c) \/ Rebuild(c) \/ Remount(c)
         \/ Restart
  <1>1. ASSUME NEW o \in calls, CallStep(o)
        PROVE  UNCHANGED <<workers, cut>> \/ Cut(o) \/ Unlink(o) \/ LinkWorker(o)
    BY <1>1 DEF CallStep, CutAgain, StopTurn, Probe, Tell, Forget, SpawnFeeder, Record, Notice,
                Seed, SeedFails, RetireCheck, registry
  <1>2. ASSUME NEW w \in Workers, TurnStep(w) PROVE UNCHANGED <<workers, cut>>
    BY <1>2 DEF TurnStep, BeginTurn, AskUser, Answer, EndTurn, TurnCompletes, AbortWorker,
                TurnDies, registry
  <1>3. ASSUME NEW c \in Coordinators, FeederStep(c) \/ Lag(c) \/ Open(c) \/ OpenStep(c)
        PROVE  UNCHANGED <<workers, cut>> \/ Unhook(c) \/ Rebuild(c) \/ Remount(c)
    BY <1>3 DEF FeederStep, Receive, Wake, Farewell, Lag, Open, OpenStep, RebuildFeeder, registry
  <1>4. ASSUME NEW c \in Coordinators, NEW w \in Workers, Disconnect(c, w) \/ Attach(c, w) \/ Retire(c, w)
        PROVE  UNCHANGED <<workers, cut>>
    BY <1>4 DEF Disconnect, Attach, Retire, registry
  <1>5. CASE UNCHANGED vars
    BY <1>5 DEF vars, registry
  <1> QED BY <1>1, <1>2, <1>3, <1>4, <1>5 DEF Next

\* A live link is made by a spawn, by an attach and by a rebuild only.
LEMMA NewLink ==
  ASSUME TypeInv, [Next]_vars, NEW c \in Coordinators, NEW w \in Workers,
         ~Feeds(c, w), Feeds(c, w)'
  PROVE  \/ Spawn(c, w) \/ Rebuild(c)
         \/ \E o \in calls : LinkWorker(o) /\ o.c = c /\ o.w = w
  <1>1. workers \in [Coordinators -> SUBSET Workers] /\ cut \in [Coordinators -> SUBSET Workers]
    BY DEF TypeInv, TypeOK
  <1>2. ~UNCHANGED <<workers, cut>>
    BY DEF Feeds
  <1>3. ASSUME NEW o \in calls, Cut(o) \/ Unlink(o) PROVE FALSE
    <2>1. o.c \in Coordinators
      BY CallNames DEF TypeInv
    <2> QED BY <1>1, <1>3, <2>1 DEF Cut, Unlink, Remove, Add, Drop, Feeds
  <1>4. ASSUME NEW o \in calls, LinkWorker(o) PROVE o.c = c /\ o.w = w
    BY <1>1, <1>4 DEF LinkWorker, Feeds
  <1>5. ASSUME NEW d \in Coordinators, NEW v \in Workers, Spawn(d, v) PROVE d = c /\ v = w
    BY <1>1, <1>5 DEF Spawn, Register, Feeds
  <1>6. ASSUME NEW d \in Coordinators, Unhook(d) \/ Remount(d) PROVE FALSE
    BY <1>1, <1>6 DEF Unhook, Remount, Remove, Drop, Feeds
  <1>7. ASSUME NEW d \in Coordinators, Rebuild(d) PROVE d = c
    BY <1>1, <1>7 DEF Rebuild, Register, Feeds
  <1>8. ~Restart
    BY DEF Restart, NoFleet, Feeds
  <1> QED BY <1>2, <1>3, <1>4, <1>5, <1>6, <1>7, <1>8, LinkSteps

-----------------------------------------------------------------------------
(* The implementation of Ownership.                                        *)

LEMMA HolderIs ==
  ASSUME SoleOwner, NEW c \in Coordinators, NEW w \in Workers, Feeds(c, w)
  PROVE  Holder(w) = c
  <1>1. \A d \in Coordinators : Feeds(d, w) => d = c
    BY DEF SoleOwner, Owners, Feeds
  <1> QED BY <1>1 DEF Holder

LEMMA HolderNone ==
  ASSUME NEW w \in Workers, \A c \in Coordinators : ~Feeds(c, w)
  PROVE  Holder(w) = Nobody
  BY DEF Holder


LEMMA HolderNext ==
  ASSUME SoleOwner', NEW c \in Coordinators, NEW w \in Workers, Feeds(c, w)'
  PROVE  Holder(w)' = c
  <1>1. \A d \in Coordinators : Feeds(d, w)' => d = c
    BY DEF SoleOwner, Owners, Feeds
  <1> QED BY <1>1 DEF Holder

LEMMA HolderNoneNext ==
  ASSUME NEW w \in Workers, \A c \in Coordinators : ~Feeds(c, w)'
  PROVE  Holder(w)' = Nobody
  BY DEF Holder

\* A worker whose live links are as before has the same owner.
LEMMA HolderStays ==
  ASSUME SoleOwner, SoleOwner', NEW w \in Workers,
         \A c \in Coordinators : Feeds(c, w)' <=> Feeds(c, w)
  PROVE  Holder(w)' = Holder(w)
  <1>1. CASE \E c \in Coordinators : Feeds(c, w)
    <2>1. PICK c \in Coordinators : Feeds(c, w)
      BY <1>1
    <2>2. Holder(w) = c
      BY <2>1, HolderIs
    <2>3. Holder(w)' = c
      BY <2>1, HolderNext
    <2> QED BY <2>2, <2>3
  <1>2. CASE \A c \in Coordinators : ~Feeds(c, w)
    BY <1>2, HolderNone, HolderNoneNext
  <1> QED BY <1>1, <1>2

\* An attach that has been let through still finds the worker free, because no
\* other attach can be on its way and a spawned worker is a new one.
StealInv ==
  /\ IsFiniteSet(calls)
  /\ \A o, p \in Attaching : o = p
  /\ \A o \in calls : o.at = "link" => \A c \in Coordinators : ~Feeds(c, o.w)

\* The registry keeps its promise of ownership at a step that changes the links
\* of one worker: it makes one that nobody owned feed, or lets go of it.
LEMMA TakeStep ==
  ASSUME SoleOwner, SoleOwner', NEW c \in Coordinators, NEW w \in Workers,
         \A d \in Coordinators : ~Feeds(d, w), Feeds(c, w)',
         \A d \in Coordinators, v \in Workers : v # w => (Feeds(d, v)' <=> Feeds(d, v))
  PROVE  Promise!Next
  <1> DEFINE F == [v \in Workers |-> Holder(v)]
  <1>1. Holder(w) = Nobody
    BY HolderNone
  <1>2. Holder(w)' = c
    BY HolderNext
  <1>3. \A v \in Workers : v # w => Holder(v)' = Holder(v)
    BY HolderStays
  <1>4. F' = [v \in Workers |-> IF v \in {w} THEN c ELSE F[v]]
    BY <1>2, <1>3
  <1>5. Promise!Take(c, {w})
    BY <1>1, <1>4 DEF Promise!Take
  <1>6. {w} \in SUBSET Workers
    OBVIOUS
  <1> QED BY <1>5, <1>6 DEF Promise!Next

LEMMA LetGoStep ==
  ASSUME SoleOwner, SoleOwner', NEW c \in Coordinators, NEW w \in Workers,
         Feeds(c, w), ~Feeds(c, w)',
         \A d \in Coordinators : Feeds(d, w)' => Feeds(d, w),
         \A d \in Coordinators, v \in Workers : v # w => (Feeds(d, v)' <=> Feeds(d, v))
  PROVE  Promise!Next
  <1> DEFINE F == [v \in Workers |-> Holder(v)]
  <1>1. Holder(w) = c /\ c # Nobody
    BY HolderIs, FleetAssumption
  <1>2. \A d \in Coordinators : Feeds(d, w) => d = c
    BY DEF SoleOwner, Owners, Feeds
  <1>3. Holder(w)' = Nobody
    BY <1>2, HolderNoneNext
  <1>4. \A v \in Workers : v # w => Holder(v)' = Holder(v)
    BY HolderStays
  <1>5. F' = [v \in Workers |-> IF v \in {w} THEN Nobody ELSE F[v]]
    BY <1>3, <1>4
  <1>6. Promise!LetGo({w})
    BY <1>5 DEF Promise!LetGo
  <1>7. {w} \in SUBSET Workers
    OBVIOUS
  <1> QED BY <1>6, <1>7 DEF Promise!Next

LEMMA SameLinks ==
  ASSUME SoleOwner, SoleOwner',
         \A d \in Coordinators, v \in Workers : Feeds(d, v)' <=> Feeds(d, v)
  PROVE  UNCHANGED [w \in Workers |-> Holder(w)]
  <1>1. \A v \in Workers : Holder(v)' = Holder(v)
    BY HolderStays
  <1> QED BY <1>1

\* A step that drops one link, if it was a live one.
LEMMA DropStep ==
  ASSUME SoleOwner, SoleOwner', NEW c \in Coordinators, NEW w \in Workers,
         ~Feeds(c, w)',
         \A d \in Coordinators, v \in Workers :
           d # c \/ v # w => (Feeds(d, v)' <=> Feeds(d, v))
  PROVE  Promise!Next \/ UNCHANGED [v \in Workers |-> Holder(v)]
  <1>1. CASE Feeds(c, w)
    BY <1>1, LetGoStep
  <1>2. CASE ~Feeds(c, w)
    <2>1. \A d \in Coordinators, v \in Workers : Feeds(d, v)' <=> Feeds(d, v)
      BY <1>2
    <2> QED BY <2>1, SameLinks
  <1> QED BY <1>1, <1>2

LEMMA StealCalls ==
  ASSUME StealInv, MaxAttaches <= 1, TypeInv, [Next]_vars, "restart" \notin Gestures
  PROVE  /\ IsFiniteSet(calls')
         /\ \A o, p \in Attaching' : o = p
         /\ \A o \in calls' : o.at = "link" =>
              \/ o \in calls
              \/ \E c \in Coordinators, w \in Workers : Attach(c, w) /\ o.w = w
  <1> USE DEF StealInv
  <1>1. CASE UNCHANGED calls
    BY <1>1 DEF Attaching
  <1>2. ASSUME NEW o \in calls, NEW at \in Places, Goto(o, at) \/ Return(o),
               o \in Attaching \/ at \notin {"link", "a_feed", "a_record", "notice"},
               at # "link"
        PROVE  /\ IsFiniteSet(calls') /\ \A p, q \in Attaching' : p = q
               /\ \A p \in calls' : p.at = "link" => p \in calls
    <2>1. IsFiniteSet(calls \ {o}) /\ IsFiniteSet((calls \ {o}) \cup {Call(at, o.c, o.w)})
      BY FS_RemoveElement, FS_AddElement
    <2>2. IsFiniteSet(calls')
      BY <1>2, <2>1 DEF Goto, Return
    <2>3. Call(at, o.c, o.w).at = at
      BY DEF Call
    <2>4. \A p \in calls' : (p \in calls /\ p # o) \/ p = Call(at, o.c, o.w)
      BY <1>2 DEF Goto, Return
    <2>5. \A p, q \in Attaching' : p = q
      BY <1>2, <2>3, <2>4 DEF Attaching
    <2> QED BY <1>2, <2>2, <2>3, <2>4, <2>5
  <1>3. ASSUME NEW o \in calls, CallStep(o)
        PROVE  /\ IsFiniteSet(calls') /\ \A p, q \in Attaching' : p = q
               /\ \A p \in calls' : p.at = "link" => p \in calls
    <2>1. CASE LinkWorker(o)
      <3>1. Goto(o, Linked(o)) /\ Linked(o) \in Places \ {"link"} /\ o \in Attaching
        BY <2>1 DEF LinkWorker, Linked, Places, Attaching
      <3> QED BY <3>1, <1>2
    <2>2. CASE SpawnFeeder(o)
      <3>1. \/ Goto(o, "a_record") /\ o \in Attaching
            \/ Goto(o, "s_record")
        BY <2>2 DEF SpawnFeeder, Attaching
      <3>2. "a_record" \in Places /\ "s_record" \in Places
        BY DEF Places
      <3> QED BY <3>1, <3>2, <1>2
    <2>3. CASE Record(o)
      <3>1. \/ Goto(o, "notice") /\ o \in Attaching
            \/ Goto(o, "seed")
        BY <2>3 DEF Record, Attaching
      <3>2. "notice" \in Places /\ "seed" \in Places
        BY DEF Places
      <3> QED BY <3>1, <3>2, <1>2
    <2>4. ASSUME ~LinkWorker(o), ~SpawnFeeder(o), ~Record(o)
          PROVE  \E at \in Places \ {"link", "a_feed", "a_record", "notice"} :
                   Goto(o, at) \/ Return(o)
      BY <1>3, <2>4 DEF CallStep, Cut, CutAgain, StopTurn, Probe, Tell, Unlink, Forget,
           Notice, Seed, SeedFails, RetireCheck, Places
    <2> QED BY <2>1, <2>2, <2>3, <2>4, <1>2
  <1>4. ASSUME NEW c \in Coordinators, NEW w \in Workers,
               Disconnect(c, w) \/ Attach(c, w) \/ Spawn(c, w) \/ Retire(c, w)
        PROVE  /\ IsFiniteSet(calls') /\ \A p, q \in Attaching' : p = q
               /\ \A p \in calls' : p.at = "link" => p \in calls \/ (Attach(c, w) /\ p.w = w)
    <2>1. PICK at : /\ calls' = calls \cup {Call(at, c, w)}
                    /\ Attach(c, w) \/ at \notin {"link", "a_feed", "a_record", "notice"}
      BY <1>4 DEF Disconnect, Attach, Spawn, Retire, Begin
    <2>2. IsFiniteSet(calls')
      BY <2>1, FS_AddElement
    <2>3. Call(at, c, w).at = at /\ Call(at, c, w).w = w
      BY DEF Call
    <2>4. Attach(c, w) => Attaching = {}
      <3>1. Attaching \subseteq calls
        BY DEF Attaching
      <3>2. IsFiniteSet(Attaching)
        BY <3>1, FS_Subset
      <3>3. Cardinality(Attaching) \in Nat
        BY <3>2, FS_CardinalityType
      <3>4. Attach(c, w) => Cardinality(Attaching) = 0
        BY <3>3, FleetAssumption DEF Attach
      <3> QED BY <3>2, <3>4, FS_EmptySet
    <2>5. \A p \in Attaching' : p \in Attaching \/ (Attach(c, w) /\ p = Call(at, c, w))
      BY <2>1, <2>3 DEF Attaching
    <2>6. \A p, q \in Attaching' : p = q
      BY <2>4, <2>5
    <2> QED BY <2>1, <2>2, <2>3, <2>6
  <1>5. ASSUME ~UNCHANGED calls
        PROVE  \/ \E o \in calls : CallStep(o)
               \/ \E c \in Coordinators, w \in Workers :
                    Disconnect(c, w) \/ Attach(c, w) \/ Spawn(c, w) \/ Retire(c, w)
    BY <1>5 DEF Next, vars, TurnStep, BeginTurn, AskUser, Answer, EndTurn, TurnCompletes,
         AbortWorker, TurnDies, FeederStep, Receive, Wake, Unhook, Farewell, Lag, Open,
         OpenStep, Rebuild, RebuildFeeder, Remount, Restart
  <1> QED BY <1>1, <1>3, <1>4, <1>5

LEMMA StealStep ==
  ASSUME TypeInv, OwnInv, StealInv, MaxAttaches <= 1, "restart" \notin Gestures,
         [Next]_vars
  PROVE  StealInv'
  <1>1. /\ IsFiniteSet(calls') /\ \A o, p \in Attaching' : o = p
        /\ \A o \in calls' : o.at = "link" =>
              \/ o \in calls
              \/ \E c \in Coordinators, w \in Workers : Attach(c, w) /\ o.w = w
    BY StealCalls
  <1>2. ASSUME NEW o \in calls', o.at = "link", NEW c \in Coordinators, Feeds(c, o.w)'
        PROVE  FALSE
    <2>1. CASE o \in calls
      <3>1. o.w \in Workers /\ turn[o.w] # "unborn" /\ ~Feeds(c, o.w)
        BY <1>2, <2>1, CallNames DEF TypeInv, OwnInv, StealInv
      <3>2. PICK w \in Workers : w = o.w
        BY <3>1
      <3>3. ~Feeds(c, w) /\ Feeds(c, w)'
        BY <1>2, <3>1, <3>2
      <3>4. ~Spawn(c, w) /\ ~Rebuild(c)
        BY <3>1, <3>2 DEF Spawn, Rebuild, OwnInv
      <3>5. PICK p \in calls : LinkWorker(p) /\ p.c = c /\ p.w = w
        BY <3>3, <3>4, NewLink
      <3>6. p = o
        BY <2>1, <1>2, <3>5 DEF LinkWorker, StealInv, Attaching
      <3>7. calls' = (calls \ {o}) \cup {Call(Linked(o), o.c, o.w)} /\ Linked(o) # "link"
        BY <3>5, <3>6 DEF LinkWorker, Goto, Linked
      <3>8. Call(Linked(o), o.c, o.w).at = Linked(o)
        BY DEF Call
      <3> QED BY <3>7, <3>8, <1>2
    <2>2. ASSUME NEW d \in Coordinators, NEW w \in Workers, Attach(d, w), o.w = w
          PROVE  FALSE
      <3>1. UNCHANGED <<workers, cut>>
        BY <2>2 DEF Attach, registry
      <3>2. Feeds(c, w)
        BY <1>2, <2>2, <3>1 DEF Feeds
      <3> QED BY <2>2, <3>2 DEF Attach, Feeds, OwnInv, SoleOwner, Owners
    <2> QED BY <1>1, <1>2, <2>1, <2>2
  <1> QED BY <1>1, <1>2 DEF StealInv

\* Every step of the fleet is a step of Ownership, or changes no owner.
LEMMA PromiseStep ==
  ASSUME TypeInv, OwnInv, OwnInv', StealInv, "restart" \notin Gestures, [Next]_vars
  PROVE  Promise!Next \/ UNCHANGED [w \in Workers |-> Holder(w)]
  <1>1. SoleOwner /\ SoleOwner'
    BY DEF OwnInv
  <1>2. workers \in [Coordinators -> SUBSET Workers] /\ cut \in [Coordinators -> SUBSET Workers]
    BY DEF TypeInv, TypeOK
  <1>3. CASE UNCHANGED <<workers, cut>>
    <2>1. \A d \in Coordinators, v \in Workers : Feeds(d, v)' <=> Feeds(d, v)
      BY <1>3 DEF Feeds
    <2> QED BY <1>1, <2>1, SameLinks
  <1>4. ASSUME NEW o \in calls, Cut(o) \/ Unlink(o)
        PROVE  Promise!Next \/ UNCHANGED [w \in Workers |-> Holder(w)]
    <2>1. PICK c \in Coordinators, w \in Workers : c = o.c /\ w = o.w
      BY CallNames DEF TypeInv
    <2>2. ~Feeds(c, w)'
      BY <1>2, <1>4, <2>1 DEF Cut, Unlink, Remove, Add, Drop, Feeds
    <2>3. \A d \in Coordinators, v \in Workers :
            d # c \/ v # w => (Feeds(d, v)' <=> Feeds(d, v))
      BY <1>2, <1>4, <2>1 DEF Cut, Unlink, Remove, Add, Drop, Feeds
    <2> QED BY <1>1, <2>2, <2>3, DropStep
  <1>5. ASSUME NEW c \in Coordinators, Unhook(c)
        PROVE  Promise!Next \/ UNCHANGED [w \in Workers |-> Holder(w)]
    <2>1. held[c] \in Workers
      BY <1>5 DEF Unhook, TypeInv, TypeOK
    <2>2. PICK w \in Workers : w = held[c]
      BY <2>1
    <2>3. ~Feeds(c, w)'
      BY <1>2, <1>5, <2>2 DEF Unhook, Remove, Drop, Feeds
    <2>4. \A d \in Coordinators, v \in Workers :
            d # c \/ v # w => (Feeds(d, v)' <=> Feeds(d, v))
      BY <1>2, <1>5, <2>2 DEF Unhook, Remove, Drop, Feeds
    <2> QED BY <1>1, <2>3, <2>4, DropStep
  <1>6. ASSUME NEW c \in Coordinators, NEW w \in Workers, Spawn(c, w)
        PROVE  Promise!Next
    <2>1. \A d \in Coordinators : ~Feeds(d, w)
      BY <1>6 DEF Spawn, OwnInv, Owners, Feeds
    <2>2. Feeds(c, w)'
      <3>1. w \notin cut[c]
        BY <1>2, <1>6 DEF Spawn, OwnInv, Owners, TypeInv, TypeOK
      <3> QED BY <1>2, <1>6, <3>1 DEF Spawn, Register, Feeds
    <2>3. \A d \in Coordinators, v \in Workers : v # w => (Feeds(d, v)' <=> Feeds(d, v))
      BY <1>2, <1>6 DEF Spawn, Register, Feeds
    <2> QED BY <1>1, <2>1, <2>2, <2>3, TakeStep
  <1>7. ASSUME NEW o \in calls, LinkWorker(o) PROVE Promise!Next
    <2>1. PICK c \in Coordinators, w \in Workers : c = o.c /\ w = o.w
      BY CallNames DEF TypeInv
    <2>2. \A d \in Coordinators : ~Feeds(d, w)
      BY <1>7, <2>1 DEF LinkWorker, StealInv
    <2>3. Feeds(c, w)'
      BY <1>2, <1>7, <2>1 DEF LinkWorker, Feeds
    <2>4. \A d \in Coordinators, v \in Workers : v # w => (Feeds(d, v)' <=> Feeds(d, v))
      BY <1>2, <1>7, <2>1 DEF LinkWorker, Feeds
    <2> QED BY <1>1, <2>2, <2>3, <2>4, TakeStep
  <1>8. ASSUME NEW c \in Coordinators PROVE ~Rebuild(c) /\ ~Remount(c)
    BY DEF OwnInv, Rebuild, Remount
  <1>9. \/ UNCHANGED <<workers, cut>>
        \/ \E o \in calls : Cut(o) \/ Unlink(o) \/ LinkWorker(o)
        \/ \E c \in Coordinators, w \in Workers : Spawn(c, w)
        \/ \E c \in Coordinators : Unhook(c)
    BY <1>8, LinkSteps DEF Restart
  <1> QED BY <1>3, <1>4, <1>5, <1>6, <1>7, <1>9

\* While the IDE runs and attaches come one at a time, the live links implement
\* Ownership: no coordinator loses a worker to another that takes it over, which
\* is what attach_worker's refusal is for (ADR 0084).
THEOREM LinksKeepPromise ==
  MaxAttaches <= 1 /\ "restart" \notin Gestures => (Spec => NeverStolen)
  <1> SUFFICES ASSUME MaxAttaches <= 1, "restart" \notin Gestures
               PROVE  Spec => NeverStolen
    OBVIOUS
  <1>1. Init => TypeInv /\ OwnInv /\ StealInv
    <2>1. IsFiniteSet({})
      BY FS_EmptySet
    <2> QED BY <2>1, InitType
            DEF Init, OwnInv, SoleOwner, Owners, NoFleet, StealInv, Attaching
  <1>2. TypeInv /\ OwnInv /\ StealInv /\ [Next]_vars => (TypeInv /\ OwnInv /\ StealInv)'
    BY StepType, OwnStep, StealStep
  <1>3. Init => Promise!Init
    BY HolderNone DEF Init, NoFleet, Feeds, Promise!Init
  <1>4. /\ TypeInv /\ OwnInv /\ StealInv /\ [Next]_vars
        /\ (TypeInv /\ OwnInv /\ StealInv)'
        => [Promise!Next]_[w \in Workers |-> Holder(w)]
    BY PromiseStep
  <1> QED BY <1>1, <1>2, <1>3, <1>4, PTL DEF Spec, NeverStolen, Promise!Spec

-----------------------------------------------------------------------------
(* The feeder takes out no live link.                                      *)

\* A worker that an event or an operation speaks of has been born, so that no
\* spawn links it; and while a fleet is still to be rebuilt there is no feeder.
KeepInv ==
  /\ Attaching = {}
  /\ \A c \in Coordinators : stage[c] \in {"off", "mounted"} => c \notin feeding
  /\ \A w \in owed : turn[w] # "unborn"
  /\ \A c \in Coordinators : \A i \in 1..Len(queue[c]) : turn[queue[c][i][2]] # "unborn"
  /\ \A c \in Coordinators : held[c] # Nobody => turn[held[c]] # "unborn"
  /\ \A c \in Coordinators : feeder[c] \in {"unhook", "bye"} => ~Feeds(c, held[c])

LEMMA NoAttach ==
  ASSUME TypeInv, KeepInv, "attach" \notin Gestures, [Next]_vars
  PROVE  Attaching' = {}
  <1>1. ASSUME NEW o \in calls, CallStep(o) PROVE Attaching' = {}
    <2>1. o.at \notin {"link", "a_feed", "a_record", "notice"}
      BY DEF KeepInv, Attaching
    <2>2. \E at \in Places \ {"link", "a_feed", "a_record", "notice"} :
            Goto(o, at) \/ Return(o)
      BY <1>1, <2>1 DEF CallStep, Cut, CutAgain, StopTurn, Probe, Tell, Unlink, Forget,
         LinkWorker, SpawnFeeder, Record, Notice, Seed, SeedFails, RetireCheck, Places
    <2> QED BY <2>2 DEF Goto, Return, Call, Attaching, KeepInv
  <1>2. ASSUME NEW c \in Coordinators, NEW w \in Workers,
               Disconnect(c, w) \/ Attach(c, w) \/ Spawn(c, w) \/ Retire(c, w)
        PROVE  Attaching' = {}
    <2>1. \E at : /\ calls' = calls \cup {Call(at, c, w)}
                  /\ at \notin {"link", "a_feed", "a_record", "notice"}
      BY <1>2 DEF Disconnect, Attach, Spawn, Retire, Begin
    <2> QED BY <2>1 DEF Call, Attaching, KeepInv
  <1>3. UNCHANGED calls => Attaching' = {}
    BY DEF Attaching, KeepInv
  <1>4. calls' = {} => Attaching' = {}
    BY DEF Attaching
  <1> QED BY <1>1, <1>2, <1>3, <1>4
          DEF Next, vars, TurnStep, BeginTurn, AskUser, Answer, EndTurn, TurnCompletes,
              AbortWorker, TurnDies, FeederStep, Receive, Wake, Unhook, Farewell, Lag, Open,
              OpenStep, Rebuild, RebuildFeeder, Remount, Restart

LEMMA NoLinkWorker ==
  ASSUME KeepInv, NEW o \in calls
  PROVE  ~LinkWorker(o) /\ o.at \notin {"a_feed", "a_record", "notice"}
  BY DEF KeepInv, Attaching, LinkWorker

\* The coordinator's flag is set by the rebuild, or by a spawn once that is over.
LEMMA FlagWaits ==
  ASSUME TypeInv, KeepInv, [Next]_vars, NEW c \in Coordinators,
         stage'[c] \in {"off", "mounted"}
  PROVE  c \notin feeding'
  <1> USE DEF KeepInv, TypeInv, TypeOK
  <1>1. ASSUME NEW o \in calls, CallStep(o) PROVE UNCHANGED <<feeding, stage>>
    BY <1>1, NoLinkWorker
       DEF CallStep, Cut, CutAgain, StopTurn, Probe, Tell, Unlink, Forget, SpawnFeeder,
           Record, Notice, Seed, SeedFails, RetireCheck, registry, mounting
  <1>2. ASSUME NEW w \in Workers, TurnStep(w) PROVE UNCHANGED <<feeding, stage>>
    BY <1>2 DEF TurnStep, BeginTurn, AskUser, Answer, EndTurn, TurnCompletes, AbortWorker,
                TurnDies, registry, mounting
  <1>3. ASSUME NEW d \in Coordinators, NEW w \in Workers,
               Disconnect(d, w) \/ Attach(d, w) \/ Retire(d, w)
        PROVE  UNCHANGED <<feeding, stage>>
    BY <1>3 DEF Disconnect, Attach, Retire, registry, mounting
  <1>4. ASSUME NEW d \in Coordinators, NEW w \in Workers, Spawn(d, w)
        PROVE  c \notin feeding'
    BY <1>4 DEF Spawn, Ready, Register, mounting
  <1>5. ASSUME NEW d \in Coordinators, FeederStep(d) \/ Lag(d)
        PROVE  UNCHANGED <<feeding, stage>>
    BY <1>5 DEF FeederStep, Receive, Wake, Unhook, Farewell, Lag, registry, mounting
  <1>6. ASSUME NEW d \in Coordinators, Open(d) \/ OpenStep(d)
        PROVE  c \notin feeding'
    BY <1>6 DEF Open, OpenStep, Rebuild, RebuildFeeder, Remount, Register, registry
  <1>7. CASE Restart
    BY <1>7 DEF Restart
  <1>8. CASE UNCHANGED vars
    BY <1>8 DEF vars, registry, mounting
  <1> QED BY <1>1, <1>2, <1>3, <1>4, <1>5, <1>6, <1>7, <1>8 DEF Next

\* The steps that send, take or drop events.
LEMMA EventSteps ==
  ASSUME TypeInv, [Next]_vars
  PROVE  \/ UNCHANGED <<held, queue, owed>>
         \/ \E w \in Workers : AskUser(w) \/ EndTurn(w) \/ TurnCompletes(w)
         \/ \E c \in Coordinators : FeederStep(c) \/ Lag(c)
         \/ Restart
  <1>1. ASSUME NEW o \in calls, CallStep(o) PROVE UNCHANGED <<held, queue, owed>>
    BY <1>1 DEF CallStep, Cut, CutAgain, StopTurn, Probe, Tell, Unlink, Forget, LinkWorker,
         SpawnFeeder, Subscribe, Record, Notice, Seed, SeedFails, RetireCheck, delivery, session
  <1>2. ASSUME NEW w \in Workers, TurnStep(w)
        PROVE  UNCHANGED <<held, queue, owed>> \/ AskUser(w) \/ EndTurn(w) \/ TurnCompletes(w)
    BY <1>2 DEF TurnStep, BeginTurn, Answer, AbortWorker, TurnDies, delivery
  <1>3. ASSUME NEW c \in Coordinators, NEW w \in Workers,
               Disconnect(c, w) \/ Attach(c, w) \/ Spawn(c, w) \/ Retire(c, w)
        PROVE  UNCHANGED <<held, queue, owed>>
    BY <1>3 DEF Disconnect, Attach, Retire, Spawn, delivery, session
  <1>4. ASSUME NEW c \in Coordinators, Open(c) \/ OpenStep(c)
        PROVE  UNCHANGED <<held, queue, owed>>
    BY <1>4 DEF Open, OpenStep, Rebuild, RebuildFeeder, Remount, Subscribe, delivery, session
  <1>5. CASE UNCHANGED vars
    BY <1>5 DEF vars, delivery, session
  <1> QED BY <1>1, <1>2, <1>3, <1>4, <1>5 DEF Next

\* Where an event in a queue comes from, and an event that is taken.
LEMMA Emitted ==
  ASSUME TypeInv, NEW e \in Events, Emit(e), NEW c \in Coordinators,
         NEW i \in 1..Len(queue'[c])
  PROVE  \/ i \in 1..Len(queue[c]) /\ queue'[c][i] = queue[c][i]
         \/ queue'[c][i] = e
  <1>1. queue[c] \in Seq(Events)
    BY DEF TypeInv, TypeOK
  <1>2. queue'[c] = queue[c] \/ queue'[c] = Append(queue[c], e)
    BY DEF Emit
  <1>3. CASE queue'[c] = Append(queue[c], e)
    BY <1>1, <1>3, AppendProperties
  <1> QED BY <1>2, <1>3

LEMMA Taken ==
  ASSUME TypeInv, NEW d \in Coordinators, queue[d] # <<>>,
         queue' = [queue EXCEPT ![d] = Tail(@)], NEW c \in Coordinators,
         NEW i \in 1..Len(queue'[c])
  PROVE  \E j \in 1..Len(queue[c]) : queue'[c][i] = queue[c][j]
  <1>1. queue[c] \in Seq(Events) /\ queue \in [Coordinators -> Seq(Events)]
    BY DEF TypeInv, TypeOK
  <1>2. CASE c # d
    BY <1>1, <1>2
  <1>3. CASE c = d
    <2>1. queue'[c] = Tail(queue[c]) /\ queue[c] # <<>>
      BY <1>1, <1>3
    <2>2. i + 1 \in 1..Len(queue[c]) /\ queue'[c][i] = queue[c][i + 1]
      BY <1>1, <2>1, HeadTailProperties
    <2> QED BY <2>2
  <1> QED BY <1>2, <1>3

\* An event, and a feeder that handles it, names a worker that has been born.
LEMMA EventsBorn ==
  ASSUME TypeInv, KeepInv, [Next]_vars
  PROVE  /\ \A w \in owed' : turn'[w] # "unborn"
         /\ \A c \in Coordinators :
              /\ \A i \in 1..Len(queue'[c]) : turn'[queue'[c][i][2]] # "unborn"
              /\ held'[c] # Nobody => turn'[held'[c]] # "unborn"
  <1>1. \A w \in Workers : turn[w] # "unborn" => turn'[w] # "unborn"
    BY BornStays
  <1>2. /\ owed \subseteq Workers
        /\ \A c \in Coordinators : queue[c] \in Seq(Events)
        /\ held \in [Coordinators -> Workers \cup {Nobody}]
    BY DEF TypeInv, TypeOK
  <1>3. \A c \in Coordinators : \A i \in 1..Len(queue[c]) : queue[c][i][2] \in Workers
    BY <1>2 DEF Events
  <1>4. CASE UNCHANGED <<held, queue, owed>>
    BY <1>1, <1>2, <1>3, <1>4 DEF KeepInv
  <1>5. ASSUME NEW w \in Workers, AskUser(w) \/ TurnCompletes(w)
        PROVE  /\ \A v \in owed' : turn'[v] # "unborn"
               /\ \A c \in Coordinators :
                    /\ \A i \in 1..Len(queue'[c]) : turn'[queue'[c][i][2]] # "unborn"
                    /\ held'[c] # Nobody => turn'[held'[c]] # "unborn"
    <2>1. turn[w] # "unborn" /\ UNCHANGED held /\ owed' \subseteq owed
      BY <1>5 DEF AskUser, TurnCompletes, KeepInv
    <2>2. PICK e \in Events : Emit(e) /\ e[2] = w
      <3>1. <<"ask", w>> \in Events /\ <<"complete", w>> \in Events
        BY DEF Events
      <3> QED BY <1>5, <3>1 DEF AskUser, TurnCompletes
    <2>3. \A c \in Coordinators : \A i \in 1..Len(queue'[c]) :
            \/ i \in 1..Len(queue[c]) /\ queue'[c][i] = queue[c][i]
            \/ queue'[c][i] = e
      BY <2>2, Emitted
    <2> QED BY <1>1, <1>2, <1>3, <2>1, <2>2, <2>3 DEF KeepInv
  <1>6. ASSUME NEW w \in Workers, EndTurn(w)
        PROVE  /\ \A v \in owed' : turn'[v] # "unborn"
               /\ \A c \in Coordinators :
                    /\ \A i \in 1..Len(queue'[c]) : turn'[queue'[c][i][2]] # "unborn"
                    /\ held'[c] # Nobody => turn'[held'[c]] # "unborn"
    <2>1. turn[w] # "unborn" /\ UNCHANGED <<held, queue>> /\ owed' = owed \cup {w}
      BY <1>6 DEF EndTurn, delivery
    <2> QED BY <1>1, <1>2, <1>3, <2>1 DEF KeepInv
  <1>7. ASSUME NEW d \in Coordinators, FeederStep(d) \/ Lag(d)
        PROVE  /\ \A v \in owed' : turn'[v] # "unborn"
               /\ \A c \in Coordinators :
                    /\ \A i \in 1..Len(queue'[c]) : turn'[queue'[c][i][2]] # "unborn"
                    /\ held'[c] # Nobody => turn'[held'[c]] # "unborn"
    <2>1. UNCHANGED <<turn, owed>>
      BY <1>7 DEF FeederStep, Receive, Wake, Unhook, Farewell, Lag, session
    <2>2. \A c \in Coordinators : \A i \in 1..Len(queue'[c]) :
            \E j \in 1..Len(queue[c]) : queue'[c][i] = queue[c][j]
      <3>1. CASE Receive(d) \/ Lag(d)
        BY <3>1, Taken DEF Receive, Lag
      <3>2. CASE UNCHANGED queue
        BY <3>2
      <3> QED BY <1>7, <3>1, <3>2 DEF FeederStep, Wake, Unhook, Farewell
    <2>3. \A c \in Coordinators :
            \/ held'[c] \in {held[c], Nobody}
            \/ queue[c] # <<>> /\ held'[c] = Head(queue[c])[2]
      BY <1>2, <1>7 DEF FeederStep, Receive, Wake, Unhook, Farewell, Lag, FeederTo
    <2>4. \A c \in Coordinators : queue[c] # <<>> =>
            1 \in 1..Len(queue[c]) /\ Head(queue[c]) = queue[c][1]
      BY <1>2, HeadTailProperties
    <2>5. ASSUME NEW c \in Coordinators, held'[c] # Nobody
          PROVE  turn[held'[c]] # "unborn"
      BY <2>3, <2>4, <2>5 DEF KeepInv
    <2> QED BY SMTT(30), <2>1, <2>2, <2>5 DEF KeepInv
  <1>8. CASE Restart
    BY <1>8 DEF Restart
  <1> QED BY <1>4, <1>5, <1>6, <1>7, <1>8, EventSteps

\* What a feeder does next.
LEMMA FeederMoves ==
  ASSUME TypeInv, [Next]_vars, NEW c \in Coordinators
  PROVE  \/ feeder'[c] = feeder[c] /\ held'[c] = held[c]
         \/ feeder'[c] \in {"recv", "off"}
         \/ Receive(c) \/ Unhook(c)
  <1>1. /\ feeder \in [Coordinators -> {"off", "recv", "wake", "unhook", "bye"}]
        /\ held \in [Coordinators -> Workers \cup {Nobody}]
    BY DEF TypeInv, TypeOK
  <1>2. ASSUME NEW o \in calls, CallStep(o)
        PROVE  (feeder'[c] = feeder[c] /\ held'[c] = held[c]) \/ feeder'[c] = "recv"
    <2>1. o.c \in Coordinators
      BY CallNames DEF TypeInv
    <2> QED BY <1>1, <1>2, <2>1
        DEF CallStep, Cut, CutAgain, StopTurn, Probe, Tell, Unlink, Forget, LinkWorker,
            SpawnFeeder, Subscribe, Record, Notice, Seed, SeedFails, RetireCheck, delivery
  <1>3. ASSUME NEW w \in Workers, TurnStep(w) PROVE UNCHANGED <<feeder, held>>
    BY <1>3 DEF TurnStep, BeginTurn, AskUser, Answer, EndTurn, TurnCompletes, AbortWorker,
         TurnDies, delivery
  <1>4. ASSUME NEW d \in Coordinators, NEW w \in Workers,
               Disconnect(d, w) \/ Attach(d, w) \/ Spawn(d, w) \/ Retire(d, w)
        PROVE  UNCHANGED <<feeder, held>>
    BY <1>4 DEF Disconnect, Attach, Retire, Spawn, delivery
  <1>5. ASSUME NEW d \in Coordinators, FeederStep(d) \/ Lag(d)
        PROVE  \/ feeder'[c] = feeder[c] /\ held'[c] = held[c]
               \/ feeder'[c] = "recv"
               \/ Receive(c) \/ Unhook(c)
    BY <1>1, <1>5 DEF FeederStep, Receive, Wake, Unhook, Farewell, Lag, FeederTo
  <1>6. ASSUME NEW d \in Coordinators, Open(d) \/ OpenStep(d)
        PROVE  (feeder'[c] = feeder[c] /\ held'[c] = held[c]) \/ feeder'[c] = "recv"
    BY <1>1, <1>6 DEF Open, OpenStep, Rebuild, RebuildFeeder, Remount, Subscribe, delivery
  <1>7. Restart => feeder'[c] = "off"
    BY DEF Restart
  <1>8. CASE UNCHANGED vars
    BY <1>8 DEF vars, delivery
  <1> QED BY <1>2, <1>3, <1>4, <1>5, <1>6, <1>7, <1>8 DEF Next

\* No spawn and no rebuild brings back the link that the feeder found cut.
LEMMA UnhookFinds ==
  ASSUME TypeInv, KeepInv, [Next]_vars, NEW c \in Coordinators, NEW w \in Workers,
         feeder'[c] \in {"unhook", "bye"}, held'[c] = w
  PROVE  ~Feeds(c, w)'
  <1>1. w # Nobody
    BY FleetAssumption
  <1>2. CASE feeder'[c] = feeder[c] /\ held'[c] = held[c]
    <2>1. ~Feeds(c, w) /\ turn[w] # "unborn"
      BY <1>1, <1>2 DEF KeepInv
    <2>2. ~Spawn(c, w)
      BY <2>1 DEF Spawn
    <2>3. ~Rebuild(c)
      BY <1>2 DEF Rebuild, KeepInv, TypeInv, FeederInv
    <2>4. \A o \in calls : ~LinkWorker(o)
      BY NoLinkWorker
    <2> QED BY <2>1, <2>2, <2>3, <2>4, NewLink
  <1>3. CASE Receive(c)
    BY <1>3 DEF Receive, FeederTo, TypeInv, TypeOK, registry, Feeds, KeepInv
  <1>4. CASE Unhook(c)
    <2>1. feeder[c] = "unhook" /\ held[c] = w
      BY <1>4 DEF Unhook, FeederTo, TypeInv, TypeOK
    <2> QED BY <1>4, <2>1 DEF Unhook, Remove, Drop, Feeds, TypeInv, TypeOK
  <1> QED BY <1>2, <1>3, <1>4, FeederMoves

LEMMA KeepStep ==
  ASSUME TypeInv, TypeInv', KeepInv, "attach" \notin Gestures, [Next]_vars
  PROVE  KeepInv'
  <1>1. Attaching' = {}
    BY NoAttach
  <1>2. \A c \in Coordinators : stage'[c] \in {"off", "mounted"} => c \notin feeding'
    BY FlagWaits
  <1>3. /\ \A w \in owed' : turn'[w] # "unborn"
        /\ \A c \in Coordinators :
             /\ \A i \in 1..Len(queue'[c]) : turn'[queue'[c][i][2]] # "unborn"
             /\ held'[c] # Nobody => turn'[held'[c]] # "unborn"
    BY EventsBorn
  <1>4. ASSUME NEW c \in Coordinators, feeder'[c] \in {"unhook", "bye"}
        PROVE  ~Feeds(c, held[c])'
    <2>1. held'[c] \in Workers
      BY <1>4 DEF TypeInv, TypeOK
    <2>2. PICK w \in Workers : w = held'[c]
      BY <2>1
    <2>3. ~Feeds(c, w)'
      BY <1>4, <2>2, UnhookFinds
    <2> QED BY <2>2, <2>3 DEF Feeds
  <1> QED BY <1>1, <1>2, <1>3, <1>4 DEF KeepInv

\* As long as nobody attaches a worker, and across restarts, the feeder takes out
\* only links that disconnect_worker has cut: the spawns, the rebuild and the
\* rollback that run while it handles a TurnComplete never revive one.
THEOREM UnhookKeepsLinks == "attach" \notin Gestures => (Spec => FeederKeepsLinks)
  <1> SUFFICES ASSUME "attach" \notin Gestures PROVE Spec => FeederKeepsLinks
    OBVIOUS
  <1>1. Init => TypeInv /\ KeepInv
    BY InitType DEF Init, KeepInv, Attaching
  <1>2. TypeInv /\ KeepInv /\ [Next]_vars => (TypeInv /\ KeepInv)'
    BY StepType, KeepStep
  <1>3. TypeInv /\ KeepInv /\ [Next]_vars
        => [\A c \in Coordinators : Unhook(c) => ~Feeds(c, held[c])]_vars
    BY DEF KeepInv, Unhook
  <1> QED BY <1>1, <1>2, <1>3, PTL DEF Spec, FeederKeepsLinks

-----------------------------------------------------------------------------
(* The fleet that the JSONL folds to is the live one.                      *)

\* Places of an operation: between the change of a link and the record of it;
\* while the worker that is spawned has no JSONL; and once its link is dead.
Pending  == {"forget", "r_forget", "s_feed", "s_record", "seed", "s_unlink", "s_forget"}
Spawning == {"s_feed", "s_record", "seed"}
Dead     == {"forget", "probe", "unlink", "tell", "r_forget", "s_forget"}

OneCall == calls = {} \/ \E o \in calls : calls = {o}
Changing(c, w) == \E o \in calls : o.at \in Pending /\ o.c = c /\ o.w = w

\* The worker is in the fleet that a rebuild reads, and not lost by it.
Folds(c, w) == w \in listed[c] /\ (OnDisk(w) \/ w \in folded[c])

CallRight(o) ==
  /\ stage[o.c] \notin {"off", "mounted"}
  /\ turn[o.w] # "unborn"
  /\ o.at \in Dead => ~Feeds(o.c, o.w)
  /\ o.at \in Spawning => /\ turn[o.w] = "made" /\ Feeds(o.c, o.w)
                          /\ o.w \notin folded[o.c]
                          /\ o.at = "seed" <=> o.w \in listed[o.c]

\* A fleet that is not yet rebuilt is empty.
StageRight(c) ==
  /\ stage[c] \in {"off", "mounted"} => workers[c] = {}
  /\ stage[c] = "mounted" => folded[c] = listed[c]
  /\ stage[c] \in {"off", "on"} => folded[c] = {}

\* What has no JSONL yet is known to its spawn only.
NewOnes ==
  \A c \in Coordinators, w \in Workers :
    turn[w] \in {"unborn", "made"} /\ w \in workers[c] \cup listed[c] \cup folded[c]
      => \E o \in calls : o.at \in Spawning /\ o.c = c /\ o.w = w

FleetFolds ==
  \A c \in Coordinators, w \in Workers :
    stage[c] \notin {"off", "mounted"} /\ ~Changing(c, w) => (Feeds(c, w) <=> Folds(c, w))

FoldInv ==
  /\ OneCall
  /\ \A o \in calls : CallRight(o)
  /\ \A c \in Coordinators : StageRight(c)
  /\ NewOnes
  /\ FleetFolds

LEMMA CallsAfter ==
  ASSUME OneCall, NEW o \in calls, NEW at, Goto(o, at) \/ Return(o)
  PROVE  /\ calls = {o}
         /\ Goto(o, at) => calls' = {Call(at, o.c, o.w)}
         /\ Return(o) => calls' = {}
  <1>1. calls = {o}
    BY DEF OneCall
  <1> QED BY <1>1 DEF Goto, Return

LEMMA BeginsAlone ==
  ASSUME OneCall, MaxCalls <= 1, NEW g, NEW at, NEW c, NEW w, Begin(g, at, c, w)
  PROVE  calls = {} /\ calls' = {Call(at, c, w)}
  <1>1. ASSUME NEW o, calls = {o} PROVE FALSE
    <2>1. Cardinality(calls) = 1
      BY <1>1, FS_Singleton
    <2> QED BY <2>1, FleetAssumption DEF Begin
  <1> QED BY <1>1 DEF OneCall, Begin

LEMMA CallIs ==
  ASSUME NEW at, NEW c, NEW w
  PROVE  Call(at, c, w).at = at /\ Call(at, c, w).c = c /\ Call(at, c, w).w = w
  BY DEF Call

\* Steps that begin or move no operation.
LEMMA FoldStill ==
  ASSUME FoldInv, UNCHANGED <<calls, listed, folded, stage>>,
         \A c \in Coordinators : workers'[c] \subseteq workers[c],
         \A c \in Coordinators, w \in Workers : Feeds(c, w)' <=> Feeds(c, w),
         \A w \in Workers : turn'[w] = turn[w] \/ (OnDisk(w) /\ OnDisk(w)'),
         \A o \in calls : o.c \in Coordinators /\ o.w \in Workers
  PROVE  FoldInv'
  <1> USE DEF FoldInv
  <1>1. \A w \in Workers : /\ turn'[w] = "made" <=> turn[w] = "made"
                           /\ turn'[w] = "unborn" <=> turn[w] = "unborn"
                           /\ OnDisk(w)' <=> OnDisk(w)
    BY DEF OnDisk
  <1>2. OneCall'
    BY DEF OneCall
  <1>3. ASSUME NEW o \in calls PROVE CallRight(o)'
    <2>1. PICK c \in Coordinators, w \in Workers : o.c = c /\ o.w = w
      OBVIOUS
    <2>2. CallRight(o) /\ (Feeds(c, w)' <=> Feeds(c, w))
      OBVIOUS
    <2>3. Feeds(o.c, o.w)' <=> Feeds(o.c, o.w)
      BY <2>1, <2>2 DEF Feeds
    <2> QED BY <1>1, <2>1, <2>2, <2>3 DEF CallRight
  <1>4. \A c \in Coordinators : StageRight(c)'
    BY DEF StageRight
  <1>5. NewOnes'
    BY <1>1 DEF NewOnes
  <1>6. FleetFolds'
    BY <1>1 DEF FleetFolds, Folds, Changing
  <1> QED BY <1>2, <1>3, <1>4, <1>5, <1>6

\* A step of the one operation, which is about c and w.
LEMMA FoldMove ==
  ASSUME FoldInv, NEW o \in calls, NEW c \in Coordinators, NEW w \in Workers,
         o.c = c, o.w = w, NEW at, calls' = {} \/ calls' = {Call(at, c, w)},
         \A d \in Coordinators : workers'[d] \subseteq workers[d],
         \A d \in Coordinators, v \in Workers :
           d # c \/ v # w => (Feeds(d, v)' <=> Feeds(d, v)),
         \A d \in Coordinators : d # c => listed'[d] = listed[d],
         \A v \in Workers : v # w => (v \in listed'[c] <=> v \in listed[c]),
         w \in listed'[c] => w \in listed[c] \/ o.at \in Spawning,
         UNCHANGED <<folded, stage>>,
         \A v \in Workers : v # w => turn'[v] = turn[v],
         turn'[w] = turn[w] \/ (o.at \in Spawning /\ turn'[w] \notin {"unborn", "made"}),
         o.at \in Spawning /\ turn'[w] = turn[w] => calls' # {} /\ at \in Spawning,
         \A p \in calls' : CallRight(p)',
         calls' = {} \/ at \notin Pending => (Feeds(c, w)' <=> Folds(c, w)')
  PROVE  FoldInv'
  <1> USE DEF FoldInv
  <1>1. calls = {o} /\ CallRight(o)
    BY DEF OneCall
  <1>2. OneCall'
    BY DEF OneCall
  <1>3. /\ stage[c] \notin {"off", "mounted"}
        /\ o.at \in Spawning => turn[w] = "made"
    BY <1>1 DEF CallRight
  <1>4. \A d \in Coordinators : StageRight(d)'
    BY <1>3 DEF StageRight
  <1>5. \A d \in Coordinators, v \in Workers :
          turn[v] \in {"unborn", "made"} /\ v \in workers[d] \cup listed[d] \cup folded[d]
            => o.at \in Spawning /\ c = d /\ w = v
    BY <1>1 DEF NewOnes
  <1>6. NewOnes'
    <2>1. SUFFICES ASSUME NEW d \in Coordinators, NEW v \in Workers,
                          turn'[v] \in {"unborn", "made"},
                          v \in workers'[d] \cup listed'[d] \cup folded'[d]
                   PROVE  \E p \in calls' : p.at \in Spawning /\ p.c = d /\ p.w = v
      BY DEF NewOnes
    <2>2. turn'[v] = turn[v]
      BY <2>1
    <2>3. \/ v \in workers[d] \cup listed[d] \cup folded[d]
          \/ d = c /\ v = w /\ o.at \in Spawning
      BY <2>1
    <2>4. o.at \in Spawning /\ c = d /\ w = v
      BY <1>5, <2>1, <2>2, <2>3
    <2>5. calls' = {Call(at, c, w)} /\ at \in Spawning
      BY <2>2, <2>4
    <2> QED BY <2>4, <2>5, CallIs
  <1>7. FleetFolds'
    <2>1. SUFFICES ASSUME NEW d \in Coordinators, NEW v \in Workers,
                          stage'[d] \notin {"off", "mounted"}, ~Changing(d, v)'
                   PROVE  Feeds(d, v)' <=> Folds(d, v)'
      BY DEF FleetFolds
    <2>2. CASE d = c /\ v = w
      <3>1. calls' = {Call(at, c, w)} => at \notin Pending
        BY <2>1, <2>2, CallIs DEF Changing
      <3>2. Feeds(c, w)' <=> Folds(c, w)'
        BY <3>1
      <3> QED BY <2>2, <3>2
    <2>3. CASE d # c \/ v # w
      <3>1. Feeds(d, v)' <=> Folds(d, v)
        <4>1. ~Changing(d, v)
          BY <1>1, <2>3 DEF Changing
        <4>2. Feeds(d, v) <=> Folds(d, v)
          BY <2>1, <4>1 DEF FleetFolds
        <4> QED BY <2>3, <4>2
      <3>2. v \in listed'[d] <=> v \in listed[d]
        BY <2>3
      <3>3. CASE turn'[v] = turn[v]
        BY <3>1, <3>2, <3>3 DEF Folds, OnDisk
      <3>4. CASE turn'[v] # turn[v]
        <4>1. v = w /\ d # c /\ turn[v] = "made"
          BY <1>3, <2>3, <3>4
        <4>2. v \notin listed[d]
          BY <1>5, <4>1
        <4> QED BY <3>1, <3>2, <4>2 DEF Folds
      <3> QED BY <3>3, <3>4
    <2> QED BY <2>2, <2>3
  <1> QED BY <1>2, <1>4, <1>6, <1>7

\* What there is to see of an operation after its step.
LEMMA NextRight ==
  ASSUME NEW c \in Coordinators, NEW w \in Workers, NEW at,
         calls' = {} \/ calls' = {Call(at, c, w)},
         stage'[c] \notin {"off", "mounted"}, turn'[w] # "unborn",
         at \in Dead => ~Feeds(c, w)',
         at \in Spawning => /\ turn'[w] = "made" /\ Feeds(c, w)' /\ w \notin folded'[c]
                            /\ at = "seed" <=> w \in listed'[c]
  PROVE  \A p \in calls' : CallRight(p)'
  <1>1. CallRight(Call(at, c, w))'
    BY CallIs DEF CallRight, Feeds
  <1>2. calls' = {Call(at, c, w)} => \A p \in calls' : p = Call(at, c, w)
    OBVIOUS
  <1> QED BY <1>1, <1>2 DEF CallRight, Feeds

LEMMA NoChange ==
  ASSUME FoldInv, NEW o \in calls, NEW c \in Coordinators, NEW w \in Workers,
         o.c = c, o.w = w, o.at \notin Pending
  PROVE  Feeds(c, w) <=> Folds(c, w)
  <1>1. calls = {o} /\ CallRight(o)
    BY DEF FoldInv, OneCall
  <1>2. ~Changing(c, w) /\ stage[c] \notin {"off", "mounted"}
    BY <1>1 DEF Changing, CallRight
  <1> QED BY <1>2 DEF FoldInv, FleetFolds

\* disconnect_worker up to the record, and the looks at the worker's slot.
LEMMA FoldLook ==
  ASSUME TypeInv, FoldInv, NEW o \in calls,
         \/ Cut(o) \/ CutAgain(o) \/ StopTurn(o) \/ Probe(o) \/ Tell(o) \/ RetireCheck(o)
  PROVE  FoldInv'
  <1>1. PICK c \in Coordinators, w \in Workers : o.c = c /\ o.w = w
    BY CallNames DEF TypeInv
  <1>2. PICK at : /\ Goto(o, at) \/ Return(o)
                  /\ at \in {"forget", "stop", "unlink", "r_unlink"}
                  /\ at = "forget" <=> Cut(o)
                  /\ at = "unlink" => o.at = "probe"
    BY DEF Cut, CutAgain, StopTurn, Probe, Tell, RetireCheck
  <1>3. calls' = {} \/ calls' = {Call(at, c, w)}
    BY <1>1, <1>2, CallsAfter DEF FoldInv
  <1>4. /\ UNCHANGED <<workers, turn, listed, folded, stage>>
        /\ o.at \in {"cut", "stop", "probe", "tell", "busy"}
    BY DEF Cut, CutAgain, StopTurn, Probe, Tell, RetireCheck, registry, session, mounting
  <1>5. \A d \in Coordinators, v \in Workers :
          d # c \/ v # w => (Feeds(d, v)' <=> Feeds(d, v))
    BY <1>1 DEF Cut, CutAgain, StopTurn, Probe, Tell, RetireCheck, registry, Add, Feeds,
                TypeInv, TypeOK
  <1>6. CallRight(o) /\ (Feeds(c, w) <=> Folds(c, w))
    BY <1>1, <1>4, NoChange DEF FoldInv, Pending
  <1>7. CallRight(o)' /\ (Cut(o) => ~Feeds(c, w)') /\ (~Cut(o) => (Feeds(c, w)' <=> Feeds(c, w)))
    <2>1. CASE Cut(o)
      <3>1. ~Feeds(c, w)'
        BY <1>1, <2>1 DEF Cut, Add, Feeds, TypeInv, TypeOK
      <3> QED BY <1>4, <1>6, <2>1, <3>1 DEF CallRight, Cut, Dead, Spawning
    <2>2. CASE ~Cut(o)
      <3>1. UNCHANGED <<workers, cut>>
        BY <2>2 DEF CutAgain, StopTurn, Probe, Tell, RetireCheck, registry
      <3> QED BY <1>4, <1>6, <2>2, <3>1 DEF CallRight, Feeds
    <2> QED BY <2>1, <2>2
  <1>8. \A p \in calls' : CallRight(p)'
    <2>1. /\ stage'[c] \notin {"off", "mounted"} /\ turn'[w] # "unborn"
          /\ at \in Dead => ~Feeds(c, w)'
          /\ at \notin Spawning
      BY <1>1, <1>2, <1>4, <1>6, <1>7 DEF CallRight, Dead, Spawning
    <2> QED BY <1>3, <2>1, NextRight
  <1>9. calls' = {} \/ at \notin Pending => (Feeds(c, w)' <=> Folds(c, w)')
    <2>1. calls' = {} \/ at \notin Pending => ~Cut(o)
      BY <1>2, CallsAfter DEF Cut, Pending, FoldInv, Goto
    <2> QED BY <1>4, <1>6, <1>7, <2>1 DEF Folds, OnDisk
  <1> QED BY <1>1, <1>3, <1>4, <1>5, <1>8, <1>9, FoldMove DEF Spawning

\* A link that goes: it was dead, or the record that goes with it is still due.
LEMMA FoldUnlink ==
  ASSUME TypeInv, FoldInv, NEW o \in calls, Unlink(o)
  PROVE  FoldInv'
  <1>1. PICK c \in Coordinators, w \in Workers : o.c = c /\ o.w = w
    BY CallNames DEF TypeInv
  <1>2. PICK at \in {"tell", "r_forget", "s_forget"} :
          Goto(o, at) /\ (at = "tell" => o.at = "unlink")
    BY DEF Unlink
  <1>3. calls' = {Call(at, c, w)}
    BY <1>1, <1>2, CallsAfter DEF FoldInv
  <1>4. /\ UNCHANGED <<turn, listed, folded, stage>>
        /\ o.at \in {"unlink", "r_unlink", "s_unlink"}
    BY DEF Unlink, session, mounting
  <1>5. /\ ~Feeds(c, w)'
        /\ \A d \in Coordinators : workers'[d] \subseteq workers[d]
        /\ \A d \in Coordinators, v \in Workers :
             d # c \/ v # w => (Feeds(d, v)' <=> Feeds(d, v))
    BY <1>1 DEF Unlink, Remove, Drop, Feeds, TypeInv, TypeOK
  <1>6. CallRight(o)
    BY DEF FoldInv
  <1>7. \A p \in calls' : CallRight(p)'
    BY <1>1, <1>3, <1>4, <1>5, <1>6, NextRight DEF CallRight, Spawning
  <1>8. at \notin Pending => (Feeds(c, w)' <=> Folds(c, w)')
    <2>1. at \notin Pending => o.at = "unlink"
      BY <1>2 DEF Pending
    <2>2. o.at = "unlink" => ~Folds(c, w)
      BY <1>1, <1>6, NoChange DEF Pending, CallRight, Dead
    <2> QED BY <1>4, <1>5, <2>1, <2>2 DEF Folds, OnDisk
  <1> QED BY <1>1, <1>3, <1>4, <1>5, <1>7, <1>8, FoldMove DEF Spawning

LEMMA FoldForget ==
  ASSUME TypeInv, FoldInv, NEW o \in calls, Forget(o)
  PROVE  FoldInv'
  <1>1. PICK c \in Coordinators, w \in Workers : o.c = c /\ o.w = w
    BY CallNames DEF TypeInv
  <1>2. calls' = {} \/ calls' = {Call("probe", c, w)}
    <2>1. Goto(o, "probe") \/ Return(o)
      BY DEF Forget
    <2> QED BY <1>1, <2>1, CallsAfter DEF FoldInv
  <1>3. /\ UNCHANGED <<workers, cut, turn, folded, stage>>
        /\ o.at \in {"forget", "r_forget", "s_forget"}
    BY DEF Forget, registry, session, mounting
  <1>4. /\ w \notin listed'[c]
        /\ \A d \in Coordinators : d # c => listed'[d] = listed[d]
        /\ \A v \in Workers : v # w => (v \in listed'[c] <=> v \in listed[c])
    BY <1>1 DEF Forget, Drop, TypeInv, TypeOK
  <1>5. \A d \in Coordinators, v \in Workers : Feeds(d, v)' <=> Feeds(d, v)
    BY <1>3 DEF Feeds
  <1>6. CallRight(o) /\ ~Feeds(c, w)
    BY <1>1, <1>3 DEF FoldInv, CallRight, Dead
  <1>7. \A p \in calls' : CallRight(p)'
    BY <1>1, <1>2, <1>3, <1>5, <1>6, NextRight DEF CallRight, Spawning
  <1>8. Feeds(c, w)' <=> Folds(c, w)'
    BY <1>4, <1>5, <1>6 DEF Folds
  <1>9. o.at \notin Spawning /\ \A d \in Coordinators : workers'[d] \subseteq workers[d]
    BY <1>3 DEF Spawning
  <1> QED BY <1>1, <1>2, <1>3, <1>4, <1>5, <1>7, <1>8, <1>9, FoldMove

\* The spawn of a worker: its feeder, its record, its seed.
LEMMA FoldRecord ==
  ASSUME TypeInv, KeepInv, FoldInv, NEW o \in calls, SpawnFeeder(o) \/ Record(o)
  PROVE  FoldInv'
  <1>1. PICK c \in Coordinators, w \in Workers : o.c = c /\ o.w = w
    BY CallNames DEF TypeInv
  <1>2. PICK at \in {"s_record", "seed"} :
          Goto(o, at) /\ (at = "seed" <=> Record(o)) /\ o.at \in Spawning /\ o.at # "seed"
    BY NoLinkWorker DEF SpawnFeeder, Record, Spawning
  <1>3. calls' = {Call(at, c, w)}
    BY <1>1, <1>2, CallsAfter DEF FoldInv
  <1>4. UNCHANGED <<workers, cut, turn, folded, stage>>
    BY DEF SpawnFeeder, Record, registry, session, mounting
  <1>5. /\ w \in listed'[c] <=> at = "seed"
        /\ \A d \in Coordinators : d # c => listed'[d] = listed[d]
        /\ \A v \in Workers : v # w => (v \in listed'[c] <=> v \in listed[c])
    <2>1. w \notin listed[c]
      BY <1>1, <1>2 DEF FoldInv, CallRight
    <2>2. CASE Record(o)
      BY <1>1, <1>2, <2>2 DEF Record, Add, TypeInv, TypeOK
    <2>3. CASE ~Record(o)
      BY <1>2, <2>1, <2>3 DEF SpawnFeeder
    <2> QED BY <2>2, <2>3
  <1>6. \A d \in Coordinators, v \in Workers : Feeds(d, v)' <=> Feeds(d, v)
    BY <1>4 DEF Feeds
  <1>7. CallRight(o)
    BY DEF FoldInv
  <1>8. /\ stage[c] \notin {"off", "mounted"} /\ turn[w] = "made"
        /\ Feeds(c, w) /\ w \notin folded[c]
    BY <1>1, <1>2, <1>7 DEF CallRight
  <1>9. \A p \in calls' : CallRight(p)'
    BY <1>3, <1>4, <1>5, <1>6, <1>8, NextRight DEF Dead
  <1>10. at \in Pending /\ at \in Spawning
    BY DEF Pending, Spawning
  <1>11. \A d \in Coordinators : workers'[d] \subseteq workers[d]
    BY <1>4
  <1> QED BY <1>1, <1>2, <1>3, <1>4, <1>5, <1>6, <1>9, <1>10, <1>11, FoldMove

LEMMA FoldSeed ==
  ASSUME TypeInv, FoldInv, NEW o \in calls, Seed(o) \/ SeedFails(o)
  PROVE  FoldInv'
  <1>1. PICK c \in Coordinators, w \in Workers : o.c = c /\ o.w = w
    BY CallNames DEF TypeInv
  <1>2. calls' = {} \/ calls' = {Call("s_unlink", c, w)}
    <2>1. Goto(o, "s_unlink") \/ Return(o)
      BY DEF Seed, SeedFails
    <2> QED BY <1>1, <2>1, CallsAfter DEF FoldInv
  <1>3. UNCHANGED <<workers, cut, listed, folded, stage>> /\ o.at = "seed"
    BY DEF Seed, SeedFails, registry, mounting
  <1>4. /\ turn'[w] = IF Seed(o) THEN "turn" ELSE "gone"
        /\ \A v \in Workers : v # w => turn'[v] = turn[v]
    BY <1>1 DEF Seed, SeedFails, TypeInv, TypeOK
  <1>5. \A d \in Coordinators, v \in Workers : Feeds(d, v)' <=> Feeds(d, v)
    BY <1>3 DEF Feeds
  <1>6. /\ stage[c] \notin {"off", "mounted"} /\ Feeds(c, w) /\ w \in listed[c]
    BY <1>1, <1>3 DEF FoldInv, CallRight, Spawning
  <1>7. \A p \in calls' : CallRight(p)'
    BY <1>2, <1>3, <1>4, <1>6, NextRight DEF Dead, Spawning
  <1>8. calls' = {} => (Feeds(c, w)' <=> Folds(c, w)')
    <2>1. calls' = {} => Seed(o)
      BY <1>1, CallsAfter DEF SeedFails, Goto
    <2> QED BY <1>3, <1>4, <1>5, <1>6, <2>1 DEF Folds, OnDisk
  <1>9. "s_unlink" \in Pending /\ o.at \in Spawning /\ turn'[w] \notin {"unborn", "made"}
    BY <1>3, <1>4 DEF Pending, Spawning
  <1>10. turn'[w] # turn[w]
    BY <1>1, <1>3, <1>9 DEF FoldInv, CallRight
  <1>11. \A d \in Coordinators : workers'[d] \subseteq workers[d]
    BY <1>3
  <1> QED BY <1>1, <1>2, <1>3, <1>4, <1>5, <1>7, <1>8, <1>9, <1>10, <1>11, FoldMove

LEMMA FoldCall ==
  ASSUME TypeInv, KeepInv, FoldInv, NEW o \in calls, CallStep(o)
  PROVE  FoldInv'
  <1>1. ~LinkWorker(o) /\ ~Notice(o)
    BY NoLinkWorker DEF Notice
  <1> QED BY <1>1, FoldLook, FoldUnlink, FoldForget, FoldRecord, FoldSeed DEF CallStep

\* The operations begin one at a time.
LEMMA FoldBegin ==
  ASSUME TypeInv, FoldInv, MaxCalls <= 1, NEW c \in Coordinators, NEW w \in Workers,
         Disconnect(c, w) \/ Retire(c, w)
  PROVE  FoldInv'
  <1>1. PICK at \in {"cut", "busy"} : calls = {} /\ calls' = {Call(at, c, w)}
    BY BeginsAlone DEF FoldInv, Disconnect, Retire
  <1>2. UNCHANGED <<workers, cut, turn, listed, folded, stage>> /\ w \in workers[c]
    BY DEF Disconnect, Retire, registry, session, mounting
  <1>3. turn[w] # "unborn" /\ stage[c] \notin {"off", "mounted"}
    BY <1>1, <1>2 DEF FoldInv, NewOnes, StageRight
  <1>4. \A p \in calls' : CallRight(p)'
    BY <1>1, <1>2, <1>3, NextRight DEF Dead, Spawning
  <1>5. OneCall'
    BY <1>1 DEF OneCall
  <1>6. \A d \in Coordinators : StageRight(d)'
    BY <1>2 DEF FoldInv, StageRight
  <1>7. NewOnes'
    BY <1>1, <1>2 DEF FoldInv, NewOnes
  <1>8. FleetFolds'
    BY <1>1, <1>2 DEF FoldInv, FleetFolds, Folds, Feeds, OnDisk, Changing
  <1> QED BY <1>4, <1>5, <1>6, <1>7, <1>8 DEF FoldInv

LEMMA FoldSpawn ==
  ASSUME TypeInv, FoldInv, MaxCalls <= 1, NEW c \in Coordinators, NEW w \in Workers,
         Spawn(c, w)
  PROVE  FoldInv'
  <1>1. PICK at \in {"s_record", "s_feed"} : calls = {} /\ calls' = {Call(at, c, w)}
    BY BeginsAlone DEF FoldInv, Spawn
  <1>2. /\ workers' = [workers EXCEPT ![c] = @ \cup {w}]
        /\ turn' = [turn EXCEPT ![w] = "made"]
        /\ UNCHANGED <<cut, listed, folded, stage>>
        /\ turn[w] = "unborn" /\ stage[c] \in {"remount", "on"}
    BY DEF Spawn, Register, Ready, mounting
  <1>3. /\ workers \in [Coordinators -> SUBSET Workers] /\ turn \in [Workers -> Turns]
        /\ \A d \in Coordinators : cut[d] \subseteq workers[d]
    BY DEF TypeInv, TypeOK
  <1>4. \A d \in Coordinators : w \notin workers[d] \cup listed[d] \cup folded[d]
    BY <1>1, <1>2 DEF FoldInv, NewOnes
  <1>5. /\ turn'[w] = "made" /\ \A v \in Workers : v # w => turn'[v] = turn[v]
        /\ workers'[c] = workers[c] \cup {w}
        /\ \A d \in Coordinators : d # c => workers'[d] = workers[d]
    BY <1>2, <1>3
  <1>6. /\ Feeds(c, w)'
        /\ \A d \in Coordinators, v \in Workers :
             d # c \/ v # w => (Feeds(d, v)' <=> Feeds(d, v))
    BY <1>2, <1>3, <1>4, <1>5 DEF Feeds
  <1>7. \A p \in calls' : CallRight(p)'
    BY <1>1, <1>2, <1>4, <1>5, <1>6, NextRight DEF Dead, Spawning
  <1>8. OneCall'
    BY <1>1 DEF OneCall
  <1>9. \A d \in Coordinators : StageRight(d)'
    BY <1>2, <1>5 DEF FoldInv, StageRight
  <1>10. Call(at, c, w) \in calls' /\ at \in Spawning /\ at \in Pending
    BY <1>1 DEF Spawning, Pending
  <1>11. NewOnes'
    <2>1. ASSUME NEW d \in Coordinators, NEW v \in Workers,
                 turn'[v] \in {"unborn", "made"},
                 v \in workers'[d] \cup listed'[d] \cup folded'[d]
          PROVE  d = c /\ v = w
      BY <1>1, <1>2, <1>4, <1>5, <2>1 DEF FoldInv, NewOnes
    <2> QED BY <1>10, <2>1, CallIs DEF NewOnes
  <1>12. FleetFolds'
    <2>1. ASSUME NEW d \in Coordinators, NEW v \in Workers,
                 stage'[d] \notin {"off", "mounted"}, ~Changing(d, v)'
          PROVE  Feeds(d, v)' <=> Folds(d, v)'
      <3>1. d # c \/ v # w
        BY <1>10, <2>1, CallIs DEF Changing
      <3>2. Feeds(d, v) <=> Folds(d, v)
        BY <1>1, <1>2, <2>1 DEF FoldInv, FleetFolds, Changing
      <3>3. CASE v = w
        BY <1>2, <1>4, <1>6, <3>1, <3>2, <3>3 DEF Folds
      <3>4. CASE v # w
        BY <1>2, <1>5, <1>6, <3>1, <3>2, <3>4 DEF Folds, OnDisk
      <3> QED BY <3>3, <3>4
    <2> QED BY <2>1 DEF FleetFolds
  <1> QED BY <1>7, <1>8, <1>9, <1>11, <1>12 DEF FoldInv

\* A worker's turns and the feeder: neither makes nor breaks a live link.
LEMMA FoldEvents ==
  ASSUME TypeInv, KeepInv, FoldInv,
         \/ \E w \in Workers : TurnStep(w)
         \/ \E c \in Coordinators : FeederStep(c) \/ Lag(c)
         \/ UNCHANGED vars
  PROVE  FoldInv'
  <1>1. \A o \in calls : o.c \in Coordinators /\ o.w \in Workers
    BY CallNames DEF TypeInv
  <1>2. ASSUME NEW w \in Workers, TurnStep(w) PROVE FoldInv'
    <2>1. UNCHANGED <<workers, cut, calls, listed, folded, stage>>
      BY <1>2 DEF TurnStep, BeginTurn, AskUser, Answer, EndTurn, TurnCompletes,
                  AbortWorker, TurnDies, registry, mounting
    <2>2. \A v \in Workers : turn'[v] = turn[v] \/ (OnDisk(v) /\ OnDisk(v)')
      BY <1>2 DEF TurnStep, BeginTurn, AskUser, Answer, EndTurn, TurnCompletes,
                  AbortWorker, TurnDies, Running, OnDisk, TypeInv, TypeOK
    <2>3. \A c \in Coordinators, v \in Workers : Feeds(c, v)' <=> Feeds(c, v)
      BY <2>1 DEF Feeds
    <2> QED BY <1>1, <2>1, <2>2, <2>3, FoldStill
  <1>3. ASSUME NEW c \in Coordinators, FeederStep(c) \/ Lag(c) PROVE FoldInv'
    <2>1. UNCHANGED <<turn, calls, listed, folded, stage>>
      BY <1>3 DEF FeederStep, Receive, Wake, Unhook, Farewell, Lag, session, mounting
    <2>2. /\ \A d \in Coordinators : workers'[d] \subseteq workers[d]
          /\ \A d \in Coordinators, v \in Workers : Feeds(d, v)' <=> Feeds(d, v)
      <3>1. CASE Unhook(c)
        <4>1. ~Feeds(c, held[c])
          BY <3>1 DEF KeepInv, Unhook
        <4> QED BY <3>1, <4>1 DEF Unhook, Remove, Drop, Feeds, TypeInv, TypeOK
      <3>2. CASE ~Unhook(c)
        <4>1. UNCHANGED <<workers, cut>>
          BY <1>3, <3>2 DEF FeederStep, Receive, Wake, Farewell, Lag, registry
        <4> QED BY <4>1 DEF Feeds
      <3> QED BY <3>1, <3>2
    <2> QED BY <1>1, <2>1, <2>2, FoldStill
  <1>4. CASE UNCHANGED vars
    <2>1. UNCHANGED <<workers, cut, turn, calls, listed, folded, stage>>
      BY <1>4 DEF vars, registry, session, mounting
    <2>2. \A c \in Coordinators, v \in Workers : Feeds(c, v)' <=> Feeds(c, v)
      BY <2>1 DEF Feeds
    <2> QED BY <1>1, <2>1, <2>2, FoldStill
  <1> QED BY <1>2, <1>3, <1>4

\* The rebuild: no operation is about a coordinator that is not mounted.
LEMMA FoldOpen ==
  ASSUME TypeInv, FoldInv, NEW c \in Coordinators,
         Open(c) \/ Rebuild(c) \/ RebuildFeeder(c)
  PROVE  FoldInv'
  <1>1. /\ UNCHANGED <<cut, turn, calls, listed>>
        /\ \A d \in Coordinators : d # c =>
             workers'[d] = workers[d] /\ stage'[d] = stage[d] /\ folded'[d] = folded[d]
        /\ \A d \in Coordinators : cut[d] \subseteq workers[d]
    BY DEF Open, Rebuild, RebuildFeeder, Register, registry, session, TypeInv, TypeOK
  <1>2. /\ stage[c] \in {"off", "mounted", "feed"}
        /\ stage[c] \in {"off", "mounted"} => workers[c] = {}
        /\ stage[c] = "mounted" => folded[c] = listed[c]
    BY DEF FoldInv, StageRight, Open, Rebuild, RebuildFeeder
  <1>3. \/ Open(c) /\ workers' = workers /\ folded'[c] = listed[c]
           /\ stage'[c] = IF listed[c] = {} THEN "on" ELSE "mounted"
        \/ /\ Rebuild(c) /\ workers'[c] = listed[c] /\ folded'[c] = folded[c]
           /\ stage'[c] \in {"feed", "remount"}
        \/ /\ RebuildFeeder(c) /\ workers' = workers /\ folded'[c] = folded[c]
           /\ stage'[c] = "remount"
    <2> USE DEF TypeInv, TypeOK
    <2>1. CASE Open(c)
      BY <2>1 DEF Open, registry
    <2>2. CASE Rebuild(c)
      <3>1. /\ workers'[c] = workers[c] \cup folded[c] /\ folded'[c] = folded[c]
            /\ stage'[c] \in {"feed", "remount"} /\ stage[c] = "mounted"
        BY <2>2 DEF Rebuild, Register
      <3>2. workers'[c] = listed[c]
        BY <1>2, <3>1
      <3> QED BY <2>2, <3>1, <3>2
    <2>3. CASE RebuildFeeder(c)
      BY <2>3 DEF RebuildFeeder, registry
    <2> QED BY <2>1, <2>2, <2>3
  <1>4. OneCall'
    BY <1>1 DEF FoldInv, OneCall
  <1>5. ASSUME NEW o \in calls PROVE CallRight(o)'
    <2>1. CallRight(o)
      BY DEF FoldInv
    <2>2. CASE o.c # c
      BY <1>1, <2>1, <2>2, CallNames DEF CallRight, Feeds, TypeInv
    <2>3. CASE o.c = c
      <3>1. RebuildFeeder(c)
        BY <2>1, <2>3 DEF CallRight, Open, Rebuild
      <3> QED BY <1>1, <1>3, <2>1, <2>3, <3>1 DEF CallRight, Feeds, Open, Rebuild, RebuildFeeder
    <2> QED BY <2>2, <2>3
  <1>6. \A d \in Coordinators : StageRight(d)'
    <2>1. StageRight(c)'
      BY <1>1, <1>2, <1>3 DEF StageRight, Open
    <2>2. \A d \in Coordinators : d # c => StageRight(d)'
      BY <1>1 DEF FoldInv, StageRight
    <2> QED BY <2>1, <2>2
  <1>7. \A d \in Coordinators, w \in Workers :
          w \in workers'[d] \cup listed'[d] \cup folded'[d]
            => w \in workers[d] \cup listed[d] \cup folded[d]
    BY <1>1, <1>3
  <1>8. NewOnes'
    BY <1>1, <1>7 DEF FoldInv, NewOnes
  <1>9. FleetFolds'
    <2>1. ASSUME NEW d \in Coordinators, NEW w \in Workers,
                 stage'[d] \notin {"off", "mounted"}, ~Changing(d, w)'
          PROVE  Feeds(d, w)' <=> Folds(d, w)'
      <3>1. ~Changing(d, w)
        BY <1>1, <2>1 DEF Changing
      <3>2. CASE d # c
        BY <1>1, <2>1, <3>1, <3>2 DEF FoldInv, FleetFolds, Folds, Feeds, OnDisk
      <3>3. CASE d = c
        BY <1>1, <1>2, <1>3, <2>1, <3>1, <3>3
           DEF FoldInv, FleetFolds, Folds, Feeds, OnDisk, Open, Rebuild, RebuildFeeder
      <3> QED BY <3>2, <3>3
    <2> QED BY <2>1 DEF FleetFolds
  <1> QED BY <1>1, <1>4, <1>5, <1>6, <1>8, <1>9 DEF FoldInv

LEMMA FoldRemount ==
  ASSUME TypeInv, FoldInv, NEW c \in Coordinators, Remount(c)
  PROVE  FoldInv'
  <1>1. /\ UNCHANGED <<turn, calls, listed>> /\ stage[c] = "remount"
        /\ \A d \in Coordinators : d # c =>
             /\ workers'[d] = workers[d] /\ cut'[d] = cut[d]
             /\ stage'[d] = stage[d] /\ folded'[d] = folded[d]
        /\ \A w \in Workers : Feeds(c, w)' <=> Feeds(c, w) /\ ~(w \in folded[c] /\ ~OnDisk(w))
        /\ workers'[c] \subseteq workers[c] /\ folded'[c] = {} /\ stage'[c] = "on"
    BY DEF Remount, session, Feeds, TypeInv, TypeOK
  <1>2. OneCall'
    BY <1>1 DEF FoldInv, OneCall
  <1>3. ASSUME NEW o \in calls PROVE CallRight(o)'
    <2>1. CallRight(o) /\ o.c \in Coordinators /\ o.w \in Workers
      BY CallNames DEF FoldInv, TypeInv
    <2>2. CASE o.c # c
      BY <1>1, <2>1, <2>2 DEF CallRight, Feeds
    <2>3. CASE o.c = c
      <3>1. PICK w \in Workers : w = o.w
        BY <2>1
      <3>2. Feeds(c, w)' <=> Feeds(c, w) /\ ~(w \in folded[c] /\ ~OnDisk(w))
        BY <1>1
      <3>3. Feeds(o.c, o.w)' <=> Feeds(c, w)'
        BY <2>3, <3>1 DEF Feeds
      <3> QED BY <1>1, <2>1, <2>3, <3>1, <3>2, <3>3 DEF CallRight
    <2> QED BY <2>2, <2>3
  <1>4. \A d \in Coordinators : StageRight(d)'
    BY <1>1 DEF FoldInv, StageRight
  <1>5. \A d \in Coordinators, w \in Workers :
          w \in workers'[d] \cup listed'[d] \cup folded'[d]
            => w \in workers[d] \cup listed[d] \cup folded[d]
    BY <1>1
  <1>6. NewOnes'
    BY <1>1, <1>5 DEF FoldInv, NewOnes
  <1>7. FleetFolds'
    <2>1. ASSUME NEW d \in Coordinators, NEW w \in Workers,
                 stage'[d] \notin {"off", "mounted"}, ~Changing(d, w)'
          PROVE  Feeds(d, w)' <=> Folds(d, w)'
      <3>1. ~Changing(d, w)
        BY <1>1, <2>1 DEF Changing
      <3>2. CASE d # c
        BY <1>1, <2>1, <3>1, <3>2 DEF FoldInv, FleetFolds, Folds, Feeds, OnDisk
      <3>3. CASE d = c
        <4>1. Feeds(c, w) <=> Folds(c, w)
          BY <1>1, <3>1, <3>3 DEF FoldInv, FleetFolds
        <4>2. Feeds(c, w)' <=> Feeds(c, w) /\ ~(w \in folded[c] /\ ~OnDisk(w))
          BY <1>1
        <4>3. Folds(c, w)' <=> w \in listed[c] /\ OnDisk(w)
          BY <1>1 DEF Folds, OnDisk
        <4> QED BY <3>3, <4>1, <4>2, <4>3 DEF Folds
      <3> QED BY <3>2, <3>3
    <2> QED BY <2>1 DEF FleetFolds
  <1> QED BY <1>1, <1>2, <1>3, <1>4, <1>6, <1>7 DEF FoldInv

\* A restart loses the registry and the spawns in flight.
LEMMA FoldRestart ==
  ASSUME TypeInv, FoldInv, Restart
  PROVE  FoldInv'
  <1>1. /\ calls' = {}
        /\ \A c \in Coordinators : /\ workers'[c] = {} /\ folded'[c] = {}
                                   /\ stage'[c] = "off" /\ listed'[c] = listed[c]
        /\ \A w \in Workers : /\ turn'[w] # "made"
                              /\ turn'[w] = "unborn" => turn[w] = "unborn"
    BY DEF Restart, NoFleet, Running
  <1>2. OneCall'
    BY <1>1 DEF OneCall
  <1>3. \A c \in Coordinators : StageRight(c)'
    BY <1>1 DEF StageRight
  <1>4. NewOnes'
    <2>1. ASSUME NEW c \in Coordinators, NEW w \in Workers, turn'[w] = "unborn",
                 w \in listed[c]
          PROVE  FALSE
      <3>1. turn[w] = "unborn"
        BY <1>1, <2>1
      <3>2. PICK o \in calls : o.at \in Spawning /\ o.w = w
        BY <2>1, <3>1 DEF FoldInv, NewOnes
      <3> QED BY <3>1, <3>2 DEF FoldInv, CallRight
    <2> QED BY <1>1, <2>1 DEF NewOnes
  <1>5. FleetFolds'
    BY <1>1 DEF FleetFolds
  <1> QED BY <1>1, <1>2, <1>3, <1>4, <1>5 DEF FoldInv

LEMMA FoldStep ==
  ASSUME TypeInv, KeepInv, FoldInv, MaxCalls <= 1, "attach" \notin Gestures, [Next]_vars
  PROVE  FoldInv'
  <1>1. \A c \in Coordinators, w \in Workers : ~Attach(c, w)
    BY DEF Attach, Begin
  <1> QED BY <1>1, FoldBegin, FoldSpawn, FoldCall, FoldEvents, FoldOpen, FoldRemount,
             FoldRestart DEF Next, OpenStep

\* Whatever spawns, disconnects, retires, fails or restarts, in operations that
\* do not overlap: once a coordinator is quiet, the fleet that its JSONL folds to
\* is the fleet of its live links, so that a restart changes no fleet (ADR 0065).
THEOREM FleetSurvives ==
  MaxCalls <= 1 /\ "attach" \notin Gestures => (Spec => []FleetOnDisk)
  <1> SUFFICES ASSUME MaxCalls <= 1, "attach" \notin Gestures
               PROVE  Spec => []FleetOnDisk
    OBVIOUS
  <1>1. Init => TypeInv /\ KeepInv /\ FoldInv
    <2>1. Init => KeepInv
      BY DEF Init, KeepInv, Attaching
    <2>2. Init => FoldInv
      BY DEF Init, FoldInv, OneCall, StageRight, NewOnes, FleetFolds, Folds, Feeds, NoFleet
    <2> QED BY <2>1, <2>2, InitType
  <1>2. TypeInv /\ KeepInv /\ FoldInv /\ [Next]_vars => (TypeInv /\ KeepInv /\ FoldInv)'
    BY StepType, KeepStep, FoldStep
  <1>3. TypeInv /\ FoldInv => FleetOnDisk
    <2>1. SUFFICES ASSUME TypeInv, FoldInv, NEW c \in Coordinators, Quiet(c)
                   PROVE  {w \in listed[c] : OnDisk(w)} = workers[c] \ cut[c]
      BY DEF FleetOnDisk
    <2>2. folded[c] = {} /\ stage[c] = "on" /\ calls = {}
      BY <2>1 DEF FoldInv, StageRight, Quiet
    <2>3. \A w \in Workers : Feeds(c, w) <=> w \in listed[c] /\ OnDisk(w)
      BY <2>1, <2>2 DEF FoldInv, FleetFolds, Folds, Changing
    <2>4. listed[c] \subseteq Workers /\ workers[c] \subseteq Workers
      BY <2>1 DEF TypeInv, TypeOK
    <2> QED BY <2>3, <2>4 DEF Feeds
  <1> QED BY <1>1, <1>2, <1>3, PTL DEF Spec

-----------------------------------------------------------------------------
(* The coordinator believes in its actual fleet.                           *)

\* The end of w's last turn is on its way to the feeder of c.
Ending(c, w) ==
  \/ Running(w) \/ w \in owed
  \/ \E i \in 1..Len(queue[c]) : queue[c][i] = <<"complete", w>>
  \/ feeder[c] = "unhook" /\ held[c] = w

\* Somebody will still tell c that it has lost w.
Leaving(c, w) ==
  \/ \E o \in calls : /\ o.c = c /\ o.w = w
                      /\ \/ o.at \in {"unlink", "tell", "r_forget"}
                         \/ o.at \in {"forget", "probe"} /\ w \in cut[c]
  \/ feeder[c] = "bye" /\ held[c] = w
  \/ w \in cut[c] /\ Ending(c, w)

NoGhost ==
  \A c \in Coordinators, w \in Workers :
    w \in told[c] /\ ~Feeds(c, w) => Leaving(c, w)

NoneForgotten ==
  \A c \in Coordinators, w \in Workers :
    Feeds(c, w) /\ w \notin told[c] =>
      \E o \in calls : o.at \in {"s_feed", "s_record", "seed", "s_unlink"} /\ o.c = c /\ o.w = w

\* Without a stop, a failed turn, a lost event or a second operation in flight,
\* a link is cut once and the turn that runs then ends with a TurnComplete.
Calmly(o) ==
  /\ o.at # "stop"
  /\ o.at = "cut" => Feeds(o.c, o.w)
  /\ o.at \in {"s_unlink", "s_forget"} => turn[o.w] = "gone"
  /\ o.at \in {"s_record", "seed"} => feeder[o.c] # "off"

\* A coordinator that has a worker, or has been told of one, has a feeder.
FeederThere(c) ==
  /\ c \in feeding /\ Starting(c) = {} => feeder[c] # "off"
  /\ \A w \in told[c] : OnDisk(w) /\ feeder[c] # "off"

BeliefInv ==
  /\ tripped = {}
  /\ \A o \in calls : Calmly(o)
  /\ \A c \in Coordinators : FeederThere(c)
  /\ NoneForgotten
  /\ NoGhost

\* What a step of the operation about c and w leaves alone.
LEMMA CallMoves ==
  ASSUME TypeInv, KeepInv, FoldInv, NEW o \in calls, CallStep(o),
         NEW c \in Coordinators, NEW w \in Workers, o.c = c, o.w = w
  PROVE  /\ \A d \in Coordinators, v \in Workers : d # c \/ v # w =>
              /\ v \in told'[d] <=> v \in told[d]
              /\ v \in cut'[d] <=> v \in cut[d]
              /\ Feeds(d, v)' <=> Feeds(d, v)
         /\ UNCHANGED <<feeding, held, queue, owed, stage>>
         /\ \/ feeder' = feeder
            \/ /\ SpawnFeeder(o) /\ feeder[c] = "off"
               /\ feeder' = [feeder EXCEPT ![c] = "recv"]
         /\ \A v \in Workers : turn'[v] = turn[v] \/ (v = w /\ turn[v] = "made")
  <1> USE DEF TypeInv, TypeOK
  <1>1. ~LinkWorker(o) /\ ~Notice(o) /\ o.at # "a_feed"
    BY NoLinkWorker DEF Notice
  <1>2. \A d \in Coordinators, v \in Workers : d # c \/ v # w =>
          v \in told'[d] <=> v \in told[d]
    BY <1>1 DEF CallStep, Cut, CutAgain, StopTurn, Probe, Tell, Unlink, Forget,
         SpawnFeeder, Record, Seed, SeedFails, RetireCheck, Add, Drop
  <1>3. \A d \in Coordinators, v \in Workers : d # c \/ v # w =>
          /\ v \in cut'[d] <=> v \in cut[d]
          /\ Feeds(d, v)' <=> Feeds(d, v)
    <2>1. \A d \in Coordinators, v \in Workers : d # c \/ v # w =>
            /\ v \in cut'[d] <=> v \in cut[d]
            /\ v \in workers'[d] <=> v \in workers[d]
      BY <1>1 DEF CallStep, Cut, CutAgain, StopTurn, Probe, Tell, Unlink, Forget,
           SpawnFeeder, Record, Seed, SeedFails, RetireCheck, registry, Remove, Add, Drop
    <2> QED BY <2>1 DEF Feeds
  <1>4. /\ UNCHANGED <<feeding, held, queue, owed, stage>>
        /\ ~SpawnFeeder(o) => feeder' = feeder
    BY <1>1 DEF CallStep, Cut, CutAgain, StopTurn, Probe, Tell, Unlink, Forget,
         SpawnFeeder, Subscribe, Record, Seed, SeedFails, RetireCheck, registry, delivery,
         session, mounting
  <1>5. SpawnFeeder(o) => feeder[c] = "off" /\ feeder' = [feeder EXCEPT ![c] = "recv"]
    <2>1. SpawnFeeder(o) => o \in Starting(c)
      BY DEF SpawnFeeder, Starting
    <2> QED BY <2>1 DEF SpawnFeeder, Subscribe, FeederInv, OneFeeder
  <1>6. \A v \in Workers : turn'[v] = turn[v] \/ (v = w /\ turn[v] = "made")
    <2>1. Seed(o) \/ SeedFails(o) => turn[w] = "made"
      BY DEF Seed, SeedFails, FoldInv, CallRight, Spawning
    <2>2. Seed(o) \/ SeedFails(o) \/ UNCHANGED turn
      BY <1>1 DEF CallStep, Cut, CutAgain, StopTurn, Probe, Tell, Unlink, Forget,
           SpawnFeeder, Record, RetireCheck, session
    <2> QED BY <2>1, <2>2 DEF Seed, SeedFails
  <1> QED BY <1>2, <1>3, <1>4, <1>5, <1>6

\* The end of a turn stays on its way while an operation takes a step.
LEMMA EndingStays ==
  ASSUME NEW c \in Coordinators, NEW w \in Workers, Ending(c, w),
         UNCHANGED <<queue, owed>>, Running(w) => Running(w)',
         feeder[c] = "unhook" => feeder'[c] = "unhook" /\ held'[c] = held[c]
  PROVE  Ending(c, w)'
  BY DEF Ending

LEMMA BeliefMove ==
  ASSUME TypeInv, KeepInv, FoldInv, BeliefInv, NEW o \in calls, CallStep(o),
         NEW c \in Coordinators, NEW w \in Workers, o.c = c, o.w = w,
         w \in told'[c] /\ ~Feeds(c, w)' => Leaving(c, w)',
         Feeds(c, w)' /\ w \notin told'[c] =>
           \E p \in calls' : p.at \in {"s_feed", "s_record", "seed", "s_unlink"}
                             /\ p.c = c /\ p.w = w
  PROVE  NoGhost' /\ NoneForgotten'
  <1>1. calls = {o}
    BY DEF FoldInv, OneCall
  <1>2. /\ \A d \in Coordinators, v \in Workers : d # c \/ v # w =>
             /\ v \in told'[d] <=> v \in told[d]
             /\ v \in cut'[d] <=> v \in cut[d]
             /\ Feeds(d, v)' <=> Feeds(d, v)
        /\ UNCHANGED <<feeding, held, queue, owed, stage>>
        /\ \A d \in Coordinators : feeder'[d] = feeder[d] \/ feeder[d] = "off"
        /\ \A v \in Workers : turn'[v] = turn[v] \/ (v = w /\ turn[v] = "made")
    <2>1. feeder \in [Coordinators -> {"off", "recv", "wake", "unhook", "bye"}]
      BY DEF TypeInv, TypeOK
    <2>2. feeder' = feeder \/ (feeder[c] = "off" /\ feeder' = [feeder EXCEPT ![c] = "recv"])
      BY CallMoves
    <2>3. \A d \in Coordinators : feeder'[d] = feeder[d] \/ feeder[d] = "off"
      BY <2>1, <2>2
    <2> QED BY <2>3, CallMoves
  <1>3. ASSUME NEW d \in Coordinators, NEW v \in Workers, d # c \/ v # w,
               v \in told'[d], ~Feeds(d, v)'
        PROVE  Leaving(d, v)'
    <2>1. Leaving(d, v)
      BY <1>2, <1>3 DEF BeliefInv, NoGhost
    <2>2. CASE feeder[d] = "bye" /\ held[d] = v
      BY <1>2, <2>2 DEF Leaving
    <2>3. CASE v \in cut[d] /\ Ending(d, v)
      <3>1. Running(v) => Running(v)'
        BY <1>2 DEF Running
      <3>2. Ending(d, v)'
        BY <1>2, <2>3, <3>1, EndingStays
      <3> QED BY <1>2, <1>3, <2>3, <3>2 DEF Leaving
    <2> QED BY <1>1, <1>3, <2>1, <2>2, <2>3 DEF Leaving
  <1>4. ASSUME NEW d \in Coordinators, NEW v \in Workers, d # c \/ v # w, Feeds(d, v)'
        PROVE  v \in told'[d]
    BY <1>1, <1>2, <1>4 DEF BeliefInv, NoneForgotten
  <1>5. NoGhost'
    BY <1>3 DEF NoGhost
  <1>6. NoneForgotten'
    BY <1>4 DEF NoneForgotten
  <1> QED BY <1>5, <1>6

\* disconnect_worker: the cut, and the farewell of an idle worker.
LEMMA BeliefCut ==
  ASSUME TypeInv, KeepInv, FoldInv, BeliefInv, NEW o \in calls,
         Cut(o) \/ Probe(o) \/ Tell(o) \/ RetireCheck(o)
  PROVE  NoGhost' /\ NoneForgotten'
  <1>1. PICK c \in Coordinators, w \in Workers : o.c = c /\ o.w = w
    BY CallNames DEF TypeInv
  <1>2. calls = {o} /\ CallRight(o) /\ CallStep(o)
    BY DEF FoldInv, OneCall, CallStep
  <1>3. UNCHANGED <<workers, turn, owed, delivery>>
    BY DEF Cut, Probe, Tell, RetireCheck, registry, session
  <1>4. ASSUME w \in told'[c], ~Feeds(c, w)' PROVE Leaving(c, w)'
    <2>1. CASE Cut(o)
      <3>1. calls' = {Call("forget", c, w)}
        BY <1>1, <2>1, CallsAfter DEF Cut, FoldInv
      <3>2. w \in cut'[c]
        BY <1>1, <2>1 DEF Cut, Add, TypeInv, TypeOK
      <3> QED BY <3>1, <3>2, CallIs DEF Leaving
    <2>2. CASE Tell(o)
      BY <1>1, <1>4, <2>2 DEF Tell, Drop, TypeInv, TypeOK
    <2>3. CASE Probe(o) \/ RetireCheck(o)
      <3>1. UNCHANGED <<told, cut>>
        BY <2>3 DEF Probe, RetireCheck, registry
      <3>2. Leaving(c, w)
        BY <1>3, <1>4, <3>1 DEF BeliefInv, NoGhost, Feeds
      <3>3. \/ w \in cut[c] /\ o.at = "probe"
            \/ feeder[c] = "bye" /\ held[c] = w
            \/ w \in cut[c] /\ Ending(c, w)
        BY <1>2, <2>3, <3>2 DEF Leaving, Probe, RetireCheck
      <3>4. Ending(c, w) => Ending(c, w)'
        BY <1>3 DEF Ending, Running, delivery
      <3>5. CASE Running(w)
        BY <1>3, <3>1, <3>3, <3>4, <3>5 DEF Leaving, Ending, delivery
      <3>6. CASE ~Running(w) /\ Probe(o)
        <4>1. calls' = {Call("unlink", c, w)}
          BY <1>1, <3>6, CallsAfter DEF Probe, FoldInv
        <4> QED BY <4>1, CallIs DEF Leaving
      <3>7. CASE RetireCheck(o)
        BY <1>3, <3>1, <3>3, <3>4, <3>7 DEF Leaving, delivery, RetireCheck
      <3> QED BY <2>3, <3>5, <3>6, <3>7
    <2> QED BY <2>1, <2>2, <2>3
  <1>5. ~(Feeds(c, w)' /\ w \notin told'[c])
    <2>1. o.at \notin {"s_feed", "s_record", "seed", "s_unlink"}
      BY DEF Cut, Probe, Tell, RetireCheck
    <2>2. Feeds(c, w) => w \in told[c]
      BY <1>2, <2>1 DEF BeliefInv, NoneForgotten
    <2>3. Feeds(c, w)' => Feeds(c, w)
      BY <1>1 DEF Cut, Probe, Tell, RetireCheck, registry, Add, Feeds, TypeInv, TypeOK
    <2>4. CASE Tell(o)
      BY <1>1, <1>2, <2>3, <2>4 DEF CallRight, Dead, Tell
    <2>5. CASE UNCHANGED told
      BY <2>2, <2>3, <2>5
    <2> QED BY <2>4, <2>5 DEF Cut, Probe, RetireCheck
  <1> QED BY <1>1, <1>2, <1>4, <1>5, BeliefMove

LEMMA BeliefForget ==
  ASSUME TypeInv, KeepInv, FoldInv, BeliefInv, NEW o \in calls, Unlink(o) \/ Forget(o)
  PROVE  NoGhost' /\ NoneForgotten'
  <1>1. PICK c \in Coordinators, w \in Workers : o.c = c /\ o.w = w
    BY CallNames DEF TypeInv
  <1>2. calls = {o} /\ CallRight(o) /\ CallStep(o)
    BY DEF FoldInv, OneCall, CallStep
  <1>3. UNCHANGED <<turn, owed, delivery>>
    BY DEF Unlink, Forget, session
  <1>4. o.at \in {"s_unlink", "s_forget"} => w \notin told[c]
    BY <1>1 DEF BeliefInv, Calmly, FeederThere, OnDisk
  <1>5. ASSUME w \in told'[c], ~Feeds(c, w)' PROVE Leaving(c, w)'
    <2>1. CASE Unlink(o)
      <3>1. o.at # "s_unlink"
        BY <1>4, <1>5, <2>1 DEF Unlink
      <3>2. PICK at \in {"tell", "r_forget"} : Goto(o, at)
        BY <2>1, <3>1 DEF Unlink
      <3>3. calls' = {Call(at, c, w)}
        BY <1>1, <3>2, CallsAfter DEF FoldInv
      <3> QED BY <3>3, CallIs DEF Leaving
    <2>2. CASE Forget(o)
      <3>1. o.at = "forget" /\ Goto(o, "probe") /\ UNCHANGED <<told, workers, cut>>
        BY <1>1, <1>4, <1>5, <2>2 DEF Forget, Drop, registry, TypeInv, TypeOK
      <3>2. Leaving(c, w)
        BY <1>5, <3>1 DEF BeliefInv, NoGhost, Feeds
      <3>3. \/ w \in cut[c]
            \/ feeder[c] = "bye" /\ held[c] = w
        BY <1>2, <3>1, <3>2 DEF Leaving
      <3>4. calls' = {Call("probe", c, w)}
        BY <1>1, <3>1, CallsAfter DEF FoldInv
      <3> QED BY <1>3, <3>1, <3>3, <3>4, CallIs DEF Leaving, delivery
    <2> QED BY <2>1, <2>2
  <1>6. ~Feeds(c, w)'
    <2>1. CASE Unlink(o)
      BY <1>1, <2>1 DEF Unlink, Remove, Drop, Feeds, TypeInv, TypeOK
    <2>2. CASE Forget(o)
      BY <1>1, <1>2, <2>2 DEF Forget, CallRight, Dead, registry, Feeds
    <2> QED BY <2>1, <2>2
  <1> QED BY <1>1, <1>2, <1>5, <1>6, BeliefMove

LEMMA BeliefSpawned ==
  ASSUME TypeInv, KeepInv, FoldInv, BeliefInv, NEW o \in calls,
         SpawnFeeder(o) \/ Record(o) \/ Seed(o) \/ SeedFails(o)
  PROVE  NoGhost' /\ NoneForgotten'
  <1>1. PICK c \in Coordinators, w \in Workers : o.c = c /\ o.w = w
    BY CallNames DEF TypeInv
  <1>2. calls = {o} /\ CallRight(o) /\ CallStep(o) /\ o.at \in Spawning
    BY NoLinkWorker
       DEF FoldInv, OneCall, CallStep, SpawnFeeder, Record, Seed, SeedFails, Spawning
  <1>3. Feeds(c, w)'
    <2>1. Feeds(c, w)
      BY <1>1, <1>2 DEF CallRight
    <2> QED BY <2>1 DEF SpawnFeeder, Record, Seed, SeedFails, registry, Feeds
  <1>4. ASSUME w \notin told'[c]
        PROVE  \E p \in calls' : p.at \in {"s_feed", "s_record", "seed", "s_unlink"}
                                 /\ p.c = c /\ p.w = w
    <2>1. ~Seed(o)
      BY <1>1, <1>4 DEF Seed, Add, TypeInv, TypeOK
    <2>2. PICK at \in {"s_record", "seed", "s_unlink"} : Goto(o, at)
      BY <2>1, NoLinkWorker DEF SpawnFeeder, Record, SeedFails
    <2>3. calls' = {Call(at, c, w)}
      BY <1>1, <2>2, CallsAfter DEF FoldInv
    <2> QED BY <2>3, CallIs
  <1> QED BY <1>1, <1>2, <1>3, <1>4, BeliefMove

LEMMA BeliefCall ==
  ASSUME TypeInv, KeepInv, FoldInv, BeliefInv, NEW o \in calls, CallStep(o)
  PROVE  NoGhost' /\ NoneForgotten'
  <1>1. ~LinkWorker(o) /\ ~Notice(o)
    BY NoLinkWorker DEF Notice
  <1>2. ~CutAgain(o) /\ ~StopTurn(o)
    BY DEF BeliefInv, Calmly, CutAgain, StopTurn
  <1> QED BY <1>1, <1>2, BeliefCut, BeliefForget, BeliefSpawned DEF CallStep

\* The operations that begin.
LEMMA BeliefBegin ==
  ASSUME TypeInv, FoldInv, BeliefInv, MaxCalls <= 1, NEW c \in Coordinators,
         NEW w \in Workers, Disconnect(c, w) \/ Retire(c, w) \/ Spawn(c, w)
  PROVE  NoGhost' /\ NoneForgotten'
  <1>1. PICK at : /\ calls = {} /\ calls' = {Call(at, c, w)}
                  /\ Spawn(c, w) => at \in {"s_feed", "s_record"}
    BY BeginsAlone DEF FoldInv, Disconnect, Retire, Spawn
  <1>2. UNCHANGED <<cut, delivery, owed, told>>
    BY DEF Disconnect, Retire, Spawn, registry, session
  <1>3. \A d \in Coordinators, v \in Workers : Feeds(d, v) => Feeds(d, v)'
    BY DEF Disconnect, Retire, Spawn, Register, registry, Feeds, TypeInv, TypeOK
  <1>4. \A v \in Workers : Running(v) => Running(v)'
    BY DEF Disconnect, Retire, Spawn, session, Running, TypeInv, TypeOK
  <1>5. ASSUME NEW d \in Coordinators, NEW v \in Workers, v \in told'[d], ~Feeds(d, v)'
        PROVE  Leaving(d, v)'
    <2>1. Leaving(d, v)
      BY <1>2, <1>3, <1>5 DEF BeliefInv, NoGhost
    <2>2. Ending(d, v) => Ending(d, v)'
      BY <1>2, <1>4, EndingStays DEF delivery
    <2> QED BY <1>1, <1>2, <2>1, <2>2 DEF Leaving, delivery
  <1>6. ASSUME NEW d \in Coordinators, NEW v \in Workers, Feeds(d, v)', v \notin told'[d]
        PROVE  \E p \in calls' : p.at \in {"s_feed", "s_record", "seed", "s_unlink"}
                                 /\ p.c = d /\ p.w = v
    <2>1. ~Feeds(d, v)
      BY <1>1, <1>2, <1>6 DEF BeliefInv, NoneForgotten
    <2>2. Spawn(c, w) /\ d = c /\ v = w
      BY <1>6, <2>1 DEF Disconnect, Retire, Spawn, Register, registry, Feeds, TypeInv, TypeOK
    <2> QED BY <1>1, <2>2, CallIs
  <1> QED BY <1>5, <1>6 DEF NoGhost, NoneForgotten

\* A worker's turn: its end is sent to every feeder that runs.
LEMMA BeliefTurn ==
  ASSUME TypeInv, BeliefInv, NEW x \in Workers,
         \/ BeginTurn(x) \/ AskUser(x) \/ Answer(x) \/ EndTurn(x) \/ TurnCompletes(x)
  PROVE  NoGhost' /\ NoneForgotten'
  <1>1. UNCHANGED <<workers, cut, feeder, held, calls, told>>
    BY DEF BeginTurn, AskUser, Answer, EndTurn, TurnCompletes, registry, delivery
  <1>2. \A c \in Coordinators, w \in Workers : Feeds(c, w)' <=> Feeds(c, w)
    BY <1>1 DEF Feeds
  <1>3. \A w \in Workers : Running(w) => Running(w)' \/ w \in owed'
    BY DEF BeginTurn, AskUser, Answer, EndTurn, TurnCompletes, Running, TypeInv, TypeOK
  <1>4. \A w \in Workers : w \in owed => w \in owed' \/ (w = x /\ TurnCompletes(x))
    BY DEF BeginTurn, AskUser, Answer, EndTurn, TurnCompletes
  <1>5. ASSUME NEW c \in Coordinators, feeder[c] # "off"
        PROVE  /\ \A i \in 1..Len(queue[c]) :
                    i \in 1..Len(queue'[c]) /\ queue'[c][i] = queue[c][i]
               /\ TurnCompletes(x) =>
                    \E i \in 1..Len(queue'[c]) : queue'[c][i] = <<"complete", x>>
    <2>1. queue[c] \in Seq(Events)
      BY DEF TypeInv, TypeOK
    <2>2. <<"ask", x>> \in Events /\ <<"complete", x>> \in Events
      BY DEF Events
    <2>3. CASE AskUser(x)
      <3>1. queue'[c] = Append(queue[c], <<"ask", x>>) /\ ~TurnCompletes(x)
        BY <1>5, <2>3 DEF AskUser, Emit, TurnCompletes
      <3> QED BY <2>1, <2>2, <3>1, AppendProperties
    <2>4. CASE TurnCompletes(x)
      <3>1. queue'[c] = Append(queue[c], <<"complete", x>>)
        BY <1>5, <2>4 DEF TurnCompletes, Emit
      <3> QED BY <2>1, <2>2, <3>1, AppendProperties
    <2>5. CASE queue' = queue /\ ~TurnCompletes(x)
      BY <2>5
    <2> QED BY <2>3, <2>4, <2>5 DEF BeginTurn, Answer, EndTurn, delivery
  <1>6. ASSUME NEW c \in Coordinators, NEW w \in Workers, w \in told[c], ~Feeds(c, w)
        PROVE  Leaving(c, w)'
    <2>1. feeder[c] # "off" /\ Leaving(c, w)
      BY <1>6 DEF BeliefInv, FeederThere, NoGhost
    <2>2. Ending(c, w) => Ending(c, w)'
      BY <1>1, <1>3, <1>4, <1>5, <2>1 DEF Ending
    <2> QED BY <1>1, <2>1, <2>2 DEF Leaving
  <1>7. NoGhost'
    BY <1>1, <1>2, <1>6 DEF NoGhost
  <1>8. NoneForgotten'
    BY <1>1, <1>2 DEF BeliefInv, NoneForgotten
  <1> QED BY <1>7, <1>8

\* The feeder: it keeps a TurnComplete of a lost worker until the farewell is out.
LEMMA BeliefFeeder ==
  ASSUME TypeInv, KeepInv, BeliefInv, NEW x \in Coordinators, FeederStep(x)
  PROVE  NoGhost' /\ NoneForgotten'
  <1>1. /\ UNCHANGED <<calls, turn, owed>>
        /\ \A c \in Coordinators : c # x =>
             /\ workers'[c] = workers[c] /\ cut'[c] = cut[c] /\ told'[c] = told[c]
             /\ feeder'[c] = feeder[c] /\ held'[c] = held[c] /\ queue'[c] = queue[c]
    BY DEF FeederStep, Receive, Wake, Unhook, Farewell, FeederTo, Remove, Drop, registry,
           session, TypeInv, TypeOK
  <1>2. /\ feeder \in [Coordinators -> {"off", "recv", "wake", "unhook", "bye"}]
        /\ held \in [Coordinators -> Workers \cup {Nobody}]
        /\ told \in [Coordinators -> SUBSET Workers]
        /\ cut[x] \subseteq workers[x]
    BY DEF TypeInv, TypeOK
  <1>3. \A c \in Coordinators, w \in Workers : Feeds(c, w)' <=> Feeds(c, w)
    <2>1. CASE Unhook(x)
      <3>1. ~Feeds(x, held[x])
        BY <2>1 DEF KeepInv, Unhook
      <3> QED BY <2>1, <3>1 DEF Unhook, Remove, Drop, Feeds, TypeInv, TypeOK
    <2>2. CASE UNCHANGED <<workers, cut>>
      BY <2>2 DEF Feeds
    <2> QED BY <2>1, <2>2 DEF FeederStep, Receive, Wake, Farewell, registry
  <1>4. ASSUME NEW w \in Workers, w \in told'[x], ~Feeds(x, w)
        PROVE  Leaving(x, w)'
    <2>1. Leaving(x, w)
      <3>1. w \in told[x]
        BY <1>2, <1>4 DEF FeederStep, Receive, Wake, Unhook, Farewell, Drop
      <3> QED BY <1>4, <3>1 DEF BeliefInv, NoGhost
    <2>2. CASE Receive(x)
      <3>1. UNCHANGED <<workers, cut>> /\ feeder[x] = "recv" /\ queue[x] # <<>>
        BY <2>2 DEF Receive, registry
      <3>2. /\ queue'[x] = Tail(queue[x]) /\ queue[x] \in Seq(Events)
        BY <2>2 DEF Receive, TypeInv, TypeOK
      <3>3. ASSUME NEW i \in 1..Len(queue[x]), queue[x][i] = <<"complete", w>>
            PROVE  Ending(x, w)'
        <4>1. CASE i = 1
          <5>1. Head(queue[x]) = <<"complete", w>>
            BY <3>1, <3>2, <3>3, <4>1, HeadTailProperties
          <5>2. feeder'[x] = "unhook" /\ held'[x] = w
            BY <1>2, <1>4, <2>2, <5>1 DEF Receive, FeederTo
          <5> QED BY <5>2 DEF Ending
        <4>2. CASE i # 1
          <5>1. i - 1 \in 1..Len(queue'[x]) /\ queue'[x][i - 1] = queue[x][i]
            BY <3>1, <3>2, <4>2, HeadTailProperties
          <5> QED BY <3>3, <5>1 DEF Ending
        <4> QED BY <4>1, <4>2
      <3>4. Ending(x, w) => Ending(x, w)'
        <4>1. Running(w) \/ w \in owed => Ending(x, w)'
          BY <1>1 DEF Ending, Running
        <4> QED BY <3>1, <3>3, <4>1 DEF Ending
      <3> QED BY <1>1, <2>1, <3>1, <3>4 DEF Leaving
    <2>3. CASE Wake(x)
      <3>1. UNCHANGED <<workers, cut, queue>> /\ feeder[x] = "wake"
        BY <2>3 DEF Wake, registry
      <3>2. Ending(x, w) => Ending(x, w)'
        BY <1>1, <3>1 DEF Ending, Running
      <3> QED BY <1>1, <2>1, <3>1, <3>2 DEF Leaving
    <2>4. CASE Unhook(x)
      <3>1. feeder[x] = "unhook" /\ UNCHANGED queue
        BY <2>4 DEF Unhook
      <3>2. CASE held[x] = w /\ w \in workers[x]
        <4>1. feeder'[x] = "bye" /\ held'[x] = w
          BY <1>2, <2>4, <3>2 DEF Unhook, FeederTo
        <4> QED BY <4>1 DEF Leaving
      <3>3. CASE held[x] = w /\ w \notin workers[x]
        BY <1>1, <1>2, <2>1, <3>1, <3>3 DEF Leaving
      <3>4. CASE held[x] # w
        <4>1. w \in cut'[x] <=> w \in cut[x]
          BY <2>4, <3>4 DEF Unhook, Remove, Drop, TypeInv, TypeOK
        <4>2. Ending(x, w) => Ending(x, w)'
          BY <1>1, <3>1, <3>4 DEF Ending, Running
        <4> QED BY <1>1, <2>1, <3>1, <4>1, <4>2 DEF Leaving
      <3> QED BY <3>2, <3>3, <3>4
    <2>5. CASE Farewell(x)
      <3>1. UNCHANGED <<workers, cut, queue>> /\ feeder[x] = "bye" /\ held[x] # w
        BY <1>2, <1>4, <2>5 DEF Farewell, Drop, registry
      <3>2. Ending(x, w) => Ending(x, w)'
        BY <1>1, <3>1 DEF Ending, Running
      <3> QED BY <1>1, <2>1, <3>1, <3>2 DEF Leaving
    <2> QED BY <2>2, <2>3, <2>4, <2>5 DEF FeederStep
  <1>5. NoGhost'
    <2>1. ASSUME NEW c \in Coordinators, NEW w \in Workers, w \in told'[c], ~Feeds(c, w)'
          PROVE  Leaving(c, w)'
      <3>1. CASE c = x
        BY <1>3, <1>4, <2>1, <3>1
      <3>2. CASE c # x
        <4>1. Leaving(c, w)
          BY <1>1, <1>3, <2>1, <3>2 DEF BeliefInv, NoGhost
        <4>2. Ending(c, w) => Ending(c, w)'
          BY <1>1, <3>2 DEF Ending, Running
        <4> QED BY <1>1, <3>2, <4>1, <4>2 DEF Leaving
      <3> QED BY <3>1, <3>2
    <2> QED BY <2>1 DEF NoGhost
  <1>6. NoneForgotten'
    <2>1. \A c \in Coordinators, w \in Workers : Feeds(c, w) /\ w \in told[c] => w \in told'[c]
      <3>1. CASE Farewell(x)
        <4>1. ~Feeds(x, held[x])
          BY <3>1 DEF KeepInv, Farewell
        <4> QED BY <1>2, <3>1, <4>1 DEF Farewell, Drop
      <3>2. CASE UNCHANGED told
        BY <3>2
      <3> QED BY <3>1, <3>2 DEF FeederStep, Receive, Wake, Unhook
    <2> QED BY <1>1, <1>3, <2>1 DEF BeliefInv, NoneForgotten
  <1> QED BY <1>5, <1>6

\* Nothing goes wrong on the way.
LEMMA CalmCall ==
  ASSUME TypeInv, KeepInv, FoldInv, BeliefInv, NEW o \in calls, CallStep(o)
  PROVE  tripped' = {} /\ (\A p \in calls' : Calmly(p)') /\ \A d \in Coordinators : FeederThere(d)'
  <1>1. PICK c \in Coordinators, w \in Workers : o.c = c /\ o.w = w
    BY CallNames DEF TypeInv
  <1>2. calls = {o} /\ CallRight(o) /\ Calmly(o)
    BY DEF FoldInv, OneCall, BeliefInv
  <1>3. ~LinkWorker(o) /\ ~Notice(o) /\ ~CutAgain(o) /\ ~StopTurn(o)
    BY <1>2, NoLinkWorker DEF Calmly, Notice, CutAgain, StopTurn
  <1>4. tripped' = {}
    BY <1>3 DEF BeliefInv, CallStep, Cut, Probe, Tell, Unlink, Forget, SpawnFeeder, Record,
                Seed, SeedFails, RetireCheck, session
  <1>5. PICK at \in Places \ {"stop", "cut", "s_feed"} :
          /\ Goto(o, at) \/ Return(o)
          /\ at = "s_unlink" => SeedFails(o)
          /\ at = "s_forget" => o.at = "s_unlink"
          /\ at = "s_record" => SpawnFeeder(o)
          /\ at = "seed" => o.at = "s_record"
    BY <1>2, <1>3, NoLinkWorker
       DEF CallStep, Cut, Probe, Tell, Unlink, Forget, SpawnFeeder, Record, Seed, SeedFails,
           RetireCheck, Places
  <1>6. calls' = {} \/ calls' = {Call(at, c, w)}
    BY <1>1, <1>5, CallsAfter DEF FoldInv
  <1>7. /\ UNCHANGED <<feeding, held, queue, owed, stage>>
        /\ \A d \in Coordinators : feeder[d] # "off" => feeder'[d] = feeder[d]
        /\ SpawnFeeder(o) => feeder'[c] = "recv"
        /\ \A v \in Workers : turn'[v] = turn[v] \/ (v = w /\ turn[v] = "made")
    <2>1. feeder \in [Coordinators -> {"off", "recv", "wake", "unhook", "bye"}]
      BY DEF TypeInv, TypeOK
    <2>2. \/ feeder' = feeder
          \/ feeder[c] = "off" /\ feeder' = [feeder EXCEPT ![c] = "recv"]
      BY <1>1, CallMoves
    <2>3. SpawnFeeder(o) => feeder'[c] = "recv"
      BY <1>1, <2>1 DEF SpawnFeeder, Subscribe
    <2> QED BY <1>1, <2>1, <2>2, <2>3, CallMoves
  <1>8. \A p \in calls' : Calmly(p)'
    <2>1. at \in {"s_unlink", "s_forget"} => turn'[w] = "gone"
      <3>1. SeedFails(o) => turn'[w] = "gone"
        BY <1>1 DEF SeedFails, TypeInv, TypeOK
      <3>2. o.at = "s_unlink" => turn[w] = "gone"
        BY <1>1, <1>2 DEF Calmly
      <3> QED BY <1>5, <1>7, <3>1, <3>2
    <2>2. at \in {"s_record", "seed"} => feeder'[c] # "off"
      <3>1. o.at = "s_record" => feeder[c] # "off"
        BY <1>1, <1>2 DEF Calmly
      <3> QED BY <1>5, <1>7, <3>1
    <2>3. calls' = {Call(at, c, w)} => \A p \in calls' : p = Call(at, c, w)
      OBVIOUS
    <2>4. Calmly(Call(at, c, w))'
      BY <1>5, <2>1, <2>2, CallIs DEF Calmly
    <2> QED BY <1>6, <2>3, <2>4 DEF Calmly
  <1>9. ASSUME NEW d \in Coordinators PROVE FeederThere(d)'
    <2>1. FeederThere(d)
      BY DEF BeliefInv
    <2>2. d \in feeding' /\ Starting(d)' = {} => feeder'[d] # "off"
      <3>1. CASE SpawnFeeder(o) /\ d = c
        BY <1>7, <3>1
      <3>2. CASE ~(SpawnFeeder(o) /\ d = c)
        <4>1. o.at \in {"s_feed", "a_feed"} => SpawnFeeder(o)
          BY <1>3 DEF CallStep, Cut, Probe, Tell, Unlink, Forget, SpawnFeeder, Record,
                      Seed, SeedFails, RetireCheck
        <4>2. Starting(d) = {}
          BY <1>1, <1>2, <3>2, <4>1 DEF Starting
        <4> QED BY <1>7, <2>1, <4>2 DEF FeederThere
      <3> QED BY <3>1, <3>2
    <2>3. ASSUME NEW v \in told'[d] PROVE OnDisk(v)' /\ feeder'[d] # "off"
      <3>1. v \in Workers
        BY StepType DEF TypeInv, TypeOK, Next
      <3>2. CASE v \in told[d]
        BY <1>7, <2>1, <3>1, <3>2 DEF FeederThere, OnDisk
      <3>3. CASE v \notin told[d]
        <4>1. Seed(o) /\ d = c /\ v = w
          BY <1>1, <1>3, <2>3, <3>3
             DEF CallStep, Cut, Probe, Tell, Unlink, Forget, SpawnFeeder, Record, Seed,
                 SeedFails, RetireCheck, Add, Drop, TypeInv, TypeOK
        <4>2. turn'[w] = "turn" /\ feeder[c] # "off"
          BY <1>1, <1>2, <4>1 DEF Seed, Calmly, TypeInv, TypeOK
        <4> QED BY <1>7, <4>1, <4>2 DEF OnDisk
      <3> QED BY <3>2, <3>3
    <2> QED BY <2>2, <2>3 DEF FeederThere
  <1> QED BY <1>4, <1>8, <1>9

LEMMA CalmBegin ==
  ASSUME TypeInv, FoldInv, BeliefInv, MaxCalls <= 1, "stop" \notin Gestures,
         NEW c \in Coordinators, NEW w \in Workers,
         Disconnect(c, w) \/ Retire(c, w) \/ Spawn(c, w)
  PROVE  tripped' = {} /\ (\A p \in calls' : Calmly(p)') /\ \A d \in Coordinators : FeederThere(d)'
  <1>1. PICK at : /\ calls = {} /\ calls' = {Call(at, c, w)}
                  /\ \/ Disconnect(c, w) /\ at = "cut"
                     \/ Retire(c, w) /\ at = "busy"
                     \/ Spawn(c, w) /\ at = IF c \in feeding THEN "s_record" ELSE "s_feed"
    BY BeginsAlone DEF FoldInv, Disconnect, Retire, Spawn
  <1>2. UNCHANGED <<cut, delivery, owed, told, tripped>>
    BY DEF Disconnect, Retire, Spawn, registry, session
  <1>3. \A d \in Coordinators : FeederThere(d) /\ Starting(d) = {}
    BY <1>1 DEF BeliefInv, Starting
  <1>4. \A p \in calls' : Calmly(p)'
    <2>1. at = "cut" => Feeds(c, w)'
      BY <1>1 DEF Disconnect, registry, Feeds
    <2>2. at = "s_record" => feeder'[c] # "off"
      BY <1>1, <1>2, <1>3 DEF FeederThere, delivery
    <2>3. Calmly(Call(at, c, w))'
      BY <1>1, <2>1, <2>2, CallIs DEF Calmly, Feeds
    <2>4. \A p \in calls' : p = Call(at, c, w)
      BY <1>1
    <2> QED BY <2>3, <2>4 DEF Calmly, Feeds
  <1>5. ASSUME NEW d \in Coordinators PROVE FeederThere(d)'
    <2>1. d \in feeding' /\ Starting(d)' = {} => d \in feeding
      <3>1. Spawn(c, w) /\ c \notin feeding => Call("s_feed", c, w) \in Starting(c)'
        BY BeginsAlone, CallIs DEF FoldInv, Spawn, Starting
      <3> QED BY <3>1 DEF Disconnect, Retire, Spawn, Register, registry
    <2>2. \A v \in Workers : OnDisk(v) => OnDisk(v)'
      BY DEF Disconnect, Retire, Spawn, session, OnDisk, TypeInv, TypeOK
    <2>3. told[d] \subseteq Workers
      BY DEF TypeInv, TypeOK
    <2> QED BY <1>2, <1>3, <2>1, <2>2, <2>3 DEF FeederThere, delivery
  <1> QED BY <1>2, <1>4, <1>5 DEF BeliefInv

LEMMA CalmEvents ==
  ASSUME TypeInv, KeepInv, BeliefInv,
         \/ \E x \in Workers : \/ BeginTurn(x) \/ AskUser(x) \/ Answer(x)
                               \/ EndTurn(x) \/ TurnCompletes(x)
         \/ \E x \in Coordinators : FeederStep(x)
         \/ UNCHANGED vars
  PROVE  tripped' = {} /\ (\A p \in calls' : Calmly(p)') /\ \A d \in Coordinators : FeederThere(d)'
  <1>1. UNCHANGED <<feeding, calls>> /\ tripped' \subseteq tripped
    BY DEF BeginTurn, AskUser, Answer, EndTurn, TurnCompletes, FeederStep, Receive, Wake,
           Unhook, Farewell, registry, session, vars
  <1>2. \A v \in Workers : turn'[v] = turn[v] \/ (OnDisk(v) /\ OnDisk(v)')
    BY ZenonT(40) DEF BeginTurn, AskUser, Answer, EndTurn, TurnCompletes, FeederStep, Receive, Wake,
           Unhook, Farewell, session, vars, OnDisk, TypeInv, TypeOK
  <1>3. \A d \in Coordinators : feeder[d] # "off" => feeder'[d] # "off"
    BY ZenonT(40) DEF BeginTurn, AskUser, Answer, EndTurn, TurnCompletes, FeederStep, Receive, Wake,
           Unhook, Farewell, FeederTo, delivery, vars, TypeInv, TypeOK
  <1>4. \A d \in Coordinators, v \in Workers : Feeds(d, v) => Feeds(d, v)'
    <2>1. ASSUME NEW x \in Coordinators, Unhook(x)
          PROVE  \A d \in Coordinators, v \in Workers : Feeds(d, v) => Feeds(d, v)'
      <3>1. ~Feeds(x, held[x])
        BY <2>1 DEF KeepInv, Unhook
      <3> QED BY <2>1, <3>1 DEF Unhook, Remove, Drop, Feeds, TypeInv, TypeOK
    <2>2. CASE UNCHANGED <<workers, cut>>
      BY <2>2 DEF Feeds
    <2> QED BY <2>1, <2>2 DEF BeginTurn, AskUser, Answer, EndTurn, TurnCompletes, FeederStep,
               Receive, Wake, Farewell, registry, vars
  <1>5. \A d \in Coordinators : told'[d] \subseteq told[d] /\ told[d] \subseteq Workers
    BY ZenonT(40) DEF BeginTurn, AskUser, Answer, EndTurn, TurnCompletes, FeederStep, Receive, Wake,
           Unhook, Farewell, Drop, vars, TypeInv, TypeOK
  <1>6. ASSUME NEW p \in calls PROVE Calmly(p)'
    <2>1. PICK c \in Coordinators, w \in Workers : p.c = c /\ p.w = w
      BY CallNames DEF TypeInv
    <2>2. Calmly(p)
      BY DEF BeliefInv
    <2>3. Feeds(c, w) => Feeds(c, w)'
      BY <1>4
    <2> QED BY <1>2, <1>3, <2>1, <2>2, <2>3 DEF Calmly, Feeds, OnDisk
  <1>7. ASSUME NEW d \in Coordinators PROVE FeederThere(d)'
    <2>1. FeederThere(d) /\ Starting(d)' = Starting(d)
      BY <1>1 DEF BeliefInv, Starting
    <2>2. \A v \in told'[d] : OnDisk(v)'
      BY <1>2, <1>5, <2>1 DEF FeederThere, OnDisk
    <2> QED BY <1>1, <1>3, <1>5, <2>1, <2>2 DEF FeederThere
  <1> QED BY <1>1, <1>6, <1>7 DEF BeliefInv

LEMMA BeliefStep ==
  ASSUME TypeInv, OwnInv, KeepInv, FoldInv, BeliefInv, MaxCalls <= 1,
         Gestures \cap {"attach", "restart", "stop", "fail", "lag"} = {}, [Next]_vars
  PROVE  BeliefInv'
  <1>1. \A c \in Coordinators, w \in Workers : ~Attach(c, w)
    BY DEF Attach, Begin
  <1>2. \A c \in Coordinators : ~Open(c) /\ ~OpenStep(c) /\ ~Lag(c)
    BY DEF OwnInv, Open, OpenStep, Rebuild, RebuildFeeder, Remount, Lag
  <1>3. \A w \in Workers : ~AbortWorker(w) /\ ~TurnDies(w)
    BY DEF AbortWorker, TurnDies, BeliefInv
  <1>4. ~Restart
    BY DEF Restart
  <1>5. ASSUME NEW c \in Coordinators, NEW w \in Workers,
               Disconnect(c, w) \/ Retire(c, w) \/ Spawn(c, w)
        PROVE  BeliefInv'
    BY <1>5, BeliefBegin, CalmBegin DEF BeliefInv
  <1>6. ASSUME NEW o \in calls, CallStep(o) PROVE BeliefInv'
    BY <1>6, BeliefCall, CalmCall DEF BeliefInv
  <1>7. ASSUME NEW w \in Workers, TurnStep(w) PROVE BeliefInv'
    BY <1>3, <1>7, BeliefTurn, CalmEvents DEF BeliefInv, TurnStep
  <1>8. ASSUME NEW c \in Coordinators, FeederStep(c) PROVE BeliefInv'
    BY <1>8, BeliefFeeder, CalmEvents DEF BeliefInv
  <1>9. CASE UNCHANGED vars
    <2>1. UNCHANGED <<workers, cut, feeder, held, queue, turn, owed, calls, told>>
      BY <1>9 DEF vars, registry, delivery, session
    <2>2. NoneForgotten'
      BY <2>1 DEF BeliefInv, NoneForgotten, Feeds
    <2>3. NoGhost'
      BY <2>1 DEF BeliefInv, NoGhost, Feeds, Leaving, Ending, Running
    <2> QED BY <1>9, <2>2, <2>3, CalmEvents DEF BeliefInv
  <1> QED BY <1>1, <1>2, <1>4, <1>5, <1>6, <1>7, <1>8, <1>9 DEF Next

\* While the IDE runs, with one operation at a time and turns that end by
\* themselves: a coordinator that has heard everything there is to hear believes
\* in its live fleet.  Each hypothesis is needed: TLC refutes BeliefRight when any
\* of these gestures, or a second operation in flight, is allowed, as
\* FarewellMissing does with a stop.
THEOREM CoordinatorKnows ==
  MaxCalls <= 1 /\ Gestures \cap {"attach", "restart", "stop", "fail", "lag"} = {}
    => (Spec => []BeliefRight)
  <1> SUFFICES ASSUME MaxCalls <= 1,
                      Gestures \cap {"attach", "restart", "stop", "fail", "lag"} = {}
               PROVE  Spec => []BeliefRight
    OBVIOUS
  <1>1. Init => TypeInv /\ OwnInv /\ KeepInv /\ FoldInv /\ BeliefInv
    <2>1. Init => KeepInv
      BY DEF Init, KeepInv, Attaching
    <2>2. Init => FoldInv
      BY DEF Init, FoldInv, OneCall, StageRight, NewOnes, FleetFolds, Folds, Feeds, NoFleet
    <2>3. Init => BeliefInv
      BY DEF Init, BeliefInv, FeederThere, NoGhost, NoneForgotten, Feeds, NoFleet
    <2>4. Init => OwnInv
      BY DEF Init, OwnInv, SoleOwner, Owners, NoFleet
    <2> QED BY <2>1, <2>2, <2>3, <2>4, InitType
  <1>2. TypeInv /\ OwnInv /\ KeepInv /\ FoldInv /\ BeliefInv /\ [Next]_vars
        => (TypeInv /\ OwnInv /\ KeepInv /\ FoldInv /\ BeliefInv)'
    BY StepType, OwnStep, KeepStep, FoldStep, BeliefStep
  <1>3. TypeInv /\ BeliefInv => BeliefRight
    <2>1. SUFFICES ASSUME TypeInv, BeliefInv, NEW c \in Coordinators, Settled(c)
                   PROVE  told[c] = workers[c] \ cut[c]
      BY DEF BeliefRight
    <2>2. told[c] \subseteq Workers /\ workers[c] \subseteq Workers
      BY <2>1 DEF TypeInv, TypeOK
    <2>3. calls = {} /\ queue[c] = <<>> /\ feeder[c] \notin {"unhook", "bye"}
      BY <2>1 DEF Settled, Quiet
    <2>4. \A w \in Workers : w \in told[c] => Feeds(c, w)
      <3>1. ASSUME NEW w \in cut[c] PROVE ~Ending(c, w)
        <4>1. ~Running(w) /\ w \notin owed /\ 1..Len(queue[c]) = {}
          BY <2>1, <2>3, <3>1 DEF Settled
        <4> QED BY <2>3, <4>1 DEF Ending
      <3> QED BY <2>1, <2>3, <3>1 DEF BeliefInv, NoGhost, Leaving
    <2>5. \A w \in Workers : Feeds(c, w) => w \in told[c]
      BY <2>1, <2>3 DEF BeliefInv, NoneForgotten
    <2> QED BY <2>2, <2>4, <2>5 DEF Feeds
  <1> QED BY <1>1, <1>2, <1>3, PTL DEF Spec
=============================================================================
