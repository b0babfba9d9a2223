----------------------------- MODULE LspProofs ------------------------------
(* What the modules about language servers guarantee, for any requests,    *)
(* callers, servers, edits and races: LspClient, LspBroker and LspDocs.    *)
EXTENDS LspClient, LspBroker, LspDocs, FiniteSetTheorems, SequenceTheorems, TLAPS

-----------------------------------------------------------------------------
(***************************************************************************)
(* What LspClient guarantees for any set of requests and any of its races. *)
(***************************************************************************)
\* While the flag is set the reader runs, so that what is listed by its grace is
\* drained; a reader that answers the server has a writer that takes the answer.
\* The shutdown's request is not made before the shutdown.
RpcInv ==
  /\ RpcOK
  /\ alive => rloop # "down"
  /\ rloop = "replying" /\ "mute" \notin rpcRace => wloop
  /\ ending = "no" => req["shutdown"] = "idle"

\* A command is handed to the writer or dropped: the queue is one of commands.
LEMMA HandKeeps ==
  ASSUME NEW S, NEW x \in S, queue \in Seq(S), wloop \in BOOLEAN,
         queue' = IF wloop THEN Append(queue, x) ELSE queue
  PROVE  queue' \in Seq(S)
  OBVIOUS

\* What a step leaves alone: the responders and where their callers are, the
\* reader's end, the flag.
LEMMA RestKeepsOK ==
  ASSUME RpcInv, ReadAsk \/ Dies \/ WaitForDeath \/ Arm \/ UNCHANGED rpcVars
  PROVE  RpcInv'
  <1> USE DEF RpcInv, RpcOK, RpcTypeOK, RespondersOwned, ReaderSettles, Awaited
  <1>1. CASE ReadAsk
    BY <1>1 DEF ReadAsk
  <1>2. CASE Dies
    BY <1>2 DEF Dies
  <1>3. CASE WaitForDeath
    BY <1>3 DEF WaitForDeath
  <1>4. CASE Arm
    BY <1>4 DEF Arm
  <1>5. CASE UNCHANGED rpcVars
    BY <1>5 DEF rpcVars
  <1> QED BY <1>1, <1>2, <1>3, <1>4, <1>5

\* The reader answers the server through the writer; it goes only where nobody
\* takes the answer, and that is the race "mute".
LEMMA ReplyKeepsOK ==
  ASSUME RpcInv, ReplyAsk
  PROVE  RpcInv'
  <1> USE DEF RpcInv, RpcOK, RpcTypeOK, RespondersOwned, ReaderSettles, Awaited
  <1>1. queue' \in Seq(AllRequests \cup {"reply", "exit", "stop"})
    BY DEF ReplyAsk
  <1>2. CASE wloop
    BY <1>1, <1>2 DEF ReplyAsk
  <1>3. CASE ~wloop
    BY <1>1, <1>3 DEF ReplyAsk, GuardDrops
  <1> QED BY <1>2, <1>3

\* The writer takes a command off its queue: what it hands to the process is a
\* request, and the responders stay.
LEMMA WriteKeepsOK ==
  ASSUME RpcInv, WriteOne
  PROVE  RpcInv'
  <1> USE DEF RpcInv, RpcOK, RpcTypeOK, RespondersOwned, ReaderSettles, Awaited
  <1>1. queue' \in Seq(AllRequests \cup {"reply", "exit", "stop"})
    BY DEF WriteOne
  <1>2. served' \subseteq AllRequests /\ wloop' \in BOOLEAN /\ alive' \in BOOLEAN
        /\ deathWatch' \in {"looking", "looked", "waiting", "told"}
        /\ (alive' => alive)
    BY DEF WriteOne, GuardDrops
  <1>3. rloop = "replying" /\ "mute" \notin rpcRace => wloop'
    BY DEF WriteOne
  <1>4. UNCHANGED <<rpcRace, req, pending, rloop, process, asks, ending>>
    BY DEF WriteOne
  <1> QED BY <1>1, <1>2, <1>3, <1>4

\* The reader resolves one caller by an answer, all of them by the end of the
\* process, after which the map is empty.
LEMMA ReadKeepsOK ==
  ASSUME RpcInv, ReadEnd \/ \E r \in AllRequests : ReadAnswer(r)
  PROVE  RpcInv'
  <1> USE DEF RpcInv, RpcOK, RpcTypeOK, RespondersOwned, ReaderSettles, Awaited
  <1>1. CASE ReadEnd
    <2>1. /\ rloop' = "down" /\ alive' = FALSE /\ pending' = {}
          /\ req' = [r \in AllRequests |-> IF r \in pending \cap Awaited THEN "failed" ELSE req[r]]
          /\ UNCHANGED <<rpcRace, queue, wloop, served, process, asks, ending>>
      BY <1>1 DEF ReadEnd, GuardDrops
    <2>2. deathWatch' \in {"looking", "looked", "waiting", "told"}
      BY <1>1 DEF ReadEnd, GuardDrops
    <2>3. req' \in [AllRequests -> {"idle", "begun", "listed", "waits", "answered", "failed",
                                    "garbled", "gaveup"}]
      BY <2>1
    <2>4. Awaited' = {}
      BY <2>1
    <2>5. ending' = "no" => req'["shutdown"] = "idle"
      BY <2>1 DEF AllRequests
    <2> QED BY <2>1, <2>2, <2>3, <2>4, <2>5
  <1>2. ASSUME NEW r \in AllRequests, ReadAnswer(r)
        PROVE  RpcInv'
    BY <1>2 DEF ReadAnswer
  <1> QED BY <1>1, <1>2

\* A caller lists its responder before it queues the request, and takes it out
\* again when nobody takes the request; the one whose parameters cannot be
\* serialised leaves it.
LEMMA CallerKeepsOK ==
  ASSUME RpcInv, NEW r \in AllRequests,
         \/ r \in Requests /\ (BeginRequest(r) \/ GarbledRequest(r))
         \/ ListRequest(r) \/ QueueRequest(r)
  PROVE  RpcInv'
  <1> USE DEF RpcInv, RpcOK, RpcTypeOK, RespondersOwned, ReaderSettles, Awaited
  <1>1. CASE r \in Requests /\ BeginRequest(r)
    <2>1. r # "shutdown"
      BY <1>1, RpcAssumption
    <2> QED BY <1>1, <2>1 DEF BeginRequest
  <1>2. CASE GarbledRequest(r)
    BY <1>2 DEF GarbledRequest
  <1>3. CASE ListRequest(r)
    BY <1>3 DEF ListRequest
  <1>4. CASE QueueRequest(r)
    <2>1. queue' \in Seq(AllRequests \cup {"reply", "exit", "stop"})
      BY <1>4 DEF QueueRequest
    <2>2. req[r] = "listed" /\ r \in pending
      BY <1>4 DEF QueueRequest
    <2>3. /\ UNCHANGED <<rpcRace, wloop, rloop, served, process, alive, deathWatch, asks, ending>>
          /\ \/ req' = [req EXCEPT ![r] = "waits"] /\ pending' = pending
             \/ req' = [req EXCEPT ![r] = "failed"] /\ pending' = pending \ {r}
      BY <1>4 DEF QueueRequest
    <2>4. RpcTypeOK'
      BY <2>1, <2>3
    <2>5. RespondersOwned'
      BY <2>2, <2>3
    <2>6. ReaderSettles' /\ (ending' = "no" => req'["shutdown"] = "idle")
      BY <2>2, <2>3 DEF AllRequests
    <2> QED BY <2>3, <2>4, <2>5, <2>6
  <1> QED BY <1>1, <1>2, <1>3, <1>4

\* The shutdown is a caller that may drop its request, and otherwise hands commands
\* to the writer and ends the process.
LEMMA ShutdownKeepsOK ==
  ASSUME RpcInv, Shutdown \/ GiveUpShutdown \/ SayExit \/ StopClient \/ EndChild
  PROVE  RpcInv'
  <1> USE DEF RpcInv, RpcOK, RpcTypeOK, RespondersOwned, ReaderSettles, Awaited
  <1>1. "shutdown" \in AllRequests
    BY DEF AllRequests
  <1>2. CASE Shutdown
    BY <1>1, <1>2 DEF Shutdown
  <1>3. CASE GiveUpShutdown
    BY <1>1, <1>3 DEF GiveUpShutdown
  <1>4. CASE SayExit
    <2>1. queue' \in Seq(AllRequests \cup {"reply", "exit", "stop"})
      BY <1>4, HandKeeps DEF SayExit, Hand
    <2> QED BY <1>4, <2>1 DEF SayExit
  <1>5. CASE StopClient
    <2>1. queue' \in Seq(AllRequests \cup {"reply", "exit", "stop"})
      BY <1>5, HandKeeps DEF StopClient, Hand
    <2> QED BY <1>5, <2>1 DEF StopClient
  <1>6. CASE EndChild
    BY <1>6 DEF EndChild
  <1> QED BY <1>2, <1>3, <1>4, <1>5, <1>6

\* In whatever order answers, deaths, failed sends and a shutdown come, every
\* caller that waits has its responder; without a caller are only the responders of
\* a shutdown that was given up and of requests that could not be serialised; and
\* the reader's end leaves none of them behind.
THEOREM RespondersKept == RpcSpec => []RpcOK
  <1>1. RpcInit => RpcInv
    <2> SUFFICES ASSUME RpcInit PROVE RpcInv
      OBVIOUS
    <2>1. Awaited = {}
      BY DEF RpcInit, Awaited
    <2>2. RpcTypeOK
      BY DEF RpcInit, RpcTypeOK
    <2>3. "shutdown" \in AllRequests
      BY DEF AllRequests
    <2> QED BY <2>1, <2>2, <2>3 DEF RpcInit, RpcInv, RpcOK, RespondersOwned, ReaderSettles
  <1>2. RpcInv /\ [RpcNext]_rpcVars => RpcInv'
    <2> SUFFICES ASSUME RpcInv, [RpcNext]_rpcVars PROVE RpcInv'
      OBVIOUS
    <2>1. Requests \subseteq AllRequests
      BY DEF AllRequests
    <2>2. CASE RpcNext
      BY <2>1, <2>2, RestKeepsOK, ReplyKeepsOK, WriteKeepsOK, ReadKeepsOK, CallerKeepsOK, ShutdownKeepsOK
      DEF RpcNext
    <2>3. CASE UNCHANGED rpcVars
      BY <2>3, RestKeepsOK
    <2> QED BY <2>2, <2>3
  <1>3. RpcInv => RpcOK
    BY DEF RpcInv
  <1> QED BY <1>1, <1>2, <1>3, PTL DEF RpcSpec

-----------------------------------------------------------------------------
(* LspBroker: the slot of a language, its lock and its servers.            *)
\* Processes are numbered as they are spawned: `Newest' is the number of the last.
Numbered == {n \in Servers : srv[n] # "off"} = 1 .. Newest /\ Newest \in 0 .. MaxServers

\* The spawn lock is held from the eviction to the insertion, by whoever spawns.
Spawning(c) == caller[c] \in {"spawn", "init", "insert"}
LockHeld ==
  /\ \A c \in Callers : Spawning(c) <=> holder = c
  /\ holder # Unlocked => slot = Empty

\* A process that is starting is the one that the holder of the lock waits for; one that is up
\* is in the slot, or about to be inserted, and its death will be told.
Live(n) == srv[n] \in {"starting", "up"} /\ closing[n] = "no"
Accounted(n) ==
  /\ srv[n] = "starting" => n = Newest /\ holder # Unlocked /\ caller[holder] = "init"
  /\ srv[n] = "up" => n \in watched /\ closing[n] \in {"no", "asked"}
  /\ srv[n] = "up" /\ closing[n] = "no" =>
       slot = n \/ (n = Newest /\ holder # Unlocked /\ caller[holder] = "insert")
  /\ srv[n] = "off" => closing[n] = "no"
  /\ closing[n] # "no" => slot # n /\ (n = Newest /\ holder # Unlocked => caller[holder] = "spawn")
SlotFilled == slot \in Servers => srv[slot] # "off"
BeingBorn == \A c \in Callers : caller[c] = "insert" => Newest \in Servers
             
\* While no spawn may begin before the end of the last server is told, that end is the
\* newest server's, and the pill follows the slot.
EndsTold ==
  Alive(slot) \/ holder # Unlocked =>
    /\ Closing = {}
    /\ \A n \in Untold : n = Newest /\ holder # Unlocked /\ caller[holder] = "insert"
PillFollows ==
  /\ \A c \in Callers : caller[c] = "insert" /\ srv[Newest] = "up" => pill = "running"
  /\ \A c \in Callers : caller[c] = "insert" /\ pill = "running" =>
        srv[Newest] = "up" \/ Newest \in Untold
  /\ holder = Unlocked /\ Alive(slot) => pill = "running"
  /\ holder = Unlocked /\ pill = "running" => Alive(slot) \/ Closing # {} \/ Untold # {}

SlotInv ==
  /\ SlotTypeOK /\ Numbered /\ LockHeld /\ (\A n \in Servers : Accounted(n)) /\ SlotFilled /\ BeingBorn
  /\ "lag" \notin quirk => EndsTold /\ PillFollows


LEMMA NewestOf ==
  ASSUME NEW k \in 0 .. MaxServers, {n \in Servers : srv[n] # "off"} = 1 .. k
  PROVE  Newest = k
  <1>1. Cardinality(1 .. k) = k
    BY FS_Interval
  <1> QED BY <1>1 DEF Newest

LEMMA NewestAfter ==
  ASSUME NEW k \in 0 .. MaxServers, {n \in Servers : srv'[n] # "off"} = 1 .. k
  PROVE  Newest' = k
  <1>1. Cardinality(1 .. k) = k
    BY FS_Interval
  <1> QED BY <1>1 DEF Newest

\* The numbers stay when no process is spawned.
LEMMA NumbersStay ==
  ASSUME Numbered, \A n \in Servers : (srv'[n] = "off") <=> (srv[n] = "off")
  PROVE  Numbered' /\ Newest' = Newest
  <1>1. {n \in Servers : srv'[n] # "off"} = {n \in Servers : srv[n] # "off"}
    OBVIOUS
  <1> QED BY <1>1, NewestAfter DEF Numbered

LEMMA SlotInitHolds == ASSUME SlotInit PROVE SlotInv
  <1> USE SpawnAssumption DEF SlotInit
  <1>1. SlotTypeOK
    <2>1. slot \in {Empty, Missing} \cup Servers /\ holder \in Callers \cup {Unlocked} /\ closers \in 0 .. MaxClosers
      OBVIOUS
    <2> QED BY <2>1 DEF SlotTypeOK
  <1>2. {n \in Servers : srv[n] # "off"} = 1 .. 0
    BY DEF Servers
  <1>3. Newest = 0
    BY <1>2, NewestOf
  <1>4. Numbered
    BY <1>2, <1>3 DEF Numbered
  <1>5. LockHeld /\ (\A n \in Servers : Accounted(n)) /\ SlotFilled /\ BeingBorn
    BY DEF LockHeld, Spawning, Accounted, SlotFilled, BeingBorn, Servers, Empty
  <1>6. EndsTold /\ PillFollows
    BY DEF EndsTold, PillFollows, Alive, Servers, Empty
  <1> QED BY <1>1, <1>4, <1>5, <1>6 DEF SlotInv

LEMMA AskServerKeeps ==
  ASSUME SlotInv, NEW c \in Callers, AskServer(c)
  PROVE  SlotInv'
  <1> USE SpawnAssumption DEF AskServer
  <1> USE DEF SlotInv
  <1>a. /\ Empty \notin Servers /\ Missing \notin Servers /\ Missing # Empty
        /\ Unlocked \notin Callers
    BY DEF Servers, Empty, Missing
  <1>1. SlotTypeOK'
    BY DEF SlotTypeOK, Numbered, Servers
  <1>2. Numbered' /\ Newest' = Newest
    <2>1. \A n \in Servers : (srv'[n] = "off") <=> (srv[n] = "off")
      BY DEF SlotTypeOK
    <2> QED BY <2>1, NumbersStay
  <1> HIDE DEF SlotInv
  <1>3. LockHeld'
    BY <1>a DEF SlotInv, LockHeld, Spawning, SlotTypeOK
  <1>4. ASSUME NEW n \in Servers PROVE Accounted(n)'
    <2>1. Accounted(n)
      BY DEF SlotInv
    <2> QED BY <2>1, <1>a, <1>2 DEF SlotInv, Accounted, SlotTypeOK, LockHeld, Spawning, BeingBorn
  <1>5. SlotFilled' /\ BeingBorn'
    BY <1>a, <1>2 DEF SlotInv, SlotFilled, BeingBorn, SlotTypeOK, LockHeld, Spawning, Numbered
  <1>6. ASSUME "lag" \notin quirk' PROVE EndsTold' /\ PillFollows'
    <2> USE <1>6
    <2>0. EndsTold /\ PillFollows
      BY DEF SlotInv
    <2>1. EndsTold'
      BY <2>0, <1>a, <1>2 DEF SlotInv, EndsTold, SlotTypeOK, LockHeld, Spawning, Alive, Closing, Untold, Down, Accounted, Live
    <2>2. PillFollows'
      <3> USE <2>0, <1>a, <1>2
      <3>1. \A d \in Callers : (caller[d] = "insert")' /\ (srv[Newest] = "up")' => pill' = "running"
        BY DEF SlotInv, EndsTold, PillFollows, SlotTypeOK, LockHeld, Spawning, Alive, Closing, Untold, Down, Accounted, BeingBorn
      <3>2. \A d \in Callers : (caller[d] = "insert")' /\ pill' = "running" =>
              (srv[Newest] = "up")' \/ (Newest \in Untold)'
        BY DEF SlotInv, EndsTold, PillFollows, SlotTypeOK, LockHeld, Spawning, Alive, Closing, Untold, Down, Accounted, BeingBorn
      <3>3. holder' = Unlocked /\ Alive(slot)' => pill' = "running"
        BY DEF SlotInv, EndsTold, PillFollows, SlotTypeOK, LockHeld, Spawning, Alive, Closing, Untold, Down, Accounted, BeingBorn
      <3>4. holder' = Unlocked /\ pill' = "running" => Alive(slot)' \/ Closing' # {} \/ Untold' # {}
        BY DEF SlotInv, EndsTold, PillFollows, SlotTypeOK, LockHeld, Spawning, Alive, Closing, Untold, Down, Accounted, BeingBorn
      <3> QED BY <3>1, <3>2, <3>3, <3>4 DEF PillFollows
    <2> QED BY <2>1, <2>2
  <1> QED BY <1>1, <1>2, <1>3, <1>4, <1>5, <1>6 DEF SlotInv

LEMMA FindSlotKeeps ==
  ASSUME SlotInv, NEW c \in Callers, FindSlot(c)
  PROVE  SlotInv'
  <1> USE SpawnAssumption DEF FindSlot
  <1> USE DEF SlotInv
  <1>a. /\ Empty \notin Servers /\ Missing \notin Servers /\ Missing # Empty
        /\ Unlocked \notin Callers
    BY DEF Servers, Empty, Missing
  <1>b. \A d \in Callers : ~Spawning(d)
    BY DEF LockHeld, Spawning
  <1>1. SlotTypeOK'
    BY DEF SlotTypeOK, Numbered, Servers
  <1>2. Numbered' /\ Newest' = Newest
    <2>1. \A n \in Servers : (srv'[n] = "off") <=> (srv[n] = "off")
      BY DEF SlotTypeOK
    <2> QED BY <2>1, NumbersStay
  <1> HIDE DEF SlotInv
  <1>3. LockHeld'
    BY <1>a, <1>b DEF SlotInv, LockHeld, Spawning, SlotTypeOK
  <1>4. ASSUME NEW n \in Servers PROVE Accounted(n)'
    <2>1. Accounted(n)
      BY DEF SlotInv
    <2> QED BY <2>1, <1>a, <1>b, <1>2 DEF SlotInv, Accounted, SlotTypeOK, LockHeld, Spawning, BeingBorn
  <1>5. SlotFilled' /\ BeingBorn'
    BY <1>a, <1>b, <1>2 DEF SlotInv, SlotFilled, BeingBorn, SlotTypeOK, LockHeld, Spawning, Numbered
  <1>6. ASSUME "lag" \notin quirk' PROVE EndsTold' /\ PillFollows'
    <2> USE <1>6
    <2>0. EndsTold /\ PillFollows
      BY DEF SlotInv
    <2>1. EndsTold'
      BY <2>0, <1>a, <1>b, <1>2 DEF SlotInv, EndsTold, SlotTypeOK, LockHeld, Spawning, Alive, Closing, Untold, Down, Accounted, Live
    <2>2. PillFollows'
      <3> USE <2>0, <1>a, <1>b, <1>2
      <3>1. \A d \in Callers : (caller[d] = "insert")' /\ (srv[Newest] = "up")' => pill' = "running"
        BY DEF SlotInv, EndsTold, PillFollows, SlotTypeOK, LockHeld, Spawning, Alive, Closing, Untold, Down, Accounted, BeingBorn
      <3>2. \A d \in Callers : (caller[d] = "insert")' /\ pill' = "running" =>
              (srv[Newest] = "up")' \/ (Newest \in Untold)'
        BY DEF SlotInv, EndsTold, PillFollows, SlotTypeOK, LockHeld, Spawning, Alive, Closing, Untold, Down, Accounted, BeingBorn
      <3>3. holder' = Unlocked /\ Alive(slot)' => pill' = "running"
        BY DEF SlotInv, EndsTold, PillFollows, SlotTypeOK, LockHeld, Spawning, Alive, Closing, Untold, Down, Accounted, BeingBorn
      <3>4. holder' = Unlocked /\ pill' = "running" => Alive(slot)' \/ Closing' # {} \/ Untold' # {}
        BY DEF SlotInv, EndsTold, PillFollows, SlotTypeOK, LockHeld, Spawning, Alive, Closing, Untold, Down, Accounted, BeingBorn
      <3> QED BY <3>1, <3>2, <3>3, <3>4 DEF PillFollows
    <2> QED BY <2>1, <2>2
  <1> QED BY <1>1, <1>2, <1>3, <1>4, <1>5, <1>6 DEF SlotInv

LEMMA FindEmptyKeeps ==
  ASSUME SlotInv, NEW c \in Callers, FindEmpty(c)
  PROVE  SlotInv'
  <1> USE SpawnAssumption DEF FindEmpty
  <1> USE DEF SlotInv
  <1>a. /\ Empty \notin Servers /\ Missing \notin Servers /\ Missing # Empty
        /\ Unlocked \notin Callers
    BY DEF Servers, Empty, Missing
  <1>b. \A d \in Callers : ~Spawning(d)
    BY DEF LockHeld, Spawning
  <1>c. \A n \in Servers : ~Live(n)
    BY <1>a, <1>b DEF Live, Accounted, Alive, SlotTypeOK, LockHeld
  <1>1. SlotTypeOK'
    BY <1>c DEF SlotTypeOK, Numbered, Servers
  <1>2. Numbered' /\ Newest' = Newest
    <2>1. \A n \in Servers : (srv'[n] = "off") <=> (srv[n] = "off")
      BY <1>c DEF SlotTypeOK
    <2> QED BY <2>1, NumbersStay
  <1> HIDE DEF SlotInv
  <1>3. LockHeld'
    BY <1>a, <1>b DEF SlotInv, LockHeld, Spawning, SlotTypeOK
  <1>4. ASSUME NEW n \in Servers PROVE Accounted(n)'
    <2>1. Accounted(n)
      BY DEF SlotInv
    <2> QED BY <2>1, <1>a, <1>b, <1>c, <1>2 DEF SlotInv, Accounted, SlotTypeOK, LockHeld, Spawning, BeingBorn, Live
  <1>5. SlotFilled' /\ BeingBorn'
    BY <1>a, <1>b, <1>c, <1>2 DEF SlotInv, SlotFilled, BeingBorn, SlotTypeOK, LockHeld, Spawning, Numbered
  <1>6. ASSUME "lag" \notin quirk' PROVE EndsTold' /\ PillFollows'
    <2> USE <1>6
    <2>0. EndsTold /\ PillFollows
      BY DEF SlotInv
    <2>1. EndsTold'
      BY <2>0, <1>a, <1>b, <1>c, <1>2 DEF SlotInv, EndsTold, SlotTypeOK, LockHeld, Spawning, Alive, Closing, Untold, Down, Accounted, Live
    <2>2. PillFollows'
      <3> USE <2>0, <1>a, <1>b, <1>c, <1>2
      <3>1. \A d \in Callers : (caller[d] = "insert")' /\ (srv[Newest] = "up")' => pill' = "running"
        BY DEF SlotInv, EndsTold, PillFollows, SlotTypeOK, LockHeld, Spawning, Alive, Closing, Untold, Down, Accounted, BeingBorn
      <3>2. \A d \in Callers : (caller[d] = "insert")' /\ pill' = "running" =>
              (srv[Newest] = "up")' \/ (Newest \in Untold)'
        BY DEF SlotInv, EndsTold, PillFollows, SlotTypeOK, LockHeld, Spawning, Alive, Closing, Untold, Down, Accounted, BeingBorn
      <3>3. holder' = Unlocked /\ Alive(slot)' => pill' = "running"
        BY DEF SlotInv, EndsTold, PillFollows, SlotTypeOK, LockHeld, Spawning, Alive, Closing, Untold, Down, Accounted, BeingBorn
      <3>4. holder' = Unlocked /\ pill' = "running" => Alive(slot)' \/ Closing' # {} \/ Untold' # {}
        BY DEF SlotInv, EndsTold, PillFollows, SlotTypeOK, LockHeld, Spawning, Alive, Closing, Untold, Down, Accounted, BeingBorn
      <3> QED BY <3>1, <3>2, <3>3, <3>4 DEF PillFollows
    <2> QED BY <2>1, <2>2
  <1> QED BY <1>1, <1>2, <1>3, <1>4, <1>5, <1>6 DEF SlotInv

LEMMA NotFoundKeeps ==
  ASSUME SlotInv, NEW c \in Callers, NotFound(c)
  PROVE  SlotInv'
  <1> USE SpawnAssumption DEF NotFound
  <1> USE DEF SlotInv
  <1>a. /\ Empty \notin Servers /\ Missing \notin Servers /\ Missing # Empty
        /\ Unlocked \notin Callers
    BY DEF Servers, Empty, Missing
  <1>b. holder = c /\ slot = Empty /\ \A d \in Callers : Spawning(d) => d = c
    BY DEF LockHeld, Spawning
  <1>1. SlotTypeOK'
    BY DEF SlotTypeOK, Numbered, Servers
  <1>2. Numbered' /\ Newest' = Newest
    <2>1. \A n \in Servers : (srv'[n] = "off") <=> (srv[n] = "off")
      BY DEF SlotTypeOK
    <2> QED BY <2>1, NumbersStay
  <1> HIDE DEF SlotInv
  <1>3. LockHeld'
    BY <1>a, <1>b DEF SlotInv, LockHeld, Spawning, SlotTypeOK
  <1>4. ASSUME NEW n \in Servers PROVE Accounted(n)'
    <2>1. Accounted(n)
      BY DEF SlotInv
    <2> QED BY <2>1, <1>a, <1>b, <1>2 DEF SlotInv, Accounted, SlotTypeOK, LockHeld, Spawning, BeingBorn
  <1>5. SlotFilled' /\ BeingBorn'
    BY <1>a, <1>b, <1>2 DEF SlotInv, SlotFilled, BeingBorn, SlotTypeOK, LockHeld, Spawning, Numbered
  <1>6. ASSUME "lag" \notin quirk' PROVE EndsTold' /\ PillFollows'
    <2> USE <1>6
    <2>0. EndsTold /\ PillFollows
      BY DEF SlotInv
    <2>1. EndsTold'
      BY <2>0, <1>a, <1>b, <1>2 DEF SlotInv, EndsTold, SlotTypeOK, LockHeld, Spawning, Alive, Closing, Untold, Down, Accounted, Live
    <2>2. PillFollows'
      <3> USE <2>0, <1>a, <1>b, <1>2
      <3>1. \A d \in Callers : (caller[d] = "insert")' /\ (srv[Newest] = "up")' => pill' = "running"
        BY DEF SlotInv, EndsTold, PillFollows, SlotTypeOK, LockHeld, Spawning, Alive, Closing, Untold, Down, Accounted, BeingBorn
      <3>2. \A d \in Callers : (caller[d] = "insert")' /\ pill' = "running" =>
              (srv[Newest] = "up")' \/ (Newest \in Untold)'
        BY DEF SlotInv, EndsTold, PillFollows, SlotTypeOK, LockHeld, Spawning, Alive, Closing, Untold, Down, Accounted, BeingBorn
      <3>3. holder' = Unlocked /\ Alive(slot)' => pill' = "running"
        BY DEF SlotInv, EndsTold, PillFollows, SlotTypeOK, LockHeld, Spawning, Alive, Closing, Untold, Down, Accounted, BeingBorn
      <3>4. holder' = Unlocked /\ pill' = "running" => Alive(slot)' \/ Closing' # {} \/ Untold' # {}
        BY DEF SlotInv, EndsTold, PillFollows, SlotTypeOK, LockHeld, Spawning, Alive, Closing, Untold, Down, Accounted, BeingBorn
      <3> QED BY <3>1, <3>2, <3>3, <3>4 DEF PillFollows
    <2> QED BY <2>1, <2>2
  <1> QED BY <1>1, <1>2, <1>3, <1>4, <1>5, <1>6 DEF SlotInv

LEMMA StartProcessKeeps ==
  ASSUME SlotInv, NEW c \in Callers, StartProcess(c)
  PROVE  SlotInv'
  <1> USE SpawnAssumption DEF StartProcess
  <1> USE DEF SlotInv
  <1>a. /\ Empty \notin Servers /\ Missing \notin Servers /\ Missing # Empty
        /\ Unlocked \notin Callers
    BY DEF Servers, Empty, Missing
  <1>b. holder = c /\ slot = Empty /\ \A d \in Callers : Spawning(d) => d = c
    BY DEF LockHeld, Spawning
  <1>c. /\ Newest + 1 \in Servers /\ srv[Newest + 1] = "off" /\ Newest \in Nat
        /\ \A n \in Servers : srv[n] \notin {"starting", "up"} \/ closing[n] # "no"
    BY <1>a, <1>b DEF Numbered, Servers, Accounted
  <1>1. SlotTypeOK'
    BY <1>c DEF SlotTypeOK, Numbered, Servers
  <1>2. Numbered' /\ Newest' = Newest + 1
    <2>1. {n \in Servers : srv'[n] # "off"} = {n \in Servers : srv[n] # "off"} \cup {Newest + 1}
      BY <1>c DEF SlotTypeOK
    <2>2. {n \in Servers : srv'[n] # "off"} = 1 .. Newest + 1
      BY <2>1, <1>c DEF Numbered
    <2>3. Newest + 1 \in 0 .. MaxServers
      BY <1>c DEF Servers
    <2> QED BY <2>2, <2>3, NewestAfter DEF Numbered
  <1> HIDE DEF SlotInv
  <1>3. LockHeld'
    BY <1>a, <1>b DEF SlotInv, LockHeld, Spawning, SlotTypeOK
  <1>4. ASSUME NEW n \in Servers PROVE Accounted(n)'
    <2>1. Accounted(n)
      BY DEF SlotInv
    <2> QED BY <2>1, <1>a, <1>b, <1>c, <1>2 DEF SlotInv, Accounted, SlotTypeOK, LockHeld, Spawning, BeingBorn, Servers
  <1>5. SlotFilled' /\ BeingBorn'
    BY <1>a, <1>b, <1>c, <1>2 DEF SlotInv, SlotFilled, BeingBorn, SlotTypeOK, LockHeld, Spawning, Numbered, Servers
  <1>6. ASSUME "lag" \notin quirk' PROVE EndsTold' /\ PillFollows'
    <2> USE <1>6
    <2>0. EndsTold /\ PillFollows
      BY DEF SlotInv
    <2>1. EndsTold'
      BY <2>0, <1>a, <1>b, <1>c, <1>2 DEF SlotInv, EndsTold, SlotTypeOK, LockHeld, Spawning, Alive, Closing, Untold, Down, Accounted, Live
    <2>2. PillFollows'
      <3> USE <2>0, <1>a, <1>b, <1>c, <1>2
      <3>1. \A d \in Callers : (caller[d] = "insert")' /\ (srv[Newest] = "up")' => pill' = "running"
        BY DEF SlotInv, EndsTold, PillFollows, SlotTypeOK, LockHeld, Spawning, Alive, Closing, Untold, Down, Accounted, BeingBorn
      <3>2. \A d \in Callers : (caller[d] = "insert")' /\ pill' = "running" =>
              (srv[Newest] = "up")' \/ (Newest \in Untold)'
        BY DEF SlotInv, EndsTold, PillFollows, SlotTypeOK, LockHeld, Spawning, Alive, Closing, Untold, Down, Accounted, BeingBorn
      <3>3. holder' = Unlocked /\ Alive(slot)' => pill' = "running"
        BY DEF SlotInv, EndsTold, PillFollows, SlotTypeOK, LockHeld, Spawning, Alive, Closing, Untold, Down, Accounted, BeingBorn
      <3>4. holder' = Unlocked /\ pill' = "running" => Alive(slot)' \/ Closing' # {} \/ Untold' # {}
        BY DEF SlotInv, EndsTold, PillFollows, SlotTypeOK, LockHeld, Spawning, Alive, Closing, Untold, Down, Accounted, BeingBorn
      <3> QED BY <3>1, <3>2, <3>3, <3>4 DEF PillFollows
    <2> QED BY <2>1, <2>2
  <1> QED BY <1>1, <1>2, <1>3, <1>4, <1>5, <1>6 DEF SlotInv

LEMMA InitialisedKeeps ==
  ASSUME SlotInv, NEW c \in Callers, Initialised(c)
  PROVE  SlotInv'
  <1> USE SpawnAssumption DEF Initialised
  <1> USE DEF SlotInv
  <1>a. /\ Empty \notin Servers /\ Missing \notin Servers /\ Missing # Empty
        /\ Unlocked \notin Callers
    BY DEF Servers, Empty, Missing
  <1>b. holder = c /\ slot = Empty /\ \A d \in Callers : Spawning(d) => d = c
    BY DEF LockHeld, Spawning
  <1>c. PICK m \in Servers : srv[m] = "starting" /\ m = Newest /\ srv' = [srv EXCEPT ![m] = "up"] /\ watched' = watched \cup {m}
    BY <1>b DEF Accounted, SlotTypeOK
  <1>1. SlotTypeOK'
    BY <1>c DEF SlotTypeOK, Numbered, Servers
  <1>2. Numbered' /\ Newest' = Newest
    <2>1. \A n \in Servers : (srv'[n] = "off") <=> (srv[n] = "off")
      BY <1>c DEF SlotTypeOK
    <2> QED BY <2>1, NumbersStay
  <1> HIDE DEF SlotInv
  <1>3. LockHeld'
    BY <1>a, <1>b DEF SlotInv, LockHeld, Spawning, SlotTypeOK
  <1>4. ASSUME NEW n \in Servers PROVE Accounted(n)'
    <2>1. Accounted(n)
      BY DEF SlotInv
    <2> QED BY <2>1, <1>a, <1>b, <1>c, <1>2 DEF SlotInv, Accounted, SlotTypeOK, LockHeld, Spawning, BeingBorn
  <1>5. SlotFilled' /\ BeingBorn'
    BY <1>a, <1>b, <1>c, <1>2 DEF SlotInv, SlotFilled, BeingBorn, SlotTypeOK, LockHeld, Spawning, Numbered
  <1>6. ASSUME "lag" \notin quirk' PROVE EndsTold' /\ PillFollows'
    <2> USE <1>6
    <2>0. EndsTold /\ PillFollows
      BY DEF SlotInv
    <2>1. EndsTold'
      BY <2>0, <1>a, <1>b, <1>c, <1>2 DEF SlotInv, EndsTold, SlotTypeOK, LockHeld, Spawning, Alive, Closing, Untold, Down, Accounted, Live
    <2>2. PillFollows'
      <3> USE <2>0, <1>a, <1>b, <1>c, <1>2
      <3>1. \A d \in Callers : (caller[d] = "insert")' /\ (srv[Newest] = "up")' => pill' = "running"
        BY DEF SlotInv, EndsTold, PillFollows, SlotTypeOK, LockHeld, Spawning, Alive, Closing, Untold, Down, Accounted, BeingBorn
      <3>2. \A d \in Callers : (caller[d] = "insert")' /\ pill' = "running" =>
              (srv[Newest] = "up")' \/ (Newest \in Untold)'
        BY DEF SlotInv, EndsTold, PillFollows, SlotTypeOK, LockHeld, Spawning, Alive, Closing, Untold, Down, Accounted, BeingBorn
      <3>3. holder' = Unlocked /\ Alive(slot)' => pill' = "running"
        BY DEF SlotInv, EndsTold, PillFollows, SlotTypeOK, LockHeld, Spawning, Alive, Closing, Untold, Down, Accounted, BeingBorn
      <3>4. holder' = Unlocked /\ pill' = "running" => Alive(slot)' \/ Closing' # {} \/ Untold' # {}
        BY DEF SlotInv, EndsTold, PillFollows, SlotTypeOK, LockHeld, Spawning, Alive, Closing, Untold, Down, Accounted, BeingBorn
      <3> QED BY <3>1, <3>2, <3>3, <3>4 DEF PillFollows
    <2> QED BY <2>1, <2>2
  <1> QED BY <1>1, <1>2, <1>3, <1>4, <1>5, <1>6 DEF SlotInv

LEMMA InitialiseFailsKeeps ==
  ASSUME SlotInv, NEW c \in Callers, InitialiseFails(c), "refuse" \notin quirk
  PROVE  SlotInv'
  <1> USE SpawnAssumption DEF InitialiseFails
  <1> USE DEF SlotInv
  <1>a. /\ Empty \notin Servers /\ Missing \notin Servers /\ Missing # Empty
        /\ Unlocked \notin Callers
    BY DEF Servers, Empty, Missing
  <1>b. holder = c /\ slot = Empty /\ \A d \in Callers : Spawning(d) => d = c
    BY DEF LockHeld, Spawning
  <1>c. PICK m \in Servers : srv[m] = "starting" /\ m = Newest /\ srv' = [srv EXCEPT ![m] = "dead"]
    BY <1>b DEF Accounted, SlotTypeOK
  <1>1. SlotTypeOK'
    BY <1>c DEF SlotTypeOK, Numbered, Servers
  <1>2. Numbered' /\ Newest' = Newest
    <2>1. \A n \in Servers : (srv'[n] = "off") <=> (srv[n] = "off")
      BY <1>c DEF SlotTypeOK
    <2> QED BY <2>1, NumbersStay
  <1> HIDE DEF SlotInv
  <1>3. LockHeld'
    BY <1>a, <1>b DEF SlotInv, LockHeld, Spawning, SlotTypeOK
  <1>4. ASSUME NEW n \in Servers PROVE Accounted(n)'
    <2>1. Accounted(n)
      BY DEF SlotInv
    <2> QED BY <2>1, <1>a, <1>b, <1>c, <1>2 DEF SlotInv, Accounted, SlotTypeOK, LockHeld, Spawning, BeingBorn
  <1>5. SlotFilled' /\ BeingBorn'
    BY <1>a, <1>b, <1>c, <1>2 DEF SlotInv, SlotFilled, BeingBorn, SlotTypeOK, LockHeld, Spawning, Numbered
  <1>6. ASSUME "lag" \notin quirk' PROVE EndsTold' /\ PillFollows'
    <2> USE <1>6
    <2>0. EndsTold /\ PillFollows
      BY DEF SlotInv
    <2>1. EndsTold'
      BY <2>0, <1>a, <1>b, <1>c, <1>2 DEF SlotInv, EndsTold, SlotTypeOK, LockHeld, Spawning, Alive, Closing, Untold, Down, Accounted, Live
    <2>2. PillFollows'
      <3> USE <2>0, <1>a, <1>b, <1>c, <1>2
      <3>1. \A d \in Callers : (caller[d] = "insert")' /\ (srv[Newest] = "up")' => pill' = "running"
        BY DEF SlotInv, EndsTold, PillFollows, SlotTypeOK, LockHeld, Spawning, Alive, Closing, Untold, Down, Accounted, BeingBorn
      <3>2. \A d \in Callers : (caller[d] = "insert")' /\ pill' = "running" =>
              (srv[Newest] = "up")' \/ (Newest \in Untold)'
        BY DEF SlotInv, EndsTold, PillFollows, SlotTypeOK, LockHeld, Spawning, Alive, Closing, Untold, Down, Accounted, BeingBorn
      <3>3. holder' = Unlocked /\ Alive(slot)' => pill' = "running"
        BY DEF SlotInv, EndsTold, PillFollows, SlotTypeOK, LockHeld, Spawning, Alive, Closing, Untold, Down, Accounted, BeingBorn
      <3>4. holder' = Unlocked /\ pill' = "running" => Alive(slot)' \/ Closing' # {} \/ Untold' # {}
        BY DEF SlotInv, EndsTold, PillFollows, SlotTypeOK, LockHeld, Spawning, Alive, Closing, Untold, Down, Accounted, BeingBorn
      <3> QED BY <3>1, <3>2, <3>3, <3>4 DEF PillFollows
    <2> QED BY <2>1, <2>2
  <1> QED BY <1>1, <1>2, <1>3, <1>4, <1>5, <1>6 DEF SlotInv

LEMMA InsertKeeps ==
  ASSUME SlotInv, NEW c \in Callers, Insert(c)
  PROVE  SlotInv'
  <1> USE SpawnAssumption DEF Insert
  <1> USE DEF SlotInv
  <1>a. /\ Empty \notin Servers /\ Missing \notin Servers /\ Missing # Empty
        /\ Unlocked \notin Callers
    BY DEF Servers, Empty, Missing
  <1>b. holder = c /\ slot = Empty /\ \A d \in Callers : Spawning(d) => d = c
    BY DEF LockHeld, Spawning
  <1>1. SlotTypeOK'
    BY DEF SlotTypeOK, Numbered, BeingBorn
  <1>2. Numbered' /\ Newest' = Newest
    <2>1. \A n \in Servers : (srv'[n] = "off") <=> (srv[n] = "off")
      BY DEF SlotTypeOK
    <2> QED BY <2>1, NumbersStay
  <1> HIDE DEF SlotInv
  <1>3. LockHeld'
    BY <1>a, <1>b DEF SlotInv, LockHeld, Spawning, SlotTypeOK
  <1>4. ASSUME NEW n \in Servers PROVE Accounted(n)'
    <2>1. Accounted(n)
      BY DEF SlotInv
    <2> QED BY <2>1, <1>a, <1>b, <1>2 DEF SlotInv, Accounted, SlotTypeOK, LockHeld, Spawning, BeingBorn
  <1>5. SlotFilled' /\ BeingBorn'
    BY <1>a, <1>b, <1>2 DEF SlotInv, SlotFilled, BeingBorn, SlotTypeOK, LockHeld, Spawning, Numbered, Servers
  <1>6. ASSUME "lag" \notin quirk' PROVE EndsTold' /\ PillFollows'
    <2> USE <1>6
    <2>0. EndsTold /\ PillFollows
      BY DEF SlotInv
    <2>1. EndsTold'
      BY <2>0, <1>a, <1>b, <1>2 DEF SlotInv, EndsTold, SlotTypeOK, LockHeld, Spawning, Alive, Closing, Untold, Down, Accounted, Live
    <2>2. PillFollows'
      <3> USE <2>0, <1>a, <1>b, <1>2
      <3>1. \A d \in Callers : (caller[d] = "insert")' /\ (srv[Newest] = "up")' => pill' = "running"
        BY DEF SlotInv, EndsTold, PillFollows, SlotTypeOK, LockHeld, Spawning, Alive, Closing, Untold, Down, Accounted, BeingBorn
      <3>2. \A d \in Callers : (caller[d] = "insert")' /\ pill' = "running" =>
              (srv[Newest] = "up")' \/ (Newest \in Untold)'
        BY DEF SlotInv, EndsTold, PillFollows, SlotTypeOK, LockHeld, Spawning, Alive, Closing, Untold, Down, Accounted, BeingBorn
      <3>3. holder' = Unlocked /\ Alive(slot)' => pill' = "running"
        BY DEF SlotInv, EndsTold, PillFollows, SlotTypeOK, LockHeld, Spawning, Alive, Closing, Untold, Down, Accounted, BeingBorn
      <3>4. holder' = Unlocked /\ pill' = "running" => Alive(slot)' \/ Closing' # {} \/ Untold' # {}
        BY DEF SlotInv, EndsTold, PillFollows, SlotTypeOK, LockHeld, Spawning, Alive, Closing, Untold, Down, Accounted, BeingBorn
      <3> QED BY <3>1, <3>2, <3>3, <3>4 DEF PillFollows
    <2> QED BY <2>1, <2>2
  <1> QED BY <1>1, <1>2, <1>3, <1>4, <1>5, <1>6 DEF SlotInv

LEMMA CallAgainKeeps ==
  ASSUME SlotInv, NEW c \in Callers, CallAgain(c)
  PROVE  SlotInv'
  <1> USE SpawnAssumption DEF CallAgain
  <1> USE DEF SlotInv
  <1>a. /\ Empty \notin Servers /\ Missing \notin Servers /\ Missing # Empty
        /\ Unlocked \notin Callers
    BY DEF Servers, Empty, Missing
  <1>1. SlotTypeOK'
    BY DEF SlotTypeOK, Numbered, Servers
  <1>2. Numbered' /\ Newest' = Newest
    <2>1. \A n \in Servers : (srv'[n] = "off") <=> (srv[n] = "off")
      BY DEF SlotTypeOK
    <2> QED BY <2>1, NumbersStay
  <1> HIDE DEF SlotInv
  <1>3. LockHeld'
    BY <1>a DEF SlotInv, LockHeld, Spawning, SlotTypeOK
  <1>4. ASSUME NEW n \in Servers PROVE Accounted(n)'
    <2>1. Accounted(n)
      BY DEF SlotInv
    <2> QED BY <2>1, <1>a, <1>2 DEF SlotInv, Accounted, SlotTypeOK, LockHeld, Spawning, BeingBorn
  <1>5. SlotFilled' /\ BeingBorn'
    BY <1>a, <1>2 DEF SlotInv, SlotFilled, BeingBorn, SlotTypeOK, LockHeld, Spawning, Numbered
  <1>6. ASSUME "lag" \notin quirk' PROVE EndsTold' /\ PillFollows'
    <2> USE <1>6
    <2>0. EndsTold /\ PillFollows
      BY DEF SlotInv
    <2>1. EndsTold'
      BY <2>0, <1>a, <1>2 DEF SlotInv, EndsTold, SlotTypeOK, LockHeld, Spawning, Alive, Closing, Untold, Down, Accounted, Live
    <2>2. PillFollows'
      <3> USE <2>0, <1>a, <1>2
      <3>1. \A d \in Callers : (caller[d] = "insert")' /\ (srv[Newest] = "up")' => pill' = "running"
        BY DEF SlotInv, EndsTold, PillFollows, SlotTypeOK, LockHeld, Spawning, Alive, Closing, Untold, Down, Accounted, BeingBorn
      <3>2. \A d \in Callers : (caller[d] = "insert")' /\ pill' = "running" =>
              (srv[Newest] = "up")' \/ (Newest \in Untold)'
        BY DEF SlotInv, EndsTold, PillFollows, SlotTypeOK, LockHeld, Spawning, Alive, Closing, Untold, Down, Accounted, BeingBorn
      <3>3. holder' = Unlocked /\ Alive(slot)' => pill' = "running"
        BY DEF SlotInv, EndsTold, PillFollows, SlotTypeOK, LockHeld, Spawning, Alive, Closing, Untold, Down, Accounted, BeingBorn
      <3>4. holder' = Unlocked /\ pill' = "running" => Alive(slot)' \/ Closing' # {} \/ Untold' # {}
        BY DEF SlotInv, EndsTold, PillFollows, SlotTypeOK, LockHeld, Spawning, Alive, Closing, Untold, Down, Accounted, BeingBorn
      <3> QED BY <3>1, <3>2, <3>3, <3>4 DEF PillFollows
    <2> QED BY <2>1, <2>2
  <1> QED BY <1>1, <1>2, <1>3, <1>4, <1>5, <1>6 DEF SlotInv

LEMMA ServerDiesKeeps ==
  ASSUME SlotInv, NEW s \in Servers, ServerDies(s)
  PROVE  SlotInv'
  <1> USE SpawnAssumption DEF ServerDies
  <1> USE DEF SlotInv
  <1>a. /\ Empty \notin Servers /\ Missing \notin Servers /\ Missing # Empty
        /\ Unlocked \notin Callers
    BY DEF Servers, Empty, Missing
  <1>1. SlotTypeOK'
    BY DEF SlotTypeOK, Numbered, Servers
  <1>2. Numbered' /\ Newest' = Newest
    <2>1. \A n \in Servers : (srv'[n] = "off") <=> (srv[n] = "off")
      BY DEF SlotTypeOK
    <2> QED BY <2>1, NumbersStay
  <1> HIDE DEF SlotInv
  <1>3. LockHeld'
    BY <1>a DEF SlotInv, LockHeld, Spawning, SlotTypeOK
  <1>4. ASSUME NEW n \in Servers PROVE Accounted(n)'
    <2>1. Accounted(n)
      BY DEF SlotInv
    <2> QED BY <2>1, <1>a, <1>2 DEF SlotInv, Accounted, SlotTypeOK, LockHeld, Spawning, BeingBorn
  <1>5. SlotFilled' /\ BeingBorn'
    BY <1>a, <1>2 DEF SlotInv, SlotFilled, BeingBorn, SlotTypeOK, LockHeld, Spawning, Numbered
  <1>6. ASSUME "lag" \notin quirk' PROVE EndsTold' /\ PillFollows'
    <2> USE <1>6
    <2>0. EndsTold /\ PillFollows
      BY DEF SlotInv
    <2>1. EndsTold'
      BY <2>0, <1>a, <1>2 DEF SlotInv, EndsTold, SlotTypeOK, LockHeld, Spawning, Alive, Closing, Untold, Down, Accounted, Live
    <2>2. PillFollows'
      <3> USE <2>0, <1>a, <1>2
      <3>1. \A d \in Callers : (caller[d] = "insert")' /\ (srv[Newest] = "up")' => pill' = "running"
        BY DEF SlotInv, EndsTold, PillFollows, SlotTypeOK, LockHeld, Spawning, Alive, Closing, Untold, Down, Accounted, BeingBorn
      <3>2. \A d \in Callers : (caller[d] = "insert")' /\ pill' = "running" =>
              (srv[Newest] = "up")' \/ (Newest \in Untold)'
        BY DEF SlotInv, EndsTold, PillFollows, SlotTypeOK, LockHeld, Spawning, Alive, Closing, Untold, Down, Accounted, BeingBorn
      <3>3. holder' = Unlocked /\ Alive(slot)' => pill' = "running"
        BY DEF SlotInv, EndsTold, PillFollows, SlotTypeOK, LockHeld, Spawning, Alive, Closing, Untold, Down, Accounted, BeingBorn
      <3>4. holder' = Unlocked /\ pill' = "running" => Alive(slot)' \/ Closing' # {} \/ Untold' # {}
        BY DEF SlotInv, EndsTold, PillFollows, SlotTypeOK, LockHeld, Spawning, Alive, Closing, Untold, Down, Accounted, BeingBorn
      <3> QED BY <3>1, <3>2, <3>3, <3>4 DEF PillFollows
    <2> QED BY <2>1, <2>2
  <1> QED BY <1>1, <1>2, <1>3, <1>4, <1>5, <1>6 DEF SlotInv

LEMMA WatcherTellsKeeps ==
  ASSUME SlotInv, NEW s \in Servers, WatcherTells(s)
  PROVE  SlotInv'
  <1> USE SpawnAssumption DEF WatcherTells
  <1> USE DEF SlotInv
  <1>a. /\ Empty \notin Servers /\ Missing \notin Servers /\ Missing # Empty
        /\ Unlocked \notin Callers
    BY DEF Servers, Empty, Missing
  <1>1. SlotTypeOK'
    BY DEF SlotTypeOK, Numbered, Servers
  <1>2. Numbered' /\ Newest' = Newest
    <2>1. \A n \in Servers : (srv'[n] = "off") <=> (srv[n] = "off")
      BY DEF SlotTypeOK
    <2> QED BY <2>1, NumbersStay
  <1> HIDE DEF SlotInv
  <1>3. LockHeld'
    BY <1>a DEF SlotInv, LockHeld, Spawning, SlotTypeOK
  <1>4. ASSUME NEW n \in Servers PROVE Accounted(n)'
    <2>1. Accounted(n)
      BY DEF SlotInv
    <2> QED BY <2>1, <1>a, <1>2 DEF SlotInv, Accounted, SlotTypeOK, LockHeld, Spawning, BeingBorn, Untold, Down
  <1>5. SlotFilled' /\ BeingBorn'
    BY <1>a, <1>2 DEF SlotInv, SlotFilled, BeingBorn, SlotTypeOK, LockHeld, Spawning, Numbered
  <1>6. ASSUME "lag" \notin quirk' PROVE EndsTold' /\ PillFollows'
    <2> USE <1>6
    <2>0. EndsTold /\ PillFollows
      BY DEF SlotInv
    <2>1. EndsTold'
      BY <2>0, <1>a, <1>2 DEF SlotInv, EndsTold, SlotTypeOK, LockHeld, Spawning, Alive, Closing, Untold, Down, Accounted, Live
    <2>2. PillFollows'
      <3> USE <2>0, <1>a, <1>2
      <3>1. \A d \in Callers : (caller[d] = "insert")' /\ (srv[Newest] = "up")' => pill' = "running"
        BY DEF SlotInv, EndsTold, PillFollows, SlotTypeOK, LockHeld, Spawning, Alive, Closing, Untold, Down, Accounted, BeingBorn
      <3>2. \A d \in Callers : (caller[d] = "insert")' /\ pill' = "running" =>
              (srv[Newest] = "up")' \/ (Newest \in Untold)'
        BY DEF SlotInv, EndsTold, PillFollows, SlotTypeOK, LockHeld, Spawning, Alive, Closing, Untold, Down, Accounted, BeingBorn
      <3>3. holder' = Unlocked /\ Alive(slot)' => pill' = "running"
        BY DEF SlotInv, EndsTold, PillFollows, SlotTypeOK, LockHeld, Spawning, Alive, Closing, Untold, Down, Accounted, BeingBorn
      <3>4. holder' = Unlocked /\ pill' = "running" => Alive(slot)' \/ Closing' # {} \/ Untold' # {}
        BY DEF SlotInv, EndsTold, PillFollows, SlotTypeOK, LockHeld, Spawning, Alive, Closing, Untold, Down, Accounted, BeingBorn
      <3> QED BY <3>1, <3>2, <3>3, <3>4 DEF PillFollows
    <2> QED BY <2>1, <2>2
  <1> QED BY <1>1, <1>2, <1>3, <1>4, <1>5, <1>6 DEF SlotInv

LEMMA CloseStdioKeeps ==
  ASSUME SlotInv, NEW s \in Servers, CloseStdio(s)
  PROVE  SlotInv'
  <1> USE SpawnAssumption DEF CloseStdio
  <1> USE DEF SlotInv
  <1>a. /\ Empty \notin Servers /\ Missing \notin Servers /\ Missing # Empty
        /\ Unlocked \notin Callers
    BY DEF Servers, Empty, Missing
  <1>c. srv[s] # "off"
    BY DEF Accounted
  <1>1. SlotTypeOK'
    BY <1>c DEF SlotTypeOK, Numbered, Servers
  <1>2. Numbered' /\ Newest' = Newest
    <2>1. \A n \in Servers : (srv'[n] = "off") <=> (srv[n] = "off")
      BY <1>c DEF SlotTypeOK
    <2> QED BY <2>1, NumbersStay
  <1> HIDE DEF SlotInv
  <1>3. LockHeld'
    BY <1>a DEF SlotInv, LockHeld, Spawning, SlotTypeOK
  <1>4. ASSUME NEW n \in Servers PROVE Accounted(n)'
    <2>1. Accounted(n)
      BY DEF SlotInv
    <2> QED BY <2>1, <1>a, <1>c, <1>2 DEF SlotInv, Accounted, SlotTypeOK, LockHeld, Spawning, BeingBorn
  <1>5. SlotFilled' /\ BeingBorn'
    BY <1>a, <1>c, <1>2 DEF SlotInv, SlotFilled, BeingBorn, SlotTypeOK, LockHeld, Spawning, Numbered
  <1>6. ASSUME "lag" \notin quirk' PROVE EndsTold' /\ PillFollows'
    <2> USE <1>6
    <2>0. EndsTold /\ PillFollows
      BY DEF SlotInv
    <2>1. EndsTold'
      BY <2>0, <1>a, <1>c, <1>2 DEF SlotInv, EndsTold, SlotTypeOK, LockHeld, Spawning, Alive, Closing, Untold, Down, Accounted, Live
    <2>2. PillFollows'
      <3> USE <2>0, <1>a, <1>c, <1>2
      <3>1. \A d \in Callers : (caller[d] = "insert")' /\ (srv[Newest] = "up")' => pill' = "running"
        BY DEF SlotInv, EndsTold, PillFollows, SlotTypeOK, LockHeld, Spawning, Alive, Closing, Untold, Down, Accounted, BeingBorn
      <3>2. \A d \in Callers : (caller[d] = "insert")' /\ pill' = "running" =>
              (srv[Newest] = "up")' \/ (Newest \in Untold)'
        BY DEF SlotInv, EndsTold, PillFollows, SlotTypeOK, LockHeld, Spawning, Alive, Closing, Untold, Down, Accounted, BeingBorn
      <3>3. holder' = Unlocked /\ Alive(slot)' => pill' = "running"
        BY DEF SlotInv, EndsTold, PillFollows, SlotTypeOK, LockHeld, Spawning, Alive, Closing, Untold, Down, Accounted, BeingBorn
      <3>4. holder' = Unlocked /\ pill' = "running" => Alive(slot)' \/ Closing' # {} \/ Untold' # {}
        BY DEF SlotInv, EndsTold, PillFollows, SlotTypeOK, LockHeld, Spawning, Alive, Closing, Untold, Down, Accounted, BeingBorn
      <3> QED BY <3>1, <3>2, <3>3, <3>4 DEF PillFollows
    <2> QED BY <2>1, <2>2
  <1> QED BY <1>1, <1>2, <1>3, <1>4, <1>5, <1>6 DEF SlotInv

LEMMA CloseChildKeeps ==
  ASSUME SlotInv, NEW s \in Servers, CloseChild(s)
  PROVE  SlotInv'
  <1> USE SpawnAssumption DEF CloseChild
  <1> USE DEF SlotInv
  <1>a. /\ Empty \notin Servers /\ Missing \notin Servers /\ Missing # Empty
        /\ Unlocked \notin Callers
    BY DEF Servers, Empty, Missing
  <1>c. srv[s] # "off"
    BY DEF Accounted
  <1>1. SlotTypeOK'
    BY <1>c DEF SlotTypeOK, Numbered, Servers
  <1>2. Numbered' /\ Newest' = Newest
    <2>1. \A n \in Servers : (srv'[n] = "off") <=> (srv[n] = "off")
      BY <1>c DEF SlotTypeOK
    <2> QED BY <2>1, NumbersStay
  <1> HIDE DEF SlotInv
  <1>3. LockHeld'
    BY <1>a DEF SlotInv, LockHeld, Spawning, SlotTypeOK
  <1>4. ASSUME NEW n \in Servers PROVE Accounted(n)'
    <2>1. Accounted(n)
      BY DEF SlotInv
    <2> QED BY <2>1, <1>a, <1>c, <1>2 DEF SlotInv, Accounted, SlotTypeOK, LockHeld, Spawning, BeingBorn
  <1>5. SlotFilled' /\ BeingBorn'
    BY <1>a, <1>c, <1>2 DEF SlotInv, SlotFilled, BeingBorn, SlotTypeOK, LockHeld, Spawning, Numbered
  <1>6. ASSUME "lag" \notin quirk' PROVE EndsTold' /\ PillFollows'
    <2> USE <1>6
    <2>0. EndsTold /\ PillFollows
      BY DEF SlotInv
    <2>1. EndsTold'
      BY <2>0, <1>a, <1>c, <1>2 DEF SlotInv, EndsTold, SlotTypeOK, LockHeld, Spawning, Alive, Closing, Untold, Down, Accounted, Live
    <2>2. PillFollows'
      <3> USE <2>0, <1>a, <1>c, <1>2
      <3>1. \A d \in Callers : (caller[d] = "insert")' /\ (srv[Newest] = "up")' => pill' = "running"
        BY DEF SlotInv, EndsTold, PillFollows, SlotTypeOK, LockHeld, Spawning, Alive, Closing, Untold, Down, Accounted, BeingBorn
      <3>2. \A d \in Callers : (caller[d] = "insert")' /\ pill' = "running" =>
              (srv[Newest] = "up")' \/ (Newest \in Untold)'
        BY DEF SlotInv, EndsTold, PillFollows, SlotTypeOK, LockHeld, Spawning, Alive, Closing, Untold, Down, Accounted, BeingBorn
      <3>3. holder' = Unlocked /\ Alive(slot)' => pill' = "running"
        BY DEF SlotInv, EndsTold, PillFollows, SlotTypeOK, LockHeld, Spawning, Alive, Closing, Untold, Down, Accounted, BeingBorn
      <3>4. holder' = Unlocked /\ pill' = "running" => Alive(slot)' \/ Closing' # {} \/ Untold' # {}
        BY DEF SlotInv, EndsTold, PillFollows, SlotTypeOK, LockHeld, Spawning, Alive, Closing, Untold, Down, Accounted, BeingBorn
      <3> QED BY <3>1, <3>2, <3>3, <3>4 DEF PillFollows
    <2> QED BY <2>1, <2>2
  <1> QED BY <1>1, <1>2, <1>3, <1>4, <1>5, <1>6 DEF SlotInv

LEMMA TearDownKeeps ==
  ASSUME SlotInv, NEW all \in BOOLEAN, TearDown(all)
  PROVE  SlotInv'
  <1> USE SpawnAssumption DEF TearDown
  <1> USE DEF SlotInv
  <1>a. /\ Empty \notin Servers /\ Missing \notin Servers /\ Missing # Empty
        /\ Unlocked \notin Callers
    BY DEF Servers, Empty, Missing
  <1>1. SlotTypeOK'
    BY DEF SlotTypeOK, Numbered, Servers
  <1>2. Numbered' /\ Newest' = Newest
    <2>1. \A n \in Servers : (srv'[n] = "off") <=> (srv[n] = "off")
      BY DEF SlotTypeOK
    <2> QED BY <2>1, NumbersStay
  <1> HIDE DEF SlotInv
  <1>3. LockHeld'
    BY <1>a DEF SlotInv, LockHeld, Spawning, SlotTypeOK
  <1>4. ASSUME NEW n \in Servers PROVE Accounted(n)'
    <2>1. Accounted(n)
      BY DEF SlotInv
    <2> QED BY <2>1, <1>a, <1>2 DEF SlotInv, Accounted, SlotTypeOK, LockHeld, Spawning, BeingBorn, SlotFilled
  <1>5. SlotFilled' /\ BeingBorn'
    BY <1>a, <1>2 DEF SlotInv, SlotFilled, BeingBorn, SlotTypeOK, LockHeld, Spawning, Numbered
  <1>6. ASSUME "lag" \notin quirk' PROVE EndsTold' /\ PillFollows'
    <2> USE <1>6
    <2>0. EndsTold /\ PillFollows
      BY DEF SlotInv
    <2>1. EndsTold'
      BY <2>0, <1>a, <1>2 DEF SlotInv, EndsTold, SlotTypeOK, LockHeld, Spawning, Alive, Closing, Untold, Down, Accounted, Live
    <2>2. PillFollows'
      <3> USE <2>0, <1>a, <1>2
      <3>1. \A d \in Callers : (caller[d] = "insert")' /\ (srv[Newest] = "up")' => pill' = "running"
        BY DEF SlotInv, EndsTold, PillFollows, SlotTypeOK, LockHeld, Spawning, Alive, Closing, Untold, Down, Accounted, BeingBorn
      <3>2. \A d \in Callers : (caller[d] = "insert")' /\ pill' = "running" =>
              (srv[Newest] = "up")' \/ (Newest \in Untold)'
        BY DEF SlotInv, EndsTold, PillFollows, SlotTypeOK, LockHeld, Spawning, Alive, Closing, Untold, Down, Accounted, BeingBorn
      <3>3. holder' = Unlocked /\ Alive(slot)' => pill' = "running"
        BY DEF SlotInv, EndsTold, PillFollows, SlotTypeOK, LockHeld, Spawning, Alive, Closing, Untold, Down, Accounted, BeingBorn
      <3>4. holder' = Unlocked /\ pill' = "running" => Alive(slot)' \/ Closing' # {} \/ Untold' # {}
        BY DEF SlotInv, EndsTold, PillFollows, SlotTypeOK, LockHeld, Spawning, Alive, Closing, Untold, Down, Accounted, BeingBorn
      <3> QED BY <3>1, <3>2, <3>3, <3>4 DEF PillFollows
    <2> QED BY <2>1, <2>2
  <1> QED BY <1>1, <1>2, <1>3, <1>4, <1>5, <1>6 DEF SlotInv

\* The lock lets one caller spawn at a time, so a language has one process beside those
\* that are being shut down; and a pill that is behind the slot has something left to tell.
LEMMA SlotInvImplies == ASSUME SlotInv PROVE SlotOK
  <1> USE DEF SlotInv
  <1>1. OneServer
    <2> DEFINE Lives == {n \in Servers : srv[n] \in {"starting", "up"} /\ closing[n] = "no"}
    <2>1. \A m, n \in Lives : m = n
      BY DEF Accounted, LockHeld, Empty, Servers
    <2>2. CASE Lives = {}
      BY <2>2, FS_EmptySet DEF OneServer
    <2>3. CASE Lives # {}
      <3>1. PICK n \in Lives : TRUE
        BY <2>3
      <3>2. Lives = {n}
        BY <2>1, <3>1
      <3>3. Cardinality(Lives) = 1
        BY <3>2, FS_Singleton
      <3> QED BY <3>3 DEF OneServer
    <2> QED BY <2>2, <2>3
  <1>2. "lag" \notin quirk => PillRight
    BY DEF PillFollows, PillRight, Quiet
  <1> QED BY <1>1, <1>2 DEF SlotOK

\* However requests, crashes, Restarts and the end of the workspace meet, a language has one
\* server beside those being shut down, and its pill tells the truth of the slot once
\* everything is told - unless a spawn begins before that. A server that refuses to
\* initialise must end, as its Child's kill_on_drop means it to.
THEOREM OneServerATime == (\A q \in SpawnRaces : "refuse" \notin q) => (SlotSpec => []SlotOK)
  <1> SUFFICES ASSUME \A q \in SpawnRaces : "refuse" \notin q PROVE SlotSpec => []SlotOK
    OBVIOUS
  <1>1. SlotInit => SlotInv
    BY SlotInitHolds
  <1>2. SlotInv /\ [SlotNext]_slotVars => SlotInv'
    <2> SUFFICES ASSUME SlotInv, [SlotNext]_slotVars PROVE SlotInv'
      OBVIOUS
    <2>1. "refuse" \notin quirk
      BY DEF SlotInv, SlotTypeOK
    <2>2. ASSUME NEW c \in Callers,
                 \/ AskServer(c) \/ FindSlot(c) \/ FindEmpty(c) \/ NotFound(c) \/ StartProcess(c)
                 \/ Initialised(c) \/ InitialiseFails(c) \/ Insert(c) \/ CallAgain(c)
          PROVE  SlotInv'
      BY <2>1, <2>2, AskServerKeeps, FindSlotKeeps, FindEmptyKeeps, NotFoundKeeps, StartProcessKeeps,
         InitialisedKeeps, InitialiseFailsKeeps, InsertKeeps, CallAgainKeeps
    <2>3. ASSUME NEW s \in Servers, ServerDies(s) \/ WatcherTells(s) \/ CloseStdio(s) \/ CloseChild(s)
          PROVE  SlotInv'
      BY <2>3, ServerDiesKeeps, WatcherTellsKeeps, CloseStdioKeeps, CloseChildKeeps
    <2>4. CASE TearDown(FALSE) \/ TearDown(TRUE)
      BY <2>4, TearDownKeeps
    <2>5. CASE UNCHANGED slotVars
      BY <2>5 DEF slotVars, SlotInv, SlotTypeOK, Numbered, LockHeld, Spawning, Accounted, SlotFilled,
                  BeingBorn, EndsTold, PillFollows, Alive, Closing, Untold, Down, Newest
    <2> QED BY <2>2, <2>3, <2>4, <2>5 DEF SlotNext
  <1> QED BY <1>1, <1>2, SlotInvImplies, PTL DEF SlotSpec

-----------------------------------------------------------------------------
(* LspDocs: the texts that are on their way, and the diagnostics that      *)
(* answer them.                                                            *)
States == [text : 0 .. MaxEdits, version : Nat]
Messages == [kind : {"open", "change", "close", "pull"}, text : 0 .. MaxEdits, version : Nat]
Ops == [kind : {"open", "change", "close"}, text : 0 .. MaxEdits, version : Nat, gen : Nat,
        step : {"begun", "locked"}]

DocsTyped ==
  /\ lapse \in Overlaps /\ buffer \in 0 .. edits /\ edits \in 0 .. MaxEdits
  /\ closings \in 0 .. MaxEdits /\ gen \in 0 .. MaxRespawns
  /\ op \in Seq(Ops) /\ wire \in Seq(Messages) /\ doc \in States
  /\ pulls \in Seq(0 .. MaxEdits) /\ panel \in 0 .. MaxEdits /\ confused \in BOOLEAN
  /\ docs \in 0 .. edits

\* One request at a time, which says what the buffer and the live server's entry do.
RequestRight(o) ==
  /\ o.gen <= gen
  /\ o.step = "begun" =>
       /\ \/ o.kind = "open" /\ o.text = buffer /\ buffer # Shut /\ docs + 1 <= edits
          \/ o.kind = "close"
       /\ o.gen # gen => docs = Shut
  /\ o.step = "locked" /\ o.gen = gen =>
       IF o.kind = "close" THEN docs = Shut
       ELSE o.text = buffer /\ buffer # Shut /\ docs # Shut /\ o.version = docs
  /\ o.step = "locked" /\ o.gen # gen => docs = Shut
OneRequest == Len(op) <= 1 /\ \A i \in DOMAIN op : RequestRight(op[i])

\* What a message makes of the server's view of the buffer.
Fits(m, s) ==
  /\ m.kind = "open" => s.text = Shut
  /\ m.kind = "close" => s.text # Shut
  /\ m.kind = "change" => s.text # Shut /\ s.version < m.version
After(m, s) ==
  IF m.kind \in {"open", "change"} THEN [text |-> m.text, version |-> m.version]
  ELSE IF m.kind = "close" THEN [text |-> Shut, version |-> 0] ELSE s

\* The views that the server comes to have as it reads the wire: none confuses it, and the last
\* is what the live LspServer's entry says, or will say once the request has notified.
Reads(w, s, st) ==
  /\ st \in Seq(States) /\ Len(st) = Len(w) + 1 /\ st[1] = s
  /\ \A i \in 1 .. Len(w) : Fits(w[i], st[i]) /\ st[i + 1] = After(w[i], st[i])
Reading(st) == Reads(wire, doc, st)
Waiting(o) == o.step = "locked" /\ o.gen = gen
Agrees(e) ==
  IF op # <<>> /\ Waiting(op[1])
  THEN CASE op[1].kind = "open" -> e.text = Shut
         [] op[1].kind = "change" -> e.text # Shut /\ e.version < docs
         [] OTHER -> e.text # Shut
  ELSE e.version = docs /\ (docs = Shut <=> e.text = Shut)

\* With no request under way the last answer is, or will be, that of the buffer's text.
LastAnswer(e) ==
  op = <<>> /\ docs # Shut =>
    /\ e.text = buffer
    /\ wire # <<>> => wire[Len(wire)].kind = "pull"
    /\ wire = <<>> /\ pulls # <<>> => pulls[Len(pulls)] = buffer
    /\ wire = <<>> /\ pulls = <<>> => panel = buffer

DocsInv ==
  /\ DocsTyped /\ ~confused /\ OneRequest
  /\ \E st \in Seq(States) : Reading(st) /\ Agrees(st[Len(wire) + 1]) /\ LastAnswer(st[Len(wire) + 1])


LEMMA RemoveOnly ==
  ASSUME NEW S, NEW s \in Seq(S), Len(s) = 1
  PROVE  RemoveAt(s, 1) = <<>>
  <1>1. SubSeq(s, 1, 0) = <<>> /\ SubSeq(s, 2, 1) = <<>>
    OBVIOUS
  <1> QED BY <1>1 DEF RemoveAt

LEMMA RemoveHead ==
  ASSUME NEW S, NEW s \in Seq(S), s # <<>>
  PROVE  RemoveAt(s, 1) = Tail(s)
  <1>1. SubSeq(s, 1, 0) = <<>> /\ SubSeq(s, 2, Len(s)) = Tail(s) /\ Tail(s) \in Seq(S)
    OBVIOUS
  <1>2. <<>> \o Tail(s) = Tail(s)
    BY <1>1
  <1>3. RemoveAt(s, 1) = SubSeq(s, 1, 0) \o SubSeq(s, 2, Len(s))
    BY DEF RemoveAt
  <1> QED BY <1>1, <1>2, <1>3

LEMMA LastLeft ==
  ASSUME NEW S, NEW s \in Seq(S), s # <<>>, Tail(s) = <<>>
  PROVE  Len(s) = 1 /\ Head(s) = s[1]
  <1>1. Len(Tail(s)) = Len(s) - 1 /\ Len(s) \in Nat /\ Head(s) = s[1]
    OBVIOUS
  <1>2. Len(Tail(s)) = 0
    <2>1. Len(<<>>) = 0
      OBVIOUS
    <2> QED BY <2>1
  <1> QED BY <1>1, <1>2

LEMMA DocsInitHolds == ASSUME DocsInit PROVE DocsInv
  <1> USE DocsAssumption DEF DocsInit, Shut
  <1>0. doc \in States
    BY DEF States
  <1>1. DocsTyped
    <2>1. op \in Seq(Ops) /\ wire \in Seq(Messages) /\ pulls \in Seq(0 .. MaxEdits)
      OBVIOUS
    <2>2. buffer \in 0 .. edits /\ {edits, closings, panel} \subseteq 0 .. MaxEdits /\ gen \in 0 .. MaxRespawns /\ docs \in 0 .. edits
      OBVIOUS
    <2> QED BY <1>0, <2>1, <2>2 DEF DocsTyped
  <1>2. /\ <<doc>> \in Seq(States) /\ Len(<<doc>>) = 1 /\ <<doc>>[1] = doc /\ Len(wire) = 0
    BY <1>0
  <1>3. Reading(<<doc>>) /\ Agrees(<<doc>>[Len(wire) + 1]) /\ LastAnswer(<<doc>>[Len(wire) + 1])
    BY <1>2 DEF Reading, Reads, Agrees, LastAnswer
  <1>4. OneRequest /\ ~confused
    BY DEF OneRequest
  <1> QED BY <1>1, <1>2, <1>3, <1>4 DEF DocsInv

\* A request that begins with no other under way: the views stay, and nothing is claimed of
\* the answers until it has notified.
LEMMA RequestBegins ==
  ASSUME DocsInv, op = <<>>, NEW o \in Ops, op' = Append(op, o), o.step = "begun",
         RequestRight(o)', DocsTyped', UNCHANGED <<docs, gen, wire, doc, confused>>
  PROVE  DocsInv'
  <1>1. op' = <<o>> /\ Len(op') = 1 /\ op'[1] = o /\ op' # <<>>
    OBVIOUS
  <1>2. OneRequest'
    BY <1>1 DEF OneRequest
  <1>3. PICK st \in Seq(States) : Reading(st) /\ Agrees(st[Len(wire) + 1])
    BY DEF DocsInv
  <1>4. Reading(st)'
    BY <1>3 DEF Reading, Reads
  <1>5. \A e \in States : Agrees(e) => Agrees(e)'
    BY <1>1 DEF Agrees, Waiting
  <1>6. st[Len(wire) + 1] \in States
    BY <1>3 DEF Reading, Reads, DocsInv, DocsTyped
  <1>7. Agrees(st[Len(wire) + 1])'
    BY <1>3, <1>5, <1>6
  <1>8. LastAnswer(st[Len(wire) + 1])'
    BY <1>1 DEF LastAnswer
  <1> QED BY <1>2, <1>4, <1>7, <1>8 DEF DocsInv



LEMMA EditKeeps == ASSUME DocsInv, Edit, "overlap" \notin lapse PROVE DocsInv'
  <1> USE DocsAssumption DEF Edit
  <1>1. op = <<>>
    BY DEF MayBegin
  <1>2. DocsTyped
    BY DEF DocsInv
  <1>3. edits + 1 \in 0 .. MaxEdits /\ edits + 1 # 0 /\ gen \in Nat /\ edits \in Nat /\ docs \in 0 .. edits
    BY <1>2 DEF DocsTyped
  <1>4. PICK o \in Ops : /\ o = Op("open", edits + 1)
                         /\ o.step = "begun" /\ o.kind = "open" /\ o.text = edits + 1 /\ o.gen = gen
    BY <1>3 DEF Op, Ops
  <1>5. RequestRight(o)'
    BY <1>3, <1>4 DEF RequestRight, Shut
  <1>6. op' \in Seq(Ops)
    BY <1>2, <1>4 DEF DocsTyped
  <1>7. DocsTyped'
    BY <1>2, <1>3, <1>6 DEF DocsTyped
  <1> QED BY <1>1, <1>4, <1>5, <1>7, RequestBegins

LEMMA CloseTabKeeps == ASSUME DocsInv, CloseTab, "overlap" \notin lapse PROVE DocsInv'
  <1> USE DocsAssumption DEF CloseTab
  <1>1. op = <<>>
    BY DEF MayBegin
  <1>2. DocsTyped
    BY DEF DocsInv
  <1>3. gen \in Nat /\ closings + 1 \in 0 .. MaxEdits
    BY <1>2 DEF DocsTyped
  <1>4. PICK o \in Ops : o = Op("close", Shut) /\ o.step = "begun" /\ o.kind = "close" /\ o.gen = gen
    BY <1>3 DEF Op, Ops, Shut
  <1>5. RequestRight(o)'
    BY <1>3, <1>4 DEF RequestRight
  <1>6. op' \in Seq(Ops)
    BY <1>2, <1>4 DEF DocsTyped
  <1>7. DocsTyped'
    BY <1>2, <1>3, <1>6 DEF DocsTyped, Shut
  <1> QED BY <1>1, <1>4, <1>5, <1>7, RequestBegins


LEMMA ReopenKeeps == ASSUME DocsInv, Reopen, "overlap" \notin lapse PROVE DocsInv'
  <1> USE DocsAssumption DEF Reopen
  <1>1. op = <<>>
    BY DEF MayBegin
  <1>2. DocsTyped
    BY DEF DocsInv
  <1>3. gen \in Nat /\ edits \in Nat /\ buffer \in 1 .. edits /\ buffer \in 0 .. MaxEdits
    BY <1>2 DEF DocsTyped, Shut
  <1>4. PICK o \in Ops : o = Op("open", buffer) /\ o.step = "begun" /\ o.kind = "open" /\ o.text = buffer /\ o.gen = gen
    BY <1>3 DEF Op, Ops
  <1>5. RequestRight(o)'
    BY <1>3, <1>4 DEF RequestRight, Shut
  <1>6. op' \in Seq(Ops)
    BY <1>2, <1>4 DEF DocsTyped
  <1>7. DocsTyped'
    BY <1>2, <1>3, <1>6 DEF DocsTyped
  <1> QED BY <1>1, <1>4, <1>5, <1>7, RequestBegins

\* The request under way, and what is left when it ends.
LEMMA TheRequest ==
  ASSUME DocsInv, NEW i \in DOMAIN op
  PROVE  /\ i = 1 /\ Len(op) = 1 /\ op # <<>> /\ op[1] \in Ops /\ RequestRight(op[1])
         /\ RemoveAt(op, i) = <<>>
  <1>1. op \in Seq(Ops) /\ Len(op) <= 1 /\ RequestRight(op[i])
    BY DEF DocsInv, DocsTyped, OneRequest
  <1>2. i = 1 /\ Len(op) = 1
    BY <1>1
  <1> QED BY <1>1, <1>2, RemoveOnly

LEMMA LockKeeps == ASSUME DocsInv, NEW i \in DOMAIN op, Lock(i) PROVE DocsInv'
  <1> USE DocsAssumption DEF Lock
  <1>1. /\ i = 1 /\ Len(op) = 1 /\ op # <<>> /\ op[1] \in Ops /\ RequestRight(op[1])
        /\ RemoveAt(op, i) = <<>>
    BY TheRequest
  <1>2. DocsTyped /\ op \in Seq(Ops)
    BY DEF DocsInv, DocsTyped
  <1>3. PICK st \in Seq(States) : Reading(st) /\ Agrees(st[Len(wire) + 1])
    BY DEF DocsInv
  <1>4. Reading(st)'
    BY <1>3 DEF Reading, Reads
  <1>5. PICK e \in States : e = st[Len(wire) + 1] /\ e.version \in Nat
    <2>1. wire \in Seq(Messages) /\ st \in Seq(States) /\ Len(st) = Len(wire) + 1
      BY <1>2, <1>3 DEF Reading, Reads, DocsTyped
    <2>2. st[Len(wire) + 1] \in States
      BY <2>1
    <2> QED BY <2>2 DEF States
  <1>6. e.version = docs /\ (docs = Shut <=> e.text = Shut)
    BY <1>1, <1>3, <1>5 DEF Agrees, Waiting
  <1>7. CASE op' = <<>> /\ docs' = docs
    <2>1. DocsTyped'
      BY <1>2, <1>7 DEF DocsTyped
    <2>2. OneRequest'
      BY <1>7 DEF OneRequest
    <2>3. docs = Shut
      <3>1. docs + 1 # docs /\ op[1].kind \in {"open", "close", "change"}
        BY <1>1, <1>2 DEF DocsTyped, Ops
      <3>2. op[1].kind # "change"
        BY <1>1 DEF RequestRight
      <3> QED BY <1>1, <1>7, <3>1, <3>2 DEF RequestRight
    <2>4. Agrees(e)' /\ LastAnswer(e)'
      BY <1>6, <1>7, <2>3 DEF Agrees, LastAnswer
    <2> QED BY <1>4, <1>5, <2>1, <2>2, <2>4 DEF DocsInv
  <1>8. ASSUME NEW k \in {"open", "change", "close"}, NEW v \in Nat, op' = With(1, k, v), op[1].gen = gen,
               IF k = "close" THEN op[1].kind = "close" /\ docs # Shut /\ docs' = Shut
               ELSE op[1].kind = "open" /\ docs' = docs + 1 /\ v = docs + 1
                    /\ k = IF docs = Shut THEN "open" ELSE "change"
        PROVE  DocsInv'
    <2>1. PICK o \in Ops : o = [op[1] EXCEPT !.kind = k, !.version = v, !.step = "locked"]
      BY <1>1 DEF Ops
    <2>2. o.kind = k /\ o.version = v /\ o.step = "locked" /\ o.gen = gen /\ o.text = op[1].text
      BY <1>1, <1>8, <2>1 DEF Ops
    <2>3. op' = <<o>> /\ Len(op') = 1 /\ op'[1] = o /\ op' # <<>> /\ op' \in Seq(Ops)
      BY <1>1, <1>2, <1>8, <2>1 DEF With
    <2>4. docs \in 0 .. edits /\ edits \in 0 .. MaxEdits
      BY <1>2 DEF DocsTyped
    <2>5. docs' \in 0 .. edits
      BY <1>1, <1>8, <2>4 DEF RequestRight, Shut
    <2>6. DocsTyped'
      BY <1>2, <2>3, <2>5 DEF DocsTyped
    <2>7. RequestRight(o)'
      BY <1>1, <1>8, <2>2, <2>4 DEF RequestRight, Shut
    <2>8. OneRequest'
      BY <2>3, <2>7 DEF OneRequest
    <2>9. Agrees(e)' /\ LastAnswer(e)'
      BY <1>5, <1>6, <1>8, <2>2, <2>3, <2>4 DEF Agrees, Waiting, LastAnswer, Shut
    <2> QED BY <1>4, <1>5, <2>6, <2>8, <2>9 DEF DocsInv
  <1>9. docs + 1 \in Nat
    BY <1>2 DEF DocsTyped
  <1> QED BY <1>1, <1>7, <1>8, <1>9 DEF Ops


\* One more message that fits; and one message less.
LEMMA ReadsMore ==
  ASSUME NEW w \in Seq(Messages), NEW s, NEW st, Reads(w, s, st), NEW m \in Messages,
         Fits(m, st[Len(w) + 1])
  PROVE  LET more == Append(st, After(m, st[Len(w) + 1])) IN
         /\ Reads(Append(w, m), s, more) /\ more[Len(Append(w, m)) + 1] = After(m, st[Len(w) + 1])
         /\ Append(w, m) \in Seq(Messages)
  <1>1. st \in Seq(States) /\ Len(st) = Len(w) + 1 /\ Len(w) \in Nat /\ st[Len(w) + 1] \in States
    BY DEF Reads
  <1>2. After(m, st[Len(w) + 1]) \in States
    BY <1>1, DocsAssumption DEF After, States, Messages, Shut
  <1>3. PICK e \in States : e = After(m, st[Len(w) + 1])
    BY <1>2
  <1>4. /\ Append(st, e) \in Seq(States) /\ Len(Append(st, e)) = Len(w) + 2
        /\ Append(st, e)[Len(w) + 2] = e /\ \A i \in 1 .. Len(w) + 1 : Append(st, e)[i] = st[i]
    BY <1>1
  <1>5. /\ Append(w, m) \in Seq(Messages) /\ Len(Append(w, m)) = Len(w) + 1
        /\ Append(w, m)[Len(w) + 1] = m /\ \A i \in 1 .. Len(w) : Append(w, m)[i] = w[i]
    BY <1>1
  <1>6. ASSUME NEW i \in 1 .. Len(w) + 1
        PROVE  /\ Fits(Append(w, m)[i], Append(st, e)[i])
               /\ Append(st, e)[i + 1] = After(Append(w, m)[i], Append(st, e)[i])
    <2>1. CASE i = Len(w) + 1
      BY <1>1, <1>3, <1>4, <1>5, <2>1
    <2>2. CASE i \in 1 .. Len(w)
      <3>1. i + 1 \in 1 .. Len(w) + 1 /\ i \in 1 .. Len(w) + 1
        BY <1>1, <2>2
      <3>2. Fits(w[i], st[i]) /\ st[i + 1] = After(w[i], st[i])
        BY <2>2 DEF Reads
      <3> QED BY <1>4, <1>5, <2>2, <3>1, <3>2
    <2> QED BY <1>1, <2>1, <2>2
  <1>7. Append(st, e)[1] = s
    BY <1>1, <1>4 DEF Reads
  <1> QED BY <1>1, <1>3, <1>4, <1>5, <1>6, <1>7 DEF Reads

LEMMA ReadsLess ==
  ASSUME NEW w \in Seq(Messages), w # <<>>, NEW s, NEW st, Reads(w, s, st)
  PROVE  /\ Reads(Tail(w), st[2], Tail(st)) /\ Tail(st)[Len(Tail(w)) + 1] = st[Len(w) + 1]
         /\ Fits(Head(w), s) /\ st[2] = After(Head(w), s) /\ st[2] \in States
         /\ Tail(st) \in Seq(States)
  <1>1. /\ st \in Seq(States) /\ Len(st) = Len(w) + 1 /\ Len(w) \in Nat \ {0} /\ Head(w) = w[1]
        /\ st[1] = s
    BY DEF Reads
  <1>2. /\ Tail(st) \in Seq(States) /\ Len(Tail(st)) = Len(w)
        /\ \A i \in 1 .. Len(w) : Tail(st)[i] = st[i + 1]
    BY <1>1
  <1>3. /\ Tail(w) \in Seq(Messages) /\ Len(Tail(w)) = Len(w) - 1
        /\ \A i \in 1 .. Len(w) - 1 : Tail(w)[i] = w[i + 1]
    BY <1>1
  <1>4. 1 \in 1 .. Len(w) /\ Fits(w[1], st[1]) /\ st[1 + 1] = After(w[1], st[1])
    BY <1>1 DEF Reads
  <1>5. st[2] \in States
    BY <1>1
  <1>6. ASSUME NEW i \in 1 .. Len(w) - 1
        PROVE  Fits(Tail(w)[i], Tail(st)[i]) /\ Tail(st)[i + 1] = After(Tail(w)[i], Tail(st)[i])
    <2>1. i \in 1 .. Len(w) /\ i + 1 \in 1 .. Len(w)
      BY <1>1
    <2>2. Fits(w[i + 1], st[i + 1]) /\ st[(i + 1) + 1] = After(w[i + 1], st[i + 1])
      BY <2>1 DEF Reads
    <2> QED BY <1>2, <1>3, <2>1, <2>2
  <1>7. Tail(st)[1] = st[2] /\ Tail(st)[Len(w)] = st[Len(w) + 1]
    BY <1>1, <1>2
  <1> QED BY <1>1, <1>2, <1>3, <1>4, <1>5, <1>6, <1>7 DEF Reads


LEMMA NotifyKeeps == ASSUME DocsInv, NEW i \in DOMAIN op, Notify(i) PROVE DocsInv'
  <1> USE DocsAssumption DEF Notify
  <1>1. /\ i = 1 /\ Len(op) = 1 /\ op # <<>> /\ op[1] \in Ops /\ RequestRight(op[1])
        /\ RemoveAt(op, i) = <<>>
    BY TheRequest
  <1>2. DocsTyped /\ op' = <<>> /\ op' \in Seq(Ops) /\ wire \in Seq(Messages)
    <2>1. op' = <<>>
      BY <1>1
    <2> QED BY <2>1 DEF DocsInv, DocsTyped
  <1>3. OneRequest'
    BY <1>2 DEF OneRequest
  <1>4. PICK st \in Seq(States) : Reading(st) /\ Agrees(st[Len(wire) + 1])
    BY DEF DocsInv
  <1>5. PICK e \in States : e = st[Len(wire) + 1] /\ e.version \in Nat
    <2>1. st \in Seq(States) /\ Len(st) = Len(wire) + 1
      BY <1>4 DEF Reading, Reads
    <2>2. st[Len(wire) + 1] \in States
      BY <1>2, <2>1
    <2> QED BY <2>2 DEF States
  <1>6. CASE op[1].gen # gen
    <2>1. docs = Shut
      BY <1>1, <1>6 DEF RequestRight
    <2>2. DocsTyped' /\ Reading(st)'
      BY <1>2, <1>4, <1>6, <1>1 DEF DocsTyped, Reading
    <2>3. Agrees(e)' /\ LastAnswer(e)'
      BY <1>1, <1>2, <1>4, <1>5, <1>6, <2>1 DEF Agrees, LastAnswer, Waiting
    <2> QED BY <1>1, <1>3, <1>5, <1>6, <2>2, <2>3 DEF DocsInv
  <1>7. CASE op[1].gen = gen
    <2>1. PICK m \in Messages : m = Message(op[1].kind, op[1].text, op[1].version)
                                /\ m.kind = op[1].kind /\ m.text = op[1].text /\ m.version = op[1].version
                                /\ m.kind \in {"open", "change", "close"} /\ m.version \in Nat
      BY <1>1 DEF Message, Messages, Ops
    <2>2. docs \in 0 .. MaxEdits /\ docs' = docs /\ buffer' = buffer
      BY <1>2 DEF DocsTyped
    <2>3. Fits(m, e)
      BY <1>1, <1>4, <1>5, <1>7, <2>1, <2>2 DEF Fits, Agrees, Waiting, RequestRight
    <2>4. PICK d \in States : d = After(m, e) /\ d.text = (IF m.kind = "close" THEN Shut ELSE m.text)
                              /\ d.version = (IF m.kind = "close" THEN 0 ELSE m.version)
      <3>1. After(m, e) \in States
        BY <2>1 DEF After, States, Messages, Shut
      <3>2. m.kind = "close" => After(m, e) = [text |-> Shut, version |-> 0]
        BY DEF After
      <3>3. m.kind # "close" => After(m, e) = [text |-> m.text, version |-> m.version]
        BY <2>1 DEF After
      <3> QED BY <3>1, <3>2, <3>3
    <2>5. /\ Reads(Append(wire, m), doc, Append(st, d)) /\ Append(st, d)[Len(Append(wire, m)) + 1] = d
          /\ Append(wire, m) \in Seq(Messages) /\ Append(st, d) \in Seq(States)
      <3>1. Reads(wire, doc, st) /\ Fits(m, st[Len(wire) + 1]) /\ After(m, st[Len(wire) + 1]) = d
        BY <1>4, <1>5, <2>3, <2>4 DEF Reading
      <3>2. Append(st, d) \in Seq(States)
        BY <2>4
      <3> QED BY <1>2, <3>1, <3>2, ReadsMore
    <2>6. CASE op[1].kind = "close"
      <3>1. Append(wire, m) \o <<>> = Append(wire, m)
        BY <2>5
      <3>2. wire' = Append(wire, m)
        BY <1>1, <1>7, <2>1, <2>6, <3>1
      <3>3. DocsTyped'
        BY <1>2, <2>5, <3>2 DEF DocsTyped
      <3>4. Reading(Append(st, d))'
        BY <2>5, <3>2 DEF Reading
      <3>5. d.text = Shut /\ d.version = docs /\ docs = Shut
        BY <1>1, <1>7, <2>1, <2>4, <2>6 DEF RequestRight, Shut
      <3>6. Agrees(d)' /\ LastAnswer(d)'
        BY <1>2, <2>2, <3>5 DEF Agrees, LastAnswer
      <3> QED BY <1>3, <2>5, <3>2, <3>3, <3>4, <3>6 DEF DocsInv
    <2>7. CASE op[1].kind # "close"
      <3>1. PICK p \in Messages : p = Message("pull", Shut, 0) /\ p.kind = "pull"
        BY DEF Message, Messages, Shut
      <3>2. Fits(p, d) /\ After(p, d) = d
        BY <3>1 DEF Fits, After
      <3> DEFINE w == Append(Append(wire, m), p)
                 more == Append(Append(st, d), d)
      <3>3. Reads(w, doc, more) /\ more[Len(w) + 1] = d /\ w \in Seq(Messages) /\ more \in Seq(States)
        <4>1. Reads(Append(wire, m), doc, Append(st, d)) /\ Append(wire, m) \in Seq(Messages)
          BY <2>5
        <4>2. Append(st, d)[Len(Append(wire, m)) + 1] = d
          BY <2>5
        <4>3. Fits(p, Append(st, d)[Len(Append(wire, m)) + 1])
              /\ After(p, Append(st, d)[Len(Append(wire, m)) + 1]) = d
          BY <4>2, <3>2
        <4>4. more \in Seq(States)
          BY <2>4, <2>5
        <4> QED BY <4>1, <4>3, <4>4, ReadsMore
      <3>4. wire' = w
        <4>1. wire' = Append(wire, m) \o <<p>>
          BY <1>1, <1>7, <2>1, <2>7, <3>1
        <4>2. Append(Append(wire, m), p) = Append(wire, m) \o <<p>>
          BY <2>5, AppendIsConcat
        <4> QED BY <4>1, <4>2
      <3>5. w[Len(w)].kind = "pull" /\ w # <<>>
        BY <2>5, <3>1
      <3> HIDE DEF w, more
      <3>6. DocsTyped'
        BY <1>2, <3>3, <3>4 DEF DocsTyped
      <3>7. PICK ms \in Seq(States) : ms = more
        BY <3>3
      <3>8. Reading(ms)' /\ ms[Len(wire') + 1] = d
        BY <3>3, <3>4, <3>7 DEF Reading
      <3>9. d.text = buffer /\ buffer # Shut /\ d.version = docs /\ docs # Shut
        BY <1>1, <1>7, <2>1, <2>4, <2>7 DEF RequestRight
      <3>10. Agrees(d)' /\ LastAnswer(d)'
        BY <1>2, <2>2, <3>4, <3>5, <3>9 DEF Agrees, LastAnswer
      <3> QED BY <1>3, <3>6, <3>8, <3>10 DEF DocsInv
    <2> QED BY <2>6, <2>7
  <1> QED BY <1>6, <1>7

LEMMA ReadKeeps == ASSUME DocsInv, ReadMessage PROVE DocsInv'
  <1> USE DocsAssumption DEF ReadMessage
  <1>1. DocsTyped /\ wire \in Seq(Messages) /\ wire # <<>> /\ pulls \in Seq(0 .. MaxEdits)
    BY DEF DocsInv, DocsTyped
  <1>2. PICK st \in Seq(States) : /\ Reading(st) /\ Agrees(st[Len(wire) + 1])
                                  /\ LastAnswer(st[Len(wire) + 1])
    BY DEF DocsInv
  <1>3. /\ Reads(Tail(wire), st[2], Tail(st)) /\ Tail(st)[Len(Tail(wire)) + 1] = st[Len(wire) + 1]
        /\ Fits(Head(wire), doc) /\ st[2] = After(Head(wire), doc) /\ st[2] \in States
        /\ Tail(st) \in Seq(States)
    BY <1>1, <1>2, ReadsLess DEF Reading
  <1>4. PICK m \in Messages : m = Head(wire)
    BY <1>1
  <1>5. doc' = st[2]
    BY <1>3, <1>4 DEF After
  <1>6. ~Bad(m)
    <2>1. doc.version \in Nat /\ m.version \in Nat /\ Fits(m, doc)
      BY <1>1, <1>3, <1>4 DEF DocsTyped, States, Messages
    <2> QED BY <2>1 DEF Bad, Fits
  <1>7. doc.text \in 0 .. MaxEdits /\ pulls' \in Seq(0 .. MaxEdits)
    <2>1. doc.text \in 0 .. MaxEdits
      BY <1>1 DEF DocsTyped, States
    <2>2. Append(pulls, doc.text) \in Seq(0 .. MaxEdits)
      BY <1>1, <2>1
    <2> QED BY <1>1, <2>1, <2>2
  <1>8. DocsTyped' /\ ~confused'
    BY SMTT(30), <1>1, <1>3, <1>4, <1>5, <1>6, <1>7 DEF DocsTyped, DocsInv
  <1>9. OneRequest'
    BY DEF DocsInv, OneRequest, RequestRight
  <1>10. Reading(Tail(st))'
    BY <1>3, <1>5 DEF Reading
  <1>11. PICK e \in States : e = st[Len(wire) + 1]
    <2>1. st \in Seq(States) /\ Len(st) = Len(wire) + 1
      BY <1>2 DEF Reading, Reads
    <2> QED BY <1>1, <2>1
  <1>12. Agrees(e)'
    BY <1>2, <1>11 DEF Agrees, Waiting
  <1>13. LastAnswer(e)'
    <2> SUFFICES ASSUME op = <<>>, docs # Shut PROVE LastAnswer(e)'
      BY DEF LastAnswer
    <2>1. e.text = buffer /\ wire[Len(wire)].kind = "pull"
      BY <1>1, <1>2, <1>11 DEF LastAnswer
    <2>2. CASE wire' # <<>>
      <3>1. wire'[Len(wire')] = wire[Len(wire)]
        BY <1>1, <2>2
      <3> QED BY <2>1, <2>2, <3>1 DEF LastAnswer
    <2>3. CASE wire' = <<>>
      <3>1. Len(wire) = 1 /\ m = wire[1] /\ m.kind = "pull"
        <4>1. Tail(wire) = <<>>
          BY <2>3
        <4>2. Len(wire) = 1 /\ Head(wire) = wire[1]
          BY <1>1, <4>1, LastLeft
        <4> QED BY <1>4, <2>1, <4>2
      <3>2. e = doc
        BY <1>3, <1>4, <1>11, <3>1 DEF After
      <3>3. pulls' = Append(pulls, buffer)
        BY <1>4, <2>1, <3>1, <3>2
      <3>4. pulls' # <<>> /\ pulls'[Len(pulls')] = buffer
        BY <1>1, <3>3
      <3> QED BY <2>1, <2>3, <3>4 DEF LastAnswer
    <2> QED BY <2>2, <2>3
  <1> QED BY <1>3, <1>8, <1>9, <1>10, <1>11, <1>12, <1>13 DEF DocsInv


LEMMA PublishKeeps ==
  ASSUME DocsInv, NEW i \in DOMAIN pulls, Publish(i), "swap" \notin lapse
  PROVE  DocsInv'
  <1> USE DEF Publish
  <1>1. DocsTyped /\ pulls \in Seq(0 .. MaxEdits) /\ pulls # <<>> /\ i = 1
    BY DEF DocsInv, DocsTyped
  <1>2. pulls' = Tail(pulls)
    BY <1>1, RemoveHead
  <1>3. DocsTyped' /\ OneRequest'
    <2>1. pulls[1] \in 0 .. MaxEdits
      <3>1. pulls \in Seq(0 .. MaxEdits) /\ 1 \in 1 .. Len(pulls)
        BY <1>1
      <3> HIDE DEF Publish
      <3> QED BY <3>1, ElementOfSeq
    <2>2. Tail(pulls) \in Seq(0 .. MaxEdits)
      BY <1>1
    <2> QED BY <1>1, <1>2, <2>1, <2>2 DEF DocsTyped, DocsInv, OneRequest, RequestRight
  <1>4. PICK st \in Seq(States) : /\ Reading(st) /\ Agrees(st[Len(wire) + 1])
                                  /\ LastAnswer(st[Len(wire) + 1])
    BY DEF DocsInv
  <1>5. PICK e : e = st[Len(wire) + 1]
    OBVIOUS
  <1>6. Reading(st)' /\ Agrees(e)'
    BY <1>4, <1>5 DEF Reading, Agrees, Waiting
  <1>7. LastAnswer(e)'
    <2>1. pulls' # <<>> => pulls'[Len(pulls')] = pulls[Len(pulls)]
      BY <1>1, <1>2
    <2>2. pulls' = <<>> => Len(pulls) = 1
      BY <1>1, <1>2, LastLeft
    <2> QED BY <1>1, <1>4, <1>5, <2>1, <2>2 DEF LastAnswer
  <1> QED BY <1>3, <1>4, <1>5, <1>6, <1>7 DEF DocsInv

LEMMA RespawnKeeps == ASSUME DocsInv, Respawn PROVE DocsInv'
  <1> USE DocsAssumption DEF Respawn
  <1>1. DocsTyped
    BY DEF DocsInv
  <1>2. PICK d \in States : d = [text |-> Shut, version |-> 0]
    BY DEF States, Shut
  <1>3. doc' = d /\ d.text = Shut /\ d.version = 0 /\ wire' = <<>> /\ Len(wire') = 0
    BY <1>2
  <1>4. DocsTyped'
    <2>1. gen' \in 0 .. MaxRespawns /\ docs' \in 0 .. edits' /\ wire' \in Seq(Messages)
      BY <1>1 DEF DocsTyped, Shut
    <2> QED BY <1>1, <1>2, <1>3, <2>1 DEF DocsTyped
  <1>5. OneRequest'
    <2>1. ASSUME NEW j \in DOMAIN op PROVE RequestRight(op[j])'
      <3>1. op[j] \in Ops /\ RequestRight(op[j]) /\ edits \in Nat /\ buffer \in 0 .. edits
        BY <1>1 DEF DocsInv, DocsTyped, OneRequest
      <3>2. op[j].gen # gen' /\ op[j].gen <= gen' /\ gen \in Nat
        BY <1>1, <3>1 DEF DocsTyped, RequestRight, Ops
      <3> QED BY <3>1, <3>2 DEF RequestRight, Shut
    <2> QED BY <2>1 DEF OneRequest, DocsInv
  <1>6. /\ <<d>> \in Seq(States) /\ Len(<<d>>) = 1 /\ <<d>>[1] = d
    OBVIOUS
  <1>7. Reading(<<d>>)'
    BY <1>3, <1>6 DEF Reading, Reads
  <1>8. Agrees(d)' /\ LastAnswer(d)'
    <2>1. op # <<>> => op[1].gen # gen'
      <3>1. op # <<>> => 1 \in DOMAIN op /\ op[1] \in Ops
        BY <1>1 DEF DocsTyped
      <3> QED BY <1>1, <3>1 DEF DocsInv, DocsTyped, OneRequest, RequestRight, Ops
    <2> QED BY <1>3, <2>1 DEF Agrees, LastAnswer, Waiting, Shut
  <1>9. <<d>>[Len(wire') + 1] = d /\ ~confused'
    BY <1>3, <1>6 DEF DocsInv
  <1> QED BY <1>4, <1>5, <1>6, <1>7, <1>8, <1>9 DEF DocsInv

\* The server follows a buffer whose requests come one at a time, and so does the panel when
\* the answers are published in their order.
LEMMA DocsInvImplies == ASSUME DocsInv PROVE DocsOK
  <1> USE DocsAssumption
  <1>1. DocsTyped
    BY DEF DocsInv
  <1>2. DocsTypeOK
    <2>1. \A i \in DOMAIN op : op[i] \in Ops
      BY <1>1 DEF DocsTyped
    <2>2. \A i \in DOMAIN wire : wire[i] \in Messages
      BY <1>1 DEF DocsTyped
    <2> QED BY SMTT(30), <1>1, <2>1, <2>2 DEF DocsTypeOK, DocsTyped, Ops, Messages, States
  <1>3. PanelRight
    <2> SUFFICES ASSUME op = <<>>, wire = <<>>, pulls = <<>>, docs # Shut
                 PROVE  doc.text = buffer /\ panel = buffer
      BY DEF PanelRight
    <2>1. PICK st \in Seq(States) : Reading(st) /\ LastAnswer(st[Len(wire) + 1])
      BY DEF DocsInv
    <2>2. st[Len(wire) + 1] = doc
      BY <2>1 DEF Reading, Reads
    <2> QED BY <2>1, <2>2 DEF LastAnswer
  <1> QED BY <1>2, <1>3 DEF DocsOK, ServerFollows, DocsInv

\* Through edits, closings, crashes and reopenings the server is never sent what does not fit
\* its view of the buffer, and in the end the panel shows the diagnostics of the buffer's text -
\* as long as requests do not overlap and answers are not swapped.
THEOREM PanelsFollow ==
  (\A l \in Overlaps : "overlap" \notin l /\ "swap" \notin l) => (DocsSpec => []DocsOK)
  <1> SUFFICES ASSUME \A l \in Overlaps : "overlap" \notin l /\ "swap" \notin l
               PROVE  DocsSpec => []DocsOK
    OBVIOUS
  <1>1. DocsInit => DocsInv
    BY DocsInitHolds
  <1>2. DocsInv /\ [DocsNext]_docsVars => DocsInv'
    <2> SUFFICES ASSUME DocsInv, [DocsNext]_docsVars PROVE DocsInv'
      OBVIOUS
    <2>1. "overlap" \notin lapse /\ "swap" \notin lapse
      BY DEF DocsInv, DocsTyped
    <2>2. CASE Edit \/ CloseTab \/ Reopen
      BY <2>1, <2>2, EditKeeps, CloseTabKeeps, ReopenKeeps
    <2>3. CASE ReadMessage \/ Respawn
      BY <2>3, ReadKeeps, RespawnKeeps
    <2>4. ASSUME NEW i \in DOMAIN op, Lock(i) \/ Notify(i) PROVE DocsInv'
      BY <2>4, LockKeeps, NotifyKeeps
    <2>5. ASSUME NEW i \in DOMAIN pulls, Publish(i) PROVE DocsInv'
      BY <2>1, <2>5, PublishKeeps
    <2>6. CASE UNCHANGED docsVars
      BY <2>6 DEF docsVars, DocsInv, DocsTyped, OneRequest, RequestRight, Reading, Agrees, Waiting,
                  LastAnswer
    <2> QED BY <2>2, <2>3, <2>4, <2>5, <2>6 DEF DocsNext
  <1> QED BY <1>1, <1>2, DocsInvImplies, PTL DEF DocsSpec

\* The two together, however the steps of the one and of the other interleave.
THEOREM LspTellsTheTruth ==
  /\ \A q \in SpawnRaces : "refuse" \notin q
  /\ \A l \in Overlaps : "overlap" \notin l /\ "swap" \notin l
  => (SlotSpec /\ DocsSpec => []LspOK)
  <1>1. SlotOK /\ DocsOK => LspOK
    BY DEF LspOK
  <1> QED BY <1>1, OneServerATime, PanelsFollow, PTL
=============================================================================
