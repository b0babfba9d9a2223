---------------------------- MODULE StatusCache ----------------------------
(* The cache in front of `docker compose ps`: read-through, one fetch at a *)
(* time per project, a time to live, and commands of the IDE that change   *)
(* the containers and then invalidate it.  Bounds: every reader and every  *)
(* command calls once, the containers drift once, the clock stops.         *)
EXTENDS Integers, FiniteSets

CONSTANTS Readers, Commands, TTL, MaxClock

ASSUME CacheAssumption ==
  /\ TTL \in Nat \ {0} /\ MaxClock \in Nat
  /\ IsFiniteSet(Commands) /\ Readers \cap Commands = {}

VARIABLES
  clock,
  state,          \* the containers' state, as the number of its changes
  changed,        \* when each change happened
  entry,          \* the cached readings, one at most, and their instant
  mutex,          \* the reader with the slot's mutex, one at most
  phase,          \* where each reader and each command is
  now,            \* the instant a reader called at
  own,            \* the change each command made
  returned,       \* the last change whose command has returned
  due,            \* that change when the reader called
  answer          \* what the reader was told

cacheVars == <<clock, state, changed, entry, mutex, phase, now, own, returned, due, answer>>

Clock == 0 .. MaxClock
Changes == 0 .. Cardinality(Commands) + 1

CacheInit ==
  /\ clock = 0 /\ state = 0 /\ changed = [v \in Changes |-> 0]
  /\ entry = {} /\ mutex = {}
  /\ phase = [a \in Readers \cup Commands |-> "idle"]
  /\ now = [r \in Readers |-> 0] /\ own = [c \in Commands |-> 0] /\ returned = 0
  /\ due = [r \in Readers |-> 0] /\ answer = [r \in Readers |-> 0]

Moves(a, where) == phase' = [phase EXCEPT ![a] = where]
WorldStays == UNCHANGED <<clock, state, changed, own, returned>>
CallsStay == UNCHANGED <<now, due, answer>>

\* A change of the containers; its number is the new state.
Changing ==
  /\ state' = state + 1
  /\ changed' = [changed EXCEPT ![state + 1] = clock]

FreshFor(r) == {e \in entry : now[r] - e.at < TTL}

-----------------------------------------------------------------------------
(* get_or_fetch *)

Call(r) ==
  /\ phase[r] = "idle"
  /\ Moves(r, "try")
  /\ now' = [now EXCEPT ![r] = clock] /\ due' = [due EXCEPT ![r] = returned]
  /\ WorldStays /\ UNCHANGED <<entry, mutex, answer>>

AnswerFrom(r, e) ==
  /\ Moves(r, "done")
  /\ answer' = [answer EXCEPT ![r] = e.state]

\* The fast path: a fresh entry, if nobody holds the mutex.
TryLock(r) ==
  /\ phase[r] = "try"
  /\ IF mutex = {} /\ FreshFor(r) # {}
     THEN \E e \in FreshFor(r) : AnswerFrom(r, e)
     ELSE Moves(r, "wait") /\ UNCHANGED answer
  /\ WorldStays /\ UNCHANGED <<entry, mutex, now, due>>

\* With the mutex the reader looks again, then fetches.
LockSlot(r) ==
  /\ phase[r] = "wait" /\ mutex = {}
  /\ IF FreshFor(r) # {}
     THEN (\E e \in FreshFor(r) : AnswerFrom(r, e)) /\ UNCHANGED mutex
     ELSE Moves(r, "fetch") /\ mutex' = {r} /\ UNCHANGED answer
  /\ WorldStays /\ UNCHANGED <<entry, now, due>>

\* docker compose ps looks at the containers...
Probe(r) ==
  /\ phase[r] = "fetch"
  /\ Moves(r, "probed")
  /\ answer' = [answer EXCEPT ![r] = state]
  /\ WorldStays /\ UNCHANGED <<entry, mutex, now, due>>

\* ...and its answer is stored with the instant of the call.
\* Mutant of Store: the entry has the instant at which the answer came.
StoreLate(r) ==
  /\ phase[r] = "probed"
  /\ Moves(r, "done")
  /\ entry' = {[at |-> clock, state |-> answer[r]]} /\ mutex' = {}
  /\ WorldStays /\ CallsStay

Store(r) ==
  /\ phase[r] = "probed"
  /\ Moves(r, "done")
  /\ entry' = {[at |-> now[r], state |-> answer[r]]} /\ mutex' = {}
  /\ WorldStays /\ CallsStay

\* An error reaches the caller and is not stored.
FetchFails(r) ==
  /\ phase[r] = "fetch"
  /\ Moves(r, "failed")
  /\ mutex' = {}
  /\ WorldStays /\ CallsStay /\ UNCHANGED entry

-----------------------------------------------------------------------------
(* The commands: pause, resume, stop, up... *)

\* docker compose has changed the containers.
Run(c) ==
  /\ phase[c] = "idle"
  /\ Moves(c, "ran")
  /\ Changing
  /\ own' = [own EXCEPT ![c] = state']
  /\ CallsStay /\ UNCHANGED <<clock, entry, mutex, returned>>

\* A command that fails has changed some of them; `?` skips the invalidation.
RunFails(c) ==
  /\ phase[c] = "idle"
  /\ Moves(c, "failed")
  /\ Changing
  /\ CallsStay /\ UNCHANGED <<clock, entry, mutex, own, returned>>

\* invalidate: wait for the mutex, drop the entry.
\* Mutant of Invalidate: it does not wait for a fetch that is under way.
InvalidateNow(c) ==
  /\ phase[c] = "ran"
  /\ Moves(c, "inval")
  /\ entry' = {}
  /\ WorldStays /\ CallsStay /\ UNCHANGED mutex

Invalidate(c) ==
  /\ phase[c] = "ran" /\ mutex = {}
  /\ Moves(c, "inval")
  /\ entry' = {}
  /\ WorldStays /\ CallsStay /\ UNCHANGED mutex

\* The command returns.
Return(c) ==
  /\ phase[c] = "inval"
  /\ Moves(c, "done")
  /\ returned' = IF own[c] > returned THEN own[c] ELSE returned
  /\ CallsStay /\ UNCHANGED <<clock, state, changed, own, entry, mutex>>

-----------------------------------------------------------------------------
\* The containers change by themselves, once.
Drift ==
  /\ state = Cardinality({c \in Commands : phase[c] # "idle"})
  /\ Changing
  /\ CallsStay /\ UNCHANGED <<clock, phase, entry, mutex, own, returned>>

ClockTicks ==
  /\ clock < MaxClock
  /\ clock' = clock + 1
  /\ CallsStay /\ UNCHANGED <<state, changed, phase, entry, mutex, own, returned>>

CacheNext ==
  \/ \E r \in Readers : \/ Call(r) \/ TryLock(r) \/ LockSlot(r)
                        \/ Probe(r) \/ Store(r) \/ FetchFails(r)
  \/ \E c \in Commands : Run(c) \/ RunFails(c) \/ Invalidate(c) \/ Return(c)
  \/ Drift \/ ClockTicks

CacheSpec == CacheInit /\ [][CacheNext]_cacheVars

-----------------------------------------------------------------------------
(* Properties *)

CacheTypeOK ==
  /\ clock \in Clock /\ state \in Changes /\ returned \in 0 .. state
  /\ Cardinality(entry) <= 1 /\ mutex \subseteq Readers /\ Cardinality(mutex) <= 1
  /\ \A r \in Readers : due[r] <= returned /\ now[r] <= clock /\ answer[r] <= state

\* Whoever asks after a command of the IDE has returned sees what it did, also
\* when a fetch from before the command is still under way ("pause() followed
\* immediately by status() reports the fresh Paused").
SeesCommands == \A r \in Readers : phase[r] = "done" => answer[r] >= due[r]

\* Other changes show within the time to live, reckoned from the call.
SeesDrift ==
  \A r \in Readers : phase[r] = "done" =>
    \A v \in 1 .. state : changed[v] + TTL <= now[r] => answer[r] >= v

CacheOK == CacheTypeOK /\ SeesCommands /\ SeesDrift
=============================================================================
