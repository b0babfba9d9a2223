----------------------------- MODULE LspBroker -----------------------------
(***************************************************************************)
(* The slot of one language id in an LspBroker: ensure_server, the spawn   *)
(* of a server process, its death and the pill that tells of it,           *)
(* shutdown_language (the user's Restart) and shutdown_all (the folder or  *)
(* its container changed). crates/moon-core/src/lsp/broker.rs, and spawn   *)
(* and shutdown of server.rs; one process is an LspClient.                 *)
(***************************************************************************)
EXTENDS Naturals, FiniteSets

CONSTANTS Callers,    \* requests of the editor that need the server
          Unlocked,       \* the spawn lock is free
          MaxServers, \* bound: processes ever spawned for the language
          MaxClosers, \* bound: slots torn down
          SpawnRaces       \* the races to look at: a set of sets, of which one is chosen:
              \* "lag" (a spawn begins while the end of an earlier server is still to
              \* be told), "refuse" (initialize fails and the process lives),
              \* "early" (shutdown_all runs while a request is under way)

ASSUME SpawnAssumption ==
  /\ Unlocked \notin Callers /\ MaxServers \in Nat /\ MaxClosers \in Nat
  /\ SpawnRaces \subseteq SUBSET {"lag", "refuse", "early"}

Servers == 1..MaxServers
Empty == 0
Missing == MaxServers + 1  \* ServerSlot::NotAvailable

VARIABLES quirk,   \* the chosen member of SpawnRaces
          caller,  \* per caller: where in ensure_server it is
          holder,  \* who holds the language's spawn lock
          slot,    \* what the slot map says
          srv,     \* per process: "off", "starting", "up", "dead", "closing", "gone"
          watched, \* processes whose death watcher waits
          pill,    \* the status the UI was last told
          closing, \* per process being shut down: where shutdown is
          closers, \* slots torn down
          over     \* shutdown_all has run

slotVars == <<quirk, caller, holder, slot, srv, watched, pill, closing, closers, over>>

SlotTypeOK ==
  /\ quirk \in SpawnRaces
  /\ caller \in [Callers -> {"idle", "wait", "spawn", "init", "insert", "served"}]
  /\ holder \in Callers \cup {Unlocked}
  /\ slot \in {Empty, Missing} \cup Servers
  /\ srv \in [Servers -> {"off", "starting", "up", "dead", "closing", "gone"}]
  /\ watched \subseteq Servers
  /\ pill \in {"none", "starting", "running", "missing", "crashed", "stopped"}
  /\ closing \in [Servers -> {"no", "asked", "stdio", "done"}]
  /\ closers \in 0..MaxClosers /\ over \in BOOLEAN

SlotInit ==
  /\ quirk \in SpawnRaces
  /\ caller = [c \in Callers |-> "idle"] /\ holder = Unlocked /\ slot = Empty
  /\ srv = [n \in Servers |-> "off"] /\ watched = {} /\ pill = "none"
  /\ closing = [n \in Servers |-> "no"] /\ closers = 0 /\ over = FALSE

Down(n) == srv[n] \in {"dead", "closing", "gone"}
Closing == {n \in Servers : closing[n] \in {"asked", "stdio"}}
Untold == {n \in watched : Down(n)}
Newest == Cardinality({n \in Servers : srv[n] # "off"})

-----------------------------------------------------------------------------
(* ensure_server.                                                          *)

AskServer(c) ==
  /\ caller[c] = "idle"
  /\ ~over \/ "early" \in quirk
  /\ caller' = [caller EXCEPT ![c] = "wait"]
  /\ UNCHANGED <<quirk, holder, slot, srv, watched, pill, closing, closers, over>>

Alive(s) == s \in Servers /\ srv[s] = "up"

\* Under the spawn lock: a live server, or a language known to be missing, ends it.
FindSlot(c) ==
  /\ caller[c] = "wait" /\ holder = Unlocked
  /\ Alive(slot) \/ slot = Missing
  /\ caller' = [caller EXCEPT ![c] = "served"]
  /\ UNCHANGED <<quirk, holder, slot, srv, watched, pill, closing, closers, over>>

\* Mutant of FindEmpty: the lock is given up before the server is spawned.
FindEmptyUnlocked(c) ==
  /\ caller[c] = "wait" /\ holder = Unlocked
  /\ ~Alive(slot) /\ slot # Missing
  /\ "lag" \in quirk \/ (Closing = {} /\ Untold = {})
  /\ slot' = Empty /\ pill' = "starting"
  /\ caller' = [caller EXCEPT ![c] = "spawn"]
  /\ UNCHANGED <<quirk, holder, srv, watched, closing, closers, over>>

\* Otherwise a dead server is evicted and a spawn begins, with the lock held.
FindEmpty(c) ==
  /\ caller[c] = "wait" /\ holder = Unlocked
  /\ ~Alive(slot) /\ slot # Missing
  /\ "lag" \in quirk \/ (Closing = {} /\ Untold = {})
  /\ holder' = c /\ slot' = Empty /\ pill' = "starting"
  /\ caller' = [caller EXCEPT ![c] = "spawn"]
  /\ UNCHANGED <<quirk, srv, watched, closing, closers, over>>

\* No route has the binary, or none passes the probe.
NotFound(c) ==
  /\ caller[c] = "spawn"
  /\ slot' = Missing /\ pill' = "missing" /\ holder' = Unlocked
  /\ caller' = [caller EXCEPT ![c] = "served"]
  /\ UNCHANGED <<quirk, srv, watched, closing, closers, over>>

StartProcess(c) ==
  /\ caller[c] = "spawn" /\ Newest < MaxServers
  /\ srv' = [srv EXCEPT ![Newest + 1] = "starting"]
  /\ caller' = [caller EXCEPT ![c] = "init"]
  /\ UNCHANGED <<quirk, holder, slot, watched, pill, closing, closers, over>>

\* initialize is answered: the pill turns, the death watcher is set.
Initialised(c) ==
  /\ caller[c] = "init"
  /\ \E n \in Servers :
       /\ srv[n] = "starting"
       /\ srv' = [srv EXCEPT ![n] = "up"]
       /\ watched' = watched \cup {n}
  /\ pill' = "running"
  /\ caller' = [caller EXCEPT ![c] = "insert"]
  /\ UNCHANGED <<quirk, holder, slot, closing, closers, over>>

\* initialize fails, as a rule because the process ended. One that only refuses
\* lives on: the notification pump keeps the LspServer and its Child.
InitialiseFails(c) ==
  /\ caller[c] = "init"
  /\ \E n \in Servers :
       /\ srv[n] = "starting"
       /\ \E end \in {"dead"} \cup (IF "refuse" \in quirk THEN {"up"} ELSE {}) :
            srv' = [srv EXCEPT ![n] = end]
  /\ slot' = Missing /\ pill' = "crashed" /\ holder' = Unlocked
  /\ caller' = [caller EXCEPT ![c] = "served"]
  /\ UNCHANGED <<quirk, watched, closing, closers, over>>

Insert(c) ==
  /\ caller[c] = "insert"
  /\ slot' = Newest /\ holder' = Unlocked
  /\ caller' = [caller EXCEPT ![c] = "served"]
  /\ UNCHANGED <<quirk, srv, watched, pill, closing, closers, over>>

CallAgain(c) ==
  /\ caller[c] = "served"
  /\ caller' = [caller EXCEPT ![c] = "idle"]
  /\ UNCHANGED <<quirk, holder, slot, srv, watched, pill, closing, closers, over>>

-----------------------------------------------------------------------------
(* The end of a process.                                                   *)

ServerDies(n) ==
  /\ srv[n] = "up"
  /\ srv' = [srv EXCEPT ![n] = "dead"]
  /\ UNCHANGED <<quirk, caller, holder, slot, watched, pill, closing, closers, over>>

\* Mutant of WatcherTells: the watcher only logs.
WatcherTellsNobody(n) ==
  /\ n \in Untold
  /\ watched' = watched \ {n}
  /\ UNCHANGED <<quirk, caller, holder, slot, srv, pill, closing, closers, over>>

\* The death watcher, for a crash and for a shutdown alike.
WatcherTells(n) ==
  /\ n \in Untold
  /\ watched' = watched \ {n} /\ pill' = "crashed"
  /\ UNCHANGED <<quirk, caller, holder, slot, srv, closing, closers, over>>

\* shutdown_language and shutdown_all empty the slot, whoever holds the spawn lock ...
TearDown(all) ==
  /\ slot # Empty \/ all
  /\ closers < MaxClosers /\ ~over
  /\ all /\ "early" \notin quirk => \A c \in Callers : caller[c] \in {"idle", "served"}
  /\ slot' = Empty /\ closers' = closers + 1 /\ over' = all
  /\ IF slot \in Servers
     THEN closing' = [closing EXCEPT ![slot] = "asked"] /\ UNCHANGED pill
     ELSE /\ pill' = IF slot = Missing /\ ~all THEN "stopped" ELSE pill
          /\ UNCHANGED closing
  /\ UNCHANGED <<quirk, caller, holder, srv, watched>>

\* ... then ask the server to exit, stop the client's writer ...
CloseStdio(n) ==
  /\ closing[n] = "asked"
  /\ closing' = [closing EXCEPT ![n] = "stdio"]
  /\ srv' = [srv EXCEPT ![n] = IF @ = "up" THEN "closing" ELSE @]
  /\ UNCHANGED <<quirk, caller, holder, slot, watched, pill, closers, over>>

\* ... wait for the child or kill it, and tell that it has stopped.
CloseChild(n) ==
  /\ closing[n] = "stdio"
  /\ closing' = [closing EXCEPT ![n] = "done"]
  /\ srv' = [srv EXCEPT ![n] = "gone"] /\ pill' = "stopped"
  /\ UNCHANGED <<quirk, caller, holder, slot, watched, closers, over>>

-----------------------------------------------------------------------------

SlotNext ==
  \/ \E c \in Callers : \/ AskServer(c) \/ FindSlot(c) \/ FindEmpty(c) \/ NotFound(c)
                        \/ StartProcess(c) \/ Initialised(c) \/ InitialiseFails(c)
                        \/ Insert(c) \/ CallAgain(c)
  \/ \E n \in Servers : ServerDies(n) \/ WatcherTells(n) \/ CloseStdio(n) \/ CloseChild(n)
  \/ TearDown(FALSE) \/ TearDown(TRUE)

SlotSpec == SlotInit /\ [][SlotNext]_slotVars

-----------------------------------------------------------------------------

Quiet == holder = Unlocked /\ Closing = {} /\ Untold = {}

\* However many requests meet an empty or a dead slot at once, with restarts and
\* crashes in between, the language has one process beside those being shut down:
\* no spawn is orphaned.
OneServer ==
  Cardinality({n \in Servers : srv[n] \in {"starting", "up"} /\ closing[n] = "no"}) <= 1

\* Once nothing is under way, the pill tells the truth of the slot.
PillRight ==
  Quiet => /\ Alive(slot) => pill = "running"
           /\ pill = "running" => Alive(slot)

\* Well typed; one process, and a pill that does not lie about it unless a spawn
\* begins while the end of an earlier server is still to be told.
SlotOK == SlotTypeOK /\ OneServer /\ ("lag" \notin quirk => PillRight)

\* "Closing the workspace tears everything down".
NoOrphan == over /\ Quiet => \A n \in Servers : srv[n] # "up"
=============================================================================
