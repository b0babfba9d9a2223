----------------------------- MODULE Background ----------------------------
(* The background processes a session has detached: their registry, the    *)
(* `check` and `stop` tools and the panel's own, the watcher of a process  *)
(* that is to wake the session, and the cleanup.  Bounds: every process is *)
(* spawned once; Stops names the stop requests.                            *)
EXTENDS Naturals, FiniteSets

CONSTANTS
  Procs, Stops,
  BgRaces         \* sets of overlaps, among "twice" (two stops of one process
                  \* overlap) and "cleanup" (a stop meets the cleanup)

VARIABLES
  bgRace,
  os,             \* the processes themselves: "none", "runs", "exited", "killed"
  entries,        \* the ids in the registry
  child,          \* those whose handle is in the entry
  code,           \* exit codes in the entries: "none" or "own"
  notified, stopped, notifying,   \* flags of the entries
  watcher,        \* processes whose watcher polls
  stop,           \* the stop requests
  sweep,          \* entries the cleanup has taken and not handled
  exits,          \* settlement events: pairs of a process and `killed`
  emitted,        \* how many of them
  wakes           \* how often a process has woken the session

bgVars == <<bgRace, os, entries, child, code, notified, stopped, notifying, watcher,
            stop, sweep, exits, emitted, wakes>>

NoStop == [at |-> "idle", proc |-> "none", took |-> FALSE, killed |-> FALSE, code |-> "none"]

BgInit ==
  /\ bgRace \in BgRaces
  /\ os = [p \in Procs |-> "none"]
  /\ entries = {} /\ child = {} /\ code = [p \in Procs |-> "none"]
  /\ notified = {} /\ stopped = {} /\ notifying = {} /\ watcher = {}
  /\ stop = [o \in Stops |-> NoStop] /\ sweep = {}
  /\ exits = {} /\ emitted = [p \in Procs |-> 0] /\ wakes = [p \in Procs |-> 0]

ExitCode(p) == IF os[p] = "exited" THEN "own" ELSE "none"
Swept == \E p \in Procs : os[p] # "none" /\ p \notin entries

\* The event for the panel, unless it was sent before; the wake, unless the
\* exit was not the process's own doing.
\* Mutant of NotifyExit: a process that was stopped wakes the session.
NotifyExitAll(p, killed) ==
  IF p \in notified
  THEN UNCHANGED <<notified, exits, emitted, wakes>>
  ELSE /\ notified' = notified \cup {p}
       /\ exits' = exits \cup {<<p, killed>>}
       /\ emitted' = [emitted EXCEPT ![p] = @ + 1]
       /\ wakes' = IF killed \/ p \notin notifying
                   THEN wakes ELSE [wakes EXCEPT ![p] = @ + 1]

NotifyExit(p, killed) ==
  IF p \in notified
  THEN UNCHANGED <<notified, exits, emitted, wakes>>
  ELSE /\ notified' = notified \cup {p}
       /\ exits' = exits \cup {<<p, killed>>}
       /\ emitted' = [emitted EXCEPT ![p] = @ + 1]
       /\ wakes' = IF killed \/ p \in stopped \/ p \notin notifying
                   THEN wakes ELSE [wakes EXCEPT ![p] = @ + 1]

\* spawn, by `bash` with detach.
Spawn(p) ==
  /\ os[p] = "none" /\ ~Swept
  /\ os' = [os EXCEPT ![p] = "runs"]
  /\ entries' = entries \cup {p} /\ child' = child \cup {p}
  /\ \E notify \in BOOLEAN :
       /\ notifying' = IF notify THEN notifying \cup {p} ELSE notifying
       /\ watcher' = IF notify THEN watcher \cup {p} ELSE watcher
  /\ UNCHANGED <<bgRace, code, notified, stopped, stop, sweep, exits, emitted, wakes>>

Exit(p) ==
  /\ os[p] = "runs"
  /\ os' = [os EXCEPT ![p] = "exited"]
  /\ UNCHANGED <<bgRace, entries, child, code, notified, stopped, notifying, watcher,
                 stop, sweep, exits, emitted, wakes>>

\* try_reap and status: an exit that is seen is stored and reported.
\* Mutant of Reap: it is stored, and the report is left to the watcher.
ReapSilently(p) ==
  IF p \in entries /\ p \in child /\ os[p] # "runs"
  THEN /\ child' = child \ {p}
       /\ code' = [code EXCEPT ![p] = ExitCode(p)]
       /\ UNCHANGED <<notified, exits, emitted, wakes>>
  ELSE UNCHANGED <<child, code, notified, exits, emitted, wakes>>

Reap(p) ==
  IF p \in entries /\ p \in child /\ os[p] # "runs"
  THEN /\ child' = child \ {p}
       /\ code' = [code EXCEPT ![p] = ExitCode(p)]
       /\ NotifyExit(p, FALSE)
  ELSE UNCHANGED <<child, code, notified, exits, emitted, wakes>>

Check(p) ==
  /\ p \in child
  /\ Reap(p)
  /\ UNCHANGED <<bgRace, os, entries, stopped, notifying, watcher, stop, sweep>>

\* The watcher polls until the process is gone, or unknown.
Watch(p) ==
  /\ p \in watcher /\ (p \in entries /\ p \in child => os[p] # "runs")
  /\ Reap(p)
  /\ watcher' = watcher \ {p}
  /\ UNCHANGED <<bgRace, os, entries, stopped, notifying, stop, sweep>>

-----------------------------------------------------------------------------
(* stop, by the model, by the panel or by a second Esc *)

Stopping(p) == \E o \in Stops : stop[o].proc = p /\ stop[o].at \notin {"idle", "done"}

\* The handle is taken out of the entry under the lock...
StopTake(o, p) ==
  /\ stop[o].at = "idle" /\ p \in entries
  /\ Stopping(p) => "twice" \in bgRace
  /\ stopped' = stopped \cup {p}
  /\ child' = child \ {p}
  /\ stop' = [stop EXCEPT ![o] = [NoStop EXCEPT
       !.proc = p, !.took = p \in child, !.at = IF p \in child THEN "reap" ELSE "stored"]]
  /\ UNCHANGED <<bgRace, os, entries, code, notified, notifying, watcher, sweep,
                 exits, emitted, wakes>>

\* ...and without it the process is reaped, or killed and reaped; one that is
\* about to exit may do so before the signal.
StopReap(o) ==
  LET p == stop[o].proc IN
    /\ stop[o].at = "reap"
    /\ \/ /\ os[p] # "runs"
          /\ stop' = [stop EXCEPT ![o].at = "store", ![o].code = ExitCode(p)]
          /\ UNCHANGED os
       \/ /\ os[p] = "runs"
          /\ \E end \in {"exited", "killed"} :
               /\ os' = [os EXCEPT ![p] = end]
               /\ stop' = [stop EXCEPT ![o].at = "store", ![o].killed = TRUE,
                                       ![o].code = IF end = "exited" THEN "own" ELSE "none"]
    /\ UNCHANGED <<bgRace, entries, child, code, notified, stopped, notifying, watcher,
                   sweep, exits, emitted, wakes>>

\* Without a handle: the code that is stored.
StopStored(o) ==
  /\ stop[o].at = "stored"
  /\ stop' = [stop EXCEPT ![o].at = "store",
       ![o].code = IF stop[o].proc \in entries THEN code[stop[o].proc] ELSE "none"]
  /\ UNCHANGED <<bgRace, os, entries, child, code, notified, stopped, notifying, watcher,
                 sweep, exits, emitted, wakes>>

\* Mutant of StopStore: the code is not stored.
StopForgets(o) ==
  /\ stop[o].at = "store"
  /\ stop' = [stop EXCEPT ![o].at = "tell"]
  /\ UNCHANGED <<bgRace, os, entries, child, code, notified, stopped, notifying, watcher,
                 sweep, exits, emitted, wakes>>

StopStore(o) ==
  /\ stop[o].at = "store"
  /\ stop' = [stop EXCEPT ![o].at = "tell"]
  /\ code' = IF stop[o].proc \in entries
             THEN [code EXCEPT ![stop[o].proc] = stop[o].code] ELSE code
  /\ UNCHANGED <<bgRace, os, entries, child, notified, stopped, notifying, watcher,
                 sweep, exits, emitted, wakes>>

StopTells(o) ==
  /\ stop[o].at = "tell"
  /\ stop' = [stop EXCEPT ![o].at = "done"]
  /\ IF stop[o].proc \in entries
     THEN NotifyExit(stop[o].proc, stop[o].killed)
     ELSE UNCHANGED <<notified, exits, emitted, wakes>>
  /\ UNCHANGED <<bgRace, os, entries, child, code, stopped, notifying, watcher, sweep>>

-----------------------------------------------------------------------------
(* cleanup: a sub-agent's run settles, or the IDE shuts down *)

Cleanup ==
  /\ entries # {} /\ sweep = {}
  /\ "cleanup" \in bgRace \/ \A p \in Procs : ~Stopping(p)
  /\ sweep' = entries /\ entries' = {}
  /\ UNCHANGED <<bgRace, os, child, code, notified, stopped, notifying, watcher, stop,
                 exits, emitted, wakes>>

\* An entry without a handle is taken to have exited.
CleanupOne(p) ==
  /\ p \in sweep
  /\ sweep' = sweep \ {p} /\ child' = child \ {p}
  /\ LET kill == p \in child /\ os[p] = "runs" IN
       /\ os' = IF kill THEN [os EXCEPT ![p] = "killed"] ELSE os
       /\ IF p \in notified
          THEN UNCHANGED <<exits, emitted>>
          ELSE /\ exits' = exits \cup {<<p, kill>>}
               /\ emitted' = [emitted EXCEPT ![p] = @ + 1]
  /\ UNCHANGED <<bgRace, entries, code, notified, stopped, notifying, watcher, stop, wakes>>

StopStep(o) == StopReap(o) \/ StopStored(o) \/ StopStore(o) \/ StopTells(o)
BgNext ==
  \/ \E p \in Procs : Spawn(p) \/ Exit(p) \/ Check(p) \/ Watch(p) \/ CleanupOne(p)
  \/ \E o \in Stops : StopStep(o) \/ \E p \in Procs : StopTake(o, p)
  \/ Cleanup

BgSpec == BgInit /\ [][BgNext]_bgVars

\* Spawned tasks and requests that have begun make progress; nobody has to call
\* check, no process has to exit.
BgFairness ==
  /\ \A p \in Procs : WF_bgVars(Watch(p)) /\ WF_bgVars(CleanupOne(p))
  /\ \A o \in Stops : WF_bgVars(StopStep(o))
BgFairSpec == BgSpec /\ BgFairness

-----------------------------------------------------------------------------
(* Properties *)

BgTypeOK ==
  /\ child \subseteq entries \cup sweep /\ sweep \cap entries = {}
  /\ notified \cup stopped \cup notifying \subseteq {p \in Procs : os[p] # "none"}
  /\ \A p \in Procs : code[p] \in {"none", "own"}
  /\ \A o \in Stops : stop[o].at # "idle" => stop[o].proc \in Procs

\* However polls, stops and the cleanup overlap, the panel hears of the end of a
\* process once, and the session is woken once at most.
SettledOnce == \A p \in Procs : emitted[p] <= 1 /\ wakes[p] <= 1

\* A process that was stopped on purpose never wakes the session again, and one
\* that still runs never does.
WakesRight ==
  [][\A p \in Procs : wakes'[p] # wakes[p] => p \notin stopped /\ os[p] = "exited"]_bgVars

\* What the panel is told is true: a process that has settled does not run, and
\* one that settled by being killed did not exit before.
ExitTruthful ==
  \A p \in Procs :
    /\ (<<p, TRUE>> \in exits \/ <<p, FALSE>> \in exits) => os[p] # "runs"
    /\ <<p, FALSE>> \in exits => os[p] = "exited"

\* The exit code of a process that exited stays readable.
CodeKept == \A p \in entries \cap notified : os[p] = "exited" => code[p] = "own"

\* A process that check finds without a handle has come to its end.
CheckTruthful == \A p \in entries \ child : os[p] # "runs"

\* A process that was to wake the session and exited by itself does so, unless
\* it is stopped or swept first.
NoticeComes ==
  \A p \in Procs : (p \in notifying /\ os[p] = "exited" /\ p \in entries)
                     ~> (wakes[p] = 1 \/ p \in stopped \/ p \notin entries)

\* Well typed; every end is told once, and truthfully unless a stop overlaps
\* another stop of the process or the cleanup.
BackgroundOK ==
  /\ BgTypeOK /\ SettledOnce
  /\ bgRace = {} => ExitTruthful /\ CodeKept
=============================================================================
