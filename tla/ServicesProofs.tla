--------------------------- MODULE ServicesProofs ---------------------------
(* What the services around a session, and the caches and documents on     *)
(* disk, guarantee for any processes, sessions, readers and uploads:       *)
(* Background, Mcp, StatusCache and HubSync.                               *)
EXTENDS Background, Mcp, StatusCache, HubSync, FiniteSetTheorems, TLAPS

-----------------------------------------------------------------------------
(***************************************************************************)
(* What Background guarantees for any processes, stops and overlaps.       *)
(***************************************************************************)
Ends == {"exited", "killed"}
Codes == {"none", "own"}
Active(o) == stop[o].at \notin {"idle", "done"}

\* The types of the variables, beside what BgTypeOK relates.
Typed ==
  /\ bgRace \in BgRaces
  /\ os \in [Procs -> {"none", "runs"} \cup Ends]
  /\ entries \subseteq Procs /\ child \subseteq Procs /\ watcher \subseteq Procs
  /\ notified \subseteq Procs /\ stopped \subseteq Procs /\ notifying \subseteq Procs
  /\ sweep \subseteq Procs /\ exits \subseteq Procs \X BOOLEAN
  /\ code \in [Procs -> Codes]
  /\ stop \in [Stops -> [at : {"idle", "reap", "stored", "store", "tell", "done"},
                         proc : Procs \cup {"none"}, took : BOOLEAN, killed : BOOLEAN,
                         code : Codes]]
  /\ emitted \in [Procs -> {0, 1}] /\ wakes \in [Procs -> {0, 1}]

\* The handle of a process is in its entry or with a stop that has marked the
\* process as stopped, and only who has the handle kills.
Handles ==
  /\ \A p \in child : os[p] \in {"runs", "exited"} /\ p \notin stopped
  /\ \A p \in entries \cup sweep \cup watcher : os[p] # "none"
  /\ \A o \in Stops : stop[o].at # "idle" => stop[o].proc \in stopped

\* A wake and an event are counted by the `notified` flag, as long as there is an
\* entry that has one.
Counted ==
  \A p \in Procs :
    /\ wakes[p] = 1 => p \in notified
    /\ p \in (entries \cup sweep) \ notified => emitted[p] = 0
    /\ os[p] = "none" => emitted[p] = 0

HandleInv == Typed /\ BgTypeOK /\ Handles /\ Counted

\* Where a stop has come to, if it overlaps no other and no cleanup.
StopInv ==
  \A o \in Stops : Active(o) =>
    LET p == stop[o].proc IN
      /\ p \in entries
      /\ \A q \in Stops : Active(q) /\ stop[q].proc = p => q = o
      /\ stop[o].at = "reap" => os[p] \in {"runs", "exited"}
      /\ stop[o].at = "stored" => p \in notified
      /\ stop[o].at \in {"store", "tell"} =>
           /\ os[p] \in Ends
           /\ ~stop[o].killed => os[p] = "exited" \/ p \in notified
      /\ stop[o].at = "store" /\ os[p] = "exited" => stop[o].code = "own"
      /\ stop[o].at = "tell" /\ os[p] = "exited" => code[p] = "own"

\* Who settles a process whose handle is gone.
SettledInv ==
  /\ \A p \in notified : os[p] \in Ends
  /\ \A p \in (entries \cup sweep) \ child :
       p \in notified \/ \E o \in Stops : Active(o) /\ stop[o].proc = p

\* What has settled has ended.
EndsTold == \A p \in Procs : <<p, TRUE>> \in exits \/ <<p, FALSE>> \in exits => os[p] \in Ends

QuietInv == ExitTruthful /\ EndsTold /\ CodeKept /\ StopInv /\ SettledInv

SettleInv == HandleInv /\ (bgRace = {} => QuietInv)

-----------------------------------------------------------------------------
(* The event of an end, which several steps send.                          *)

\* The event is counted once, and only for an entry whose flag was not set.
LEMMA NotifyType ==
  ASSUME HandleInv, NEW p \in entries, NEW killed \in BOOLEAN, NotifyExit(p, killed)
  PROVE  /\ notified' = notified \cup {p}
         /\ \/ exits' = exits
            \/ exits' = exits \cup {<<p, killed>>} /\ p \notin notified
         /\ exits' \subseteq Procs \X BOOLEAN
         /\ emitted' \in [Procs -> {0, 1}] /\ wakes' \in [Procs -> {0, 1}]
         /\ \A q \in Procs : q # p => emitted'[q] = emitted[q] /\ wakes'[q] = wakes[q]
         /\ \A q \in Procs : wakes'[q] # wakes[q] => q = p /\ ~killed /\ p \notin stopped
  <1>1. CASE p \in notified
    <2>1. notified' = notified /\ exits' = exits /\ emitted' = emitted /\ wakes' = wakes
      BY <1>1 DEF NotifyExit
    <2>2. notified' = notified \cup {p}
      BY <1>1, <2>1
    <2>3. \A q \in Procs : wakes'[q] = wakes[q] /\ emitted'[q] = emitted[q]
      BY <2>1
    <2>4. exits' \subseteq Procs \X BOOLEAN
      BY <2>1 DEF HandleInv, Typed
    <2>5. emitted' \in [Procs -> {0, 1}] /\ wakes' \in [Procs -> {0, 1}]
      BY <2>1 DEF HandleInv, Typed
    <2>6. \A q \in Procs : wakes'[q] # wakes[q] => q = p /\ ~killed /\ p \notin stopped
      BY <2>3
    <2> QED BY <2>1, <2>2, <2>3, <2>4, <2>5, <2>6
  <1>2. CASE p \notin notified
    <2>1. emitted[p] = 0 /\ wakes[p] = 0 /\ p \in Procs
      BY <1>2 DEF HandleInv, Typed, Counted
    <2>2. emitted' = [emitted EXCEPT ![p] = 1]
      BY <1>2, <2>1 DEF NotifyExit
    <2>3. wakes' = wakes \/ (wakes' = [wakes EXCEPT ![p] = 1] /\ ~killed /\ p \notin stopped)
      BY <1>2, <2>1 DEF NotifyExit
    <2> QED BY <1>2, <2>1, <2>2, <2>3 DEF NotifyExit, HandleInv, Typed
  <1> QED BY <1>1, <1>2

\* A look at a process: nothing, or the end of a process that has exited is
\* stored and told.
LEMMA ReapCases ==
  ASSUME HandleInv, NEW p \in Procs, Reap(p)
  PROVE  \/ UNCHANGED <<child, code, notified, exits, emitted, wakes>>
         \/ /\ p \in entries /\ p \in child /\ os[p] = "exited" /\ p \notin stopped
            /\ child' = child \ {p} /\ code' = [code EXCEPT ![p] = "own"]
            /\ NotifyExit(p, FALSE)
  BY DEF Reap, ExitCode, HandleInv, Handles

-----------------------------------------------------------------------------
(* The handles and the counts, whatever overlaps.                          *)

LEMMA ReapKeepsHandles ==
  ASSUME HandleInv, NEW p \in Procs, Reap(p),
         UNCHANGED <<bgRace, os, entries, stopped, notifying, stop, sweep>>,
         watcher' \subseteq watcher
  PROVE  HandleInv'
  <1>1. CASE UNCHANGED <<child, code, notified, exits, emitted, wakes>>
    BY <1>1 DEF HandleInv, Typed, BgTypeOK, Handles, Counted
  <1>2. CASE /\ p \in entries /\ p \in child /\ os[p] = "exited"
             /\ child' = child \ {p} /\ code' = [code EXCEPT ![p] = "own"]
             /\ NotifyExit(p, FALSE)
    <2>1. Typed'
      <3>1. code' \in [Procs -> Codes] /\ child' \subseteq Procs
        BY <1>2 DEF HandleInv, Typed, Codes
      <3> QED BY <1>2, <3>1, NotifyType DEF HandleInv, Typed
    <2>2. notified' = notified \cup {p} /\ os[p] # "none"
          /\ \A q \in Procs : q # p => emitted'[q] = emitted[q] /\ wakes'[q] = wakes[q]
      BY <1>2, NotifyType
    <2>3. BgTypeOK'
      BY <1>2, <2>1, <2>2 DEF HandleInv, Typed, Codes, BgTypeOK
    <2>4. Handles'
      BY <1>2, <2>2 DEF HandleInv, Handles
    <2>5. Counted'
      BY <1>2, <2>1, <2>2 DEF HandleInv, Typed, Counted
    <2> QED BY <2>1, <2>3, <2>4, <2>5 DEF HandleInv
  <1> QED BY <1>1, <1>2, ReapCases

LEMMA SpawnKeepsHandles ==
  ASSUME HandleInv, NEW p \in Procs, Spawn(p)
  PROVE  HandleInv'
  <1>1. Typed'
    BY DEF Spawn, HandleInv, Typed
  <1>2. /\ os' = [os EXCEPT ![p] = "runs"] /\ os[p] = "none"
        /\ entries' = entries \cup {p} /\ child' = child \cup {p}
        /\ notifying' \subseteq notifying \cup {p} /\ watcher' \subseteq watcher \cup {p}
        /\ UNCHANGED <<bgRace, code, notified, stopped, stop, sweep, exits, emitted, wakes>>
    BY DEF Spawn
  <1>3. p \notin stopped /\ p \notin sweep /\ p \notin notified
    BY <1>2 DEF HandleInv, BgTypeOK, Handles
  <1>4. BgTypeOK'
    BY <1>2, <1>3 DEF HandleInv, Typed, BgTypeOK
  <1>5. Handles'
    BY <1>2, <1>3 DEF HandleInv, Typed, BgTypeOK, Handles
  <1>6. Counted'
    BY <1>2, <1>3 DEF HandleInv, Typed, Counted
  <1> QED BY <1>1, <1>4, <1>5, <1>6 DEF HandleInv

LEMMA ExitKeepsHandles ==
  ASSUME HandleInv, NEW p \in Procs, Exit(p)
  PROVE  HandleInv'
  <1>1. Typed'
    BY DEF Exit, HandleInv, Typed, Ends
  <1>2. BgTypeOK' /\ Handles' /\ Counted'
    BY DEF Exit, HandleInv, Typed, BgTypeOK, Handles, Counted
  <1> QED BY <1>1, <1>2 DEF HandleInv

LEMMA Truth == ASSUME NEW p, NEW S PROVE (p \in S) \in BOOLEAN
  BY SMT

LEMMA TakeKeepsHandles ==
  ASSUME HandleInv, NEW o \in Stops, NEW p \in Procs, StopTake(o, p)
  PROVE  HandleInv'
  <1>2. /\ stop' \in [Stops -> [at : {"idle", "reap", "stored", "store", "tell", "done"},
                                proc : Procs \cup {"none"}, took : BOOLEAN, killed : BOOLEAN,
                                code : Codes]]
        /\ stop'[o].proc = p /\ \A q \in Stops : q # o => stop'[q] = stop[q]
    <2> DEFINE took == p \in child
               new == [NoStop EXCEPT !.proc = p, !.took = took, !.at = IF took THEN "reap" ELSE "stored"]
    <2>1. stop' = [stop EXCEPT ![o] = new]
      BY DEF StopTake
    <2>2. took \in BOOLEAN
      BY Truth
    <2>3. /\ new \in [at : {"idle", "reap", "stored", "store", "tell", "done"},
                      proc : Procs \cup {"none"}, took : BOOLEAN, killed : BOOLEAN, code : Codes]
          /\ new.proc = p
      <3> HIDE DEF took
      <3> QED BY <2>2 DEF Codes, NoStop
    <2> HIDE DEF new
    <2> QED BY <2>1, <2>3 DEF HandleInv, Typed
  <1>1. Typed'
    BY <1>2 DEF StopTake, HandleInv, Typed
  <1>3. BgTypeOK' /\ Handles' /\ Counted'
    BY <1>2 DEF StopTake, HandleInv, Typed, BgTypeOK, Handles, Counted
  <1> QED BY <1>1, <1>3 DEF HandleInv

LEMMA StopKeepsHandles ==
  ASSUME HandleInv, NEW o \in Stops, StopStep(o)
  PROVE  HandleInv'
  <1> DEFINE p == stop[o].proc
  <1>1. stop[o].at # "idle" /\ p \in stopped /\ p \in Procs /\ os[p] # "none" /\ p \notin child
    BY DEF StopStep, StopReap, StopStored, StopStore, StopTells, HandleInv, Typed, Handles, BgTypeOK
  <1>2. /\ stop' \in [Stops -> [at : {"idle", "reap", "stored", "store", "tell", "done"},
                                proc : Procs \cup {"none"}, took : BOOLEAN, killed : BOOLEAN,
                                code : Codes]]
        /\ stop'[o].proc = p /\ \A q \in Stops : q # o => stop'[q] = stop[q]
    BY <1>1 DEF StopStep, StopReap, StopStored, StopStore, StopTells, HandleInv, Typed, Codes, ExitCode
  <1>3. CASE StopReap(o)
    <2>1. os' = os \/ \E end \in Ends : os' = [os EXCEPT ![p] = end]
      BY <1>3 DEF StopReap, Ends
    <2>2. Typed'
      BY <1>1, <1>2, <1>3, <2>1 DEF StopReap, HandleInv, Typed, Ends
    <2>3. BgTypeOK' /\ Handles' /\ Counted'
      BY <1>1, <1>2, <1>3, <2>1, <2>2 DEF StopReap, HandleInv, Typed, BgTypeOK, Handles, Counted, Ends
    <2> QED BY <2>2, <2>3 DEF HandleInv
  <1>4. CASE StopStored(o)
    BY <1>1, <1>2, <1>4 DEF StopStored, HandleInv, Typed, BgTypeOK, Handles, Counted
  <1>5. CASE StopStore(o)
    <2>1. Typed'
      BY <1>1, <1>2, <1>5 DEF StopStore, HandleInv, Typed
    <2>2. BgTypeOK' /\ Handles' /\ Counted'
      BY <1>1, <1>2, <1>5, <2>1 DEF StopStore, HandleInv, Typed, BgTypeOK, Handles, Counted, Codes
    <2> QED BY <2>1, <2>2 DEF HandleInv
  <1>6. CASE StopTells(o)
    <2>1. \/ UNCHANGED <<notified, exits, emitted, wakes>>
          \/ p \in entries /\ stop[o].killed \in BOOLEAN /\ NotifyExit(p, stop[o].killed)
      BY <1>6 DEF StopTells, HandleInv, Typed
    <2>2. Typed'
      BY <1>1, <1>2, <1>6, <2>1, NotifyType DEF StopTells, HandleInv, Typed
    <2>3. BgTypeOK' /\ Handles' /\ Counted'
      BY <1>1, <1>2, <1>6, <2>1, <2>2, NotifyType
         DEF StopTells, HandleInv, Typed, BgTypeOK, Handles, Counted
    <2> QED BY <2>2, <2>3 DEF HandleInv
  <1> QED BY <1>3, <1>4, <1>5, <1>6 DEF StopStep

LEMMA SweepKeepsHandles ==
  ASSUME HandleInv, Cleanup \/ \E p \in Procs : CleanupOne(p)
  PROVE  HandleInv'
  <1>1. CASE Cleanup
    BY <1>1 DEF Cleanup, HandleInv, Typed, BgTypeOK, Handles, Counted
  <1>2. ASSUME NEW p \in Procs, CleanupOne(p)
        PROVE  HandleInv'
    <2> DEFINE kill == p \in child /\ os[p] = "runs"
    <2>1. os' = IF kill THEN [os EXCEPT ![p] = "killed"] ELSE os
      BY <1>2 DEF CleanupOne
    <2>2. \/ UNCHANGED <<exits, emitted>>
          \/ /\ p \notin notified /\ emitted[p] = 0
             /\ exits' = exits \cup {<<p, kill>>} /\ emitted' = [emitted EXCEPT ![p] = 1]
      <3>1. CASE p \in notified
        BY <1>2, <3>1 DEF CleanupOne
      <3>2. CASE p \notin notified
        <4>1. emitted[p] = 0 
          BY <1>2, <3>2 DEF CleanupOne, HandleInv, Counted, Typed
        <4>2. exits' = exits \cup {<<p, kill>>} /\ emitted' = [emitted EXCEPT ![p] = emitted[p] + 1]
          BY <1>2, <3>2 DEF CleanupOne
        <4> QED BY <3>2, <4>1, <4>2
      <3> QED BY <3>1, <3>2
    <2>3. exits' \subseteq Procs \X BOOLEAN
      <3>1. kill \in BOOLEAN
        OBVIOUS
      <3> HIDE DEF kill
      <3> QED BY <2>2, <3>1 DEF HandleInv, Typed
    <2>4. emitted' \in [Procs -> {0, 1}] /\ \A q \in Procs : q # p => emitted'[q] = emitted[q]
      BY <2>2 DEF HandleInv, Typed
    <2>5. Typed'
      BY <1>2, <2>1, <2>3, <2>4 DEF CleanupOne, HandleInv, Typed, Ends
    <2>6. BgTypeOK' /\ Handles' /\ Counted'
      BY <1>2, <2>1, <2>4, <2>5 DEF CleanupOne, HandleInv, Typed, BgTypeOK, Handles, Counted, Ends
    <2> QED BY <2>5, <2>6 DEF HandleInv
  <1> QED BY <1>1, <1>2

LEMMA HandlesKept ==
  ASSUME HandleInv, [BgNext]_bgVars
  PROVE  HandleInv'
  <1>1. ASSUME NEW p \in Procs, Check(p) \/ Watch(p)
        PROVE  HandleInv'
    BY <1>1, ReapKeepsHandles DEF Check, Watch
  <1>2. CASE UNCHANGED bgVars
    BY <1>2 DEF bgVars, HandleInv, Typed, BgTypeOK, Handles, Counted
  <1> QED BY <1>1, <1>2, SpawnKeepsHandles, ExitKeepsHandles, TakeKeepsHandles, StopKeepsHandles,
             SweepKeepsHandles DEF BgNext

-----------------------------------------------------------------------------
(* The truth of what is told, when no stop overlaps another one of the     *)
(* process or the cleanup.                                                 *)

\* A process whose end is stored and told has exited by itself.
LEMMA ReapKeepsQuiet ==
  ASSUME HandleInv, QuietInv, NEW p \in Procs, Reap(p),
         UNCHANGED <<bgRace, os, entries, stopped, notifying, stop, sweep>>
  PROVE  QuietInv'
  <1>1. CASE UNCHANGED <<child, code, notified, exits, emitted, wakes>>
    BY <1>1 DEF QuietInv, ExitTruthful, EndsTold, Ends, CodeKept, StopInv, SettledInv, Active
  <1>2. CASE /\ p \in entries /\ p \in child /\ os[p] = "exited"
             /\ child' = child \ {p} /\ code' = [code EXCEPT ![p] = "own"]
             /\ NotifyExit(p, FALSE)
    <2>1. notified' = notified \cup {p} /\ exits' \subseteq exits \cup {<<p, FALSE>>}
      BY <1>2, NotifyType
    <2>2. code'[p] = "own" /\ \A q \in Procs : q # p => code'[q] = code[q]
      BY <1>2 DEF HandleInv, Typed
    <2>3. ExitTruthful' /\ EndsTold'
      BY <1>2, <2>1 DEF QuietInv, ExitTruthful, EndsTold, Ends
    <2>4. CodeKept'
      BY <1>2, <2>1, <2>2 DEF QuietInv, CodeKept, HandleInv, Typed
    <2>5. StopInv'
      BY <1>2, <2>1, <2>2 DEF QuietInv, StopInv, Active, HandleInv, Typed
    <2>6. SettledInv'
      BY <1>2, <2>1 DEF QuietInv, SettledInv, Active, Ends
    <2> QED BY <2>3, <2>4, <2>5, <2>6 DEF QuietInv
  <1> QED BY <1>1, <1>2, ReapCases

LEMMA SpawnKeepsQuiet ==
  ASSUME HandleInv, QuietInv, NEW p \in Procs, Spawn(p) \/ Exit(p)
  PROVE  QuietInv'
  <1>1. CASE Spawn(p)
    <2>1. /\ os' = [os EXCEPT ![p] = "runs"] /\ os[p] = "none"
          /\ entries' = entries \cup {p} /\ child' = child \cup {p}
          /\ UNCHANGED <<bgRace, code, notified, stopped, stop, sweep, exits, emitted, wakes>>
      BY <1>1 DEF Spawn
    <2>2. p \notin notified /\ p \notin sweep /\ p \notin entries
      BY <2>1 DEF HandleInv, BgTypeOK, Handles
    <2>3. <<p, TRUE>> \notin exits /\ <<p, FALSE>> \notin exits
      BY <2>1 DEF QuietInv, EndsTold, Ends
    <2>4. ExitTruthful' /\ EndsTold' /\ CodeKept' /\ SettledInv'
      BY <2>1, <2>2, <2>3 DEF QuietInv, ExitTruthful, EndsTold, Ends, CodeKept, SettledInv, Active, HandleInv, Typed
    <2>5. StopInv'
      BY <2>1, <2>2 DEF QuietInv, StopInv, Active, HandleInv, Typed, Ends
    <2> QED BY <2>4, <2>5 DEF QuietInv
  <1>2. CASE Exit(p)
    <2>1. os' = [os EXCEPT ![p] = "exited"] /\ os[p] = "runs"
          /\ UNCHANGED <<bgRace, entries, child, code, notified, stopped, stop, sweep, exits>>
      BY <1>2 DEF Exit
    <2>2. p \notin notified
      BY <2>1 DEF QuietInv, SettledInv, Ends
    <2>3. ExitTruthful' /\ EndsTold' /\ CodeKept' /\ SettledInv'
      BY <2>1, <2>2 DEF QuietInv, ExitTruthful, EndsTold, Ends, CodeKept, SettledInv, Active, HandleInv, Typed
    <2>4. StopInv'
      BY <2>1, <2>2 DEF QuietInv, StopInv, Active, HandleInv, Typed, Ends
    <2> QED BY <2>3, <2>4 DEF QuietInv
  <1> QED BY <1>1, <1>2

\* A stop takes the handle, or finds that the process has settled.
LEMMA TakeKeepsQuiet ==
  ASSUME HandleInv, QuietInv, bgRace = {}, NEW o \in Stops, NEW p \in Procs, StopTake(o, p)
  PROVE  QuietInv'
  <1>1. /\ p \in entries /\ stop[o].at = "idle" /\ child' = child \ {p}
        /\ \A q \in Stops : Active(q) => stop[q].proc # p
        /\ UNCHANGED <<os, entries, code, notified, sweep, exits>>
    BY DEF StopTake, Stopping, Active
  <1>2. /\ stop'[o].proc = p /\ stop'[o].at \in {"reap", "stored"}
        /\ stop'[o].at = "stored" => p \in notified
        /\ stop'[o].at = "reap" => os[p] \in {"runs", "exited"}
        /\ \A q \in Stops : q # o => stop'[q] = stop[q]
    <2>1. p \notin child => p \in notified
      BY <1>1 DEF QuietInv, SettledInv
    <2>2. p \in child => os[p] \in {"runs", "exited"}
      BY DEF HandleInv, Handles
    <2> QED BY <2>1, <2>2 DEF StopTake, NoStop, HandleInv, Typed
  <1>3. ExitTruthful' /\ EndsTold' /\ CodeKept'
    BY <1>1 DEF QuietInv, ExitTruthful, EndsTold, Ends, CodeKept
  <1>4. StopInv'
    BY <1>1, <1>2 DEF QuietInv, StopInv, Active
  <1>5. SettledInv'
    BY <1>1, <1>2 DEF QuietInv, SettledInv, Active
  <1> QED BY <1>3, <1>4, <1>5 DEF QuietInv

\* A stop that has begun keeps the process to itself until it has told its end.
LEMMA StopKeepsQuiet ==
  ASSUME HandleInv, QuietInv, NEW o \in Stops, StopStep(o)
  PROVE  QuietInv'
  <1> DEFINE p == stop[o].proc
  <1>1. /\ Active(o) /\ p \in Procs /\ p \in entries
        /\ \A q \in Stops : Active(q) /\ q # o => stop[q].proc # p
        /\ stop[o].at \in {"reap", "stored", "store", "tell"}
    BY DEF StopStep, StopReap, StopStored, StopStore, StopTells, Active, QuietInv, StopInv,
           HandleInv, Typed, Handles
  <1>2. stop'[o].proc = p /\ \A q \in Stops : q # o => stop'[q] = stop[q]
    BY DEF StopStep, StopReap, StopStored, StopStore, StopTells, HandleInv, Typed
  <1>3. CASE StopReap(o)
    <2>1. /\ UNCHANGED <<entries, child, code, notified, sweep, exits>>
          /\ stop[o].at = "reap" /\ stop'[o].at = "store"
      BY <1>3 DEF StopReap, HandleInv, Typed
    <2>2. /\ \A q \in Procs : q # p => os'[q] = os[q]
          /\ os[p] \notin {"runs", "none"} => os'[p] = os[p]
          /\ os'[p] \in Ends
          /\ os'[p] = "exited" => stop'[o].code = "own"
          /\ ~stop'[o].killed => os'[p] = "exited" \/ p \in notified
      <3>1. os[p] # "none"
        BY <1>1 DEF HandleInv, Handles
      <3>2. CASE os[p] # "runs"
        <4>1. stop' = [stop EXCEPT ![o].at = "store", ![o].code = ExitCode(p)] /\ os' = os
          BY <1>3, <3>2 DEF StopReap
        <4>2. os[p] = "exited"
          BY <3>1, <3>2, <1>1, <2>1 DEF QuietInv, StopInv
        <4> QED BY <4>1, <4>2, <1>1, <3>1 DEF ExitCode, HandleInv, Typed, Ends
      <3>3. CASE os[p] = "runs"
        <4>1. PICK end \in {"exited", "killed"} :
                /\ os' = [os EXCEPT ![p] = end]
                /\ stop' = [stop EXCEPT ![o].at = "store", ![o].killed = TRUE,
                                        ![o].code = IF end = "exited" THEN "own" ELSE "none"]
          BY <1>3, <3>3 DEF StopReap
        <4> QED BY <4>1, <3>3, <1>1 DEF HandleInv, Typed, Ends
      <3> QED BY <3>2, <3>3
    <2>3. ExitTruthful' /\ EndsTold' /\ CodeKept'
      <3>1. ExitTruthful'
        BY <1>1, <2>1, <2>2 DEF QuietInv, ExitTruthful, Ends, HandleInv, Typed
      <3>2. EndsTold'
        BY <1>1, <2>1, <2>2 DEF QuietInv, EndsTold, Ends, HandleInv, Typed
      <3>3. CodeKept'
        BY <1>1, <2>1, <2>2 DEF QuietInv, CodeKept, Ends, SettledInv, HandleInv, Typed
      <3> QED BY <3>1, <3>2, <3>3
    <2>4. StopInv'
      BY <1>1, <1>2, <2>1, <2>2 DEF QuietInv, StopInv, Active, HandleInv, Typed, Ends
    <2>5. SettledInv'
      BY <1>1, <1>2, <2>1, <2>2 DEF QuietInv, SettledInv, Active, HandleInv, Typed, Ends
    <2> QED BY <2>3, <2>4, <2>5 DEF QuietInv
  <1>4. CASE StopStored(o)
    <2>1. /\ UNCHANGED <<os, entries, child, code, notified, sweep, exits>>
          /\ stop[o].at = "stored" /\ stop'[o].at = "store" /\ stop'[o].code = code[p]
      BY <1>1, <1>4 DEF StopStored, HandleInv, Typed
    <2>2. p \in notified /\ os[p] \in Ends /\ (os[p] = "exited" => code[p] = "own")
      BY <1>1, <2>1 DEF QuietInv, StopInv, SettledInv, CodeKept
    <2>3. StopInv'
      BY <1>1, <1>2, <2>1, <2>2 DEF QuietInv, StopInv, Active
    <2>4. SettledInv'
      BY <1>1, <1>2, <2>1 DEF QuietInv, SettledInv, Active
    <2>5. ExitTruthful' /\ EndsTold' /\ CodeKept'
      BY <2>1 DEF QuietInv, ExitTruthful, EndsTold, Ends, CodeKept
    <2> QED BY <2>3, <2>4, <2>5 DEF QuietInv
  <1>5. CASE StopStore(o)
    <2>1. /\ UNCHANGED <<os, entries, child, notified, sweep, exits>>
          /\ stop[o].at = "store" /\ stop'[o].at = "tell" /\ stop'[o].killed = stop[o].killed
          /\ code' = [code EXCEPT ![p] = stop[o].code]
      BY <1>1, <1>5 DEF StopStore, HandleInv, Typed
    <2>2. code'[p] = stop[o].code /\ \A q \in Procs : q # p => code'[q] = code[q]
      BY <1>1, <2>1 DEF HandleInv, Typed
    <2>3. os[p] = "exited" => stop[o].code = "own"
      BY <1>1, <2>1 DEF QuietInv, StopInv
    <2>4. StopInv'
      BY <1>1, <1>2, <2>1, <2>2, <2>3 DEF QuietInv, StopInv, Active, HandleInv, Typed
    <2>5. CodeKept'
      BY <2>1, <2>2, <2>3 DEF QuietInv, CodeKept, HandleInv, Typed
    <2>6. SettledInv'
      BY <1>1, <1>2, <2>1 DEF QuietInv, SettledInv, Active
    <2>7. ExitTruthful' /\ EndsTold'
      BY <2>1 DEF QuietInv, ExitTruthful, EndsTold, Ends
    <2> QED BY <2>4, <2>5, <2>6, <2>7 DEF QuietInv
  <1>6. CASE StopTells(o)
    <2>1. /\ UNCHANGED <<os, entries, child, code, sweep>>
          /\ stop[o].at = "tell" /\ stop'[o].at = "done" /\ NotifyExit(p, stop[o].killed)
          /\ stop[o].killed \in BOOLEAN
      BY <1>1, <1>6 DEF StopTells, HandleInv, Typed
    <2>2. /\ notified' = notified \cup {p}
          /\ exits' = exits \/ (exits' = exits \cup {<<p, stop[o].killed>>} /\ p \notin notified)
      BY <1>1, <2>1, NotifyType
    <2>3. /\ os[p] \in Ends /\ (os[p] = "exited" => code[p] = "own")
          /\ ~stop[o].killed => os[p] = "exited" \/ p \in notified
      BY <1>1, <2>1 DEF QuietInv, StopInv
    <2>4. ExitTruthful' /\ EndsTold'
      BY <2>1, <2>2, <2>3 DEF QuietInv, ExitTruthful, EndsTold, Ends
    <2>5. CodeKept'
      BY <2>1, <2>2, <2>3 DEF QuietInv, CodeKept
    <2>6. StopInv'
      BY <1>1, <1>2, <2>1, <2>2 DEF QuietInv, StopInv, Active
    <2>7. SettledInv'
      BY <1>1, <1>2, <2>1, <2>2, <2>3 DEF QuietInv, SettledInv, Active
    <2> QED BY <2>4, <2>5, <2>6, <2>7 DEF QuietInv
  <1> QED BY <1>3, <1>4, <1>5, <1>6 DEF StopStep

\* The cleanup finds no stop under way, so that an entry it has taken has its
\* handle or has settled.
LEMMA SweepKeepsQuiet ==
  ASSUME HandleInv, QuietInv, bgRace = {}, Cleanup \/ \E p \in Procs : CleanupOne(p)
  PROVE  QuietInv'
  <1>1. CASE Cleanup
    <2>1. \A o \in Stops : ~Active(o)
      BY <1>1 DEF Cleanup, Stopping, Active, QuietInv, StopInv, HandleInv, Typed
    <2> QED BY <1>1, <2>1 DEF Cleanup, QuietInv, ExitTruthful, EndsTold, Ends, CodeKept, StopInv, SettledInv, Active
  <1>2. ASSUME NEW p \in Procs, CleanupOne(p)
        PROVE  QuietInv'
    <2>1. /\ p \in sweep /\ p \notin entries /\ sweep' = sweep \ {p} /\ child' = child \ {p}
          /\ UNCHANGED <<entries, code, notified, stop>>
      BY <1>2 DEF CleanupOne, HandleInv, BgTypeOK
    <2>2. p \in notified \/ p \in child
      BY <2>1 DEF QuietInv, SettledInv, StopInv
    <2>3. CASE p \in notified
      <3>1. UNCHANGED <<os, exits>>
        BY <1>2, <2>3 DEF CleanupOne, QuietInv, SettledInv, Ends
      <3> QED BY <2>1, <2>3, <3>1 DEF QuietInv, ExitTruthful, EndsTold, Ends, CodeKept, StopInv, SettledInv, Active
    <2>4. CASE p \in child /\ p \notin notified /\ os[p] = "runs"
      <3>1. os' = [os EXCEPT ![p] = "killed"] /\ exits' = exits \cup {<<p, TRUE>>}
        BY <1>2, <2>4 DEF CleanupOne
      <3>2. ExitTruthful' /\ EndsTold' /\ CodeKept'
        BY <2>1, <2>4, <3>1 DEF QuietInv, ExitTruthful, EndsTold, Ends, CodeKept, HandleInv, Typed
      <3>3. StopInv' /\ SettledInv'
        BY <2>1, <2>4, <3>1 DEF QuietInv, StopInv, SettledInv, Active, HandleInv, Typed, Ends
      <3> QED BY <3>2, <3>3 DEF QuietInv
    <2>5. CASE p \in child /\ p \notin notified /\ os[p] = "exited"
      <3>1. os' = os /\ exits' = exits \cup {<<p, FALSE>>}
        BY <1>2, <2>5 DEF CleanupOne
      <3> QED BY <2>1, <2>5, <3>1 DEF QuietInv, ExitTruthful, EndsTold, Ends, CodeKept, StopInv, SettledInv, Active
    <2> QED BY <2>2, <2>3, <2>4, <2>5 DEF HandleInv, Handles
  <1> QED BY <1>1, <1>2

LEMMA SettleKept ==
  ASSUME SettleInv, [BgNext]_bgVars
  PROVE  SettleInv'
  <1>1. HandleInv'
    BY HandlesKept DEF SettleInv
  <1>2. bgRace' = bgRace
    BY DEF BgNext, bgVars, Spawn, Exit, Check, Watch, CleanupOne, StopStep, StopReap, StopStored,
           StopStore, StopTells, StopTake, Cleanup
  <1>3. ASSUME HandleInv, QuietInv, bgRace = {}
        PROVE  QuietInv'
    <2>1. ASSUME NEW p \in Procs, Check(p) \/ Watch(p)
          PROVE  QuietInv'
      BY <1>3, <2>1, ReapKeepsQuiet DEF Check, Watch
    <2>2. CASE UNCHANGED bgVars
      BY <1>3, <2>2 DEF bgVars, QuietInv, ExitTruthful, EndsTold, Ends, CodeKept, StopInv, SettledInv, Active
    <2> QED BY <1>3, <2>1, <2>2, SpawnKeepsQuiet, TakeKeepsQuiet, StopKeepsQuiet, SweepKeepsQuiet
         DEF BgNext
  <1> QED BY <1>1, <1>2, <1>3 DEF SettleInv

LEMMA SettleInit == BgInit => SettleInv
  <1> SUFFICES ASSUME BgInit PROVE SettleInv
    OBVIOUS
  <1>1. Typed
    BY DEF BgInit, Typed, NoStop, Codes
  <1>2. BgTypeOK /\ Handles /\ Counted
    BY DEF BgInit, BgTypeOK, Handles, Counted, NoStop
  <1>3. QuietInv
    BY DEF BgInit, QuietInv, ExitTruthful, EndsTold, Ends, CodeKept, StopInv, SettledInv, Active, NoStop
  <1> QED BY <1>1, <1>2, <1>3 DEF SettleInv, HandleInv

-----------------------------------------------------------------------------

\* The end of a process is told once, wakes the session once at most, and is
\* told truthfully with its exit code kept unless a stop overlaps another stop
\* of the process or the cleanup.
THEOREM EndsToldOnce == BgSpec => []BackgroundOK
  <1>1. SettleInv => BackgroundOK
    BY DEF SettleInv, HandleInv, Typed, QuietInv, BackgroundOK, SettledOnce
  <1> QED BY <1>1, SettleInit, SettleKept, PTL DEF BgSpec

\* Whatever polls, stops and cleanups do, only a process that exited by itself
\* and that nobody has stopped wakes its session.
THEOREM OnlyExitsWake == BgSpec => WakesRight
  <1>1. ASSUME SettleInv, [BgNext]_bgVars
        PROVE  [\A p \in Procs : wakes'[p] # wakes[p] => p \notin stopped /\ os[p] = "exited"]_bgVars
    <2> SUFFICES ASSUME NEW p \in Procs, wakes'[p] # wakes[p]
                 PROVE  p \notin stopped /\ os[p] = "exited"
      OBVIOUS
    <2>1. HandleInv
      BY <1>1 DEF SettleInv
    <2>2. \/ \E q \in Procs : Check(q) \/ Watch(q)
          \/ \E o \in Stops : StopTells(o)
      BY <1>1 DEF BgNext, bgVars, Spawn, Exit, CleanupOne, StopStep, StopReap, StopStored,
                  StopStore, StopTake, Cleanup
    <2>3. ASSUME NEW q \in Procs, Check(q) \/ Watch(q)
          PROVE  p \notin stopped /\ os[p] = "exited"
      <3>1. Reap(q)
        BY <2>3 DEF Check, Watch
      <3>2. q \in entries /\ os[q] = "exited" /\ q \notin stopped /\ NotifyExit(q, FALSE)
        BY <2>1, <3>1, ReapCases
      <3> QED BY <2>1, <3>2, NotifyType
    <2>4. ASSUME NEW o \in Stops, StopTells(o)
          PROVE  p \notin stopped /\ os[p] = "exited"
      <3> DEFINE q == stop[o].proc
      <3>1. q \in entries /\ NotifyExit(q, stop[o].killed) /\ stop[o].killed \in BOOLEAN
        BY <2>1, <2>4 DEF StopTells, HandleInv, Typed
      <3>2. p = q /\ p \notin stopped
        BY <2>1, <3>1, NotifyType
      <3>3. q \in stopped
        BY <2>1, <2>4 DEF StopTells, HandleInv, Handles
      <3> QED BY <3>2, <3>3
    <2> QED BY <2>2, <2>3, <2>4
  <1> QED BY <1>1, SettleInit, SettleKept, PTL DEF BgSpec, WakesRight

-----------------------------------------------------------------------------
(***************************************************************************)
(* What Mcp guarantees for any sessions, events and bounds.                *)
(***************************************************************************)
Places == {"none", "ready", "want", "greet", "ask", "drop"}

McpTyped ==
  /\ spawned \in Nat /\ spawned <= MaxConns
  /\ conns \in [Sessions -> 0 .. spawned] /\ used \in [Sessions -> 0 .. spawned]
  /\ living \subseteq HeldIn(conns, used)
  /\ call \in [Sessions -> Places]
  /\ mapLock \in Sessions \cup {NoHandshake}

\* What a call uses, by where it is: the connection that is being greeted is not
\* in the map yet, and belongs to a turn that waits for it.
Uses ==
  \A s \in Sessions :
    /\ mapLock = s <=> call[s] = "greet"
    /\ call[s] # "none" => s \in running
    /\ call[s] = "greet" => conns[s] = 0
    /\ call[s] \notin {"greet", "ask"} => used[s] = 0

McpInv == McpTyped /\ Uses /\ OwnInstance

-----------------------------------------------------------------------------

\* A connection in the map or in a call is one that was spawned.
LEMMA HeldType ==
  ASSUME McpInv, NEW c \in living
  PROVE  c \in Nat /\ c # 0 /\ \E s \in Sessions : conns[s] = c \/ used[s] = c
  BY McpAssumption DEF McpInv, McpTyped, HeldIn, Instances

\* Steps that move a call, but neither to nor from a handshake or a connection.
LEMMA CallMoves ==
  ASSUME McpInv, UNCHANGED <<conns, spawned, living, used, mapLock>>,
         call' \in [Sessions -> Places],
         \A s \in Sessions : call'[s] # call[s] => /\ call[s] \notin {"greet", "ask"}
                                                   /\ call'[s] \notin {"greet", "ask"},
         \A s \in Sessions : call'[s] # "none" => s \in running'
  PROVE  McpInv'
  <1>1. McpTyped' /\ OwnInstance'
    BY DEF McpInv, McpTyped, OwnInstance
  <1>2. Uses'
    BY DEF McpInv, Uses
  <1> QED BY <1>1, <1>2 DEF McpInv

\* Steps that drop connections from the map, and from a call that is over.
LEMMA Drops ==
  ASSUME McpInv, NEW map, NEW use, NEW procs, Refer(map, use, procs), procs \subseteq living,
         map \in [Sessions -> 0 .. spawned], use \in [Sessions -> 0 .. spawned],
         \A s \in Sessions : map[s] \in {0, conns[s]} /\ use[s] \in {0, used[s]},
         spawned' = spawned, running' = running,
         mapLock' \in Sessions \cup {NoHandshake}, call' \in [Sessions -> Places],
         \A s \in Sessions : /\ mapLock' = s <=> call'[s] = "greet"
                             /\ call'[s] = "greet" => call[s] = "greet"
                             /\ call'[s] # "none" => call[s] # "none"
                             /\ call'[s] \notin {"greet", "ask"} => use[s] = 0
  PROVE  McpInv'
  <1>1. conns' = map /\ used' = use /\ living' = procs \cap HeldIn(map, use)
    BY DEF Refer
  <1>2. McpTyped'
    BY <1>1 DEF McpInv, McpTyped, HeldIn, Instances
  <1>3. Uses'
    BY <1>1 DEF McpInv, Uses
  <1>4. OwnInstance'
    BY <1>1 DEF McpInv, OwnInstance
  <1> QED BY <1>2, <1>3, <1>4 DEF McpInv

LEMMA WithoutType ==
  ASSUME McpInv, NEW ss
  PROVE  /\ Without(ss) \in [Sessions -> 0 .. spawned]
         /\ \A s \in Sessions : Without(ss)[s] \in {0, conns[s]}
  BY DEF Without, McpInv, McpTyped

\* A turn begins, asks for a connection, and ends.
LEMMA TurnsKeep ==
  ASSUME McpInv, NEW s \in Sessions, BeginTurn(s) \/ EndTurn(s) \/ WantCall(s)
  PROVE  McpInv'
  <1>1. UNCHANGED <<conns, spawned, living, used, mapLock>>
    BY DEF BeginTurn, EndTurn, WantCall, KeepConns
  <1>2. /\ call[s] \notin {"greet", "ask"}
        /\ \/ call' = [call EXCEPT ![s] = "none"]
           \/ \E to \in {"ready", "want"} : call' = [call EXCEPT ![s] = to] /\ s \in running'
        /\ \A t \in Sessions : t # s /\ t \in running => t \in running'
    <2>1. CASE BeginTurn(s)
      <3>1. s \notin running /\ call' = [call EXCEPT ![s] = "ready"] /\ running' = running \cup {s}
        BY <2>1 DEF BeginTurn
      <3>2. call[s] \notin {"greet", "ask"}
        BY <3>1 DEF McpInv, Uses
      <3> QED BY <3>1, <3>2
    <2>2. CASE EndTurn(s)
      BY <2>2 DEF EndTurn
    <2>3. CASE WantCall(s)
      BY <2>3 DEF WantCall
    <2> QED BY <2>1, <2>2, <2>3
  <1>3. call' \in [Sessions -> Places] /\ \A t \in Sessions : t # s => call'[t] = call[t]
    BY <1>2 DEF McpInv, McpTyped, Places
  <1>4. call'[s] \in {"none", "ready", "want"} /\ (call'[s] # "none" => s \in running')
    BY <1>2 DEF McpInv, McpTyped
  <1>5. \A t \in Sessions : call'[t] # "none" => t \in running'
    BY <1>2, <1>3, <1>4 DEF McpInv, Uses
  <1> QED BY <1>1, <1>2, <1>3, <1>4, <1>5, CallMoves

\* A call takes the connection of its session, or a new one.
LEMMA ConnectsKeep ==
  ASSUME McpInv, NEW s \in Sessions, Reuse(s) \/ Connect(s) \/ Greeted(s)
  PROVE  McpInv'
  <1>1. CASE Reuse(s)
    <2>1. /\ call[s] = "want" /\ conns[s] \in living
          /\ call' = [call EXCEPT ![s] = "ask"] /\ used' = [used EXCEPT ![s] = conns[s]]
          /\ UNCHANGED <<running, conns, spawned, living, mapLock>>
      BY <1>1 DEF Reuse
    <2>2. conns[s] # 0 /\ used[s] = 0
      BY <2>1, HeldType DEF McpInv, Uses
    <2>3. McpTyped'
      BY <2>1, <2>2 DEF McpInv, McpTyped, Places, HeldIn, Instances
    <2>4. Uses'
      BY <2>1 DEF McpInv, McpTyped, Uses
    <2>5. OwnInstance'
      BY <2>1, <2>2 DEF McpInv, McpTyped, OwnInstance
    <2> QED BY <2>3, <2>4, <2>5 DEF McpInv
  <1>2. CASE Connect(s)
    <2> DEFINE new == spawned + 1
    <2>1. /\ call[s] = "want" /\ mapLock = NoHandshake /\ spawned < MaxConns
          /\ spawned' = new /\ mapLock' = s /\ call' = [call EXCEPT ![s] = "greet"]
          /\ running' = running
          /\ conns' = Without({s}) /\ used' = [used EXCEPT ![s] = new]
          /\ living' = (living \cup {new}) \cap HeldIn(conns', used')
      BY <1>2 DEF Connect, Refer
    <2>2. new \in Instances /\ new \in Nat
      BY <2>1, McpAssumption DEF McpInv, McpTyped, Instances
    <2>3. conns' \in [Sessions -> 0 .. new] /\ used' \in [Sessions -> 0 .. new]
          /\ conns'[s] = 0 /\ used'[s] = new
          /\ \A t \in Sessions : t # s => conns'[t] = conns[t] /\ used'[t] = used[t]
      BY <2>1, <2>2 DEF McpInv, McpTyped, Without
    <2>4. McpTyped'
      BY <2>1, <2>2, <2>3, McpAssumption DEF McpInv, McpTyped, Places
    <2>5. Uses'
      BY <2>1, <2>3, McpAssumption DEF McpInv, McpTyped, Uses
    <2>6. OwnInstance'
      BY <2>1, <2>2, <2>3 DEF McpInv, McpTyped, OwnInstance
    <2> QED BY <2>4, <2>5, <2>6 DEF McpInv
  <1>3. CASE Greeted(s)
    <2>1. /\ call[s] = "greet" /\ used[s] \in living
          /\ mapLock' = NoHandshake /\ call' = [call EXCEPT ![s] = "ask"]
          /\ conns' = [conns EXCEPT ![s] = used[s]]
          /\ UNCHANGED <<running, spawned, living, used>>
      BY <1>3 DEF Greeted
    <2>2. used[s] # 0 /\ conns[s] = 0 /\ mapLock = s
      BY <2>1, HeldType DEF McpInv, Uses
    <2>3. McpTyped'
      BY <2>1, <2>2 DEF McpInv, McpTyped, Places, HeldIn, Instances
    <2>4. Uses'
      BY <2>1, <2>2, McpAssumption DEF McpInv, McpTyped, Uses
    <2>5. OwnInstance'
      BY <2>1, <2>2 DEF McpInv, McpTyped, OwnInstance
    <2> QED BY <2>3, <2>4, <2>5 DEF McpInv
  <1> QED BY <1>1, <1>2, <1>3

\* A call comes back, or fails.
LEMMA ReturnsKeep ==
  ASSUME McpInv, NEW s \in Sessions,
         SpawnFails(s) \/ GreetFails(s) \/ Replied(s) \/ RequestFails(s) \/ DropServer(s)
  PROVE  McpInv'
  <1> DEFINE none == [used EXCEPT ![s] = 0]
  <1>1. /\ none \in [Sessions -> 0 .. spawned] /\ none[s] = 0
        /\ \A t \in Sessions : none[t] \in {0, used[t]} /\ (t # s => none[t] = used[t])
    BY DEF McpInv, McpTyped
  <1>2. /\ conns \in [Sessions -> 0 .. spawned] /\ used \in [Sessions -> 0 .. spawned]
        /\ \A t \in Sessions : conns[t] \in {0, conns[t]} /\ used[t] \in {0, used[t]}
    BY DEF McpInv, McpTyped
  <1> HIDE DEF none
  <1>3. CASE SpawnFails(s) \/ DropServer(s)
    <2>1. PICK ss \in {{s}, Sessions} : Refer(Without(ss), used, living)
      BY <1>3 DEF SpawnFails, DropServer
    <2>2. call[s] \in {"want", "drop"} /\ call' = [call EXCEPT ![s] = "none"]
          /\ UNCHANGED <<running, spawned, mapLock>>
      BY <1>3 DEF SpawnFails, DropServer
    <2>3. call' \in [Sessions -> Places] /\ call'[s] = "none" /\ \A t \in Sessions : t # s => call'[t] = call[t]
      BY <2>2 DEF McpInv, McpTyped, Places
    <2>4. \A t \in Sessions : /\ mapLock' = t <=> call'[t] = "greet"
                              /\ call'[t] = "greet" => call[t] = "greet"
                              /\ call'[t] # "none" => call[t] # "none"
                              /\ call'[t] \notin {"greet", "ask"} => used[t] = 0
      BY <2>2, <2>3 DEF McpInv, Uses
    <2>5. mapLock' \in Sessions \cup {NoHandshake}
      BY <2>2 DEF McpInv, McpTyped
    <2> QED BY <1>2, <2>1, <2>2, <2>3, <2>4, <2>5, WithoutType, Drops
  <1>4. CASE GreetFails(s) \/ Replied(s) \/ RequestFails(s)
    <2>1. Refer(conns, none, living)
      BY <1>4 DEF GreetFails, Replied, RequestFails, none
    <2>2. /\ call[s] \in {"greet", "ask"}
          /\ \E to \in {"none", "drop"} : call' = [call EXCEPT ![s] = to]
          /\ mapLock' = IF call[s] = "greet" THEN NoHandshake ELSE mapLock
          /\ UNCHANGED <<running, spawned>>
      BY <1>4 DEF GreetFails, Replied, RequestFails
    <2>3. call' \in [Sessions -> Places] /\ call'[s] \in {"none", "drop"} /\ \A t \in Sessions : t # s => call'[t] = call[t]
      BY <2>2 DEF McpInv, McpTyped, Places
    <2>4. \A t \in Sessions : /\ mapLock' = t <=> call'[t] = "greet"
                              /\ call'[t] = "greet" => call[t] = "greet"
                              /\ call'[t] # "none" => call[t] # "none"
                              /\ call'[t] \notin {"greet", "ask"} => none[t] = 0
      BY <1>1, <2>2, <2>3, McpAssumption DEF McpInv, Uses
    <2>5. mapLock' \in Sessions \cup {NoHandshake}
      BY <2>2 DEF McpInv, McpTyped
    <2> QED BY <1>1, <1>2, <2>1, <2>2, <2>3, <2>4, <2>5, Drops
  <1> QED BY <1>3, <1>4

\* What takes connections out of the map, and the death of one.
LEMMA DropsKeep ==
  ASSUME McpInv,
         Disable \/ FlipDrop \/ (\E s \in Sessions : DeleteDrop(s) \/ ReapIdle(s))
         \/ (\E c \in Instances : InstanceDies(c))
  PROVE  McpInv'
  <1>1. ASSUME NEW ss, Refer(Without(ss), used, living),
               UNCHANGED <<running, call, spawned, mapLock>>
        PROVE  McpInv'
    <2>1. /\ used \in [Sessions -> 0 .. spawned] /\ call' \in [Sessions -> Places]
          /\ mapLock' \in Sessions \cup {NoHandshake} /\ \A t \in Sessions : used[t] \in {0, used[t]}
      BY <1>1 DEF McpInv, McpTyped
    <2>2. \A t \in Sessions : /\ mapLock' = t <=> call'[t] = "greet"
                              /\ call'[t] \notin {"greet", "ask"} => used[t] = 0
      BY <1>1 DEF McpInv, Uses
    <2> QED BY <1>1, <2>1, <2>2, WithoutType, Drops
  <1>2. ASSUME NEW c \in Instances, InstanceDies(c)
        PROVE  McpInv'
    BY <1>2 DEF InstanceDies, McpInv, McpTyped, Uses, OwnInstance
  <1> QED BY <1>1, <1>2 DEF Disable, FlipDrop, DeleteDrop, ReapIdle

\* Time, flags and reapers that only wake leave connections and calls alone.
LEMMA RestKeeps ==
  ASSUME McpInv,
         FlipTarget \/ TimePasses \/ (\E s \in Sessions : ReaperWakes(s)) \/ UNCHANGED mcpVars
  PROVE  McpInv'
  <1>1. UNCHANGED <<running, call, conns, spawned, living, used, mapLock>>
    BY DEF FlipTarget, TimePasses, ReaperWakes, KeepConns, mcpVars
  <1> QED BY <1>1 DEF McpInv, McpTyped, Uses, OwnInstance

-----------------------------------------------------------------------------

\* A session has one instance of the server at most and shares none, and every
\* process that runs is held by the map or by a call: no order of deaths, drops,
\* flips, deletions and reapers leaks one or hands it to another session.
THEOREM OneInstanceEach == McpSpec => []McpOK
  <1>1. McpInit => McpInv
    <2> SUFFICES ASSUME McpInit PROVE McpInv
      OBVIOUS
    <2>1. McpTyped
      BY McpAssumption DEF McpInit, McpTyped, Places
    <2> QED BY <2>1, McpAssumption DEF McpInit, McpInv, Uses, OwnInstance
  <1>2. McpInv /\ [McpNext]_mcpVars => McpInv'
    BY TurnsKeep, ConnectsKeep, ReturnsKeep, DropsKeep, RestKeeps DEF McpNext, CallStep
  <1>3. McpInv => McpOK
    BY DEF McpInv, McpTyped, Uses, McpOK, McpTypeOK
  <1> QED BY <1>1, <1>2, <1>3, PTL DEF McpSpec

-----------------------------------------------------------------------------
(* StatusCache: no answer older than a command, or than the TTL allows.    *)
\* The types, the mutex and the numbers of the changes: one for each command that
\* has run, and one for the drift.
Ran == {c \in Commands : phase[c] # "idle"}

CachePlaces ==
  {"idle", "try", "wait", "fetch", "probed", "ran", "inval", "done", "failed"}

CacheShape ==
  /\ clock \in Nat /\ clock <= MaxClock /\ state \in Nat /\ returned \in Nat
  /\ changed \in [Changes -> Nat] /\ own \in [Commands -> Nat]
  /\ phase \in [Readers \cup Commands -> CachePlaces]
  /\ now \in [Readers -> Nat] /\ due \in [Readers -> Nat] /\ answer \in [Readers -> Nat]
  /\ entry \subseteq [at : Nat, state : Nat]
  /\ entry = {} \/ \E e \in entry : entry = {e}
  /\ mutex = {} \/ \E r \in Readers : mutex = {r}
  /\ \A r \in Readers : phase[r] \in {"fetch", "probed"} <=> r \in mutex

Numbered == state = Cardinality(Ran) \/ state = Cardinality(Ran) + 1

\* What has happened is not ahead of the clock, what was seen not of the state.
NotAhead ==
  /\ returned <= state
  /\ \A v \in 1 .. state : changed[v] <= clock
  /\ \A c \in Commands : own[c] <= state
  /\ \A e \in entry : e.at <= clock /\ e.state <= state
  /\ \A r \in Readers : due[r] <= returned /\ now[r] <= clock /\ answer[r] <= state

\* A reading has what commands have done that have invalidated since...
HasCommands(n) ==
  /\ returned <= n
  /\ \A c \in Commands : phase[c] = "inval" => own[c] <= n

\* ...and every change from before the instant it is stored with.
HasEarlier(n, at) == \A v \in 1 .. state : changed[v] < at => v <= n

ReadingsRight ==
  /\ \A e \in entry : HasCommands(e.state) /\ HasEarlier(e.state, e.at)
  /\ \A r \in Readers : phase[r] = "probed" =>
       HasCommands(answer[r]) /\ HasEarlier(answer[r], now[r])

CacheInv ==
  CacheShape /\ Numbered /\ NotAhead /\ ReadingsRight /\ SeesCommands /\ SeesDrift

-----------------------------------------------------------------------------

\* There are as many numbers as there can be changes.
LEMMA RanIsFinite == /\ IsFiniteSet(Ran) /\ Cardinality(Ran) \in Nat
                     /\ Cardinality(Commands) \in Nat /\ Cardinality(Ran) <= Cardinality(Commands)
  BY CacheAssumption, FS_Subset, FS_CardinalityType DEF Ran

LEMMA StateIsNumber == ASSUME CacheShape, Numbered PROVE 1 .. state \subseteq Changes
  BY RanIsFinite DEF CacheShape, Numbered, Changes

\* What a reader does moves no command.
LEMMA ReaderMoves ==
  ASSUME CacheShape, NEW r \in Readers, NEW w \in CachePlaces, Moves(r, w)
  PROVE  /\ phase' \in [Readers \cup Commands -> CachePlaces] /\ phase'[r] = w
         /\ \A a \in Readers \cup Commands : a # r => phase'[a] = phase[a]
         /\ \A c \in Commands : phase'[c] = phase[c]
         /\ Ran' = Ran
  <1>1. /\ phase' \in [Readers \cup Commands -> CachePlaces] /\ phase'[r] = w
        /\ \A a \in Readers \cup Commands : a # r => phase'[a] = phase[a]
    BY DEF Moves, CacheShape
  <1>2. \A c \in Commands : phase'[c] = phase[c]
    BY <1>1, CacheAssumption
  <1> QED BY <1>1, <1>2 DEF Ran

LEMMA CommandMoves ==
  ASSUME CacheShape, NEW c \in Commands, NEW w \in CachePlaces, Moves(c, w)
  PROVE  /\ phase' \in [Readers \cup Commands -> CachePlaces] /\ phase'[c] = w
         /\ \A a \in Readers \cup Commands : a # c => phase'[a] = phase[a]
         /\ \A r \in Readers : phase'[r] = phase[r]
  <1>1. /\ phase' \in [Readers \cup Commands -> CachePlaces] /\ phase'[c] = w
        /\ \A a \in Readers \cup Commands : a # c => phase'[a] = phase[a]
    BY DEF Moves, CacheShape
  <1> QED BY <1>1, CacheAssumption

LEMMA CallKeeps == ASSUME CacheInv, NEW r \in Readers, Call(r) PROVE CacheInv'
  <1> USE CacheAssumption DEF CacheInv, Call, WorldStays, CallsStay, AnswerFrom, FreshFor
  <1>1. Moves(r, "try")
    OBVIOUS
  <1>2. /\ phase' \in [Readers \cup Commands -> CachePlaces] /\ phase'[r] \in CachePlaces
        /\ \A a \in Readers : a # r => phase'[a] = phase[a]
        /\ \A c \in Commands : phase'[c] = phase[c]
        /\ Ran' = Ran
    BY <1>1, ReaderMoves DEF CachePlaces
  <1>3. CacheShape'
    BY <1>1, <1>2 DEF CacheShape, Moves
  <1>4. Numbered'
    BY <1>2 DEF Numbered
  <1>5. NotAhead'
    BY DEF CacheShape, NotAhead
  <1>6. ReadingsRight'
    BY <1>1, <1>2 DEF CacheShape, NotAhead, ReadingsRight, HasCommands, HasEarlier, Moves
  <1>7. SeesCommands'
    BY <1>1, <1>2 DEF CacheShape, NotAhead, ReadingsRight, HasCommands, SeesCommands, Moves
  <1>8. SeesDrift'
    BY <1>1, <1>2, StateIsNumber DEF CacheShape, NotAhead, ReadingsRight, HasEarlier, SeesDrift, Moves
  <1> QED BY <1>3, <1>4, <1>5, <1>6, <1>7, <1>8

LEMMA TryLockKeeps == ASSUME CacheInv, NEW r \in Readers, TryLock(r) PROVE CacheInv'
  <1> USE CacheAssumption DEF CacheInv, TryLock, WorldStays, CallsStay, AnswerFrom, FreshFor
  <1>1. Moves(r, "wait") \/ Moves(r, "done")
    OBVIOUS
  <1>2. /\ phase' \in [Readers \cup Commands -> CachePlaces] /\ phase'[r] \in CachePlaces
        /\ \A a \in Readers : a # r => phase'[a] = phase[a]
        /\ \A c \in Commands : phase'[c] = phase[c]
        /\ Ran' = Ran
    BY <1>1, ReaderMoves DEF CachePlaces
  <1>3. CacheShape'
    BY <1>1, <1>2 DEF CacheShape, Moves
  <1>4. Numbered'
    BY <1>2 DEF Numbered
  <1>5. NotAhead'
    BY DEF CacheShape, NotAhead
  <1>6. ReadingsRight'
    BY <1>1, <1>2 DEF CacheShape, NotAhead, ReadingsRight, HasCommands, HasEarlier, Moves
  <1>7. SeesCommands'
    BY <1>1, <1>2 DEF CacheShape, NotAhead, ReadingsRight, HasCommands, SeesCommands, Moves
  <1>8. SeesDrift'
    BY <1>1, <1>2, StateIsNumber DEF CacheShape, NotAhead, ReadingsRight, HasEarlier, SeesDrift, Moves
  <1> QED BY <1>3, <1>4, <1>5, <1>6, <1>7, <1>8

LEMMA LockSlotKeeps == ASSUME CacheInv, NEW r \in Readers, LockSlot(r) PROVE CacheInv'
  <1> USE CacheAssumption DEF CacheInv, LockSlot, WorldStays, CallsStay, AnswerFrom, FreshFor
  <1>1. Moves(r, "fetch") \/ Moves(r, "done")
    OBVIOUS
  <1>2. /\ phase' \in [Readers \cup Commands -> CachePlaces] /\ phase'[r] \in CachePlaces
        /\ \A a \in Readers : a # r => phase'[a] = phase[a]
        /\ \A c \in Commands : phase'[c] = phase[c]
        /\ Ran' = Ran
    BY <1>1, ReaderMoves DEF CachePlaces
  <1>3. CacheShape'
    BY <1>1, <1>2 DEF CacheShape, Moves
  <1>4. Numbered'
    BY <1>2 DEF Numbered
  <1>5. NotAhead'
    BY DEF CacheShape, NotAhead
  <1>6. ReadingsRight'
    BY <1>1, <1>2 DEF CacheShape, NotAhead, ReadingsRight, HasCommands, HasEarlier, Moves
  <1>7. SeesCommands'
    BY <1>1, <1>2 DEF CacheShape, NotAhead, ReadingsRight, HasCommands, SeesCommands, Moves
  <1>8. SeesDrift'
    BY <1>1, <1>2, StateIsNumber DEF CacheShape, NotAhead, ReadingsRight, HasEarlier, SeesDrift, Moves
  <1> QED BY <1>3, <1>4, <1>5, <1>6, <1>7, <1>8

LEMMA ProbeKeeps == ASSUME CacheInv, NEW r \in Readers, Probe(r) PROVE CacheInv'
  <1> USE CacheAssumption DEF CacheInv, Probe, WorldStays, CallsStay, AnswerFrom, FreshFor
  <1>1. Moves(r, "probed")
    OBVIOUS
  <1>2. /\ phase' \in [Readers \cup Commands -> CachePlaces] /\ phase'[r] \in CachePlaces
        /\ \A a \in Readers : a # r => phase'[a] = phase[a]
        /\ \A c \in Commands : phase'[c] = phase[c]
        /\ Ran' = Ran
    BY <1>1, ReaderMoves DEF CachePlaces
  <1>3. CacheShape'
    BY <1>1, <1>2 DEF CacheShape, Moves
  <1>4. Numbered'
    BY <1>2 DEF Numbered
  <1>5. NotAhead'
    BY DEF CacheShape, NotAhead
  <1>6. ReadingsRight'
    BY <1>1, <1>2 DEF CacheShape, NotAhead, ReadingsRight, HasCommands, HasEarlier, Moves
  <1>7. SeesCommands'
    BY <1>1, <1>2 DEF CacheShape, NotAhead, ReadingsRight, HasCommands, SeesCommands, Moves
  <1>8. SeesDrift'
    BY <1>1, <1>2, StateIsNumber DEF CacheShape, NotAhead, ReadingsRight, HasEarlier, SeesDrift, Moves
  <1> QED BY <1>3, <1>4, <1>5, <1>6, <1>7, <1>8

LEMMA StoreKeeps == ASSUME CacheInv, NEW r \in Readers, Store(r) PROVE CacheInv'
  <1> USE CacheAssumption DEF CacheInv, Store, WorldStays, CallsStay, AnswerFrom, FreshFor
  <1>1. Moves(r, "done")
    OBVIOUS
  <1>2. /\ phase' \in [Readers \cup Commands -> CachePlaces] /\ phase'[r] \in CachePlaces
        /\ \A a \in Readers : a # r => phase'[a] = phase[a]
        /\ \A c \in Commands : phase'[c] = phase[c]
        /\ Ran' = Ran
    BY <1>1, ReaderMoves DEF CachePlaces
  <1>3. CacheShape'
    BY <1>1, <1>2 DEF CacheShape, Moves
  <1>4. Numbered'
    BY <1>2 DEF Numbered
  <1>5. NotAhead'
    BY DEF CacheShape, NotAhead
  <1>6. ReadingsRight'
    BY <1>1, <1>2 DEF CacheShape, NotAhead, ReadingsRight, HasCommands, HasEarlier, Moves
  <1>7. SeesCommands'
    BY <1>1, <1>2 DEF CacheShape, NotAhead, ReadingsRight, HasCommands, SeesCommands, Moves
  <1>8. SeesDrift'
    BY <1>1, <1>2, StateIsNumber DEF CacheShape, NotAhead, ReadingsRight, HasEarlier, SeesDrift, Moves
  <1> QED BY <1>3, <1>4, <1>5, <1>6, <1>7, <1>8

LEMMA FetchFailsKeeps == ASSUME CacheInv, NEW r \in Readers, FetchFails(r) PROVE CacheInv'
  <1> USE CacheAssumption DEF CacheInv, FetchFails, WorldStays, CallsStay, AnswerFrom, FreshFor
  <1>1. Moves(r, "failed")
    OBVIOUS
  <1>2. /\ phase' \in [Readers \cup Commands -> CachePlaces] /\ phase'[r] \in CachePlaces
        /\ \A a \in Readers : a # r => phase'[a] = phase[a]
        /\ \A c \in Commands : phase'[c] = phase[c]
        /\ Ran' = Ran
    BY <1>1, ReaderMoves DEF CachePlaces
  <1>3. CacheShape'
    BY <1>1, <1>2 DEF CacheShape, Moves
  <1>4. Numbered'
    BY <1>2 DEF Numbered
  <1>5. NotAhead'
    BY DEF CacheShape, NotAhead
  <1>6. ReadingsRight'
    BY <1>1, <1>2 DEF CacheShape, NotAhead, ReadingsRight, HasCommands, HasEarlier, Moves
  <1>7. SeesCommands'
    BY <1>1, <1>2 DEF CacheShape, NotAhead, ReadingsRight, HasCommands, SeesCommands, Moves
  <1>8. SeesDrift'
    BY <1>1, <1>2, StateIsNumber DEF CacheShape, NotAhead, ReadingsRight, HasEarlier, SeesDrift, Moves
  <1> QED BY <1>3, <1>4, <1>5, <1>6, <1>7, <1>8

\* A change is newer than all readings and comes after all calls.
LEMMA ChangeKeeps ==
  ASSUME CacheInv, Changing, state + 1 \in Changes, clock' = clock, CallsStay,
         UNCHANGED <<entry, mutex, returned>>,
         \A r \in Readers : phase'[r] = phase[r],
         \A c \in Commands : phase'[c] = "inval" => phase[c] = "inval" /\ own'[c] = own[c]
  PROVE  /\ state' = state + 1 /\ changed' \in [Changes -> Nat]
         /\ \A v \in 1 .. state' : changed'[v] <= clock'
         /\ ReadingsRight' /\ SeesCommands' /\ SeesDrift'
  <1>1. /\ state' = state + 1 /\ state \in Nat /\ clock \in Nat
        /\ changed' \in [Changes -> Nat] /\ changed'[state + 1] = clock
    BY DEF CacheInv, CacheShape, Changing
  <1>2. \A v \in 1 .. state : changed'[v] = changed[v] /\ changed[v] \in Nat
    BY <1>1, StateIsNumber DEF CacheInv, CacheShape, Changing
  <1>3. \A v \in 1 .. state' : v \in 1 .. state \/ v = state + 1
    BY <1>1
  <1>4. \A v \in 1 .. state' : changed'[v] <= clock'
    BY <1>1, <1>2, <1>3 DEF CacheInv, NotAhead
  <1>5. ASSUME NEW n, NEW at \in Nat, at <= clock, HasEarlier(n, at) PROVE HasEarlier(n, at)'
    BY <1>1, <1>2, <1>3, <1>5 DEF HasEarlier
  <1>6. ASSUME NEW n, HasCommands(n) PROVE HasCommands(n)'
    BY <1>6 DEF HasCommands
  <1>7. ReadingsRight'
    <2>1. \A e \in entry : HasCommands(e.state)' /\ HasEarlier(e.state, e.at)'
      BY <1>5, <1>6 DEF CacheInv, CacheShape, NotAhead, ReadingsRight
    <2>2. ASSUME NEW r \in Readers, phase[r] = "probed"
          PROVE  HasCommands(answer[r])' /\ HasEarlier(answer[r], now[r])'
      <3>1. HasCommands(answer[r]) /\ HasEarlier(answer[r], now[r])
        BY <2>2 DEF CacheInv, ReadingsRight
      <3>2. now[r] \in Nat /\ now[r] <= clock /\ now' = now /\ answer' = answer
        BY DEF CacheInv, CacheShape, NotAhead, CallsStay
      <3> QED BY <3>1, <3>2, <1>5, <1>6 DEF HasCommands, HasEarlier
    <2> QED BY <2>1, <2>2 DEF ReadingsRight, HasCommands, HasEarlier
  <1>8. SeesCommands'
    BY DEF CacheInv, SeesCommands, CallsStay
  <1>9. SeesDrift'
    <2> SUFFICES ASSUME NEW r \in Readers, phase'[r] = "done", NEW v \in 1 .. state',
                        changed'[v] + TTL <= now'[r]
                 PROVE  answer'[r] >= v
      BY DEF SeesDrift
    <2>1. now' = now /\ answer' = answer /\ now[r] <= clock /\ now[r] \in Nat
      BY DEF CacheInv, CacheShape, NotAhead, CallsStay
    <2>2. v \in 1 .. state
      BY <1>1, <1>3, <2>1, CacheAssumption
    <2> QED BY <1>2, <2>1, <2>2 DEF CacheInv, SeesDrift
  <1> QED BY <1>1, <1>4, <1>7, <1>8, <1>9

LEMMA RunKeeps == ASSUME CacheInv, NEW c \in Commands, Run(c) PROVE CacheInv'
  <1>1. /\ phase[c] = "idle" /\ Moves(c, "ran") /\ Changing /\ CallsStay
        /\ UNCHANGED <<clock, entry, mutex, returned>>
    BY DEF Run
  <1>2. /\ phase' \in [Readers \cup Commands -> CachePlaces] /\ phase'[c] = "ran"
        /\ \A a \in Readers \cup Commands : a # c => phase'[a] = phase[a]
        /\ \A r \in Readers : phase'[r] = phase[r]
    BY <1>1, CommandMoves DEF CacheInv, CachePlaces
  <1>3. Ran' = Ran \cup {c} /\ c \notin Ran /\ Ran' \subseteq Commands
    BY <1>1, <1>2 DEF Ran
  <1>4. Cardinality(Ran') = Cardinality(Ran) + 1 /\ Cardinality(Ran') <= Cardinality(Commands)
    BY <1>3, RanIsFinite, FS_AddElement, FS_Subset, CacheAssumption
  <1>5. state + 1 \in Changes
    BY <1>4, RanIsFinite DEF CacheInv, CacheShape, Numbered, Changes
  <1>6. /\ state' = state + 1 /\ changed' \in [Changes -> Nat]
        /\ \A v \in 1 .. state' : changed'[v] <= clock'
        /\ ReadingsRight' /\ SeesCommands' /\ SeesDrift'
    <2>1. \A d \in Commands : phase'[d] = "inval" => phase[d] = "inval" /\ own'[d] = own[d]
      BY <1>2 DEF Run, CacheInv, CacheShape
    <2> QED BY <1>1, <1>2, <1>5, <2>1, ChangeKeeps
  <1>7. CacheShape' /\ NotAhead'
    <2>1. own' \in [Commands -> Nat] /\ \A d \in Commands : own'[d] <= state'
      BY <1>6 DEF Run, CacheInv, CacheShape, NotAhead
    <2>2. CacheShape'
      BY <1>1, <1>2, <1>6, <2>1 DEF CacheInv, CacheShape, CallsStay
    <2>3. NotAhead'
      BY <1>1, <1>6, <2>1 DEF CacheInv, CacheShape, NotAhead, CallsStay
    <2> QED BY <2>2, <2>3
  <1>8. Numbered'
    BY <1>4, <1>6, RanIsFinite DEF CacheInv, CacheShape, Numbered
  <1> QED BY <1>6, <1>7, <1>8 DEF CacheInv

LEMMA RunFailsKeeps == ASSUME CacheInv, NEW c \in Commands, RunFails(c) PROVE CacheInv'
  <1>1. /\ phase[c] = "idle" /\ Moves(c, "failed") /\ Changing /\ CallsStay
        /\ UNCHANGED <<clock, entry, mutex, returned>>
    BY DEF RunFails
  <1>2. /\ phase' \in [Readers \cup Commands -> CachePlaces] /\ phase'[c] = "failed"
        /\ \A a \in Readers \cup Commands : a # c => phase'[a] = phase[a]
        /\ \A r \in Readers : phase'[r] = phase[r]
    BY <1>1, CommandMoves DEF CacheInv, CachePlaces
  <1>3. Ran' = Ran \cup {c} /\ c \notin Ran /\ Ran' \subseteq Commands
    BY <1>1, <1>2 DEF Ran
  <1>4. Cardinality(Ran') = Cardinality(Ran) + 1 /\ Cardinality(Ran') <= Cardinality(Commands)
    BY <1>3, RanIsFinite, FS_AddElement, FS_Subset, CacheAssumption
  <1>5. state + 1 \in Changes
    BY <1>4, RanIsFinite DEF CacheInv, CacheShape, Numbered, Changes
  <1>6. /\ state' = state + 1 /\ changed' \in [Changes -> Nat]
        /\ \A v \in 1 .. state' : changed'[v] <= clock'
        /\ ReadingsRight' /\ SeesCommands' /\ SeesDrift'
    <2>1. \A d \in Commands : phase'[d] = "inval" => phase[d] = "inval" /\ own'[d] = own[d]
      BY <1>2 DEF RunFails, CacheInv, CacheShape
    <2> QED BY <1>1, <1>2, <1>5, <2>1, ChangeKeeps
  <1>7. CacheShape' /\ NotAhead'
    <2>1. own' \in [Commands -> Nat] /\ \A d \in Commands : own'[d] <= state'
      BY <1>6 DEF RunFails, CacheInv, CacheShape, NotAhead
    <2>2. CacheShape'
      BY <1>1, <1>2, <1>6, <2>1 DEF CacheInv, CacheShape, CallsStay
    <2>3. NotAhead'
      BY <1>1, <1>6, <2>1 DEF CacheInv, CacheShape, NotAhead, CallsStay
    <2> QED BY <2>2, <2>3
  <1>8. Numbered'
    BY <1>4, <1>6, RanIsFinite DEF CacheInv, CacheShape, Numbered
  <1> QED BY <1>6, <1>7, <1>8 DEF CacheInv

LEMMA InvalidateKeeps == ASSUME CacheInv, NEW c \in Commands, Invalidate(c) PROVE CacheInv'
  <1> USE DEF CacheInv, Invalidate, WorldStays, CallsStay
  <1>1. /\ phase' \in [Readers \cup Commands -> CachePlaces] /\ phase'[c] = "inval"
        /\ \A a \in Readers \cup Commands : a # c => phase'[a] = phase[a]
        /\ \A r \in Readers : phase'[r] = phase[r]
    BY CommandMoves DEF CachePlaces
  <1>2. Ran' = Ran
    BY <1>1 DEF Ran
  <1>3. CacheShape' /\ NotAhead'
    BY <1>1 DEF CacheShape, NotAhead
  <1>4. Numbered'
    BY <1>2 DEF Numbered
  <1>5. ReadingsRight'
    BY <1>1 DEF CacheShape, NotAhead, ReadingsRight, HasCommands, HasEarlier
  <1>6. SeesCommands' /\ SeesDrift'
    BY <1>1 DEF SeesCommands, SeesDrift
  <1> QED BY <1>3, <1>4, <1>5, <1>6

LEMMA ReturnKeeps == ASSUME CacheInv, NEW c \in Commands, Return(c) PROVE CacheInv'
  <1> USE DEF CacheInv, Return, WorldStays, CallsStay
  <1>1. /\ phase' \in [Readers \cup Commands -> CachePlaces] /\ phase'[c] = "done"
        /\ \A a \in Readers \cup Commands : a # c => phase'[a] = phase[a]
        /\ \A r \in Readers : phase'[r] = phase[r]
    BY CommandMoves DEF CachePlaces
  <1>2. Ran' = Ran
    BY <1>1 DEF Ran
  <1>3. CacheShape' /\ NotAhead'
    BY <1>1 DEF CacheShape, NotAhead
  <1>4. Numbered'
    BY <1>2 DEF Numbered
  <1>5. ReadingsRight'
    BY <1>1 DEF CacheShape, NotAhead, ReadingsRight, HasCommands, HasEarlier
  <1>6. SeesCommands' /\ SeesDrift'
    BY <1>1 DEF SeesCommands, SeesDrift
  <1> QED BY <1>3, <1>4, <1>5, <1>6

LEMMA DriftKeeps == ASSUME CacheInv, Drift PROVE CacheInv'
  <1>1. /\ state = Cardinality(Ran) /\ Changing /\ CallsStay
        /\ UNCHANGED <<clock, phase, entry, mutex, own, returned>>
    BY DEF Drift, Ran
  <1>2. Ran' = Ran /\ state + 1 \in Changes
    BY <1>1, RanIsFinite DEF Ran, Changes
  <1>3. /\ state' = state + 1 /\ changed' \in [Changes -> Nat]
        /\ \A v \in 1 .. state' : changed'[v] <= clock'
        /\ ReadingsRight' /\ SeesCommands' /\ SeesDrift'
    BY <1>1, <1>2, ChangeKeeps
  <1>4. CacheShape' /\ NotAhead'
    BY <1>1, <1>3 DEF CacheInv, CacheShape, NotAhead, CallsStay
  <1>5. Numbered'
    BY <1>1, <1>2, <1>3 DEF Numbered
  <1> QED BY <1>3, <1>4, <1>5 DEF CacheInv

LEMMA ClockTicksKeeps == ASSUME CacheInv, ClockTicks PROVE CacheInv'
  <1> USE DEF CacheInv, ClockTicks, CallsStay
  <1>1. CacheShape' /\ Numbered'
    BY CacheAssumption DEF CacheShape, Numbered, Ran
  <1>2. NotAhead'
    <2>1. \A v \in 1 .. state : changed[v] \in Nat
      BY StateIsNumber DEF CacheShape
    <2> QED BY <2>1 DEF CacheShape, NotAhead
  <1>3. ReadingsRight' /\ SeesCommands' /\ SeesDrift'
    BY DEF ReadingsRight, HasCommands, HasEarlier, SeesCommands, SeesDrift
  <1> QED BY <1>1, <1>2, <1>3

LEMMA CacheInitHolds == ASSUME CacheInit PROVE CacheInv
  <1>1. Ran = {} /\ Cardinality(Ran) = 0
    BY FS_EmptySet DEF CacheInit, Ran
  <1>2. CacheShape /\ Numbered
    <2>1. 0 \in Nat /\ 0 <= MaxClock
      BY CacheAssumption
    <2>2. phase \in [Readers \cup Commands -> CachePlaces]
      BY DEF CacheInit, CachePlaces
    <2>3. Numbered
      BY <1>1 DEF CacheInit, Numbered
    <2>4. CacheShape
      BY <2>1, <2>2 DEF CacheInit, CacheShape
    <2> QED BY <2>3, <2>4
  <1>3. NotAhead /\ ReadingsRight
    BY DEF CacheInit, NotAhead, ReadingsRight
  <1>4. SeesCommands /\ SeesDrift
    BY DEF CacheInit, SeesCommands, SeesDrift
  <1> QED BY <1>2, <1>3, <1>4 DEF CacheInv

LEMMA CacheNextKeeps == ASSUME CacheInv, [CacheNext]_cacheVars PROVE CacheInv'
  <1>1. CASE UNCHANGED cacheVars
    BY <1>1 DEF cacheVars, CacheInv, CacheShape, Numbered, Ran, NotAhead, ReadingsRight,
                HasCommands, HasEarlier, SeesCommands, SeesDrift
  <1>2. ASSUME NEW r \in Readers,
               Call(r) \/ TryLock(r) \/ LockSlot(r) \/ Probe(r) \/ Store(r) \/ FetchFails(r)
        PROVE  CacheInv'
    BY <1>2, CallKeeps, TryLockKeeps, LockSlotKeeps, ProbeKeeps, StoreKeeps, FetchFailsKeeps
  <1>3. ASSUME NEW c \in Commands, Run(c) \/ RunFails(c) \/ Invalidate(c) \/ Return(c)
        PROVE  CacheInv'
    BY <1>3, RunKeeps, RunFailsKeeps, InvalidateKeeps, ReturnKeeps
  <1> QED BY <1>1, <1>2, <1>3, DriftKeeps, ClockTicksKeeps DEF CacheNext

LEMMA CacheInvImplies == ASSUME CacheInv PROVE CacheOK
  <1>1. state \in Changes /\ clock \in Clock
    BY RanIsFinite, CacheAssumption DEF CacheInv, CacheShape, Numbered, Changes, Clock
  <1>2. Cardinality(entry) <= 1 /\ Cardinality(mutex) <= 1
    <2>1. (entry = {} \/ \E e \in entry : entry = {e}) /\ (mutex = {} \/ \E r \in Readers : mutex = {r})
      BY DEF CacheInv, CacheShape
    <2>2. Cardinality({}) <= 1 /\ \A x : Cardinality({x}) <= 1
      BY FS_EmptySet, FS_Singleton
    <2> QED BY <2>1, <2>2
  <1>3. CacheTypeOK
    BY <1>1, <1>2 DEF CacheInv, CacheShape, NotAhead, CacheTypeOK
  <1> QED BY <1>3 DEF CacheInv, CacheOK

\* Whoever asks after a command of the IDE has returned sees what the command did, and
\* every other change shows within the time to live, for any readers and commands.
THEOREM NeverStale == CacheSpec => []CacheOK
  <1>1. CacheInit => CacheInv
    BY CacheInitHolds
  <1>2. CacheInv /\ [CacheNext]_cacheVars => CacheInv'
    BY CacheNextKeeps
  <1>3. CacheInv => CacheOK
    BY CacheInvImplies
  <1> QED BY <1>1, <1>2, <1>3, PTL DEF CacheSpec

-----------------------------------------------------------------------------
(* HubSync: session.json and the bucket, round trip by round trip.         *)
Stages == {"idle", "insert", "sleep", "fired", "load", "push", "save", "write", "rename", "done"}
Files == Savers \cup {"first"}

\* A saver that has loaded and not saved yet.
Holds(s) == stage[s] \in {"push", "save", "write", "rename"}

Ended == {u \in Uploads : stage[u] # "idle"}

HubShape ==
  /\ "overlap" \notin trip
  /\ stage \in [Savers -> Stages] /\ view \in [Savers -> Documents]
  /\ inode \in [Files -> SUBSET Documents] /\ fh \in [Savers -> Files \cup {Nothing}]
  /\ saved \subseteq Handlers /\ lost \in BOOLEAN
  /\ timer \in Uploads \cup {Nothing} /\ tripped \subseteq Uploads
  /\ length \in Nat /\ hub \in Nat /\ hub <= length
  /\ \A h \in Handlers : stage[h] \notin {"insert", "sleep", "fired", "load", "push"}

LengthCounted == length = Cardinality(Ended)

\* Without overlaps one saver at a time has a document in its hands,
Alone == \A s, t \in Savers : Holds(s) /\ Holds(t) => s = t

\* each writes to a file of its own or to the one that a crash has left, never
\* to session.json,
FilesRight ==
  /\ json \in Files /\ tmp \in Files \cup {Nothing} /\ tmp # json
  /\ \A s \in Savers : stage[s] \notin {"write", "rename", "done"} => json # s /\ tmp # s
  /\ \A s \in Savers : stage[s] \in {"write", "rename"} => fh[s] = tmp /\ tmp # Nothing
  /\ \A s \in Savers : stage[s] = "write" => inode[tmp] = {}
  /\ \A s \in Savers : stage[s] = "rename" => inode[tmp] = {view[s]}

\* and what it writes is session.json with its own field changed.
ViewsRight ==
  /\ \A h \in Handlers : Holds(h) => view[h] = Edited(h, Loaded)
  /\ \A u \in Uploads : Holds(u) =>
       /\ view[u] = [Loaded EXCEPT !.marker = view[u].marker]
       /\ stage[u] = "push" => hub <= view[u].marker /\ view[u].marker <= length
       /\ stage[u] # "push" => view[u].marker <= hub

\* The bucket has what the marker says.
MarkersRight == Loaded.marker <= hub

\* A push that is on its way will bring the bucket up to date.
TimersRight ==
  /\ timer # Nothing => stage[timer] \notin {"idle", "insert"}
  /\ \A u \in tripped : stage[u] \notin {"idle", "insert"}

Pushing(u) ==
  \/ stage[u] \in {"insert", "fired", "load"}
  \/ stage[u] = "sleep" /\ u \notin tripped
  \/ stage[u] = "push" /\ view[u].marker = length

Underway == ~Loaded.bound \/ lost \/ hub = length \/ \E u \in Uploads : Pushing(u)

HubInv ==
  /\ HubShape /\ LengthCounted /\ Alone /\ FilesRight /\ Whole /\ ViewsRight /\ NotClobbered
  /\ MarkersRight /\ TimersRight /\ Underway

-----------------------------------------------------------------------------

LEMMA OneDocument ==
  ASSUME NEW d \in Documents, NEW S, S = {d}
  PROVE  (\E e \in Documents : S = {e}) /\ (CHOOSE e \in Documents : S = {e}) = d
  OBVIOUS

LEMMA LoadedIs == ASSUME Whole PROVE Loaded \in Documents /\ inode[json] = {Loaded}
  BY DEF Whole, Loaded

LEMMA LoadedKept == ASSUME inode'[json'] = inode[json] PROVE Loaded' = Loaded /\ Whole' = Whole
  BY DEF Whole, Loaded

LEMMA LoadedNew ==
  ASSUME NEW d \in Documents, inode'[json'] = {d}
  PROVE  Loaded' = d /\ Whole'
  BY OneDocument DEF Whole, Loaded

\* A turn that ends is one of finitely many.
LEMMA EndedIsFinite ==
  /\ IsFiniteSet(Ended) /\ Cardinality(Ended) \in Nat /\ Cardinality(Uploads) \in Nat
  /\ Cardinality(Ended) <= Cardinality(Uploads)
  BY HubAssumption, FS_Subset, FS_CardinalityType DEF Ended

LEMMA DocumentsAre ==
  ASSUME NEW d \in Documents
  PROVE  /\ d.tabs \in {0, 1} /\ d.ports \in {0, 1} /\ d.bound \in BOOLEAN /\ d.marker \in Nat
         /\ d.marker <= Cardinality(Uploads)
         /\ [d EXCEPT !.tabs = 1] \in Documents /\ [d EXCEPT !.ports = 1] \in Documents
         /\ [d EXCEPT !.bound = FALSE, !.marker = 0] \in Documents
         /\ \A n \in Nat : n <= Cardinality(Uploads) => [d EXCEPT !.marker = n] \in Documents
  <1>1. d \in [tabs : {0, 1}, ports : {0, 1}, bound : BOOLEAN, marker : 0 .. Cardinality(Uploads)]
    BY DEF Documents
  <1>2. Cardinality(Uploads) \in Nat
    BY EndedIsFinite
  <1>3. /\ d.tabs \in {0, 1} /\ d.ports \in {0, 1} /\ d.bound \in BOOLEAN /\ d.marker \in Nat
        /\ d.marker <= Cardinality(Uploads)
    BY <1>1, <1>2
  <1>4. [d EXCEPT !.tabs = 1] \in Documents
    BY <1>1 DEF Documents
  <1>5. [d EXCEPT !.ports = 1] \in Documents
    BY <1>1 DEF Documents
  <1>6. [d EXCEPT !.bound = FALSE, !.marker = 0] \in Documents
    <2>1. [d EXCEPT !.bound = FALSE] \in Documents
      BY <1>1 DEF Documents
    <2>2. \A e \in Documents : [e EXCEPT !.marker = 0] \in Documents
      BY <1>2 DEF Documents
    <2>3. [d EXCEPT !.bound = FALSE, !.marker = 0] = [[d EXCEPT !.bound = FALSE] EXCEPT !.marker = 0]
      BY <1>1
    <2> QED BY <2>1, <2>2, <2>3
  <1>7. ASSUME NEW n \in Nat, n <= Cardinality(Uploads) PROVE [d EXCEPT !.marker = n] \in Documents
    BY <1>1, <1>2, <1>7 DEF Documents
  <1> QED BY <1>3, <1>4, <1>5, <1>6, <1>7

\* A handler's edit keeps the fields of the others, and binds nothing.
LEMMA EditedIs ==
  ASSUME NEW h \in Handlers, NEW d \in Documents
  PROVE  /\ Edited(h, d) \in Documents
         /\ h = "tabs" => Edited(h, d).tabs = 1
         /\ h = "ports" => Edited(h, d).ports = 1
         /\ h = "disconnect" => ~Edited(h, d).bound
         /\ d.tabs = 1 => Edited(h, d).tabs = 1
         /\ d.ports = 1 => Edited(h, d).ports = 1
         /\ Edited(h, d).bound => d.bound
         /\ Edited(h, d).marker <= d.marker
  <1>1. d \in [tabs : {0, 1}, ports : {0, 1}, bound : BOOLEAN, marker : 0 .. Cardinality(Uploads)]
    BY DEF Documents
  <1>5. d.marker <= d.marker /\ 0 <= d.marker
    BY <1>1, EndedIsFinite
  <1>2. CASE h = "tabs"
    <2>1. Edited(h, d) = [d EXCEPT !.tabs = 1] /\ Edited(h, d) \in Documents
      BY <1>2, DocumentsAre DEF Edited
    <2>2. /\ Edited(h, d).tabs = 1 /\ Edited(h, d).ports = d.ports
          /\ Edited(h, d).bound = d.bound /\ Edited(h, d).marker = d.marker
      BY <1>1, <2>1
    <2> QED BY <1>2, <1>5, <2>1, <2>2
  <1>3. CASE h = "ports"
    <2>1. Edited(h, d) = [d EXCEPT !.ports = 1] /\ Edited(h, d) \in Documents
      BY <1>3, DocumentsAre DEF Edited
    <2>2. /\ Edited(h, d).tabs = d.tabs /\ Edited(h, d).ports = 1
          /\ Edited(h, d).bound = d.bound /\ Edited(h, d).marker = d.marker
      BY <1>1, <2>1
    <2> QED BY <1>3, <1>5, <2>1, <2>2
  <1>4. CASE h = "disconnect"
    <2>1. Edited(h, d) = [d EXCEPT !.bound = FALSE, !.marker = 0] /\ Edited(h, d) \in Documents
      BY <1>4, DocumentsAre DEF Edited
    <2>2. /\ Edited(h, d).tabs = d.tabs /\ Edited(h, d).ports = d.ports
          /\ Edited(h, d).bound = FALSE /\ Edited(h, d).marker = 0
      BY <1>1, <2>1
    <2> QED BY <1>4, <1>5, <2>1, <2>2
  <1> QED BY <1>2, <1>3, <1>4 DEF Handlers

LEMMA Moved ==
  ASSUME HubShape, NEW s \in Savers, NEW w \in Stages, Goes(s, w)
  PROVE  /\ stage' \in [Savers -> Stages] /\ stage'[s] = w
         /\ \A t \in Savers : t # s => stage'[t] = stage[t]
  BY DEF HubShape, Goes

LEMMA EndedKept ==
  ASSUME \A u \in Uploads : stage'[u] = "idle" <=> stage[u] = "idle"
  PROVE  Ended' = Ended
  BY DEF Ended

LEMMA FiresKeeps ==
  ASSUME HubInv, NEW u \in Uploads, Fires(u)
  PROVE  HubInv'
  <1> USE HubAssumption DEF HubInv, Savers, Fires, KeepDisk, KeepTimers
  <1>1. /\ stage' \in [Savers -> Stages] /\ stage'[u] = "fired"
        /\ \A t \in Savers : t # u => stage'[t] = stage[t]
    BY Moved DEF Stages
  <1>2. Loaded' = Loaded /\ Whole' /\ Loaded \in Documents
    BY LoadedKept, LoadedIs DEF HubShape, FilesRight
  <1>3. HubShape'
    BY <1>1, <1>2, DocumentsAre, EditedIs DEF HubShape, Stages, Files
  <1>4. LengthCounted'
    BY <1>1, EndedKept DEF HubShape, LengthCounted
  <1>5. Alone'
    BY <1>1, <1>2 DEF Alone, HubShape, Holds, MayLoad, Stages
  <1>6. FilesRight'
    BY <1>1, <1>2 DEF FilesRight, HubShape, Files
  <1>7. ViewsRight'
    BY <1>1, <1>2, DocumentsAre DEF ViewsRight, HubShape, Holds, Alone
  <1>8. NotClobbered'
    BY <1>1, <1>2, EditedIs DEF NotClobbered, ViewsRight, HubShape
  <1>9. MarkersRight'
    BY <1>1, <1>2, DocumentsAre, EditedIs DEF MarkersRight, ViewsRight, HubShape
  <1>10. TimersRight'
    BY <1>1, <1>2 DEF TimersRight, HubShape
  <1>11. Underway'
    BY <1>1, <1>2 DEF Underway, HubShape, Pushing
  <1> QED BY <1>2, <1>3, <1>4, <1>5, <1>6, <1>7, <1>8, <1>9, <1>10, <1>11

LEMMA CancelledKeeps ==
  ASSUME HubInv, NEW u \in Uploads, Cancelled(u)
  PROVE  HubInv'
  <1> USE HubAssumption DEF HubInv, Savers, Cancelled, KeepDisk, KeepTimers
  <1>1. /\ stage' \in [Savers -> Stages] /\ stage'[u] = "done"
        /\ \A t \in Savers : t # u => stage'[t] = stage[t]
    BY Moved DEF Stages
  <1>2. Loaded' = Loaded /\ Whole' /\ Loaded \in Documents
    BY LoadedKept, LoadedIs DEF HubShape, FilesRight
  <1>3. HubShape'
    BY <1>1, <1>2, DocumentsAre, EditedIs DEF HubShape, Stages, Files
  <1>4. LengthCounted'
    BY <1>1, EndedKept DEF HubShape, LengthCounted
  <1>5. Alone'
    BY <1>1, <1>2 DEF Alone, HubShape, Holds, MayLoad, Stages
  <1>6. FilesRight'
    BY <1>1, <1>2 DEF FilesRight, HubShape, Files
  <1>7. ViewsRight'
    BY <1>1, <1>2, DocumentsAre DEF ViewsRight, HubShape, Holds, Alone
  <1>8. NotClobbered'
    BY <1>1, <1>2, EditedIs DEF NotClobbered, ViewsRight, HubShape
  <1>9. MarkersRight'
    BY <1>1, <1>2, DocumentsAre, EditedIs DEF MarkersRight, ViewsRight, HubShape
  <1>10. TimersRight'
    BY <1>1, <1>2 DEF TimersRight, HubShape
  <1>11. Underway'
    BY <1>1, <1>2 DEF Underway, HubShape, Pushing
  <1> QED BY <1>2, <1>3, <1>4, <1>5, <1>6, <1>7, <1>8, <1>9, <1>10, <1>11

LEMMA RemoveSlotKeeps ==
  ASSUME HubInv, NEW u \in Uploads, RemoveSlot(u)
  PROVE  HubInv'
  <1> USE HubAssumption DEF HubInv, Savers, RemoveSlot, KeepDisk, KeepTimers
  <1>1. /\ stage' \in [Savers -> Stages] /\ stage'[u] = "load"
        /\ \A t \in Savers : t # u => stage'[t] = stage[t]
    BY Moved DEF Stages
  <1>2. Loaded' = Loaded /\ Whole' /\ Loaded \in Documents
    BY LoadedKept, LoadedIs DEF HubShape, FilesRight
  <1>3. HubShape'
    BY <1>1, <1>2, DocumentsAre, EditedIs DEF HubShape, Stages, Files
  <1>4. LengthCounted'
    BY <1>1, EndedKept DEF HubShape, LengthCounted
  <1>5. Alone'
    BY <1>1, <1>2 DEF Alone, HubShape, Holds, MayLoad, Stages
  <1>6. FilesRight'
    BY <1>1, <1>2 DEF FilesRight, HubShape, Files
  <1>7. ViewsRight'
    BY <1>1, <1>2, DocumentsAre DEF ViewsRight, HubShape, Holds, Alone
  <1>8. NotClobbered'
    BY <1>1, <1>2, EditedIs DEF NotClobbered, ViewsRight, HubShape
  <1>9. MarkersRight'
    BY <1>1, <1>2, DocumentsAre, EditedIs DEF MarkersRight, ViewsRight, HubShape
  <1>10. TimersRight'
    BY <1>1, <1>2 DEF TimersRight, HubShape
  <1>11. Underway'
    BY <1>1, <1>2 DEF Underway, HubShape, Pushing
  <1> QED BY <1>2, <1>3, <1>4, <1>5, <1>6, <1>7, <1>8, <1>9, <1>10, <1>11

LEMMA InsertTimerKeeps ==
  ASSUME HubInv, NEW u \in Uploads, InsertTimer(u)
  PROVE  HubInv'
  <1> USE HubAssumption DEF HubInv, Savers, InsertTimer, KeepDisk, KeepTimers
  <1>1. /\ stage' \in [Savers -> Stages] /\ stage'[u] = "sleep"
        /\ \A t \in Savers : t # u => stage'[t] = stage[t]
    BY Moved DEF Stages
  <1>2. Loaded' = Loaded /\ Whole' /\ Loaded \in Documents
    BY LoadedKept, LoadedIs DEF HubShape, FilesRight
  <1>3. HubShape'
    BY <1>1, <1>2, DocumentsAre, EditedIs DEF HubShape, Stages, Files
  <1>4. LengthCounted'
    BY <1>1, EndedKept DEF HubShape, LengthCounted
  <1>5. Alone'
    BY <1>1, <1>2 DEF Alone, HubShape, Holds, MayLoad, Stages
  <1>6. FilesRight'
    BY <1>1, <1>2 DEF FilesRight, HubShape, Files
  <1>7. ViewsRight'
    BY <1>1, <1>2, DocumentsAre DEF ViewsRight, HubShape, Holds, Alone
  <1>8. NotClobbered'
    BY <1>1, <1>2, EditedIs DEF NotClobbered, ViewsRight, HubShape
  <1>9. MarkersRight'
    BY <1>1, <1>2, DocumentsAre, EditedIs DEF MarkersRight, ViewsRight, HubShape
  <1>10. TimersRight'
    BY <1>1, <1>2 DEF TimersRight, HubShape
  <1>11. Underway'
    <2>1. Pushing(u)'
      BY <1>1 DEF TimersRight, Pushing
    <2> QED BY <2>1 DEF Underway
  <1> QED BY <1>2, <1>3, <1>4, <1>5, <1>6, <1>7, <1>8, <1>9, <1>10, <1>11

LEMMA TurnEndsKeeps ==
  ASSUME HubInv, NEW u \in Uploads, TurnEnds(u)
  PROVE  HubInv'
  <1> USE HubAssumption DEF HubInv, Savers, TurnEnds, KeepDisk, KeepTimers
  <1>1. /\ stage' \in [Savers -> Stages] /\ stage'[u] \in {"insert", "done"}
        /\ \A t \in Savers : t # u => stage'[t] = stage[t]
    BY Moved DEF Stages
  <1>2. Loaded' = Loaded /\ Whole' /\ Loaded \in Documents
    BY LoadedKept, LoadedIs DEF HubShape, FilesRight
  <1>3. HubShape'
    <2>1. u \notin Handlers
      OBVIOUS
    <2> QED BY <1>1, <2>1 DEF HubShape
  <1>4. LengthCounted'
    <2>1. Ended' = Ended \cup {u} /\ u \notin Ended
      BY <1>1 DEF Ended
    <2> QED BY <2>1, EndedIsFinite, FS_AddElement DEF LengthCounted
  <1>5. Alone'
    BY <1>1, <1>2 DEF Alone, HubShape, Holds, MayLoad, Stages
  <1>6. FilesRight'
    BY <1>1, <1>2 DEF FilesRight, HubShape, Files
  <1>7. ViewsRight'
    <2>1. \A t \in Savers : Holds(t)' <=> Holds(t)
      BY <1>1 DEF Holds
    <2>2. \A t \in Uploads : Holds(t) => t # u
      BY DEF Holds
    <2>3. \A t \in Uploads : view[t].marker \in Nat
      BY DocumentsAre DEF HubShape
    <2> QED BY <1>1, <1>2, <2>1, <2>2, <2>3 DEF ViewsRight, HubShape
  <1>8. NotClobbered'
    BY <1>1, <1>2, EditedIs DEF NotClobbered, ViewsRight, HubShape
  <1>9. MarkersRight'
    BY <1>1, <1>2, DocumentsAre, EditedIs DEF MarkersRight, ViewsRight, HubShape
  <1>10. TimersRight'
    BY <1>1, <1>2 DEF TimersRight, HubShape
  <1>11. Underway'
    <2>1. CASE Loaded.bound
      <3>1. stage'[u] = "insert"
        BY <2>1, Moved DEF Stages
      <3>2. Pushing(u)'
        BY <3>1 DEF Pushing
      <3> QED BY <3>2 DEF Underway
    <2>2. CASE ~Loaded.bound
      BY <1>2, <2>2 DEF Underway
    <2> QED BY <2>1, <2>2
  <1> QED BY <1>2, <1>3, <1>4, <1>5, <1>6, <1>7, <1>8, <1>9, <1>10, <1>11

LEMMA UploadLoadsKeeps ==
  ASSUME HubInv, NEW u \in Uploads, UploadLoads(u)
  PROVE  HubInv'
  <1>a. \/ /\ Loaded.bound /\ Loaded.marker # length /\ Goes(u, "push")
           /\ view' = [view EXCEPT ![u] = [Loaded EXCEPT !.marker = length]]
        \/ ~(Loaded.bound /\ Loaded.marker # length) /\ Goes(u, "done") /\ view' = view
    BY DEF UploadLoads
  <1>b. stage[u] = "load" /\ MayLoad /\ KeepDisk /\ KeepTimers /\ UNCHANGED <<trip, saved, length, hub, lost>>
    BY DEF UploadLoads
  <1> USE <1>b, HubAssumption DEF HubInv, Savers, KeepDisk, KeepTimers
  <1>1. /\ stage' \in [Savers -> Stages] /\ stage'[u] \in {"push", "done"}
        /\ \A t \in Savers : t # u => stage'[t] = stage[t]
    BY <1>a, Moved DEF Stages
  <1>c. Goes(u, "push") => stage'[u] = "push"
    BY Moved DEF Stages
  <1>d. Goes(u, "done") => stage'[u] = "done"
    BY Moved DEF Stages
  <1>2. Loaded' = Loaded /\ Whole' /\ Loaded \in Documents
    BY LoadedKept, LoadedIs DEF HubShape, FilesRight
  <1>3. HubShape'
    <2>1. u \notin Handlers
      OBVIOUS
    <2>2. length \in Nat /\ length <= Cardinality(Uploads)
      BY EndedIsFinite DEF HubShape, LengthCounted
    <2>3. view' \in [Savers -> Documents]
      <3>1. [Loaded EXCEPT !.marker = length] \in Documents
        BY <1>2, <2>2, DocumentsAre
      <3> QED BY <1>a, <3>1 DEF HubShape
    <2> QED BY <1>1, <2>1, <2>3 DEF HubShape
  <1>4. LengthCounted'
    BY <1>1, EndedKept DEF HubShape, LengthCounted
  <1>5. Alone'
    BY <1>1, <1>2 DEF Alone, HubShape, Holds, MayLoad, Stages
  <1>6. FilesRight'
    <2>1. \A t \in Savers : stage[t] \notin {"write", "rename"} /\ stage'[t] \notin {"write", "rename"}
      BY <1>1 DEF MayLoad, HubShape
    <2>2. \A t \in Savers : stage'[t] # "done" => stage[t] # "done"
      BY <1>1
    <2> QED BY <2>1, <2>2 DEF FilesRight
  <1>7. ViewsRight'
    <2>1. \A t \in Savers : ~Holds(t) /\ (Holds(t)' => t = u)
      BY <1>1 DEF Holds, MayLoad, HubShape
    <2>2. u \notin Handlers
      OBVIOUS
    <2>3. stage'[u] = "push" => view'[u] = [Loaded EXCEPT !.marker = length]
      BY <1>a, <1>d DEF HubShape
    <2>4. view'[u] = [Loaded EXCEPT !.marker = length] => view'[u].marker = length
      BY <1>2 DEF Documents
    <2>5. stage'[u] \in {"push", "done"}
      BY <1>1
    <2> QED BY <1>2, <2>1, <2>2, <2>3, <2>4, <2>5 DEF ViewsRight, HubShape, Holds
  <1>8. NotClobbered'
    BY <1>1, <1>2, EditedIs DEF NotClobbered, ViewsRight, HubShape
  <1>9. MarkersRight'
    BY <1>1, <1>2, DocumentsAre, EditedIs DEF MarkersRight, ViewsRight, HubShape
  <1>10. TimersRight'
    BY <1>1, <1>2 DEF TimersRight, HubShape
  <1>11. Underway'
    <2>1. CASE Loaded.bound /\ Loaded.marker # length
      <3>1. stage'[u] = "push" /\ view'[u] = [Loaded EXCEPT !.marker = length]
        BY <2>1, <1>a, <1>c DEF HubShape
      <3>2. Pushing(u)'
        BY <3>1, <1>2 DEF Pushing, Documents
      <3> QED BY <3>2 DEF Underway
    <2>2. CASE Loaded.bound /\ Loaded.marker = length
      <3>1. hub = length
        BY <2>2 DEF MarkersRight, HubShape
      <3> QED BY <3>1 DEF Underway
    <2>3. CASE ~Loaded.bound
      BY <1>2, <2>3 DEF Underway
    <2> QED BY <2>1, <2>2, <2>3
  <1> QED BY <1>2, <1>3, <1>4, <1>5, <1>6, <1>7, <1>8, <1>9, <1>10, <1>11

LEMMA PushKeeps ==
  ASSUME HubInv, NEW u \in Uploads, Push(u)
  PROVE  HubInv'
  <1> USE HubAssumption DEF HubInv, Savers, Push, KeepDisk, KeepTimers
  <1>1. /\ stage' \in [Savers -> Stages] /\ stage'[u] = "save"
        /\ \A t \in Savers : t # u => stage'[t] = stage[t]
    BY Moved DEF Stages
  <1>2. Loaded' = Loaded /\ Whole' /\ Loaded \in Documents
    BY LoadedKept, LoadedIs DEF HubShape, FilesRight
  <1>3. HubShape'
    <2>1. u \notin Handlers
      OBVIOUS
    <2>2. view[u].marker \in Nat /\ view[u].marker <= length
      BY DocumentsAre DEF HubShape, ViewsRight, Holds
    <2> QED BY <1>1, <2>1, <2>2 DEF HubShape
  <1>4. LengthCounted'
    BY <1>1, EndedKept DEF HubShape, LengthCounted
  <1>5. Alone'
    BY <1>1, <1>2 DEF Alone, HubShape, Holds, MayLoad, Stages
  <1>6. FilesRight'
    BY <1>1, <1>2 DEF FilesRight, HubShape, Files
  <1>7. ViewsRight'
    <2>1. \A t \in Savers : Holds(t)' => t = u
      BY <1>1 DEF Holds, Alone
    <2>2. u \notin Handlers /\ Holds(u)
      BY DEF Holds
    <2>3. view[u].marker \in Nat
      BY DocumentsAre DEF HubShape
    <2> QED BY <1>1, <1>2, <2>1, <2>2, <2>3 DEF ViewsRight
  <1>8. NotClobbered'
    BY <1>1, <1>2, EditedIs DEF NotClobbered, ViewsRight, HubShape
  <1>9. MarkersRight'
    <2>1. hub <= view[u].marker /\ view[u].marker \in Nat /\ hub \in Nat /\ Loaded.marker \in Nat
      BY <1>2, DocumentsAre DEF HubShape, ViewsRight, Holds
    <2> QED BY <1>2, <2>1 DEF MarkersRight
  <1>10. TimersRight'
    BY <1>1, <1>2 DEF TimersRight, HubShape
  <1>11. Underway'
    <2>1. CASE view[u].marker = length
      BY <2>1 DEF Underway
    <2>2. CASE view[u].marker # length
      <3>a. hub \in Nat /\ length \in Nat /\ view[u].marker \in Nat
        BY DocumentsAre DEF HubShape
      <3>b. hub <= view[u].marker /\ view[u].marker <= length
        BY DEF ViewsRight, Holds
      <3>1. hub # length
        BY <2>2, <3>a, <3>b
      <3>2. CASE ~Loaded.bound \/ lost
        BY <3>2, <1>2 DEF Underway
      <3>3. ASSUME NEW v \in Uploads, Pushing(v) PROVE Underway'
        <4>1. v # u
          BY <3>3, <2>2 DEF Pushing
        <4>2. Pushing(v)'
          BY <3>3, <4>1, <1>1 DEF Pushing
        <4> QED BY <4>2 DEF Underway
      <3> QED BY <3>1, <3>2, <3>3 DEF Underway
    <2> QED BY <2>1, <2>2
  <1> QED BY <1>2, <1>3, <1>4, <1>5, <1>6, <1>7, <1>8, <1>9, <1>10, <1>11

LEMMA PushFailsKeeps ==
  ASSUME HubInv, NEW u \in Uploads, PushFails(u)
  PROVE  HubInv'
  <1> USE HubAssumption DEF HubInv, Savers, PushFails, KeepDisk, KeepTimers
  <1>1. /\ stage' \in [Savers -> Stages] /\ stage'[u] = "done"
        /\ \A t \in Savers : t # u => stage'[t] = stage[t]
    BY Moved DEF Stages
  <1>2. Loaded' = Loaded /\ Whole' /\ Loaded \in Documents
    BY LoadedKept, LoadedIs DEF HubShape, FilesRight
  <1>3. HubShape'
    BY <1>1, <1>2, DocumentsAre, EditedIs DEF HubShape, Stages, Files
  <1>4. LengthCounted'
    BY <1>1, EndedKept DEF HubShape, LengthCounted
  <1>5. Alone'
    BY <1>1, <1>2 DEF Alone, HubShape, Holds, MayLoad, Stages
  <1>6. FilesRight'
    BY <1>1, <1>2 DEF FilesRight, HubShape, Files
  <1>7. ViewsRight'
    BY <1>1, <1>2, DocumentsAre DEF ViewsRight, HubShape, Holds, Alone
  <1>8. NotClobbered'
    BY <1>1, <1>2, EditedIs DEF NotClobbered, ViewsRight, HubShape
  <1>9. MarkersRight'
    BY <1>1, <1>2, DocumentsAre, EditedIs DEF MarkersRight, ViewsRight, HubShape
  <1>10. TimersRight'
    BY <1>1, <1>2 DEF TimersRight, HubShape
  <1>11. Underway'
    BY <1>1, <1>2 DEF Underway, HubShape, Pushing
  <1> QED BY <1>2, <1>3, <1>4, <1>5, <1>6, <1>7, <1>8, <1>9, <1>10, <1>11

LEMMA HandlerLoadsKeeps ==
  ASSUME HubInv, NEW h \in Handlers, HandlerLoads(h)
  PROVE  HubInv'
  <1> USE HubAssumption DEF HubInv, Savers, HandlerLoads, KeepDisk, KeepTimers
  <1>1. /\ stage' \in [Savers -> Stages] /\ stage'[h] \in {"save", "done"}
        /\ \A t \in Savers : t # h => stage'[t] = stage[t]
    BY Moved DEF Stages
  <1>2. Loaded' = Loaded /\ Whole' /\ Loaded \in Documents
    BY LoadedKept, LoadedIs DEF HubShape, FilesRight
  <1>a. \/ Goes(h, "done") /\ view' = view
        \/ Goes(h, "save") /\ view' = [view EXCEPT ![h] = Edited(h, Loaded)]
    OBVIOUS
  <1>b. Goes(h, "done") => stage'[h] = "done"
    BY Moved DEF Stages
  <1>3. HubShape'
    <2>1. view' \in [Savers -> Documents]
      BY <1>2, EditedIs DEF HubShape
    <2> QED BY <1>1, <2>1 DEF HubShape
  <1>4. LengthCounted'
    BY <1>1, EndedKept DEF HubShape, LengthCounted
  <1>5. Alone'
    BY <1>1, <1>2 DEF Alone, HubShape, Holds, MayLoad, Stages
  <1>6. FilesRight'
    BY <1>1, <1>2 DEF FilesRight, HubShape, Files
  <1>7. ViewsRight'
    <2>1. \A t \in Savers : ~Holds(t) /\ (Holds(t)' => t = h)
      BY <1>1 DEF Holds, MayLoad, HubShape
    <2>2. h \notin Uploads
      OBVIOUS
    <2>3. stage'[h] = "save" => view'[h] = Edited(h, Loaded)
      BY <1>a, <1>b DEF HubShape
    <2>4. Holds(h)' => stage'[h] = "save"
      BY <1>1 DEF Holds
    <2>5. Edited(h, Loaded)' = Edited(h, Loaded)
      BY <1>2 DEF Edited
    <2> QED BY <2>1, <2>2, <2>3, <2>4, <2>5 DEF ViewsRight
  <1>8. NotClobbered'
    BY <1>1, <1>2, EditedIs DEF NotClobbered, ViewsRight, HubShape
  <1>9. MarkersRight'
    BY <1>1, <1>2, DocumentsAre, EditedIs DEF MarkersRight, ViewsRight, HubShape
  <1>10. TimersRight'
    BY <1>1, <1>2 DEF TimersRight, HubShape
  <1>11. Underway'
    BY <1>1, <1>2 DEF Underway, HubShape, Pushing
  <1> QED BY <1>2, <1>3, <1>4, <1>5, <1>6, <1>7, <1>8, <1>9, <1>10, <1>11

LEMMA CreateKeeps ==
  ASSUME HubInv, NEW s \in Savers, Create(s)
  PROVE  HubInv'
  <1> USE HubAssumption DEF HubInv, Savers, Create, KeepDisk, KeepTimers
  <1>1. /\ stage' \in [Savers -> Stages] /\ stage'[s] = "write"
        /\ \A t \in Savers : t # s => stage'[t] = stage[t]
    BY Moved DEF Stages
  <1>2. Loaded' = Loaded /\ Whole' /\ Loaded \in Documents
    BY LoadedKept, LoadedIs DEF HubShape, FilesRight
  <1>3. HubShape'
    <2>1. fh'[s] \in Files /\ fh' \in [Savers -> Files \cup {Nothing}]
      BY DEF HubShape, FilesRight, Files
    <2>2. inode' \in [Files -> SUBSET Documents]
      BY DEF HubShape, FilesRight, Files
    <2> QED BY <1>1, <2>1, <2>2 DEF HubShape
  <1>4. LengthCounted'
    BY <1>1, EndedKept DEF HubShape, LengthCounted
  <1>5. Alone'
    BY <1>1, <1>2 DEF Alone, HubShape, Holds, MayLoad, Stages
  <1>6. FilesRight'
    <2> DEFINE file == IF tmp = Nothing THEN s ELSE tmp
    <2>1. /\ file \in Files /\ file # json /\ file # Nothing
          /\ fh' = [fh EXCEPT ![s] = file] /\ tmp' = file
          /\ inode' = [inode EXCEPT ![file] = {}] /\ json' = json
      BY DEF FilesRight, Files
    <2>2. \A t \in Savers : stage'[t] \in {"write", "rename"} => t = s
      BY <1>1 DEF Alone, Holds
    <2> QED BY <1>1, <2>1, <2>2 DEF FilesRight, HubShape
  <1>7. ViewsRight'
    BY <1>1, <1>2, DocumentsAre DEF ViewsRight, HubShape, Holds, Alone
  <1>8. NotClobbered'
    BY <1>1, <1>2, EditedIs DEF NotClobbered, ViewsRight, HubShape
  <1>9. MarkersRight'
    BY <1>1, <1>2, DocumentsAre, EditedIs DEF MarkersRight, ViewsRight, HubShape
  <1>10. TimersRight'
    BY <1>1, <1>2 DEF TimersRight, HubShape
  <1>11. Underway'
    BY <1>1, <1>2 DEF Underway, HubShape, Pushing
  <1> QED BY <1>2, <1>3, <1>4, <1>5, <1>6, <1>7, <1>8, <1>9, <1>10, <1>11

LEMMA WriteTmpKeeps ==
  ASSUME HubInv, NEW s \in Savers, WriteTmp(s)
  PROVE  HubInv'
  <1> USE HubAssumption DEF HubInv, Savers, WriteTmp, KeepDisk, KeepTimers
  <1>1. /\ stage' \in [Savers -> Stages] /\ stage'[s] = "rename"
        /\ \A t \in Savers : t # s => stage'[t] = stage[t]
    BY Moved DEF Stages
  <1>2. /\ fh[s] = tmp /\ tmp \in Files /\ inode[tmp] = {}
        /\ inode' = [inode EXCEPT ![tmp] = {view[s]}]
    <2>1. fh[s] = tmp /\ tmp # Nothing /\ tmp \in Files \cup {Nothing} /\ inode[tmp] = {}
      BY DEF FilesRight
    <2>2. PICK rest \in {{}, inode[fh[s]]} : inode' = [inode EXCEPT ![fh[s]] = rest \cup {view[s]}]
      OBVIOUS
    <2>3. rest = {} /\ rest \cup {view[s]} = {view[s]}
      BY <2>1, <2>2
    <2> QED BY <2>1, <2>2, <2>3
  <1>13. Loaded' = Loaded /\ Whole'
    BY <1>2, LoadedKept DEF FilesRight, HubShape
  <1>3. HubShape'
    <2>1. inode' \in [Files -> SUBSET Documents]
      BY <1>2 DEF HubShape
    <2> QED BY <1>1, <2>1 DEF HubShape
  <1>4. LengthCounted'
    BY <1>1, EndedKept DEF HubShape, LengthCounted
  <1>5. Alone'
    BY <1>1, <1>13 DEF Alone, HubShape, Holds, MayLoad, Stages
  <1>6. FilesRight'
    <2>1. \A t \in Savers : stage'[t] \in {"write", "rename"} => t = s
      BY <1>1 DEF Alone, Holds
    <2> QED BY <1>1, <1>2, <2>1 DEF FilesRight, HubShape
  <1>7. ViewsRight'
    BY <1>1, <1>13, DocumentsAre DEF ViewsRight, HubShape, Holds, Alone
  <1>8. NotClobbered'
    BY <1>1, <1>13, EditedIs DEF NotClobbered, ViewsRight, HubShape
  <1>9. MarkersRight'
    BY <1>1, <1>13, DocumentsAre, EditedIs DEF MarkersRight, ViewsRight, HubShape
  <1>10. TimersRight'
    BY <1>1, <1>13 DEF TimersRight, HubShape
  <1>11. Underway'
    BY <1>1, <1>13 DEF Underway, HubShape, Pushing
  <1> QED BY <1>13, <1>3, <1>4, <1>5, <1>6, <1>7, <1>8, <1>9, <1>10, <1>11

LEMMA RenameKeeps ==
  ASSUME HubInv, NEW s \in Savers, Rename(s)
  PROVE  HubInv'
  <1> USE HubAssumption DEF HubInv, Savers, Rename, KeepDisk, KeepTimers
  <1>1. /\ stage' \in [Savers -> Stages] /\ stage'[s] = "done"
        /\ \A t \in Savers : t # s => stage'[t] = stage[t]
    BY Moved DEF Stages
  <1>2. Loaded' = view[s] /\ Whole' /\ view[s] \in Documents
    BY LoadedNew DEF HubShape, FilesRight
  <1>3. HubShape'
    BY <1>1, <1>2, DocumentsAre, EditedIs DEF HubShape, Stages, Files
  <1>4. LengthCounted'
    BY <1>1, EndedKept DEF HubShape, LengthCounted
  <1>5. Alone'
    BY <1>1, <1>2 DEF Alone, HubShape, Holds, MayLoad, Stages
  <1>6. FilesRight'
    <2>1. \A t \in Savers : stage'[t] \notin {"write", "rename"}
      BY <1>1 DEF Alone, Holds
    <2>2. tmp # Nothing /\ json' = tmp /\ tmp' = Nothing /\ json' \in Files
      BY DEF FilesRight
    <2>3. json' # tmp'
      BY <2>2 DEF Files
    <2>4. \A t \in Savers : stage'[t] # "done" => stage[t] = stage'[t]
      BY <1>1
    <2>5. \A t \in Savers : t # Nothing
      BY DEF Handlers, Nothing
    <2>6. \A t \in Savers : stage'[t] \notin {"write", "rename", "done"} => json' # t /\ tmp' # t
      BY <2>2, <2>4, <2>5 DEF FilesRight
    <2> QED BY <2>1, <2>2, <2>3, <2>6 DEF FilesRight
  <1>7. ViewsRight'
    BY <1>1, <1>2, DocumentsAre DEF ViewsRight, HubShape, Holds, Alone
  <1>8. NotClobbered'
    <2>1. CASE s \in Handlers
      <3>1. Loaded' = Edited(s, Loaded)
        BY <1>2, <2>1 DEF ViewsRight, Holds
      <3> QED BY <3>1, <2>1, EditedIs, LoadedIs DEF NotClobbered
    <2>2. CASE s \in Uploads
      <3>1. Loaded' = [Loaded EXCEPT !.marker = view[s].marker]
        BY <1>2, <2>2 DEF ViewsRight, Holds
      <3>2. Loaded'.tabs = Loaded.tabs /\ Loaded'.ports = Loaded.ports /\ Loaded'.bound = Loaded.bound
        BY <3>1, LoadedIs DEF Documents
      <3> QED BY <3>2, <2>2 DEF NotClobbered
    <2> QED BY <2>1, <2>2
  <1>9. MarkersRight'
    <2>1. CASE s \in Handlers
      <3>1. Loaded' = Edited(s, Loaded)
        BY <1>2, <2>1 DEF ViewsRight, Holds
      <3>2. Loaded'.marker \in Nat /\ Loaded.marker \in Nat /\ Loaded'.marker <= Loaded.marker
        BY <3>1, <2>1, <1>2, EditedIs, LoadedIs, DocumentsAre
      <3> QED BY <3>2 DEF MarkersRight, HubShape
    <2>2. CASE s \in Uploads
      BY <1>2, <2>2 DEF ViewsRight, Holds, MarkersRight
    <2> QED BY <2>1, <2>2
  <1>10. TimersRight'
    BY <1>1, <1>2 DEF TimersRight, HubShape
  <1>11. Underway'
    <2>1. Loaded'.bound => Loaded.bound
      <3>1. CASE s \in Handlers
        BY <1>2, <3>1, EditedIs, LoadedIs DEF ViewsRight, Holds
      <3>2. CASE s \in Uploads
        BY <1>2, <3>2, LoadedIs DEF ViewsRight, Holds, Documents
      <3> QED BY <3>1, <3>2
    <2>2. \A u \in Uploads : Pushing(u) => Pushing(u)'
      BY <1>1 DEF Pushing
    <2> QED BY <2>1, <2>2 DEF Underway
  <1> QED BY <1>2, <1>3, <1>4, <1>5, <1>6, <1>7, <1>8, <1>9, <1>10, <1>11

LEMMA HubCrashKeeps == ASSUME HubInv, HubCrash PROVE HubInv'
  <1> USE HubAssumption DEF HubInv, Savers, HubCrash
  <1>1. /\ stage' \in [Savers -> Stages]
        /\ \A s \in Savers : stage'[s] = IF stage[s] = "idle" THEN "idle" ELSE "done"
    BY DEF Stages
  <1>2. Loaded' = Loaded /\ Whole'
    BY LoadedKept
  <1>3. HubShape'
    BY <1>1 DEF HubShape
  <1>4. LengthCounted'
    BY <1>1, EndedKept DEF LengthCounted
  <1>5. Alone' /\ ViewsRight'
    BY <1>1 DEF Alone, ViewsRight, Holds
  <1>6. FilesRight'
    BY <1>1 DEF FilesRight
  <1>7. NotClobbered' /\ MarkersRight'
    BY <1>2 DEF NotClobbered, MarkersRight
  <1>8. TimersRight'
    <2>1. \A u \in Uploads : stage[u] \notin {"idle", "insert"} => stage'[u] \notin {"idle", "insert"}
      BY <1>1
    <2> QED BY <2>1 DEF TimersRight, HubShape
  <1>9. Underway'
    BY DEF Underway
  <1> QED BY <1>2, <1>3, <1>4, <1>5, <1>6, <1>7, <1>8, <1>9

-----------------------------------------------------------------------------

LEMMA HubInitHolds == ASSUME HubInit, "overlap" \notin UNION Trips PROVE HubInv
  <1> USE HubAssumption DEF HubInit, Savers
  <1>0. 0 \in 0 .. Cardinality(Uploads)
    BY EndedIsFinite
  <1>1. First \in Documents /\ Fresh \in Documents
    BY <1>0 DEF First, Fresh, Documents
  <1>a. First.bound = TRUE /\ First.marker = 0
    BY DEF First, Fresh
  <1>2. inode[json] = {First}
    OBVIOUS
  <1>3. Whole /\ Loaded = First
    BY <1>1, <1>2, OneDocument DEF Whole, Loaded
  <1>4. HubShape
    <2>1. "overlap" \notin trip
      OBVIOUS
    <2>2. inode \in [Files -> SUBSET Documents]
      BY <1>1 DEF Files
    <2>3. hub <= length
      OBVIOUS
    <2>4. view \in [Savers -> Documents] /\ fh \in [Savers -> Files \cup {Nothing}]
      BY <1>1
    <2>5. \A h \in Handlers : stage[h] \notin {"insert", "sleep", "fired", "load", "push"}
      OBVIOUS
    <2> QED BY <2>1, <2>2, <2>3, <2>4, <2>5 DEF HubShape, Stages
  <1>5. LengthCounted
    BY FS_EmptySet DEF LengthCounted, Ended
  <1>6. Alone /\ ViewsRight /\ TimersRight
    BY DEF Alone, ViewsRight, TimersRight, Holds
  <1>8. FilesRight
    <2>1. \A s \in Savers : s # "first" /\ s # Nothing
      BY DEF Handlers, Nothing
    <2>2. Nothing # "first"
      BY DEF Nothing
    <2> QED BY <2>1, <2>2 DEF FilesRight, Files
  <1>7. NotClobbered /\ MarkersRight /\ Underway
    BY <1>3, <1>a DEF NotClobbered, MarkersRight, Underway
  <1> QED BY <1>3, <1>4, <1>5, <1>6, <1>7, <1>8 DEF HubInv

LEMMA HubNextKeeps == ASSUME HubInv, [HubNext]_hubVars PROVE HubInv'
  <1>1. CASE UNCHANGED hubVars
    <2> USE <1>1 DEF hubVars, HubInv
    <2>1. HubShape' /\ LengthCounted' /\ Alone' /\ TimersRight'
      BY DEF HubShape, LengthCounted, Ended, Alone, Holds, TimersRight
    <2>2. Loaded' = Loaded /\ Whole' = Whole
      BY LoadedKept
    <2>3. FilesRight'
      BY DEF FilesRight
    <2>4. ViewsRight'
      BY <2>2 DEF ViewsRight, Holds, Edited
    <2>5. NotClobbered' /\ MarkersRight'
      BY <2>2 DEF NotClobbered, MarkersRight
    <2>6. Underway'
      BY <2>2 DEF Underway, Pushing
    <2> QED BY <2>1, <2>2, <2>3, <2>4, <2>5, <2>6
  <1>2. ASSUME NEW h \in Handlers, HandlerLoads(h) PROVE HubInv'
    BY <1>2, HandlerLoadsKeeps
  <1>3. ASSUME NEW s \in Savers, SaveStep(s) PROVE HubInv'
    BY <1>3, CreateKeeps, WriteTmpKeeps, RenameKeeps DEF SaveStep
  <1>4. ASSUME NEW u \in Uploads, TurnEnds(u) \/ UploadStep(u) PROVE HubInv'
    BY <1>4, TurnEndsKeeps, InsertTimerKeeps, FiresKeeps, CancelledKeeps, RemoveSlotKeeps,
       UploadLoadsKeeps, PushKeeps, PushFailsKeeps DEF UploadStep
  <1> QED BY <1>1, <1>2, <1>3, <1>4, HubCrashKeeps DEF HubNext

LEMMA HubInvImplies == ASSUME HubInv PROVE SyncOK
  <1> USE DEF HubInv
  <1>1. HubTypeOK
    BY EndedIsFinite DEF HubShape, LengthCounted, HubTypeOK, FilesRight
  <1>2. MarkerTruthful
    <2>1. Loaded.marker <= hub /\ hub <= length /\ hub \in Nat /\ length \in Nat
      BY DEF MarkersRight, HubShape
    <2>2. Loaded.marker \in Nat
      BY LoadedIs, DocumentsAre
    <2> QED BY <2>1, <2>2 DEF MarkerTruthful
  <1>3. HubSynced
    BY DEF Underway, Pushing, HubSynced, Savers
  <1> QED BY <1>1, <1>2, <1>3 DEF SyncOK, NeverTorn

\* As long as no two round trips overlap: session.json is whole and has what was
\* saved, and the bucket has what the document says and, in the end, the session.
THEOREM SavedAndSynced == "overlap" \notin UNION Trips => (HubSpec => []SyncOK)
  <1> SUFFICES ASSUME "overlap" \notin UNION Trips PROVE HubSpec => []SyncOK
    OBVIOUS
  <1>1. HubInit => HubInv
    BY HubInitHolds
  <1>2. HubInv /\ [HubNext]_hubVars => HubInv'
    BY HubNextKeeps
  <1>3. HubInv => SyncOK
    BY HubInvImplies
  <1> QED BY <1>1, <1>2, <1>3, PTL DEF HubSpec
=============================================================================
