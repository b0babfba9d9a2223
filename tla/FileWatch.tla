----------------------------- MODULE FileWatch -----------------------------
(* The file watcher and the window that follows it: a change on disk       *)
(* becomes an event of the operating system if a watch is there, a pending *)
(* path of the actor, part of a debounced payload, a walk of the tree and  *)
(* a notice to the language servers; the user switches folders meanwhile.  *)
(* Bounds: MaxOps changes on disk, MaxClicks switches.                     *)
EXTENDS Naturals, Sequences

CONSTANTS
  Roots,
  FirstRoot,      \* the folder that is shown to begin with
  MaxOps, MaxClicks,
  Whims           \* sets of complications, among "replace" (a file is made anew while its
                  \* deletion is pending), "rename" (files and directories are moved),
                  \* "mkdir" (a file is made before its new directory is watched), "remade"
                  \* (a directory is made anew), "again" (the watcher is pointed at the
                  \* folder it watches), "busy" (files change during a switch) and "quick"
                  \* (switches overlap)

ASSUME FileWatchAssumption == FirstRoot \in Roots /\ MaxOps \in Nat /\ MaxClicks \in Nat

VARIABLES
  whim,
  files, ops,     \* the version of each file of each folder, 0 if there is none
  raw,            \* the events the actor has still to take
  cmds, aimed,    \* its commands, its root
  listed, covered,\* whether watched_dirs has the directory, whether the OS watches it
  batch, topology, \* pending_kinds (its domain is pending_paths), pending_topology
  armed, cool,    \* the trailing timer; DEBOUNCE has passed since last_emit
  payloads,       \* "fs:changed", on its way
  active,         \* the back end's active folder
  click,          \* the setActiveFolder calls
  folder, tree,   \* the window's folder, and what it shows of each
  walk, strays,   \* its latest loadPaths; superseded ones that a refresh waits for
  deferred,       \* what #mergePendingRefresh holds: "no", "paths" or "topology"
  servers         \* the files as the language servers know them

watchVars == <<whim, files, ops, raw, cmds, aimed, listed, covered, batch, topology, armed,
               cool, payloads, active, click, folder, tree, walk, strays, deferred, servers>>
diskVars == <<files, ops>>
actorVars == <<cmds, aimed, listed, covered, batch, topology, armed, cool>>
windowVarsOf == <<folder, tree, walk, strays, deferred>>
desktopVars == <<active, click>>

\* A file, a directory, and a file in it.
Names == {"f", "d", "g"}
There(r) == {n \in Names : files[r][n] # 0}
Switches == 1 .. MaxClicks
NoWalk == [at |-> "no", by |-> "refresh", got |-> {}]
NoBatch == [n \in {} |-> "none"]

WatchInit ==
  /\ whim \in Whims
  /\ files = [r \in Roots |-> [n \in Names |-> IF n = "f" THEN 1 ELSE 0]] /\ ops = 1
  /\ raw = <<>> /\ cmds = <<>> /\ aimed = FirstRoot /\ listed = FALSE /\ covered = FALSE
  /\ batch = NoBatch /\ topology = FALSE /\ armed = FALSE /\ cool = TRUE
  /\ payloads = <<>> /\ active = FirstRoot
  /\ click = [c \in Switches |-> [at |-> "idle", root |-> FirstRoot]]
  /\ folder = FirstRoot /\ tree = [r \in Roots |-> {"f"}]
  /\ walk = NoWalk /\ strays = 0 /\ deferred = "no" /\ servers = files[FirstRoot]

Switching == \E c \in Switches : click[c].at \notin {"idle", "done"}
Settled ==
  /\ raw = <<>> /\ cmds = <<>> /\ batch = NoBatch /\ payloads = <<>>
  /\ walk = NoWalk /\ strays = 0
AllTaken == Settled /\ ~Switching

-----------------------------------------------------------------------------
(* Changes on disk *)

Seen(r, n) == r = aimed /\ (n = "g" => covered)
Change(r, n, version, kind) ==
  /\ ops < MaxOps /\ ops' = ops + 1
  /\ "busy" \in whim \/ (~Switching /\ cmds = <<>> /\ walk.by # "adopt")
  /\ files' = [files EXCEPT ![r][n] = version]
  /\ raw' = IF Seen(r, n) THEN Append(raw, [root |-> r, name |-> n, kind |-> kind]) ELSE raw
  /\ UNCHANGED <<whim, cmds, aimed, listed, batch, topology, armed, cool, payloads,
                 desktopVars, windowVarsOf, servers>>

IsPending(n) == n \in DOMAIN batch \/ \E i \in DOMAIN raw : raw[i].name = n
MayMake(r, n) ==
  /\ files[r][n] = 0
  /\ n = "g" => files[r]["d"] # 0
  /\ "replace" \in whim \/ ~IsPending(n)
  /\ "mkdir" \in whim \/ (n = "g" /\ r = aimed => listed)
  /\ "remade" \in whim \/ ~(n = "d" /\ r = aimed /\ listed)

WriteFile(r, n) ==
  /\ n # "d" /\ files[r][n] # 0
  /\ Change(r, n, ops + 1, "changed") /\ UNCHANGED covered

MakeFile(r, n) ==
  /\ MayMake(r, n)
  /\ Change(r, n, ops + 1, "created") /\ UNCHANGED covered

\* The operating system's watch goes with a directory.
RemoveFile(r, n) ==
  /\ files[r][n] # 0
  /\ n = "d" => files[r]["g"] = 0
  /\ Change(r, n, 0, "deleted")
  /\ covered' = (covered /\ ~(n = "d" /\ r = aimed))

\* From or to a place outside the folder.
MoveIn(r, n) ==
  /\ "rename" \in whim /\ MayMake(r, n)
  /\ Change(r, n, ops + 1, "renamed") /\ UNCHANGED covered

MoveOut(r, n) ==
  /\ "rename" \in whim /\ n # "d" /\ files[r][n] # 0
  /\ Change(r, n, 0, "renamed") /\ UNCHANGED covered

-----------------------------------------------------------------------------
(* The actor: commands first, then events, then the timer *)

Attach(r) ==
  /\ aimed' = r
  /\ listed' = (files[r]["d"] # 0) /\ covered' = listed'
  /\ batch' = NoBatch /\ topology' = FALSE /\ armed' = FALSE /\ cool' = TRUE

SetRoot ==
  /\ cmds # <<>>
  /\ cmds' = Tail(cmds) /\ Attach(Head(cmds))
  /\ UNCHANGED <<whim, diskVars, raw, payloads, desktopVars, windowVarsOf, servers>>

Rank(k) == CASE k = "deleted" -> 3 [] k = "created" -> 2 [] k = "changed" -> 1 [] OTHER -> 0
\* record_kind.
Recorded(n, kind) ==
  [m \in DOMAIN batch \cup {n} |->
     IF m # n THEN batch[m]
     ELSE IF n \in DOMAIN batch /\ Rank(batch[n]) >= Rank(kind) THEN batch[n] ELSE kind]

\* emit_pending.
Emitted(kinds, topo) ==
  /\ payloads' = Append(payloads, [kinds |-> kinds, topology |-> topo])
  /\ batch' = NoBatch /\ topology' = FALSE /\ armed' = FALSE /\ cool' = FALSE

\* add_subtree: a directory that is listed is not watched again.
AddSubtree(e) ==
  IF e.name = "d" /\ e.kind = "created" /\ ~listed /\ files[aimed]["d"] # 0
  THEN listed' = TRUE /\ covered' = TRUE
  ELSE UNCHANGED <<listed, covered>>

\* Mutant of TakeEvent: a path inside the cool-down does not arm the timer.
TakeEventUnarmed ==
  /\ cmds = <<>> /\ raw # <<>> /\ raw' = Tail(raw)
  /\ LET e == Head(raw)
         topo == topology \/ e.kind # "changed" IN
     IF e.root # aimed
     THEN UNCHANGED <<listed, covered, batch, topology, armed, cool, payloads>>
     ELSE /\ AddSubtree(e)
          /\ IF cool /\ e.name \notin DOMAIN batch
             THEN Emitted(Recorded(e.name, e.kind), topo)
             ELSE /\ batch' = Recorded(e.name, e.kind) /\ topology' = topo
                  /\ UNCHANGED <<armed, cool, payloads>>
  /\ UNCHANGED <<whim, diskVars, cmds, aimed, desktopVars, windowVarsOf, servers>>

\* Mutant of TakeEvent: new directories are not watched.
TakeEventBlind ==
  /\ cmds = <<>> /\ raw # <<>> /\ raw' = Tail(raw)
  /\ LET e == Head(raw)
         topo == topology \/ e.kind # "changed" IN
     IF e.root # aimed
     THEN UNCHANGED <<batch, topology, armed, cool, payloads>>
     ELSE IF cool /\ e.name \notin DOMAIN batch
          THEN Emitted(Recorded(e.name, e.kind), topo)
          ELSE /\ batch' = Recorded(e.name, e.kind) /\ topology' = topo
               /\ armed' = TRUE /\ UNCHANGED <<cool, payloads>>
  /\ UNCHANGED <<whim, diskVars, cmds, aimed, listed, covered, desktopVars, windowVarsOf, servers>>

\* A path that is pending already schedules nothing.
TakeEvent ==
  /\ cmds = <<>> /\ raw # <<>> /\ raw' = Tail(raw)
  /\ LET e == Head(raw)
         topo == topology \/ e.kind # "changed" IN
     IF e.root # aimed
     THEN UNCHANGED <<listed, covered, batch, topology, armed, cool, payloads>>
     ELSE /\ AddSubtree(e)
          /\ IF cool /\ e.name \notin DOMAIN batch
             THEN Emitted(Recorded(e.name, e.kind), topo)
             ELSE /\ batch' = Recorded(e.name, e.kind) /\ topology' = topo
                  /\ armed' = (armed \/ e.name \notin DOMAIN batch)
                  /\ UNCHANGED <<cool, payloads>>
  /\ UNCHANGED <<whim, diskVars, cmds, aimed, desktopVars, windowVarsOf, servers>>

TrailingFires ==
  /\ armed /\ cool /\ cmds = <<>> /\ raw = <<>>
  /\ IF batch = NoBatch
     THEN armed' = FALSE /\ UNCHANGED <<batch, topology, cool, payloads>>
     ELSE Emitted(batch, topology)
  /\ UNCHANGED <<whim, diskVars, raw, cmds, aimed, listed, covered, desktopVars, windowVarsOf,
                 servers>>

CoolsDown ==
  /\ ~cool /\ cool' = TRUE
  /\ UNCHANGED <<whim, diskVars, raw, cmds, aimed, listed, covered, batch, topology, armed,
                 payloads, desktopVars, windowVarsOf, servers>>

-----------------------------------------------------------------------------
(* The window *)

Loading == walk.at # "no"
Walking == [at |-> "read", by |-> "refresh", got |-> {}]
Merged(topo) == IF topo \/ deferred = "topology" THEN "topology" ELSE "paths"

\* refreshActiveFolder, which drains what was deferred when it is done.
Refreshed(topo) ==
  IF Loading THEN deferred' = Merged(topo) /\ UNCHANGED walk
  ELSE IF topo THEN walk' = Walking /\ UNCHANGED deferred
  ELSE deferred' = "no" /\ walk' = IF deferred = "topology" THEN Walking ELSE walk

\* What a language server makes of a change: it reads the file, and keeps what it
\* knows if it cannot.
Notified(n, kind) ==
  IF kind = "deleted" THEN 0
  ELSE IF files[active][n] # 0 THEN files[active][n] ELSE servers[n]

Hear ==
  /\ payloads # <<>> /\ payloads' = Tail(payloads)
  /\ LET p == Head(payloads) IN
       /\ Refreshed(p.topology)
       /\ servers' = [n \in Names |->
            IF n \in DOMAIN p.kinds THEN Notified(n, p.kinds[n]) ELSE servers[n]]
  /\ UNCHANGED <<whim, diskVars, raw, actorVars, desktopVars, folder, tree, strays>>

WalkReads ==
  /\ walk.at = "read"
  /\ walk' = [walk EXCEPT !.at = "land", !.got = There(active)]
  /\ UNCHANGED <<whim, diskVars, raw, actorVars, payloads, desktopVars, folder, tree, strays,
                 deferred, servers>>

\* Mutant of WalkLands: what was deferred is not drained.
WalkLandsOnly ==
  /\ walk.at = "land"
  /\ tree' = [tree EXCEPT ![folder] = walk.got]
  /\ walk' = NoWalk
  /\ UNCHANGED <<whim, diskVars, raw, actorVars, payloads, desktopVars, folder, strays, deferred,
                 servers>>

\* A walk that a refresh has begun is followed by the drain, the others are not.
WalkLands ==
  /\ walk.at = "land"
  /\ tree' = [tree EXCEPT ![folder] = walk.got]
  /\ IF walk.by = "adopt" THEN walk' = NoWalk /\ UNCHANGED deferred
     ELSE /\ deferred' = "no"
          /\ walk' = IF deferred = "topology" THEN Walking ELSE NoWalk
  /\ UNCHANGED <<whim, diskVars, raw, actorVars, payloads, desktopVars, folder, strays, servers>>

\* A superseded walk comes back, and its refresh drains.
StrayLands ==
  /\ strays > 0 /\ strays' = strays - 1
  /\ IF deferred = "no" \/ Loading THEN UNCHANGED <<walk, deferred>>
     ELSE deferred' = "no" /\ walk' = IF deferred = "topology" THEN Walking ELSE walk
  /\ UNCHANGED <<whim, diskVars, raw, actorVars, payloads, desktopVars, folder, tree, servers>>

-----------------------------------------------------------------------------
(* Switching the folder *)

\* workspace_set_active_folder: the folder is set and the snapshot taken,
SwitchFolder(c, r) ==
  /\ click[c].at = "idle" /\ r # folder
  /\ "busy" \in whim \/ Settled
  /\ "quick" \in whim \/ ~Switching
  /\ active' = r
  /\ click' = [click EXCEPT ![c] = [at |-> "aim", root |-> r]]
  /\ UNCHANGED <<whim, diskVars, raw, actorVars, payloads, windowVarsOf, servers>>

\* the watcher is told,
Repoint(c) ==
  /\ click[c].at = "aim"
  /\ click' = [click EXCEPT ![c].at = "adopt"]
  /\ cmds' = Append(cmds, click[c].root)
  /\ UNCHANGED <<whim, diskVars, raw, aimed, listed, covered, batch, topology, armed, cool,
                 payloads, active, windowVarsOf, servers>>

\* and the window adopts the snapshot: it walks the folder, whose documents it opens.
AdoptFolder(c) ==
  /\ click[c].at = "adopt"
  /\ click' = [click EXCEPT ![c].at = "done"]
  /\ folder' = click[c].root
  /\ IF folder' = folder
     THEN UNCHANGED <<walk, strays, servers>>
     ELSE /\ walk' = [at |-> "read", by |-> "adopt", got |-> {}]
          /\ strays' = IF Loading /\ walk.by = "refresh" THEN strays + 1 ELSE strays
          /\ servers' = files[folder']
  /\ UNCHANGED <<whim, diskVars, raw, actorVars, payloads, active, tree, deferred>>

\* repoint_fs_watcher also follows every other change of the workspace.
RepointAgain ==
  /\ cmds = <<>> /\ ~Switching
  /\ "again" \in whim \/ (Settled /\ ~cool)
  /\ cmds' = <<active>>
  /\ UNCHANGED <<whim, diskVars, raw, aimed, listed, covered, batch, topology, armed, cool,
                 payloads, desktopVars, windowVarsOf, servers>>

DiskStep ==
  \E r \in Roots, n \in Names :
    WriteFile(r, n) \/ MakeFile(r, n) \/ RemoveFile(r, n) \/ MoveIn(r, n) \/ MoveOut(r, n)
ActorStep == SetRoot \/ TakeEvent \/ TrailingFires
WindowStep == Hear \/ WalkReads \/ WalkLands
SwitchStep(c) == Repoint(c) \/ AdoptFolder(c)

WatchNext ==
  \/ DiskStep \/ ActorStep \/ CoolsDown \/ WindowStep \/ StrayLands \/ RepointAgain
  \/ \E c \in Switches : (\E r \in Roots : SwitchFolder(c, r)) \/ SwitchStep(c)

WatchSpec == WatchInit /\ [][WatchNext]_watchVars

\* The actor and the window are scheduled, time passes, calls return.
WatchFairness ==
  /\ WF_watchVars(ActorStep) /\ WF_watchVars(CoolsDown)
  /\ WF_watchVars(WindowStep) /\ WF_watchVars(StrayLands)
  /\ \A c \in Switches : WF_watchVars(SwitchStep(c))

-----------------------------------------------------------------------------
(* Properties *)

WatchTypeOK ==
  /\ DOMAIN batch \subseteq Names /\ {aimed, active, folder} \subseteq Roots
  /\ covered => listed
  /\ \A r \in Roots : tree[r] \subseteq Names
  /\ deferred \in {"no", "paths", "topology"} /\ strays \in 0 .. MaxClicks

\* What is pending will be told: the timer is armed.
FlushDue == batch # NoBatch => armed

\* When all is told, the watcher watches the folder that is shown, the tree has its
\* files, and the language servers know them.
AimRight == AllTaken => aimed = active /\ folder = active
TreeRight == AllTaken => tree[folder] = There(folder) /\ deferred # "topology"
ServersRight == AllTaken => \A n \in {"f", "g"} : servers[n] = files[folder][n]

\* Where the tree can be trusted: not behind a directory that is moved in or made
\* anew, a switch that files do not wait for, or a watcher pointed again.
TreeSafe == whim \subseteq {"replace", "rename"} \/ whim \subseteq {"replace", "mkdir"}

\* Whatever happens on disk, the tree has it in the end.
TreeComes == TreeSafe => []<>(tree[folder] = There(folder))

WatcherOK ==
  /\ WatchTypeOK /\ FlushDue
  /\ "quick" \notin whim => AimRight
  /\ TreeSafe => TreeRight
  /\ whim = {} => ServersRight
=============================================================================
