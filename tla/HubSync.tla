------------------------------ MODULE HubSync ------------------------------
(* session.json of a workspace, which several handlers load, edit and save *)
(* whole, and the pushes of a session's JSONL to a Hub bucket: the binding *)
(* and the markers of what has been uploaded are fields of session.json.   *)
(* The debounce holds one timer per session.  Bounds: every handler edits  *)
(* once, Uploads names the enqueued pushes, one per turn.                  *)
EXTENDS Integers, FiniteSets

CONSTANTS
  Uploads,        \* the pushes: one is enqueued at the end of each turn
  Trips           \* sets of faults and overlaps a behaviour may have, among
                  \* "overlap" (load-then-save round trips interleave),
                  \* "crash" and "offline" (the Hub refuses a push)

Handlers == {"tabs", "ports", "disconnect"}
Savers == Handlers \cup Uploads
Nothing == "nothing"

ASSUME HubAssumption ==
  IsFiniteSet(Uploads) /\ Uploads \cap (Handlers \cup {"first", Nothing}) = {}

VARIABLES
  trip,           \* the member of Trips this behaviour is under
  stage,          \* where each saver is
  view,           \* the document it has loaded
  inode,          \* what was written to each file since it was truncated
  json, tmp,      \* the files the names session.json and session.json.tmp mean
  fh,             \* the file a saver has open
  saved,          \* handlers that returned Ok
  length,         \* the session's JSONL
  hub,            \* what the bucket has of it
  timer,          \* the debounce map's timer of the session
  tripped,        \* timers that were cancelled
  lost            \* a crash or a refusal has lost a push

hubVars == <<trip, stage, view, inode, json, tmp, fh, saved, length, hub, timer, tripped, lost>>

-----------------------------------------------------------------------------
(* The document *)

Fresh == [tabs |-> 0, ports |-> 0, bound |-> FALSE, marker |-> 0]
First == [Fresh EXCEPT !.bound = TRUE]
Documents == [tabs: {0, 1}, ports: {0, 1}, bound: BOOLEAN, marker: 0 .. Cardinality(Uploads)]

\* load: anything but one document is read as a default one.
Whole == \E d \in Documents : inode[json] = {d}
Loaded == IF Whole THEN CHOOSE d \in Documents : inode[json] = {d} ELSE Fresh

\* The document with the handler's own field overlaid; an upload's is the
\* marker, if the document it loaded has a binding.
\* Mutant of Edited: session_save trusts the binding of the frontend.
EditedByFrontend(s, d) ==
  CASE s = "tabs" -> [d EXCEPT !.tabs = 1, !.bound = First.bound]
    [] s = "ports" -> [d EXCEPT !.ports = 1]
    [] s = "disconnect" -> [d EXCEPT !.bound = FALSE, !.marker = 0]
    [] OTHER -> d

Edited(s, d) ==
  CASE s = "tabs" -> [d EXCEPT !.tabs = 1]
    [] s = "ports" -> [d EXCEPT !.ports = 1]
    [] s = "disconnect" -> [d EXCEPT !.bound = FALSE, !.marker = 0]
    [] OTHER -> d

-----------------------------------------------------------------------------
HubInit ==
  /\ trip \in Trips
  /\ stage = [s \in Savers |-> "idle"]
  /\ view = [s \in Savers |-> Fresh]
  /\ inode = [s \in Savers \cup {"first"} |-> IF s = "first" THEN {First} ELSE {}]
  /\ json = "first" /\ tmp = Nothing
  /\ fh = [s \in Savers |-> Nothing]
  /\ saved = {} /\ length = 0 /\ hub = 0 /\ timer = Nothing /\ tripped = {} /\ lost = FALSE

MayLoad ==
  "overlap" \in trip \/ \A s \in Savers : stage[s] \in {"idle", "insert", "sleep", "fired", "load", "done"}

Goes(s, where) == stage' = [stage EXCEPT ![s] = where]
KeepDisk == UNCHANGED <<inode, json, tmp, fh>>
KeepTimers == UNCHANGED <<timer, tripped>>

\* A handler loads; one that has nothing to change returns.
HandlerLoads(h) ==
  /\ stage[h] = "idle" /\ MayLoad
  /\ LET new == Edited(h, Loaded) IN
       IF h # "tabs" /\ new = Loaded
       THEN Goes(h, "done") /\ saved' = saved \cup {h} /\ UNCHANGED view
       ELSE Goes(h, "save") /\ view' = [view EXCEPT ![h] = new] /\ UNCHANGED saved
  /\ KeepDisk /\ KeepTimers /\ UNCHANGED <<trip, length, hub, lost>>

\* save: create session.json.tmp, or truncate the one that is there...
\* Mutant of Create: the document is written in place.
CreateInPlace(s) ==
  /\ stage[s] = "save"
  /\ Goes(s, "write")
  /\ fh' = [fh EXCEPT ![s] = json] /\ tmp' = json
  /\ inode' = [inode EXCEPT ![json] = {}]
  /\ KeepTimers /\ UNCHANGED <<trip, view, json, saved, length, hub, lost>>

Create(s) ==
  /\ stage[s] = "save"
  /\ Goes(s, "write")
  /\ LET file == IF tmp = Nothing THEN s ELSE tmp IN
       /\ fh' = [fh EXCEPT ![s] = file] /\ tmp' = file
       /\ inode' = [inode EXCEPT ![file] = {}]
  /\ KeepTimers /\ UNCHANGED <<trip, view, json, saved, length, hub, lost>>

\* ...write it, sync it...
WriteTmp(s) ==
  /\ stage[s] = "write"
  /\ Goes(s, "rename")
  /\ \E rest \in {{}, inode[fh[s]]} :   \* of an open file that is written twice
       inode' = [inode EXCEPT ![fh[s]] = rest \cup {view[s]}]
  /\ KeepTimers /\ UNCHANGED <<trip, view, json, tmp, fh, saved, length, hub, lost>>

\* ...and rename it; without a file of that name the save fails.
Rename(s) ==
  /\ stage[s] = "rename"
  /\ Goes(s, "done")
  /\ fh' = [fh EXCEPT ![s] = Nothing]
  /\ IF tmp # Nothing
     THEN /\ json' = tmp /\ tmp' = Nothing
          /\ saved' = saved \cup ({s} \cap Handlers)
     ELSE UNCHANGED <<json, tmp, saved>>
  /\ KeepTimers /\ UNCHANGED <<trip, view, inode, length, hub, lost>>

-----------------------------------------------------------------------------
(* The debounce *)

\* A turn ends: maybe_autosync_to_hub finds a binding, enqueue_session_sync
\* spawns a task.
TurnEnds(u) ==
  /\ stage[u] = "idle"
  /\ length' = length + 1
  /\ Goes(u, IF Loaded.bound THEN "insert" ELSE "done")
  /\ KeepDisk /\ KeepTimers /\ UNCHANGED <<trip, view, saved, hub, lost>>

\* The task takes the slot and cancels the timer it finds there.
\* Mutant of InsertTimer: it cancels its own token.
InsertSelf(u) ==
  /\ stage[u] = "insert"
  /\ Goes(u, "sleep")
  /\ tripped' = IF timer = Nothing THEN tripped ELSE tripped \cup {u}
  /\ timer' = u
  /\ KeepDisk /\ UNCHANGED <<trip, view, saved, length, hub, lost>>

InsertTimer(u) ==
  /\ stage[u] = "insert"
  /\ Goes(u, "sleep")
  /\ tripped' = IF timer = Nothing THEN tripped ELSE tripped \cup {timer}
  /\ timer' = u
  /\ KeepDisk /\ UNCHANGED <<trip, view, saved, length, hub, lost>>

\* select!: the timer fires, or the task sees that it was cancelled.
Fires(u) ==
  /\ stage[u] = "sleep"
  /\ Goes(u, "fired")
  /\ KeepDisk /\ KeepTimers /\ UNCHANGED <<trip, view, saved, length, hub, lost>>

Cancelled(u) ==
  /\ stage[u] = "sleep" /\ u \in tripped
  /\ Goes(u, "done")
  /\ KeepDisk /\ KeepTimers /\ UNCHANGED <<trip, view, saved, length, hub, lost>>

\* The key is removed, whoever's timer the slot holds by now.
RemoveSlot(u) ==
  /\ stage[u] = "fired"
  /\ Goes(u, "load")
  /\ timer' = Nothing
  /\ KeepDisk /\ UNCHANGED <<trip, view, saved, length, hub, tripped, lost>>

-----------------------------------------------------------------------------
(* upload_session_inner *)

\* session.json and then the JSONL are read; without a binding, or when the
\* marker has this length already, nothing is pushed.
UploadLoads(u) ==
  /\ stage[u] = "load" /\ MayLoad
  /\ LET d == Loaded IN
       IF d.bound /\ d.marker # length
       THEN /\ Goes(u, "push")
            /\ view' = [view EXCEPT ![u] = [d EXCEPT !.marker = length]]
       ELSE Goes(u, "done") /\ UNCHANGED view
  /\ KeepDisk /\ KeepTimers /\ UNCHANGED <<trip, saved, length, hub, lost>>

\* The bytes that were read are pushed.
Push(u) ==
  /\ stage[u] = "push"
  /\ Goes(u, "save")
  /\ hub' = view[u].marker
  /\ KeepDisk /\ KeepTimers /\ UNCHANGED <<trip, view, saved, length, lost>>

\* Mutant of PushFails: the marker is saved all the same.
PushFailsQuietly(u) ==
  /\ stage[u] = "push" /\ "offline" \in trip
  /\ Goes(u, "save")
  /\ lost' = TRUE
  /\ KeepDisk /\ KeepTimers /\ UNCHANGED <<trip, view, saved, length, hub>>

PushFails(u) ==
  /\ stage[u] = "push" /\ "offline" \in trip
  /\ Goes(u, "done")
  /\ lost' = TRUE
  /\ KeepDisk /\ KeepTimers /\ UNCHANGED <<trip, view, saved, length, hub>>

\* The process dies, at any step of anything, and is started again.
HubCrash ==
  /\ "crash" \in trip
  /\ \E s \in Savers : stage[s] \notin {"idle", "done"}
  /\ stage' = [s \in Savers |-> IF stage[s] = "idle" THEN "idle" ELSE "done"]
  /\ fh' = [s \in Savers |-> Nothing]
  /\ timer' = Nothing /\ lost' = TRUE
  /\ UNCHANGED <<trip, view, inode, json, tmp, saved, length, hub, tripped>>

UploadStep(u) ==
  \/ InsertTimer(u) \/ Fires(u) \/ Cancelled(u) \/ RemoveSlot(u)
  \/ UploadLoads(u) \/ Push(u) \/ PushFails(u)
SaveStep(s) == Create(s) \/ WriteTmp(s) \/ Rename(s)

HubNext ==
  \/ \E h \in Handlers : HandlerLoads(h)
  \/ \E s \in Savers : SaveStep(s)
  \/ \E u \in Uploads : TurnEnds(u) \/ UploadStep(u)
  \/ HubCrash

HubSpec == HubInit /\ [][HubNext]_hubVars

-----------------------------------------------------------------------------
(* Properties *)

HubTypeOK ==
  /\ inode[json] \subseteq Documents
  /\ \A s \in Savers : view[s] \in Documents
  /\ timer \in Uploads \cup {Nothing} /\ tripped \subseteq Uploads
  /\ length \in 0 .. Cardinality(Uploads) /\ hub \in 0 .. length

\* "Readers see either the old document or the new one, never garbage", also
\* when the process dies in the middle of a save.
NeverTorn == Whole

\* What a handler saved is not overwritten by a handler of another field.
NotClobbered ==
  /\ "tabs" \in saved => Loaded.tabs = 1
  /\ "ports" \in saved => Loaded.ports = 1
  /\ "disconnect" \in saved => ~Loaded.bound

\* A session that is skipped because of its marker is in the bucket.
MarkerTruthful == Loaded.bound /\ Loaded.marker = length => hub = length

\* Once all is quiet the bucket has the session as the last turn left it.
HubSynced ==
  (Loaded.bound /\ ~lost /\ \A s \in Savers : stage[s] \in {"idle", "done"}) => hub = length

\* The document is whole and has what was saved; the bucket has what the
\* document says, and in the end the whole session.
SyncOK == HubTypeOK /\ NeverTorn /\ NotClobbered /\ MarkerTruthful /\ HubSynced
=============================================================================
