------------------------------ MODULE Buffers ------------------------------
(* One open file of the window: the buffer the user types into, the saves  *)
(* and the reloads, which both work on an answer that they have awaited,   *)
(* the file on disk, which others write too, and the text the language     *)
(* server has been sent.  Bounds: MaxKeys keystrokes, MaxWrites writes by  *)
(* others, MaxReloads reloads at a time.                                   *)
EXTENDS Naturals, FiniteSets

CONSTANTS
  MaxKeys, MaxWrites, MaxReloads,
  Hands           \* sets of complications, among "keys" (the user types while a save
                  \* or a reload is under way), "stale" (and saves before a change of
                  \* the file was seen), "late" (others write during a save), "slow"
                  \* (reloads overlap), "flush" (the coder formats the file during a
                  \* save) and "hidden" (the tab is not always the one that is shown)

ASSUME BuffersAssumption == MaxKeys \in Nat /\ MaxWrites \in Nat /\ MaxReloads \in Nat

VARIABLES
  hand,
  disk,           \* the file: a text
  text, loaded,    \* OpenFile: its text, and the one of its loadedFingerprint
  shown,
  saver,          \* saveActive: where it is, the text it has in its hands
  reload,         \* the same of each reloadOpenFileFromDisk
  flush,          \* and of the coder's format_file
  news,           \* the watcher has still to tell of a change
  scheduled, server,  \* lspScheduleUpdate's text, if any; the language server's text
  typed, writes,  \* how many keystrokes, how many writes by others
  savedKeys       \* keystrokes in what was saved

bufferVars == <<hand, disk, text, loaded, shown, saver, reload, flush, news, scheduled, server,
                typed, writes, savedKeys>>

Keys == 1 .. MaxKeys
Reloads == 1 .. MaxReloads
\* A text is what it is made of: keystrokes, writes by others, and whether it
\* is as the formatter leaves it.
Texts == [keys : SUBSET Keys, edits : SUBSET (1 .. MaxWrites), neat : BOOLEAN]
Blank == [keys |-> {}, edits |-> {}, neat |-> TRUE]
Idle == [at |-> "idle", text |-> Blank]

BufferInit ==
  /\ hand \in Hands
  /\ disk = Blank /\ text = Blank /\ loaded = Blank /\ server = Blank
  /\ shown = TRUE /\ saver = Idle /\ flush = Idle
  /\ reload = [i \in Reloads |-> Idle]
  /\ news = FALSE /\ scheduled = {} /\ typed = 0 /\ writes = 0 /\ savedKeys = {}

Dirty == text # loaded
Saving == saver.at # "idle"
Flushing == flush.at # "idle"
Reloading == \E i \in Reloads : reload[i].at # "idle"

\* The view of a buffer that is shown follows the store, and reports the change
\* as it reports a keystroke.
Follow(t) == IF shown /\ text # t THEN {t} ELSE scheduled

-----------------------------------------------------------------------------
(* The user, others, the coder *)

\* updateText and lspScheduleUpdate.
Type ==
  /\ shown /\ typed < MaxKeys
  /\ "keys" \in hand \/ (~Saving /\ ~Reloading)
  /\ typed' = typed + 1
  /\ text' = [text EXCEPT !.keys = @ \cup {typed'}, !.neat = FALSE]
  /\ scheduled' = {text'}
  /\ UNCHANGED <<hand, disk, loaded, shown, saver, reload, flush, news, server, writes,
                 savedKeys>>

SwitchTab ==
  /\ "hidden" \in hand
  /\ shown' = ~shown
  /\ UNCHANGED <<hand, disk, text, loaded, saver, reload, flush, news, scheduled, server, typed,
                 writes, savedKeys>>

WriteByOthers ==
  /\ writes < MaxWrites /\ ~Flushing
  /\ "late" \in hand \/ ~Saving
  /\ writes' = writes + 1
  /\ disk' = [disk EXCEPT !.edits = @ \cup {writes'}, !.neat = FALSE]
  /\ news' = TRUE
  /\ UNCHANGED <<hand, text, loaded, shown, saver, reload, flush, scheduled, server, typed,
                 savedKeys>>

\* format_file reads the file; it writes it if that makes a difference.
FlushReads ==
  /\ ~Flushing /\ ~disk.neat
  /\ "flush" \in hand \/ ~Saving
  /\ flush' = [at |-> "write", text |-> disk]
  /\ UNCHANGED <<hand, disk, text, loaded, shown, saver, reload, news, scheduled, server, typed,
                 writes, savedKeys>>

FlushWrites ==
  /\ Flushing
  /\ flush' = Idle
  /\ disk' = [flush.text EXCEPT !.neat = TRUE]
  /\ news' = TRUE
  /\ UNCHANGED <<hand, text, loaded, shown, saver, reload, scheduled, server, typed, writes,
                 savedKeys>>

-----------------------------------------------------------------------------
(* saveActive *)

SaveBegins ==
  /\ shown /\ ~Saving
  /\ "flush" \in hand \/ ~Flushing
  /\ "stale" \in hand \/ (~news /\ ~Reloading)
  /\ saver' = [at |-> IF Dirty THEN "write" ELSE "rewrite", text |-> text]
  /\ UNCHANGED <<hand, disk, text, loaded, shown, reload, flush, news, scheduled, server, typed,
                 writes, savedKeys>>

\* save_file: the text, whatever the file has become, and then the formatter.
SaveWrites ==
  /\ saver.at \in {"write", "rewrite"}
  /\ saver' = [saver EXCEPT !.at = "format"]
  /\ disk' = saver.text /\ news' = TRUE
  /\ savedKeys' = savedKeys \cup saver.text.keys
  /\ UNCHANGED <<hand, text, loaded, shown, reload, flush, scheduled, server, typed, writes>>

SaveFormats ==
  /\ saver.at = "format"
  /\ saver' = [saver EXCEPT !.at = "read"]
  /\ \/ UNCHANGED <<disk, news>>
     \/ disk' = [disk EXCEPT !.neat = TRUE] /\ news' = TRUE
  /\ UNCHANGED <<hand, text, loaded, shown, reload, flush, scheduled, server, typed, writes,
                 savedKeys>>

\* Mutant of SaveReads: the file is not read again.
SaveTrusts ==
  /\ saver.at = "read"
  /\ saver' = [saver EXCEPT !.at = "land"]
  /\ UNCHANGED <<hand, disk, text, loaded, shown, reload, flush, news, scheduled, server, typed,
                 writes, savedKeys>>

\* The file is read again,
SaveReads ==
  /\ saver.at = "read"
  /\ saver' = [at |-> "land", text |-> disk]
  /\ UNCHANGED <<hand, disk, text, loaded, shown, reload, flush, news, scheduled, server, typed,
                 writes, savedKeys>>

\* Mutant of SaveLands: the update that waits is not cancelled.
SaveLandsOnly ==
  /\ saver.at = "land"
  /\ saver' = Idle
  /\ text' = saver.text /\ loaded' = saver.text
  /\ server' = saver.text
  /\ UNCHANGED <<hand, disk, shown, reload, flush, news, scheduled, typed, writes, savedKeys>>

\* and becomes the buffer's text (lspNotifyAfterSave cancels the update first).
SaveLands ==
  /\ saver.at = "land"
  /\ saver' = Idle
  /\ text' = saver.text /\ loaded' = saver.text
  /\ server' = saver.text
  /\ scheduled' = IF shown /\ text # saver.text THEN {saver.text} ELSE {}
  /\ UNCHANGED <<hand, disk, shown, reload, flush, news, typed, writes, savedKeys>>

SaveFails ==
  /\ saver.at \in {"write", "rewrite"}
  /\ saver' = Idle
  /\ UNCHANGED <<hand, disk, text, loaded, shown, reload, flush, news, scheduled, server, typed,
                 writes, savedKeys>>

-----------------------------------------------------------------------------
(* refreshGitStatus, and the reloads it starts *)

\* Mutant of Refresh: a dirty buffer is reloaded, too.
RefreshAny(i) ==
  /\ news /\ reload[i].at = "idle"
  /\ "slow" \in hand \/ ~Reloading
  /\ news' = FALSE
  /\ reload' = [reload EXCEPT ![i].at = "read"]
  /\ UNCHANGED <<hand, disk, text, loaded, shown, saver, flush, scheduled, server, typed,
                 writes, savedKeys>>

\* What the watcher tells is used up also when the buffer is dirty.
Refresh(i) ==
  /\ news /\ reload[i].at = "idle"
  /\ "slow" \in hand \/ ~Reloading
  /\ news' = FALSE
  /\ IF Dirty THEN UNCHANGED reload ELSE reload' = [reload EXCEPT ![i].at = "read"]
  /\ UNCHANGED <<hand, disk, text, loaded, shown, saver, flush, scheduled, server, typed,
                 writes, savedKeys>>

ReloadReads(i) ==
  /\ reload[i].at = "read"
  /\ reload' = [reload EXCEPT ![i] = [at |-> "land", text |-> disk]]
  /\ UNCHANGED <<hand, disk, text, loaded, shown, saver, flush, news, scheduled, server, typed,
                 writes, savedKeys>>

\* The buffer is replaced, whatever it has become.
ReloadLands(i) ==
  /\ reload[i].at = "land"
  /\ reload' = [reload EXCEPT ![i] = Idle]
  /\ IF text = reload[i].text
     THEN UNCHANGED <<text, loaded, scheduled>>
     ELSE /\ text' = reload[i].text /\ loaded' = reload[i].text
          /\ scheduled' = Follow(reload[i].text)
  /\ UNCHANGED <<hand, disk, shown, saver, flush, news, server, typed, writes, savedKeys>>

\* The debounced didChange.
TimerFires ==
  /\ scheduled # {}
  /\ scheduled' = {} /\ server' \in scheduled
  /\ UNCHANGED <<hand, disk, text, loaded, shown, saver, reload, flush, news, typed, writes,
                 savedKeys>>

SavingStep == SaveWrites \/ SaveFormats \/ SaveReads \/ SaveLands \/ SaveFails
ReloadStep(i) == Refresh(i) \/ ReloadReads(i) \/ ReloadLands(i)

BufferNext ==
  \/ Type \/ SwitchTab \/ WriteByOthers \/ FlushReads \/ FlushWrites
  \/ SaveBegins \/ SavingStep \/ TimerFires
  \/ \E i \in Reloads : ReloadStep(i)

BufferSpec == BufferInit /\ [][BufferNext]_bufferVars

\* Timers fire, awaited calls return, the watcher tells.
BufferFairness ==
  /\ WF_bufferVars(SavingStep) /\ WF_bufferVars(TimerFires) /\ WF_bufferVars(FlushWrites)
  /\ \A i \in Reloads : WF_bufferVars(ReloadStep(i))

-----------------------------------------------------------------------------
(* Properties *)

BufferTypeOK ==
  /\ disk \in Texts /\ text \in Texts /\ loaded \in Texts /\ server \in Texts
  /\ shown \in BOOLEAN /\ news \in BOOLEAN
  /\ scheduled \in SUBSET Texts /\ Cardinality(scheduled) < 2
  /\ typed \in 0 .. MaxKeys /\ writes \in 0 .. MaxWrites /\ savedKeys \in SUBSET (1 .. typed)
  /\ saver \in [at : {"idle", "write", "rewrite", "format", "read", "land"}, text : Texts]
  /\ flush \in [at : {"idle", "write"}, text : Texts]
  /\ reload \in [Reloads -> [at : {"idle", "read", "land"}, text : Texts]]

\* "Dirty buffers are left alone: we don't silently clobber unsaved user edits"
\* (state.svelte.ts 3685): what the user has typed stays in the buffer.
TypedKept == 1 .. typed \subseteq text.keys

\* What was saved stays on disk.
SavedKept == savedKeys \subseteq disk.keys

\* A save of a buffer the user has not changed takes nobody's write back.
CleanSaveHarmless == saver.at = "rewrite" => disk.edits \subseteq saver.text.edits

\* At rest a clean buffer is what is on disk, and the language server has the
\* buffer's text.
AtEase == ~Saving /\ ~Reloading /\ ~Flushing /\ ~news /\ scheduled = {}
BufferFollows == AtEase /\ ~Dirty => text = disk
ServerInStep == AtEase => server = text

\* Both come about whatever the user and others do.
BufferComes ==
  /\ hand \cap {"late", "slow", "flush"} = {} => []<>(Dirty \/ text = disk)
  /\ "hidden" \notin hand => []<>(server = text)

BuffersOK ==
  /\ BufferTypeOK
  /\ hand \cap {"keys", "flush"} = {} => TypedKept
  /\ "flush" \notin hand /\ ~({"keys", "stale"} \subseteq hand) => SavedKept
  /\ hand \cap {"stale", "late", "slow", "flush"} = {} => CleanSaveHarmless
  /\ hand \cap {"late", "slow", "flush"} = {} => BufferFollows
  /\ "hidden" \notin hand => ServerInStep
=============================================================================
