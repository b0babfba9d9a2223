---------------------------- MODULE WindowProofs ----------------------------
(* What the window shows of the disk, for any number of changes,           *)
(* keystrokes and switches, and of the agents' terminals: Buffers,         *)
(* FileWatch and Terminals.                                                *)
EXTENDS Buffers, FileWatch, Terminals, FiniteSetTheorems, SequenceTheorems, TLAPS

-----------------------------------------------------------------------------
(* Proofs about Buffers: where the profile allows it, nothing that was typed *)
(* or saved is lost, a clean buffer is the file, and the language server     *)
(* ends with the buffer's text, for any number of keystrokes, writes and     *)
(* reloads.                                                                  *)
-----------------------------------------------------------------------------
(* The inductive invariant *)

\* No text has a keystroke that is still to come: typing makes a buffer dirty.
Fresh ==
  /\ disk.keys \subseteq 1 .. typed /\ text.keys \subseteq 1 .. typed
  /\ loaded.keys \subseteq 1 .. typed /\ saver.text.keys \subseteq 1 .. typed
  /\ flush.text.keys \subseteq 1 .. typed
  /\ \A i \in Reloads : reload[i].text.keys \subseteq 1 .. typed

\* The coder's formatting has what is on disk in its hands.
FlushInv == "flush" \notin hand /\ Flushing => ~Saving /\ flush.text = disk

\* Without typing during saves and reloads, every text that is about to land has
\* all that was typed.
TypedInv ==
  hand \cap {"keys", "flush"} = {} =>
    /\ 1 .. typed \subseteq text.keys
    /\ savedKeys \subseteq disk.keys
    /\ saver.at \in {"write", "rewrite", "land"} => 1 .. typed \subseteq saver.text.keys
    /\ saver.at \in {"format", "read", "land"} \/ Reloading => 1 .. typed \subseteq disk.keys
    /\ loaded.keys \subseteq disk.keys
    /\ \A i \in Reloads : reload[i].at = "land" => 1 .. typed \subseteq reload[i].text.keys

\* Without saves of what is stale, the keystrokes on disk are those of the loaded
\* text, and a save that changes them meets no reload.
SavedInv ==
  hand \cap {"stale", "flush"} = {} =>
    /\ savedKeys \subseteq disk.keys
    /\ loaded.keys \subseteq text.keys
    /\ saver.at \in {"idle", "write", "rewrite"} => loaded.keys = disk.keys
    /\ saver.at = "write" => Dirty /\ ~Reloading /\ disk.keys \subseteq saver.text.keys
    /\ saver.at \in {"rewrite", "land"} => saver.text.keys = disk.keys
    /\ \A i \in Reloads : reload[i].at = "land" => reload[i].text.keys = disk.keys

\* A clean buffer is the file, unless there is news of it or a reload under way.
FollowInv ==
  hand \cap {"late", "slow", "flush"} = {} =>
    /\ (saver.at \in {"idle", "write", "rewrite"} /\ ~news /\ ~Reloading /\ ~Dirty) => text = disk
    /\ saver.at = "land" => saver.text = disk
    /\ \A i \in Reloads : reload[i].at = "land" => news \/ reload[i].text = disk

CleanInv ==
  hand \cap {"stale", "late", "slow", "flush"} = {} => (saver.at = "rewrite" => saver.text = disk)

\* What is scheduled is the buffer's text.
ServerInv ==
  "hidden" \notin hand =>
    /\ shown
    /\ scheduled = {} => server = text
    /\ scheduled # {} => scheduled = {text}

BufferInv ==
  /\ BufferTypeOK /\ Fresh /\ FlushInv /\ TypedInv /\ SavedInv /\ FollowInv /\ CleanInv
  /\ ServerInv
-----------------------------------------------------------------------------
(* Preservation *)

LEMMA OneText == ASSUME NEW t PROVE Cardinality({t}) < 2
  BY FS_Singleton

LEMMA NoText == Cardinality({}) < 2
  BY FS_EmptySet

LEMMA TypeKeeps ==
  ASSUME BufferInv, Type
  PROVE  BufferInv'
  <1> USE DEF BufferInv, Dirty, Saving, Flushing, Reloading
  <1>1. typed \in Nat /\ typed' = typed + 1 /\ typed' \in 1 .. MaxKeys
    BY BuffersAssumption DEF Type, BufferTypeOK
  <1>2. text \in [keys : SUBSET Keys, edits : SUBSET (1 .. MaxWrites), neat : BOOLEAN]
    BY DEF BufferTypeOK, Texts
  <1>3. /\ text'.keys = text.keys \cup {typed'} /\ text'.edits = text.edits
        /\ text' \in Texts
    BY <1>1, <1>2 DEF Type, Texts, Keys
  <1>4. text' # loaded
    BY <1>1, <1>3 DEF Fresh
  <1>5. scheduled' = {text'} /\ shown
    BY DEF Type
  <1>6. UNCHANGED <<hand, disk, loaded, shown, saver, reload, flush, news, server, writes,
                    savedKeys>>
    BY DEF Type
  <1>7. "keys" \in hand \/ (~Saving /\ ~Reloading)
    BY DEF Type
  <1>8. BufferTypeOK'
    <2>1. Cardinality(scheduled') < 2
      BY <1>5, OneText
    <2>2. savedKeys' \in SUBSET (1 .. typed')
      BY <1>1, <1>6 DEF BufferTypeOK
    <2> QED BY <1>1, <1>3, <1>5, <1>6, <2>1, <2>2 DEF BufferTypeOK
  <1>9. Fresh'
    BY <1>1, <1>3, <1>6 DEF Fresh
  <1>10. FlushInv' /\ CleanInv' /\ ServerInv'
    BY <1>5, <1>6 DEF FlushInv, CleanInv, ServerInv
  <1>11. TypedInv'
    BY <1>1, <1>3, <1>6, <1>7 DEF TypedInv, BufferTypeOK
  <1>12. SavedInv'
    BY <1>3, <1>4, <1>6 DEF SavedInv
  <1>13. FollowInv'
    BY <1>4, <1>6 DEF FollowInv
  <1> QED BY <1>8, <1>9, <1>10, <1>11, <1>12, <1>13

LEMMA SwitchTabKeeps ==
  ASSUME BufferInv, SwitchTab
  PROVE  BufferInv'
  <1> USE DEF BufferInv, SwitchTab, Dirty, Saving, Flushing, Reloading, Idle, Blank
  <1>1. BufferTypeOK'
    BY DEF BufferTypeOK, Texts
  <1>2. ServerInv'
    BY DEF ServerInv
  <1>3. Fresh' /\ FlushInv' /\ TypedInv' /\ SavedInv' /\ FollowInv' /\ CleanInv'
    BY DEF Fresh, FlushInv, TypedInv, SavedInv, FollowInv, CleanInv
  <1> QED BY <1>1, <1>2, <1>3 DEF BufferInv

LEMMA WriteByOthersKeeps ==
  ASSUME BufferInv, WriteByOthers
  PROVE  BufferInv'
  <1> USE DEF BufferInv, WriteByOthers, Dirty, Saving, Flushing, Reloading, Idle, Blank
  <1>1. BufferTypeOK'
    <2>1. writes' \in 0 .. MaxWrites /\ writes' \in 1 .. MaxWrites
      BY BuffersAssumption DEF BufferTypeOK
    <2>2. disk' \in Texts
      BY <2>1 DEF BufferTypeOK, Texts
    <2> QED BY <2>1, <2>2 DEF BufferTypeOK
  <1>2. Fresh'
    BY DEF Fresh, BufferTypeOK
  <1>3. FlushInv'
    BY DEF FlushInv
  <1>4. TypedInv'
    BY DEF TypedInv, BufferTypeOK, FlushInv, Fresh
  <1>5. SavedInv'
    BY DEF SavedInv, FlushInv, Fresh
  <1>6. FollowInv'
    BY DEF FollowInv, FlushInv
  <1>7. CleanInv'
    BY DEF CleanInv, FollowInv
  <1>8. ServerInv'
    BY DEF ServerInv
  <1> QED BY <1>1, <1>2, <1>3, <1>4, <1>5, <1>6, <1>7, <1>8 DEF BufferInv

LEMMA FlushReadsKeeps ==
  ASSUME BufferInv, FlushReads
  PROVE  BufferInv'
  <1> USE DEF BufferInv, FlushReads, Dirty, Saving, Flushing, Reloading, Idle, Blank
  <1>1. BufferTypeOK'
    BY DEF BufferTypeOK, Texts
  <1>2. Fresh'
    BY DEF Fresh, BufferTypeOK
  <1>3. FlushInv'
    BY DEF FlushInv
  <1>4. TypedInv'
    BY DEF TypedInv, BufferTypeOK, FlushInv, Fresh
  <1>5. SavedInv'
    BY DEF SavedInv, FlushInv, Fresh
  <1>6. FollowInv' /\ CleanInv' /\ ServerInv'
    BY DEF FollowInv, CleanInv, ServerInv
  <1> QED BY <1>1, <1>2, <1>3, <1>4, <1>5, <1>6 DEF BufferInv

LEMMA FlushWritesKeeps ==
  ASSUME BufferInv, FlushWrites
  PROVE  BufferInv'
  <1> USE DEF BufferInv, FlushWrites, Dirty, Saving, Flushing, Reloading, Idle, Blank
  <1>1. BufferTypeOK'
    BY DEF BufferTypeOK, Texts
  <1>2. Fresh'
    BY DEF Fresh, BufferTypeOK
  <1>3. FlushInv'
    BY DEF FlushInv
  <1>4. TypedInv'
    BY DEF TypedInv, BufferTypeOK, FlushInv, Fresh
  <1>5. SavedInv'
    BY DEF SavedInv, FlushInv, Fresh
  <1>6. FollowInv'
    BY DEF FollowInv, FlushInv
  <1>7. CleanInv'
    BY DEF CleanInv, FlushInv, FollowInv
  <1>8. ServerInv'
    BY DEF ServerInv
  <1> QED BY <1>1, <1>2, <1>3, <1>4, <1>5, <1>6, <1>7, <1>8 DEF BufferInv

LEMMA SaveBeginsKeeps ==
  ASSUME BufferInv, SaveBegins
  PROVE  BufferInv'
  <1> USE DEF BufferInv, SaveBegins, Dirty, Saving, Flushing, Reloading, Idle, Blank
  <1>1. BufferTypeOK'
    BY DEF BufferTypeOK, Texts
  <1>2. Fresh'
    BY DEF Fresh, BufferTypeOK
  <1>3. FlushInv'
    BY DEF FlushInv
  <1>4. TypedInv'
    BY DEF TypedInv, BufferTypeOK, FlushInv, Fresh
  <1>5. SavedInv'
    BY DEF SavedInv, FlushInv, Fresh
  <1>6. FollowInv'
    BY DEF FollowInv, FlushInv
  <1>7. CleanInv'
    BY DEF CleanInv, FollowInv
  <1>8. ServerInv'
    BY DEF ServerInv
  <1> QED BY <1>1, <1>2, <1>3, <1>4, <1>5, <1>6, <1>7, <1>8 DEF BufferInv

LEMMA SaveWritesKeeps ==
  ASSUME BufferInv, SaveWrites
  PROVE  BufferInv'
  <1> USE DEF BufferInv, SaveWrites, Dirty, Saving, Flushing, Reloading, Idle, Blank
  <1>1. BufferTypeOK'
    BY DEF BufferTypeOK, Fresh
  <1>2. Fresh'
    BY DEF Fresh, BufferTypeOK
  <1>3. FlushInv'
    BY DEF FlushInv
  <1>4. TypedInv'
    BY DEF TypedInv, BufferTypeOK, FlushInv, Fresh
  <1>5. SavedInv'
    BY DEF SavedInv, FlushInv, Fresh
  <1>6. FollowInv'
    BY DEF FollowInv, FlushInv
  <1>7. CleanInv'
    BY DEF CleanInv, FollowInv
  <1>8. ServerInv'
    BY DEF ServerInv
  <1> QED BY <1>1, <1>2, <1>3, <1>4, <1>5, <1>6, <1>7, <1>8 DEF BufferInv

LEMMA SaveFormatsKeeps ==
  ASSUME BufferInv, SaveFormats
  PROVE  BufferInv'
  <1> USE DEF BufferInv, SaveFormats, Dirty, Saving, Flushing, Reloading, Idle, Blank
  <1>1. BufferTypeOK'
    BY DEF BufferTypeOK, Texts
  <1>2. Fresh'
    BY DEF Fresh, Texts, BufferTypeOK
  <1>3. FlushInv'
    BY DEF FlushInv
  <1>4. TypedInv'
    BY DEF TypedInv, Texts, BufferTypeOK, FlushInv, Fresh
  <1>5. SavedInv'
    BY DEF SavedInv, BufferTypeOK, Texts, FlushInv, Fresh
  <1>6. FollowInv'
    BY DEF FollowInv, FlushInv
  <1>7. CleanInv'
    BY DEF CleanInv, FollowInv
  <1>8. ServerInv'
    BY DEF ServerInv
  <1> QED BY <1>1, <1>2, <1>3, <1>4, <1>5, <1>6, <1>7, <1>8 DEF BufferInv

LEMMA SaveReadsKeeps ==
  ASSUME BufferInv, SaveReads
  PROVE  BufferInv'
  <1> USE DEF BufferInv, SaveReads, Dirty, Saving, Flushing, Reloading, Idle, Blank
  <1>1. BufferTypeOK'
    BY DEF BufferTypeOK, Texts
  <1>2. Fresh'
    BY DEF Fresh, BufferTypeOK
  <1>3. FlushInv'
    BY DEF FlushInv
  <1>4. TypedInv'
    BY DEF TypedInv, BufferTypeOK, FlushInv, Fresh
  <1>5. SavedInv'
    BY DEF SavedInv, FlushInv, Fresh
  <1>6. FollowInv'
    BY DEF FollowInv, FlushInv
  <1>7. CleanInv'
    BY DEF CleanInv, FollowInv
  <1>8. ServerInv'
    BY DEF ServerInv
  <1> QED BY <1>1, <1>2, <1>3, <1>4, <1>5, <1>6, <1>7, <1>8 DEF BufferInv

LEMMA SaveLandsKeeps ==
  ASSUME BufferInv, SaveLands
  PROVE  BufferInv'
  <1> USE DEF BufferInv, SaveLands, Dirty, Saving, Flushing, Reloading, Idle, Blank
  <1>1. BufferTypeOK'
    <2>1. saver.text \in Texts
      BY DEF BufferTypeOK
    <2>2. scheduled' \in SUBSET Texts /\ Cardinality(scheduled') < 2
      BY <2>1, OneText, NoText
    <2> QED BY <2>1, <2>2 DEF BufferTypeOK, Texts
  <1>2. Fresh'
    BY DEF Fresh, BufferTypeOK
  <1>3. FlushInv'
    BY DEF FlushInv
  <1>4. TypedInv'
    BY DEF TypedInv, BufferTypeOK, FlushInv, Fresh
  <1>5. SavedInv'
    BY DEF SavedInv, FlushInv, Fresh
  <1>6. FollowInv'
    BY DEF FollowInv, FlushInv
  <1>7. CleanInv'
    BY DEF CleanInv, FollowInv
  <1>8. ServerInv'
    BY DEF ServerInv
  <1> QED BY <1>1, <1>2, <1>3, <1>4, <1>5, <1>6, <1>7, <1>8 DEF BufferInv

LEMMA SaveFailsKeeps ==
  ASSUME BufferInv, SaveFails
  PROVE  BufferInv'
  <1> USE DEF BufferInv, SaveFails, Dirty, Saving, Flushing, Reloading, Idle, Blank
  <1>1. BufferTypeOK'
    BY DEF BufferTypeOK, Texts
  <1>2. Fresh'
    BY DEF Fresh, BufferTypeOK
  <1>3. FlushInv'
    BY DEF FlushInv
  <1>4. TypedInv'
    BY DEF TypedInv, BufferTypeOK, FlushInv, Fresh
  <1>5. SavedInv'
    BY DEF SavedInv, FlushInv, Fresh
  <1>6. FollowInv'
    BY DEF FollowInv, FlushInv
  <1>7. CleanInv'
    BY DEF CleanInv, FollowInv
  <1>8. ServerInv'
    BY DEF ServerInv
  <1> QED BY <1>1, <1>2, <1>3, <1>4, <1>5, <1>6, <1>7, <1>8 DEF BufferInv

LEMMA RefreshKeeps ==
  ASSUME BufferInv, NEW i \in Reloads, Refresh(i)
  PROVE  BufferInv'
  <1> USE DEF BufferInv, Refresh, Dirty, Saving, Flushing, Reloading, Idle, Blank
  <1>1. BufferTypeOK'
    <2>1. [reload[i] EXCEPT !.at = "read"] \in [at : {"idle", "read", "land"}, text : Texts]
      BY DEF BufferTypeOK
    <2>2. reload' \in [Reloads -> [at : {"idle", "read", "land"}, text : Texts]]
      BY <2>1 DEF BufferTypeOK
    <2> QED BY <2>2 DEF BufferTypeOK
  <1>2. Fresh'
    BY DEF Fresh, BufferTypeOK
  <1>3. TypedInv'
    BY DEF TypedInv, BufferTypeOK, FlushInv, Fresh
  <1>4. SavedInv'
    BY DEF SavedInv, BufferTypeOK, Texts, FlushInv, Fresh
  <1>5. FollowInv'
    BY DEF FollowInv, BufferTypeOK, Texts, FlushInv
  <1>6. FlushInv' /\ CleanInv' /\ ServerInv'
    BY DEF FlushInv, CleanInv, ServerInv
  <1> QED BY <1>1, <1>2, <1>3, <1>4, <1>5, <1>6 DEF BufferInv

LEMMA ReloadReadsKeeps ==
  ASSUME BufferInv, NEW i \in Reloads, ReloadReads(i)
  PROVE  BufferInv'
  <1> USE DEF BufferInv, ReloadReads, Dirty, Saving, Flushing, Reloading, Idle, Blank
  <1>1. BufferTypeOK'
    BY DEF BufferTypeOK, Texts
  <1>2. Fresh'
    BY DEF Fresh, BufferTypeOK
  <1>3. TypedInv'
    BY DEF TypedInv, BufferTypeOK, FlushInv, Fresh
  <1>4. SavedInv'
    BY DEF SavedInv, FlushInv, Fresh
  <1>5. FollowInv'
    BY DEF FollowInv, FlushInv
  <1>6. FlushInv' /\ CleanInv' /\ ServerInv'
    BY DEF FlushInv, CleanInv, ServerInv
  <1> QED BY <1>1, <1>2, <1>3, <1>4, <1>5, <1>6 DEF BufferInv

LEMMA ReloadLandsKeeps ==
  ASSUME BufferInv, NEW i \in Reloads, ReloadLands(i)
  PROVE  BufferInv'
  <1> USE DEF BufferInv, ReloadLands, Dirty, Saving, Flushing, Reloading, Idle, Blank, Follow
  <1>1. BufferTypeOK'
    <2>1. reload[i].text \in Texts
      BY DEF BufferTypeOK
    <2>2. scheduled' = scheduled \/ scheduled' = {reload[i].text}
      OBVIOUS
    <2>3. scheduled' \in SUBSET Texts /\ Cardinality(scheduled') < 2
      <3>1. CASE scheduled' = scheduled
        BY <3>1 DEF BufferTypeOK
      <3>2. CASE scheduled' = {reload[i].text}
        BY <3>2, <2>1, OneText
      <3> QED BY <2>2, <3>1, <3>2
    <2>4. text' \in Texts /\ loaded' \in Texts
      BY <2>1 DEF BufferTypeOK
    <2>5. reload' \in [Reloads -> [at : {"idle", "read", "land"}, text : Texts]]
      BY DEF BufferTypeOK, Texts
    <2> QED BY <2>3, <2>4, <2>5 DEF BufferTypeOK
  <1>2. Fresh'
    BY DEF Fresh, BufferTypeOK
  <1>3. TypedInv'
    BY DEF TypedInv, BufferTypeOK, FlushInv, Fresh
  <1>4. SavedInv'
    BY DEF SavedInv, FlushInv, Fresh
  <1>5. FollowInv'
    BY DEF FollowInv, FlushInv
  <1>6. FlushInv' /\ CleanInv' /\ ServerInv'
    BY DEF FlushInv, CleanInv, ServerInv
  <1> QED BY <1>1, <1>2, <1>3, <1>4, <1>5, <1>6 DEF BufferInv

LEMMA TimerFiresKeeps ==
  ASSUME BufferInv, TimerFires
  PROVE  BufferInv'
  <1> USE DEF BufferInv, TimerFires, Dirty, Saving, Flushing, Reloading, Idle, Blank
  <1>1. BufferTypeOK'
    BY NoText DEF BufferTypeOK, Texts
  <1>2. ServerInv'
    BY DEF ServerInv
  <1>3. Fresh' /\ FlushInv' /\ TypedInv' /\ SavedInv' /\ FollowInv' /\ CleanInv'
    BY DEF Fresh, FlushInv, TypedInv, SavedInv, FollowInv, CleanInv
  <1> QED BY <1>1, <1>2, <1>3 DEF BufferInv

-----------------------------------------------------------------------------

LEMMA InitHolds == ASSUME BufferInit PROVE BufferInv
  <1> USE DEF BufferInit, Idle, Blank
  <1>1. Blank \in Texts
    BY DEF Texts
  <1>2. BufferTypeOK
    <2>1. scheduled \in SUBSET Texts /\ Cardinality(scheduled) < 2
      BY NoText
    <2>2. typed \in 0 .. MaxKeys /\ writes \in 0 .. MaxWrites
      BY BuffersAssumption
    <2> QED BY <1>1, <2>1, <2>2 DEF BufferTypeOK
  <1>3. Fresh /\ FlushInv
    BY DEF Fresh, FlushInv, Flushing
  <1>4. TypedInv /\ SavedInv
    BY DEF TypedInv, SavedInv, Reloading
  <1>5. FollowInv /\ CleanInv /\ ServerInv
    BY DEF FollowInv, CleanInv, ServerInv
  <1> QED BY <1>2, <1>3, <1>4, <1>5 DEF BufferInv

LEMMA NextKeeps == ASSUME BufferInv, [BufferNext]_bufferVars PROVE BufferInv'
  <1>1. CASE UNCHANGED bufferVars
    BY <1>1 DEF bufferVars, BufferInv, BufferTypeOK, Fresh, FlushInv, TypedInv, SavedInv,
                FollowInv, CleanInv, ServerInv, Dirty, Saving, Flushing, Reloading
  <1>2. CASE Type \/ SwitchTab \/ WriteByOthers \/ FlushReads \/ FlushWrites
    BY <1>2, TypeKeeps, SwitchTabKeeps, WriteByOthersKeeps, FlushReadsKeeps, FlushWritesKeeps
  <1>3. CASE SaveBegins \/ SavingStep \/ TimerFires
    BY <1>3, SaveBeginsKeeps, SaveWritesKeeps, SaveFormatsKeeps, SaveReadsKeeps,
       SaveLandsKeeps, SaveFailsKeeps, TimerFiresKeeps DEF SavingStep
  <1>4. ASSUME NEW i \in Reloads, ReloadStep(i) PROVE BufferInv'
    BY <1>4, RefreshKeeps, ReloadReadsKeeps, ReloadLandsKeeps DEF ReloadStep
  <1> QED BY <1>1, <1>2, <1>3, <1>4 DEF BufferNext

\* The properties follow.
LEMMA InvImplies == ASSUME BufferInv PROVE BuffersOK
  <1> USE DEF BufferInv
  <1>1. BufferTypeOK
    OBVIOUS
  <1>2. hand \cap {"keys", "flush"} = {} => TypedKept
    BY DEF TypedInv, TypedKept
  <1>3. "flush" \notin hand /\ ~({"keys", "stale"} \subseteq hand) => SavedKept
    <2>1. CASE "keys" \notin hand /\ "flush" \notin hand
      BY <2>1 DEF TypedInv, SavedKept
    <2>2. CASE "stale" \notin hand /\ "flush" \notin hand
      BY <2>2 DEF SavedInv, SavedKept
    <2> QED BY <2>1, <2>2
  <1>4. hand \cap {"stale", "late", "slow", "flush"} = {} => CleanSaveHarmless
    BY DEF CleanInv, CleanSaveHarmless
  <1>5. hand \cap {"late", "slow", "flush"} = {} => BufferFollows
    BY DEF FollowInv, BufferFollows, AtEase, Saving
  <1>6. "hidden" \notin hand => ServerInStep
    BY DEF ServerInv, ServerInStep, AtEase
  <1> QED BY <1>1, <1>2, <1>3, <1>4, <1>5, <1>6 DEF BuffersOK

\* Under the complications that each part allows, what was typed stays in the
\* buffer and what was saved on disk, a clean save takes nobody's write back, and
\* at rest a clean buffer is the file and the language server has its text.
THEOREM BuffersKept == BufferSpec => []BuffersOK
  <1>1. BufferInit => BufferInv
    BY InitHolds
  <1>2. BufferInv /\ [BufferNext]_bufferVars => BufferInv'
    BY NextKeeps
  <1>3. BufferInv => BuffersOK
    BY InvImplies
  <1> QED BY <1>1, <1>2, <1>3, PTL DEF BufferSpec

-----------------------------------------------------------------------------
(* FileWatch: from a change on disk to the tree and the language servers.  *)
Kinds == {"created", "changed", "deleted", "renamed"}
Events == [root : Roots, name : Names, kind : Kinds]
Batches == UNION {[S -> Kinds] : S \in SUBSET Names}
Payloads == [kinds : Batches, topology : BOOLEAN]
WatchTyped ==
  /\ whim \in Whims /\ files \in [Roots -> [Names -> Nat]] /\ ops \in Nat
  /\ raw \in Seq(Events) /\ cmds \in Seq(Roots) /\ aimed \in Roots
  /\ listed \in BOOLEAN /\ covered \in BOOLEAN /\ (covered => listed)
  /\ batch \in Batches /\ topology \in BOOLEAN /\ armed \in BOOLEAN /\ cool \in BOOLEAN
  /\ payloads \in Seq(Payloads) /\ active \in Roots
  /\ click \in [Switches -> [at : {"idle", "aim", "adopt", "done"}, root : Roots]]
  /\ folder \in Roots /\ tree \in [Roots -> SUBSET Names]
  /\ walk \in [at : {"no", "read", "land"}, by : {"refresh", "adopt"}, got : SUBSET Names]
  /\ strays \in Nat /\ deferred \in {"no", "paths", "topology"} /\ servers \in [Names -> Nat]

\* A switch supersedes one walk at most.
Adopted == {c \in Switches : click[c].at = "done"}
StraysCounted == strays <= Cardinality(Adopted)

\* Switches that do not overlap: the watcher is, or will be, pointed at the active folder.
InSwitch(c) == click[c].at \in {"aim", "adopt"}
Aims ==
  /\ \A b, c \in Switches : InSwitch(b) /\ InSwitch(c) => b = c
  /\ \A c \in Switches : InSwitch(c) => click[c].root = active
  /\ (\A c \in Switches : ~InSwitch(c)) => folder = active
  /\ (\A c \in Switches : click[c].at # "aim") =>
       IF cmds = <<>> THEN aimed = active ELSE cmds[Len(cmds)] = active

\* Nothing is pending while the folder changes or the watcher is pointed anew.
InBetween == (\E c \in Switches : InSwitch(c)) \/ cmds # <<>> \/ walk.by = "adopt"
Still == InBetween => raw = <<>> /\ batch = NoBatch /\ payloads = <<>>
Steps ==
  /\ strays = 0
  /\ (\E c \in Switches : InSwitch(c)) => walk = NoWalk
  /\ \A c \in Switches : InSwitch(c) => click[c].root # folder
  /\ walk.at = "no" => walk = NoWalk
  /\ deferred = "topology" => walk.at # "no" /\ walk.by = "refresh"
  /\ topology => batch # NoBatch
  /\ \A i \in DOMAIN raw : raw[i].root = aimed

\* A directory that exists is watched unless it has just been made; nothing in it is missed.
DirOf(r) == files[r]["d"]
Covers ==
  /\ \A r \in Roots : files[r]["g"] # 0 => DirOf(r) # 0
  /\ listed /\ DirOf(aimed) # 0 => covered
  /\ "rename" \notin whim /\ ~listed /\ DirOf(aimed) # 0 =>
       \E i \in DOMAIN raw : raw[i].name = "d" /\ raw[i].kind = "created"
  /\ "mkdir" \notin whim /\ files[aimed]["g"] # 0 => covered

\* A tree that is not what is on disk will be walked.
Coming ==
  \/ \E i \in DOMAIN raw : raw[i].kind # "changed"
  \/ topology \/ deferred = "topology"
  \/ \E i \in DOMAIN payloads : payloads[i].topology
Shown == IF walk.at = "land" THEN walk.got ELSE tree[folder]
Walked == walk.at = "read" \/ Shown = There(folder) \/ Coming

\* What is last on its way of a file says whether it is still there.
InRaw(n) == \E i \in DOMAIN raw : raw[i].name = n
Gone(n) == files[folder][n] = 0
Bears(i, n) == n \in DOMAIN payloads[i].kinds
LastWord(n) ==
  /\ InRaw(n) => (Gone(n) <=> \E i \in DOMAIN raw : raw[i].name = n /\ raw[i].kind = "deleted")
  /\ \A i, j \in DOMAIN raw : raw[i].name = n /\ raw[i].kind = "deleted" /\ raw[j].name = n => j <= i
  /\ n \in DOMAIN batch /\ batch[n] = "deleted" => ~InRaw(n)
  /\ n \in DOMAIN batch /\ ~InRaw(n) => (batch[n] = "deleted" <=> Gone(n))
  /\ n \notin DOMAIN batch /\ ~InRaw(n) =>
       \A i \in DOMAIN payloads : Bears(i, n) /\ (\A j \in DOMAIN payloads : Bears(j, n) => j <= i) =>
          (payloads[i].kinds[n] = "deleted" <=> Gone(n))
  /\ n \notin DOMAIN batch /\ ~InRaw(n) /\ (\A i \in DOMAIN payloads : ~Bears(i, n)) =>
       servers[n] = files[folder][n]

WatchInv ==
  /\ WatchTyped /\ StraysCounted /\ FlushDue
  /\ "quick" \notin whim => Aims
  /\ TreeSafe => Still /\ Steps /\ Covers /\ Walked
  /\ whim = {} => \A n \in Names : LastWord(n)


LEMMA BatchEmpty ==
  ASSUME NEW b \in Batches
  PROVE  /\ b = NoBatch <=> DOMAIN b = {}
         /\ DOMAIN b \subseteq Names /\ \A n \in DOMAIN b : b[n] \in Kinds
  <1>1. PICK S \in SUBSET Names : b \in [S -> Kinds]
    BY DEF Batches
  <1>2. DOMAIN b = S /\ \A n \in S : b[n] \in Kinds
    BY <1>1
  <1>3. DOMAIN NoBatch = {}
    BY DEF NoBatch
  <1>4. ASSUME DOMAIN b = {} PROVE b = NoBatch
    BY <1>1, <1>2, <1>4 DEF NoBatch
  <1> QED BY <1>2, <1>3, <1>4

LEMMA NoBatchTyped == NoBatch \in Batches /\ DOMAIN NoBatch = {}
  <1>1. NoBatch \in [{} -> Kinds]
    BY DEF NoBatch
  <1>2. DOMAIN NoBatch = {}
    BY DEF NoBatch
  <1> QED BY <1>1, <1>2 DEF Batches

LEMMA RecordedTyped ==
  ASSUME WatchTyped, NEW n \in Names, NEW k \in Kinds
  PROVE  /\ Recorded(n, k) \in Batches /\ DOMAIN Recorded(n, k) = DOMAIN batch \cup {n}
         /\ \A m \in DOMAIN batch : m # n => Recorded(n, k)[m] = batch[m]
         /\ n \notin DOMAIN batch => Recorded(n, k)[n] = k
         /\ n \in DOMAIN batch =>
              Recorded(n, k)[n] = IF Rank(batch[n]) >= Rank(k) THEN batch[n] ELSE k
  <1>1. batch \in Batches
    BY DEF WatchTyped
  <1>2. DOMAIN batch \subseteq Names /\ \A m \in DOMAIN batch : batch[m] \in Kinds
    BY <1>1, BatchEmpty
  <1>3. Recorded(n, k) \in [DOMAIN batch \cup {n} -> Kinds]
    BY <1>2 DEF Recorded
  <1>4. DOMAIN batch \cup {n} \in SUBSET Names
    BY <1>2
  <1>5. Recorded(n, k) \in Batches
    BY <1>3, <1>4 DEF Batches
  <1> QED BY <1>5 DEF Recorded

LEMMA OneLeft ==
  ASSUME NEW S, NEW s \in Seq(S), s # <<>>, Tail(s) = <<>>
  PROVE  Len(s) = 1
  <1>1. Len(Tail(s)) = Len(s) - 1 /\ Len(s) \in Nat
    OBVIOUS
  <1>2. Len(Tail(s)) = 0
    <2>1. Len(<<>>) = 0
      OBVIOUS
    <2> QED BY <2>1
  <1> QED BY <1>1, <1>2

LEMMA WatchInitHolds == ASSUME WatchInit PROVE WatchInv
  <1> USE FileWatchAssumption DEF WatchInit
  <1>0. FirstRoot \in Roots /\ {} \subseteq Names /\ {"f"} \subseteq Names /\ "f" \in Names
    BY DEF Names
  <1>1. WatchTyped
    <2>1. /\ files \in [Roots -> [Names -> Nat]] /\ tree \in [Roots -> SUBSET Names]
          /\ click \in [Switches -> [at : {"idle", "aim", "adopt", "done"}, root : Roots]]
      BY <1>0
    <2>2. servers \in [Names -> Nat]
      BY <1>0, <2>1
    <2>3. batch \in Batches
      BY NoBatchTyped
    <2>4. walk \in [at : {"no", "read", "land"}, by : {"refresh", "adopt"}, got : SUBSET Names]
      BY <1>0 DEF NoWalk
    <2>5. raw \in Seq(Events) /\ cmds \in Seq(Roots) /\ payloads \in Seq(Payloads)
      OBVIOUS
    <2> QED BY <1>0, <2>1, <2>2, <2>3, <2>4, <2>5 DEF WatchTyped
  <1>2. StraysCounted
    <2>1. Adopted = {}
      BY DEF Adopted
    <2> QED BY <2>1, FS_EmptySet DEF StraysCounted
  <1>3. \A c \in Switches : ~InSwitch(c)
    BY DEF InSwitch
  <1>4. Aims
    BY <1>3 DEF Aims
  <1>5. Steps /\ Still
    BY <1>3 DEF Steps, Still, InBetween, NoWalk
  <1>6. Covers
    BY <1>0 DEF Covers, DirOf, Names
  <1>7. Walked
    <2>1. Shown = {"f"} /\ There(folder) = {"f"}
      BY <1>0 DEF Shown, There, NoWalk, Names
    <2> QED BY <2>1 DEF Walked
  <1>8. \A n \in Names : LastWord(n)
    BY NoBatchTyped DEF LastWord, InRaw
  <1> QED BY <1>1, <1>2, <1>4, <1>5, <1>6, <1>7, <1>8 DEF WatchInv, FlushDue


LEMMA SwitchingIs ==
  ASSUME WatchTyped
  PROVE  Switching <=> \E c \in Switches : InSwitch(c)
  BY DEF WatchTyped, Switching, InSwitch

\* What a change on disk is: of a file that is there, or the making of one that is not.
Changed(r, n, v, k) ==
  /\ Change(r, n, v, k)
  /\ v = 0 => files[r][n] # 0 /\ k \in {"deleted", "renamed"} /\ (n = "d" => files[r]["g"] = 0)
  /\ files[r][n] = 0 => MayMake(r, n) /\ k \in {"created", "renamed"}
  /\ files[r][n] # 0 /\ v # 0 => k = "changed"
  /\ k = "renamed" => "rename" \in whim
  /\ covered' = IF n = "d" /\ r = aimed /\ v = 0 THEN FALSE ELSE covered

LEMMA DiskSteps ==
  ASSUME WatchTyped, NEW r \in Roots, NEW n \in Names,
         WriteFile(r, n) \/ MakeFile(r, n) \/ RemoveFile(r, n) \/ MoveIn(r, n) \/ MoveOut(r, n)
  PROVE  \E v \in Nat, k \in Kinds : Changed(r, n, v, k)
  <1>1. ops + 1 \in Nat /\ ops + 1 # 0 /\ 0 \in Nat
    BY DEF WatchTyped
  <1>2. CASE WriteFile(r, n)
    <2>1. Changed(r, n, ops + 1, "changed")
      BY <1>1, <1>2 DEF WriteFile, Changed, WatchTyped
    <2> QED BY <1>1, <2>1 DEF Kinds
  <1>3. CASE MakeFile(r, n)
    <2>1. Changed(r, n, ops + 1, "created")
      BY <1>1, <1>3 DEF MakeFile, MayMake, Changed, WatchTyped
    <2> QED BY <1>1, <2>1 DEF Kinds
  <1>4. CASE RemoveFile(r, n)
    <2>1. covered' = IF n = "d" /\ r = aimed THEN FALSE ELSE covered
      <3>1. covered \in BOOLEAN
        BY DEF WatchTyped
      <3>2. CASE n = "d" /\ r = aimed
        BY <1>4, <3>2 DEF RemoveFile
      <3>3. CASE ~(n = "d" /\ r = aimed)
        BY <1>4, <3>1, <3>3 DEF RemoveFile
      <3> QED BY <3>2, <3>3
    <2>2. Changed(r, n, 0, "deleted")
      BY <1>4, <2>1 DEF RemoveFile, Changed
    <2> QED BY <1>1, <2>2 DEF Kinds
  <1>5. CASE MoveIn(r, n)
    <2>1. Changed(r, n, ops + 1, "renamed")
      BY <1>1, <1>5 DEF MoveIn, MayMake, Changed, WatchTyped
    <2> QED BY <1>1, <2>1 DEF Kinds
  <1>6. CASE MoveOut(r, n)
    <2>1. Changed(r, n, 0, "renamed")
      BY <1>1, <1>6 DEF MoveOut, Changed, WatchTyped
    <2> QED BY <1>1, <2>1 DEF Kinds
  <1> QED BY <1>2, <1>3, <1>4, <1>5, <1>6

\* The events that are pending, and one more when the watcher sees the change.
LEMMA ChangeSeen ==
  ASSUME WatchTyped, NEW r \in Roots, NEW n \in Names, NEW v \in Nat, NEW k \in Kinds, Changed(r, n, v, k)
  PROVE  /\ WatchTyped'
         /\ \A q \in Roots, m \in Names : files'[q][m] = IF q = r /\ m = n THEN v ELSE files[q][m]
         /\ \A i \in DOMAIN raw : i \in DOMAIN raw' /\ raw'[i] = raw[i]
         /\ ~Seen(r, n) => raw' = raw
         /\ Seen(r, n) =>
              /\ DOMAIN raw' = DOMAIN raw \cup {Len(raw) + 1} /\ DOMAIN raw = 1 .. Len(raw)
              /\ raw'[Len(raw) + 1] = [root |-> r, name |-> n, kind |-> k] /\ Len(raw) \in Nat
  <1> USE DEF Changed, Change
  <1>1. raw \in Seq(Events) /\ [root |-> r, name |-> n, kind |-> k] \in Events
    BY DEF WatchTyped, Events
  <1>2. PICK e \in Events : e = [root |-> r, name |-> n, kind |-> k]
    BY <1>1
  <1>3. /\ Append(raw, e) \in Seq(Events) /\ DOMAIN raw = 1 .. Len(raw) /\ Len(raw) \in Nat
        /\ DOMAIN Append(raw, e) = 1 .. Len(raw) + 1 /\ Append(raw, e)[Len(raw) + 1] = e
        /\ \A i \in 1 .. Len(raw) : Append(raw, e)[i] = raw[i]
    BY <1>1
  <1>4. raw' \in Seq(Events)
    BY <1>1, <1>2, <1>3
  <1>5. files \in [Roots -> [Names -> Nat]] /\ files' = [files EXCEPT ![r][n] = v]
    BY DEF WatchTyped
  <1>6. /\ files' \in [Roots -> [Names -> Nat]]
        /\ \A q \in Roots, m \in Names : files'[q][m] = IF q = r /\ m = n THEN v ELSE files[q][m]
    BY <1>5
  <1>7. WatchTyped'
    <2>1. covered' \in BOOLEAN /\ (covered' => listed')
      <3>1. covered \in BOOLEAN /\ (covered => listed) /\ listed' = listed
        BY DEF WatchTyped
      <3>2. covered' = IF n = "d" /\ r = aimed /\ v = 0 THEN FALSE ELSE covered
        OBVIOUS
      <3> HIDE DEF Changed, Change
      <3> QED BY <3>1, <3>2
    <2>2. ops' \in Nat
      BY DEF WatchTyped
    <2> QED BY <1>4, <1>6, <2>1, <2>2 DEF WatchTyped, desktopVars, windowVarsOf
  <1>8. ~Seen(r, n) => raw' = raw
    OBVIOUS
  <1>9. Seen(r, n) => raw' = Append(raw, e)
    BY <1>2
  <1>10. 1 .. Len(raw) + 1 = (1 .. Len(raw)) \cup {Len(raw) + 1}
    BY <1>3
  <1> HIDE DEF Changed, Change
  <1> QED BY <1>2, <1>3, <1>6, <1>7, <1>8, <1>9, <1>10

\* No event is missed of a file that has one to tell: what the watcher does not see is in a
\* directory whose making it has still to hear of.
LEMMA Unseen ==
  ASSUME WatchTyped, TreeSafe, Covers, NEW n \in Names, NEW v \in Nat, NEW k \in Kinds,
         Changed(aimed, n, v, k), ~Seen(aimed, n)
  PROVE  /\ "mkdir" \in whim
         /\ \E i \in DOMAIN raw : raw[i].name = "d" /\ raw[i].kind = "created"
  <1>1. n = "g" /\ ~covered
    BY DEF Seen
  <1>2. aimed \in Roots /\ files[aimed]["d"] # 0
    BY <1>1 DEF WatchTyped, Covers, DirOf, Changed, MayMake
  <1>3. ~listed
    BY <1>1, <1>2 DEF Covers, DirOf
  <1>4. "mkdir" \in whim
    BY <1>1, <1>2, <1>3 DEF Covers, DirOf, Changed, MayMake
  <1>5. "rename" \notin whim
    BY <1>4 DEF TreeSafe
  <1> QED BY <1>2, <1>3, <1>4, <1>5 DEF Covers, DirOf

LEMMA DiskSafe ==
  ASSUME WatchInv, TreeSafe, NEW r \in Roots, NEW n \in Names, NEW v \in Nat, NEW k \in Kinds,
         Changed(r, n, v, k)
  PROVE  Still' /\ Steps' /\ Covers' /\ Walked' /\ folder = aimed
  <1>0. /\ WatchTyped /\ Still /\ Steps /\ Covers /\ Walked /\ Aims /\ "busy" \notin whim
        /\ "remade" \notin whim
    BY DEF WatchInv, TreeSafe
  <1>1. /\ WatchTyped'
        /\ \A q \in Roots, m \in Names : files'[q][m] = IF q = r /\ m = n THEN v ELSE files[q][m]
        /\ \A i \in DOMAIN raw : i \in DOMAIN raw' /\ raw'[i] = raw[i]
        /\ ~Seen(r, n) => raw' = raw
        /\ Seen(r, n) =>
             /\ DOMAIN raw' = DOMAIN raw \cup {Len(raw) + 1} /\ DOMAIN raw = 1 .. Len(raw)
             /\ raw'[Len(raw) + 1] = [root |-> r, name |-> n, kind |-> k] /\ Len(raw) \in Nat
    BY <1>0, ChangeSeen
  <1>2. /\ ~InBetween /\ ~Switching /\ cmds = <<>> /\ walk.by # "adopt"
        /\ UNCHANGED <<whim, cmds, aimed, listed, batch, topology, payloads, active, click, folder, tree,
                       walk, strays, deferred, servers>>
    BY <1>0, SwitchingIs DEF Changed, Change, InBetween, desktopVars, windowVarsOf
  <1>3. \A c \in Switches : ~InSwitch(c)
    BY <1>0, <1>2, SwitchingIs
  <1>4. folder = aimed /\ folder = active /\ folder \in Roots
    BY <1>0, <1>2, <1>3 DEF Aims, InSwitch, WatchTyped
  <1>5. Still'
    BY <1>2 DEF Still, InBetween, InSwitch
  <1>6. Steps'
    <2>1. \A i \in DOMAIN raw' : raw'[i].root = aimed
      BY <1>0, <1>1 DEF Steps, Seen
    <2> QED BY <1>0, <1>2, <2>1 DEF Steps, InSwitch, NoWalk, NoBatch
  <1>7. Covers'
    <2>0. "d" \in Names /\ "g" \in Names /\ aimed \in Roots
      BY <1>4 DEF Names
    <2>1. \A q \in Roots : files'[q]["g"] # 0 => files'[q]["d"] # 0
      BY <1>0, <1>1, <2>0 DEF Covers, DirOf, Changed, MayMake
    <2>2. listed /\ files'[aimed]["d"] # 0 => covered'
      BY <1>0, <1>1, <2>0 DEF Covers, DirOf, Changed, MayMake
    <2>3. ASSUME "rename" \notin whim, ~listed, files'[aimed]["d"] # 0
          PROVE  \E i \in DOMAIN raw' : raw'[i].name = "d" /\ raw'[i].kind = "created"
      <3>1. CASE files[aimed]["d"] # 0
        BY <1>0, <1>1, <2>3, <3>1 DEF Covers, DirOf
      <3>2. CASE files[aimed]["d"] = 0
        <4>1. r = aimed /\ n = "d" /\ k = "created" /\ Seen(r, n)
          BY <1>1, <2>0, <2>3, <3>2 DEF Changed, Seen
        <4>2. Len(raw) + 1 \in DOMAIN raw' /\ raw'[Len(raw) + 1].name = "d" /\ raw'[Len(raw) + 1].kind = "created"
          BY <1>1, <4>1
        <4> QED BY <4>2
      <3> QED BY <3>1, <3>2
    <2>4. "mkdir" \notin whim /\ files'[aimed]["g"] # 0 => covered'
      BY <1>0, <1>1, <2>0 DEF Covers, DirOf, Changed, MayMake
    <2> QED BY <1>2, <2>1, <2>2, <2>3, <2>4 DEF Covers, DirOf
  <1>8. Walked'
    <2>1. Shown' = Shown
      BY <1>2 DEF Shown
    <2>2. Coming => Coming'
      <3>1. (\E i \in DOMAIN raw : raw[i].kind # "changed") => \E i \in DOMAIN raw' : raw'[i].kind # "changed"
        BY <1>1
      <3> QED BY <1>2, <3>1 DEF Coming
    <2>3. There(folder)' = There(folder) \/ Coming'
      <3>1. CASE r # folder
        BY <1>1, <1>2, <1>4, <3>1 DEF There
      <3>2. CASE r = folder /\ ~Seen(r, n)
        <4>1. \E i \in DOMAIN raw : raw[i].name = "d" /\ raw[i].kind = "created"
          BY <1>0, <1>4, <3>2, Unseen
        <4> QED BY <2>2, <4>1 DEF Coming
      <3>3. CASE r = folder /\ Seen(r, n) /\ k # "changed"
        <4>1. Len(raw) + 1 \in DOMAIN raw' /\ raw'[Len(raw) + 1].kind # "changed"
          BY <1>1, <3>3
        <4> QED BY <4>1 DEF Coming
      <3>4. CASE k = "changed"
        <4>1. v # 0 /\ files[r][n] # 0
          BY <3>4 DEF Changed
        <4> QED BY <1>1, <1>2, <1>4, <4>1 DEF There
      <3> QED BY <3>1, <3>2, <3>3, <3>4
    <2> QED BY <1>0, <1>2, <2>1, <2>2, <2>3 DEF Walked
  <1> QED BY <1>4, <1>5, <1>6, <1>7, <1>8


\* A change of one file leaves the words on the others alone, and adds the last on its own.
LEMMA DiskWords ==
  ASSUME WatchInv, whim = {}, NEW r \in Roots, NEW n \in Names, NEW v \in Nat, NEW k \in Kinds,
         Changed(r, n, v, k), NEW m \in Names
  PROVE  LastWord(m)'
  <1>0. WatchTyped /\ TreeSafe /\ Covers /\ LastWord(m)
    BY DEF WatchInv, TreeSafe
  <1>1. /\ WatchTyped'
        /\ \A q \in Roots, x \in Names : files'[q][x] = IF q = r /\ x = n THEN v ELSE files[q][x]
        /\ \A i \in DOMAIN raw : i \in DOMAIN raw' /\ raw'[i] = raw[i]
        /\ ~Seen(r, n) => raw' = raw
        /\ Seen(r, n) =>
             /\ DOMAIN raw' = DOMAIN raw \cup {Len(raw) + 1} /\ DOMAIN raw = 1 .. Len(raw)
             /\ raw'[Len(raw) + 1] = [root |-> r, name |-> n, kind |-> k] /\ Len(raw) \in Nat
    BY <1>0, ChangeSeen
  <1>2. folder = aimed /\ folder \in Roots
    BY <1>0, DiskSafe DEF WatchTyped
  <1>3. UNCHANGED <<batch, payloads, folder, servers>>
    BY DEF Changed, Change, windowVarsOf
  <1>4. CASE raw' = raw \/ m # n
    <2>1. Gone(m)' <=> Gone(m)
      <3>1. r # folder \/ m # n
        <4>1. ASSUME Seen(r, n), raw' = raw PROVE FALSE
          <5>1. Len(raw) + 1 \in 1 .. Len(raw) /\ Len(raw) \in Nat
            BY <1>1, <4>1
          <5> QED BY <5>1
        <4> QED BY <1>0, <1>2, <1>4, <4>1, Unseen
      <3> QED BY <1>1, <1>2, <1>3, <3>1 DEF Gone
    <2>2. files'[folder][m] = files[folder][m]
      <3>1. r # folder \/ m # n
        <4>1. ASSUME Seen(r, n), raw' = raw PROVE FALSE
          <5>1. Len(raw) + 1 \in 1 .. Len(raw) /\ Len(raw) \in Nat
            BY <1>1, <4>1
          <5> QED BY <5>1
        <4> QED BY <1>0, <1>2, <1>4, <4>1, Unseen
      <3> QED BY <1>1, <1>2, <3>1
    <2>3. \A i \in DOMAIN raw' : raw'[i].name = m => i \in DOMAIN raw
      BY <1>1, <1>4
    <2>4. InRaw(m)' <=> InRaw(m)
      BY <1>1, <2>3 DEF InRaw
    <2>5. (\E i \in DOMAIN raw' : raw'[i].name = m /\ raw'[i].kind = "deleted")
            <=> \E i \in DOMAIN raw : raw[i].name = m /\ raw[i].kind = "deleted"
      BY <1>1, <2>3
    <2>6. \A i, j \in DOMAIN raw' : raw'[i].name = m /\ raw'[i].kind = "deleted" /\ raw'[j].name = m => j <= i
      BY <1>0, <1>1, <2>3 DEF LastWord
    <2> QED BY <1>0, <1>3, <2>1, <2>2, <2>4, <2>5, <2>6 DEF LastWord, Bears
  <1>5. CASE m = n /\ raw' # raw
    <2>1. Seen(r, n) /\ r = folder
      BY <1>1, <1>2, <1>5 DEF Seen
    <2>2. /\ DOMAIN raw' = DOMAIN raw \cup {Len(raw) + 1} /\ DOMAIN raw = 1 .. Len(raw)
          /\ raw'[Len(raw) + 1].name = n /\ raw'[Len(raw) + 1].kind = k /\ Len(raw) \in Nat
      BY <1>1, <2>1
    <2>3. v = 0 <=> k = "deleted"
      BY <1>0 DEF Changed
    <2>4. ~\E i \in DOMAIN raw : raw[i].name = n /\ raw[i].kind = "deleted"
      BY <1>0, <1>5, <2>1 DEF LastWord, InRaw, Gone, Changed, MayMake, IsPending
    <2>5. n \in DOMAIN batch => batch[n] # "deleted"
      BY <1>0, <1>5, <2>1 DEF LastWord, InRaw, Gone, Changed, MayMake, IsPending
    <2>6. InRaw(n)'
      BY <2>2 DEF InRaw
    <2>7. Gone(n)' <=> v = 0
      BY <1>1, <1>2, <1>3, <2>1 DEF Gone
    <2>8. (\E i \in DOMAIN raw' : raw'[i].name = n /\ raw'[i].kind = "deleted") <=> k = "deleted"
      BY <1>1, <2>2, <2>4
    <2>9. \A i, j \in DOMAIN raw' : raw'[i].name = n /\ raw'[i].kind = "deleted" => i = Len(raw) + 1 /\ j <= i
      BY <1>1, <2>2, <2>4
    <2> QED BY <1>3, <1>5, <2>3, <2>5, <2>6, <2>7, <2>8, <2>9 DEF LastWord
  <1> QED BY <1>4, <1>5

LEMMA DiskKeeps == ASSUME WatchInv, DiskStep PROVE WatchInv'
  <1>0. WatchTyped
    BY DEF WatchInv
  <1>1. PICK r \in Roots, n \in Names, v \in Nat, k \in Kinds : Changed(r, n, v, k)
    BY <1>0, DiskSteps DEF DiskStep
  <1>2. WatchTyped'
    BY <1>0, <1>1, ChangeSeen
  <1>3. UNCHANGED <<whim, click, strays, batch, armed, active, folder, cmds, aimed>>
    BY <1>1 DEF Changed, Change, desktopVars, windowVarsOf
  <1>4. StraysCounted' /\ FlushDue'
    BY <1>3 DEF WatchInv, StraysCounted, Adopted, FlushDue, NoBatch
  <1>5. "quick" \notin whim => Aims'
    BY <1>3 DEF WatchInv, Aims, InSwitch
  <1>6. TreeSafe => Still' /\ Steps' /\ Covers' /\ Walked'
    BY <1>1, DiskSafe
  <1>7. whim = {} => \A m \in Names : LastWord(m)'
    BY <1>1, DiskWords
  <1>8. TreeSafe' <=> TreeSafe
    BY <1>3 DEF TreeSafe
  <1> QED BY <1>2, <1>3, <1>4, <1>5, <1>6, <1>7, <1>8 DEF WatchInv


LEMMA SetRootKeeps == ASSUME WatchInv, SetRoot PROVE WatchInv'
  <1> USE DEF SetRoot, Attach, diskVars, desktopVars, windowVarsOf
  <1>0. WatchTyped /\ cmds \in Seq(Roots) /\ cmds # <<>>
    BY DEF WatchInv, WatchTyped
  <1>1. Head(cmds) \in Roots /\ Tail(cmds) \in Seq(Roots) /\ Head(cmds) = cmds[1] /\ Len(cmds) \in Nat \ {0}
    BY <1>0
  <1>2. WatchTyped'
    <2>1. covered' = listed' /\ listed' \in BOOLEAN /\ batch' \in Batches
      BY NoBatchTyped
    <2> QED BY <1>0, <1>1, <2>1 DEF WatchTyped
  <1>3. StraysCounted' /\ FlushDue'
    BY DEF WatchInv, StraysCounted, Adopted, FlushDue, NoBatch
  <1>4. ASSUME "quick" \notin whim PROVE Aims'
    <2>1. Tail(cmds) = <<>> => Len(cmds) = 1
      BY <1>0, OneLeft
    <2>2. Tail(cmds) # <<>> => Tail(cmds)[Len(Tail(cmds))] = cmds[Len(cmds)]
      BY <1>0
    <2> QED BY <1>0, <1>1, <1>4, <2>1, <2>2 DEF WatchInv, Aims, InSwitch
  <1>5. ASSUME TreeSafe PROVE Still' /\ Steps' /\ Covers' /\ Walked'
    <2>1. Still /\ Steps /\ Covers /\ Walked
      BY <1>5 DEF WatchInv
    <2>2. raw = <<>> /\ batch = NoBatch /\ payloads = <<>> /\ ~topology
      BY <1>0, <2>1 DEF Still, InBetween, Steps, WatchTyped
    <2>3. Still'
      BY <2>2 DEF Still, NoBatch
    <2>4. Steps'
      BY <2>1, <2>2 DEF Steps, InSwitch, NoWalk
    <2>5. Covers'
      <3>1. aimed' \in Roots /\ files' = files /\ listed' = (files[aimed']["d"] # 0) /\ covered' = listed'
        BY <1>1
      <3>2. \A q \in Roots : files[q]["g"] # 0 => files[q]["d"] # 0
        BY <2>1 DEF Covers, DirOf
      <3> HIDE DEF SetRoot, Attach
      <3>3. files'[aimed']["d"] # 0 => listed' /\ covered'
        BY <3>1
      <3>4. files'[aimed']["g"] # 0 => files'[aimed']["d"] # 0
        BY <3>1, <3>2
      <3> QED BY <3>1, <3>2, <3>3, <3>4 DEF Covers, DirOf
    <2>6. Walked'
      BY <2>1, <2>2 DEF Walked, Coming, Shown, There
    <2> QED BY <2>3, <2>4, <2>5, <2>6
  <1>6. ASSUME whim = {}, NEW n \in Names PROVE LastWord(n)'
    <2>1. Still /\ LastWord(n)
      BY <1>6 DEF WatchInv, TreeSafe
    <2>2. batch' = batch /\ raw' = raw
      BY <1>0, <2>1 DEF Still, InBetween
    <2> QED BY <2>1, <2>2 DEF LastWord, InRaw, Gone, Bears
  <1>7. TreeSafe' <=> TreeSafe
    BY DEF TreeSafe
  <1> QED BY <1>2, <1>3, <1>4, <1>5, <1>6, <1>7 DEF WatchInv

\* The event that the actor takes, and the ones behind it.
LEMMA HeadTaken ==
  ASSUME WatchTyped, raw # <<>>, raw' = Tail(raw)
  PROVE  /\ raw[1] = Head(raw) /\ raw[1] \in Events /\ 1 \in DOMAIN raw /\ raw' \in Seq(Events)
         /\ DOMAIN raw' \subseteq Nat /\ DOMAIN raw \subseteq Nat
         /\ \A i \in DOMAIN raw' : i + 1 \in DOMAIN raw /\ raw'[i] = raw[i + 1]
         /\ \A i \in DOMAIN raw : i # 1 => i - 1 \in DOMAIN raw' /\ raw'[i - 1] = raw[i]
  <1>1. raw \in Seq(Events) /\ Len(raw) \in Nat \ {0}
    BY DEF WatchTyped
  <1>2. DOMAIN raw = 1 .. Len(raw) /\ DOMAIN Tail(raw) = 1 .. Len(raw) - 1 /\ Tail(raw) \in Seq(Events)
    BY <1>1
  <1>3. \A i \in 1 .. Len(raw) - 1 : Tail(raw)[i] = raw[i + 1]
    BY <1>1
  <1>4. raw[1] = Head(raw) /\ raw[1] \in Events
    BY <1>1
  <1> QED BY <1>1, <1>2, <1>3, <1>4

\* What becomes of the event e: it opens a payload, or joins the batch.
Told(e, topo) ==
  \/ /\ cool /\ e.name \notin DOMAIN batch
     /\ Emitted(Recorded(e.name, e.kind), topo)
  \/ /\ ~(cool /\ e.name \notin DOMAIN batch)
     /\ batch' = Recorded(e.name, e.kind) /\ topology' = topo
     /\ armed' = (armed \/ e.name \notin DOMAIN batch)
     /\ UNCHANGED <<cool, payloads>>

LEMMA EventTaken ==
  ASSUME WatchTyped, TakeEvent
  PROVE  /\ cmds = <<>> /\ raw # <<>> /\ raw' = Tail(raw)
         /\ UNCHANGED <<whim, files, ops, cmds, aimed, active, click, folder, tree, walk, strays, deferred, servers>>
         /\ \/ raw[1].root # aimed /\ UNCHANGED <<listed, covered, batch, topology, armed, cool, payloads>>
            \/ raw[1].root = aimed /\ AddSubtree(raw[1]) /\ Told(raw[1], topology \/ raw[1].kind # "changed")
  <1>1. raw # <<>> /\ raw' = Tail(raw) /\ cmds = <<>>
    BY DEF TakeEvent
  <1>2. Head(raw) = raw[1]
    BY <1>1, HeadTaken
  <1> QED BY <1>1, <1>2 DEF TakeEvent, Told, diskVars, desktopVars, windowVarsOf

LEMMA ToldTyped ==
  ASSUME WatchTyped, FlushDue, NEW e \in Events, NEW topo \in BOOLEAN, Told(e, topo)
  PROVE  /\ batch' \in Batches /\ topology' \in BOOLEAN /\ armed' \in BOOLEAN /\ cool' \in BOOLEAN
         /\ payloads' \in Seq(Payloads) /\ (batch' # NoBatch => armed') /\ (topology' => batch' # NoBatch)
         /\ topo => topology' \/ \E i \in DOMAIN payloads' : payloads'[i].topology
         /\ \A i \in DOMAIN payloads : i \in DOMAIN payloads' /\ payloads'[i] = payloads[i]
  <1>0. /\ batch \in Batches /\ payloads \in Seq(Payloads) /\ armed \in BOOLEAN /\ cool \in BOOLEAN
        /\ e.name \in Names /\ e.kind \in Kinds
    BY DEF WatchTyped, Events
  <1>1. /\ Recorded(e.name, e.kind) \in Batches
        /\ DOMAIN Recorded(e.name, e.kind) = DOMAIN batch \cup {e.name}
    BY <1>0, RecordedTyped
  <1>2. Recorded(e.name, e.kind) # NoBatch
    BY <1>1, NoBatchTyped
  <1>3. CASE cool /\ e.name \notin DOMAIN batch /\ Emitted(Recorded(e.name, e.kind), topo)
    <2>1. PICK p \in Payloads : p = [kinds |-> Recorded(e.name, e.kind), topology |-> topo]
      BY <1>1 DEF Payloads
    <2>2. payloads' = Append(payloads, p) /\ p.topology = topo
      BY <1>3, <2>1 DEF Emitted
    <2>3. /\ payloads' \in Seq(Payloads) /\ Len(payloads) + 1 \in DOMAIN payloads'
          /\ payloads'[Len(payloads) + 1] = p
          /\ \A i \in DOMAIN payloads : i \in DOMAIN payloads' /\ payloads'[i] = payloads[i]
      BY <1>0, <2>2
    <2> QED BY <1>3, <2>2, <2>3, NoBatchTyped DEF Emitted
  <1>4. CASE ~(cool /\ e.name \notin DOMAIN batch)
    <2>1. /\ batch' = Recorded(e.name, e.kind) /\ topology' = topo
          /\ armed' = (armed \/ e.name \notin DOMAIN batch) /\ UNCHANGED <<cool, payloads>>
      BY <1>4 DEF Told
    <2>2. e.name \in DOMAIN batch => armed
      BY <1>0, NoBatchTyped DEF FlushDue
    <2> QED BY <1>0, <1>1, <1>2, <2>1, <2>2
  <1> QED BY <1>3, <1>4 DEF Told

LEMMA SubtreeAdded ==
  ASSUME WatchTyped, NEW e \in Events, AddSubtree(e)
  PROVE  /\ listed' \in BOOLEAN /\ covered' \in BOOLEAN /\ (covered' => listed')
         /\ (listed => listed') /\ (covered => covered')
         /\ (listed' => listed \/ covered')
         /\ e.name = "d" /\ e.kind = "created" /\ DirOf(aimed) # 0 => listed'
  <1>1. listed \in BOOLEAN /\ covered \in BOOLEAN /\ (covered => listed)
    BY DEF WatchTyped
  <1>2. CASE e.name = "d" /\ e.kind = "created" /\ ~listed /\ files[aimed]["d"] # 0
    BY <1>1, <1>2 DEF AddSubtree, DirOf
  <1>3. CASE ~(e.name = "d" /\ e.kind = "created" /\ ~listed /\ files[aimed]["d"] # 0)
    <2>1. listed' = listed /\ covered' = covered
      BY <1>3 DEF AddSubtree
    <2> QED BY <1>1, <1>3, <2>1 DEF DirOf
  <1> QED BY <1>2, <1>3


LEMMA TakeEventSafe ==
  ASSUME WatchInv, TreeSafe, TakeEvent
  PROVE  Still' /\ Steps' /\ Covers' /\ Walked'
  <1>0. WatchTyped /\ FlushDue /\ Still /\ Steps /\ Covers /\ Walked
    BY DEF WatchInv
  <1>1. /\ cmds = <<>> /\ raw # <<>> /\ raw' = Tail(raw)
        /\ UNCHANGED <<whim, files, ops, cmds, aimed, active, click, folder, tree, walk, strays, deferred, servers>>
        /\ \/ raw[1].root # aimed /\ UNCHANGED <<listed, covered, batch, topology, armed, cool, payloads>>
           \/ raw[1].root = aimed /\ AddSubtree(raw[1]) /\ Told(raw[1], topology \/ raw[1].kind # "changed")
    BY <1>0, EventTaken
  <1>2. /\ raw[1] = Head(raw) /\ raw[1] \in Events /\ 1 \in DOMAIN raw /\ raw' \in Seq(Events)
        /\ DOMAIN raw' \subseteq Nat /\ DOMAIN raw \subseteq Nat
        /\ \A i \in DOMAIN raw' : i + 1 \in DOMAIN raw /\ raw'[i] = raw[i + 1]
        /\ \A i \in DOMAIN raw : i # 1 => i - 1 \in DOMAIN raw' /\ raw'[i - 1] = raw[i]
    BY <1>0, <1>1, HeadTaken
  <1>3. PICK topo \in BOOLEAN : /\ topo <=> topology \/ raw[1].kind # "changed"
                                /\ AddSubtree(raw[1]) /\ Told(raw[1], topo)
    BY <1>0, <1>1, <1>2 DEF Steps, WatchTyped
  <1>4. PICK e \in Events : e = raw[1]
    BY <1>2
  <1>5. /\ batch' \in Batches /\ topology' \in BOOLEAN /\ armed' \in BOOLEAN /\ cool' \in BOOLEAN
        /\ payloads' \in Seq(Payloads) /\ (batch' # NoBatch => armed') /\ (topology' => batch' # NoBatch)
        /\ topo => topology' \/ \E i \in DOMAIN payloads' : payloads'[i].topology
        /\ \A i \in DOMAIN payloads : i \in DOMAIN payloads' /\ payloads'[i] = payloads[i]
    BY <1>0, <1>3, <1>4, ToldTyped
  <1>6. /\ (listed => listed') /\ (covered => covered') /\ (listed' => listed \/ covered')
        /\ e.name = "d" /\ e.kind = "created" /\ DirOf(aimed) # 0 => listed'
    BY <1>0, <1>3, <1>4, SubtreeAdded
  <1>7. ~InBetween /\ ~InBetween'
    BY <1>0, <1>1 DEF Still, InBetween, InSwitch
  <1>8. Still'
    BY <1>7 DEF Still
  <1>9. Steps'
    <2>1. \A i \in DOMAIN raw' : raw'[i].root = aimed'
      BY <1>0, <1>1, <1>2 DEF Steps
    <2>2. topology' => batch' # NoBatch'
      BY <1>5 DEF NoBatch
    <2> QED BY <1>0, <1>1, <2>1, <2>2 DEF Steps, InSwitch, NoWalk
  <1>10. Covers'
    <2>1. ASSUME "rename" \notin whim, ~listed', DirOf(aimed) # 0
          PROVE  \E i \in DOMAIN raw' : raw'[i].name = "d" /\ raw'[i].kind = "created"
      <3>1. ~listed /\ ~(e.name = "d" /\ e.kind = "created")
        BY <1>6, <2>1
      <3>2. PICK i \in DOMAIN raw : raw[i].name = "d" /\ raw[i].kind = "created"
        BY <1>0, <2>1, <3>1 DEF Covers
      <3>3. i # 1
        BY <1>4, <3>1, <3>2
      <3> QED BY <1>2, <3>2, <3>3
    <2> QED BY <1>0, <1>1, <1>6, <2>1 DEF Covers, DirOf
  <1>11. Walked'
    <2>1. Coming => Coming'
      <3>1. CASE topo
        BY <1>5, <3>1 DEF Coming
      <3>2. CASE ~topo
        <4>1. (\E i \in DOMAIN raw : raw[i].kind # "changed") => \E i \in DOMAIN raw' : raw'[i].kind # "changed"
          BY <1>2, <1>3, <3>2
        <4>2. (\E i \in DOMAIN payloads : payloads[i].topology) => \E i \in DOMAIN payloads' : payloads'[i].topology
          BY <1>5
        <4> QED BY <1>1, <1>3, <3>2, <4>1, <4>2 DEF Coming
      <3> QED BY <3>1, <3>2
    <2> QED BY <1>0, <1>1, <2>1 DEF Walked, Shown, There
  <1> QED BY <1>8, <1>9, <1>10, <1>11

\* A payload that is sent has the last word on what is in it.
LEMMA PayloadSent ==
  ASSUME NEW p \in Payloads, NEW m, payloads \in Seq(Payloads), payloads' = Append(payloads, p),
         UNCHANGED <<files, folder, servers>>,
         m \in DOMAIN p.kinds => (p.kinds[m] = "deleted" <=> Gone(m)),
         m \notin DOMAIN p.kinds =>
           /\ \A i \in DOMAIN payloads : Bears(i, m) /\ (\A j \in DOMAIN payloads : Bears(j, m) => j <= i) =>
                (payloads[i].kinds[m] = "deleted" <=> Gone(m))
           /\ (\A i \in DOMAIN payloads : ~Bears(i, m)) => servers[m] = files[folder][m]
  PROVE  /\ \A i \in DOMAIN payloads' :
              Bears(i, m)' /\ (\A j \in DOMAIN payloads' : Bears(j, m)' => j <= i) =>
                (payloads'[i].kinds[m] = "deleted" <=> Gone(m)')
         /\ (\A i \in DOMAIN payloads' : ~Bears(i, m)') => servers'[m] = files'[folder'][m]
  <1>1. PICK l \in Nat \ {0} :
           /\ l = Len(payloads) + 1 /\ DOMAIN payloads' = 1 .. l /\ DOMAIN payloads = 1 .. l - 1
           /\ payloads'[l] = p /\ \A i \in DOMAIN payloads : payloads'[i] = payloads[i]
    OBVIOUS
  <1>2. Gone(m)' <=> Gone(m)
    BY DEF Gone
  <1>3. CASE m \in DOMAIN p.kinds
    <2>1. l \in DOMAIN payloads' /\ Bears(l, m)'
      BY <1>1, <1>3 DEF Bears
    <2>2. ASSUME NEW i \in DOMAIN payloads', \A j \in DOMAIN payloads' : Bears(j, m)' => j <= i
          PROVE  i = l
      BY <1>1, <2>1, <2>2
    <2> QED BY <1>1, <1>2, <1>3, <2>1, <2>2
  <1>4. CASE m \notin DOMAIN p.kinds
    <2>1. ~Bears(l, m)' /\ \A i \in DOMAIN payloads : Bears(i, m)' <=> Bears(i, m)
      BY <1>1, <1>4 DEF Bears
    <2>2. ASSUME NEW i \in DOMAIN payloads', Bears(i, m)',
                 \A j \in DOMAIN payloads' : Bears(j, m)' => j <= i
          PROVE  payloads'[i].kinds[m] = "deleted" <=> Gone(m)
      <3>1. i \in DOMAIN payloads
        BY <1>1, <2>1, <2>2
      <3>2. \A j \in DOMAIN payloads : Bears(j, m) => j <= i
        BY <1>1, <2>1, <2>2
      <3> QED BY <1>1, <1>4, <2>1, <2>2, <3>1, <3>2
    <2>3. (\A i \in DOMAIN payloads' : ~Bears(i, m)') => servers[m] = files[folder][m]
      BY <1>1, <1>4, <2>1
    <2> QED BY <1>2, <2>2, <2>3
  <1> QED BY <1>3, <1>4

\* The event joins what is pending of its file without a deletion being forgotten.
LEMMA TakeEventWords ==
  ASSUME WatchInv, whim = {}, TakeEvent, NEW m \in Names
  PROVE  LastWord(m)'
  <1>0. WatchTyped /\ FlushDue /\ Steps /\ TreeSafe /\ LastWord(m)
    BY DEF WatchInv, TreeSafe
  <1>1. /\ cmds = <<>> /\ raw # <<>> /\ raw' = Tail(raw)
        /\ UNCHANGED <<whim, files, ops, cmds, aimed, active, click, folder, tree, walk, strays, deferred, servers>>
        /\ \/ raw[1].root # aimed /\ UNCHANGED <<listed, covered, batch, topology, armed, cool, payloads>>
           \/ raw[1].root = aimed /\ AddSubtree(raw[1]) /\ Told(raw[1], topology \/ raw[1].kind # "changed")
    BY <1>0, EventTaken
  <1>2. /\ raw[1] = Head(raw) /\ raw[1] \in Events /\ 1 \in DOMAIN raw /\ raw' \in Seq(Events)
        /\ DOMAIN raw' \subseteq Nat /\ DOMAIN raw \subseteq Nat
        /\ \A i \in DOMAIN raw' : i + 1 \in DOMAIN raw /\ raw'[i] = raw[i + 1]
        /\ \A i \in DOMAIN raw : i # 1 => i - 1 \in DOMAIN raw' /\ raw'[i - 1] = raw[i]
    BY <1>0, <1>1, HeadTaken
  <1>3. PICK e \in Events : e = raw[1] /\ e.name \in Names /\ e.kind \in Kinds
    BY <1>2 DEF Events
  <1>4. PICK topo \in BOOLEAN : /\ topo <=> topology \/ e.kind # "changed"
                                /\ Told(e, topo)
    BY <1>0, <1>1, <1>2, <1>3 DEF Steps, WatchTyped
  <1>5. PICK now \in Batches :
          /\ now = Recorded(e.name, e.kind) /\ DOMAIN now = DOMAIN batch \cup {e.name}
          /\ \A n \in DOMAIN batch : n # e.name => now[n] = batch[n]
          /\ e.name \notin DOMAIN batch => now[e.name] = e.kind
          /\ e.name \in DOMAIN batch =>
                now[e.name] = IF Rank(batch[e.name]) >= Rank(e.kind) THEN batch[e.name] ELSE e.kind
    BY ZenonT(40), <1>0, <1>3, RecordedTyped
  \* What is merged says "deleted" when the event does, and only then.
  <1>6. ASSUME e.name = m PROVE now[m] = "deleted" <=> e.kind = "deleted"
    <2>0. batch \in Batches
      BY <1>0 DEF WatchTyped
    <2>1. m \in DOMAIN batch => batch[m] # "deleted" /\ batch[m] \in Kinds
      BY <1>0, <2>0, <1>2, <1>3, <1>5, <1>6, BatchEmpty DEF LastWord, InRaw
    <2> QED BY <1>3, <1>5, <1>6, <2>1 DEF Rank, Kinds
  <1>7. e.name = m /\ e.kind = "deleted" => ~InRaw(m)'
    BY <1>0, <1>2, <1>3 DEF LastWord, InRaw
  <1>8. InRaw(m)' => InRaw(m)
    BY <1>2 DEF InRaw
  <1>9. e.name # m => (InRaw(m)' <=> InRaw(m))
    BY <1>2, <1>3 DEF InRaw
  <1>10. e.name = m /\ ~InRaw(m)' => (e.kind = "deleted" <=> Gone(m))
    <2> SUFFICES ASSUME e.name = m, ~InRaw(m)' PROVE e.kind = "deleted" <=> Gone(m)
      OBVIOUS
    <2>1. \A i \in DOMAIN raw : raw[i].name = m => i = 1
      BY <1>2 DEF InRaw
    <2> QED BY <1>0, <1>2, <1>3, <2>1 DEF LastWord, InRaw
  <1>11. now[m] = "deleted" /\ m \in DOMAIN now => ~InRaw(m)'
    BY <1>0, <1>5, <1>6, <1>7, <1>9 DEF LastWord
  <1>12. m \in DOMAIN now /\ ~InRaw(m)' => (now[m] = "deleted" <=> Gone(m))
    BY <1>0, <1>5, <1>6, <1>9, <1>10 DEF LastWord
  <1>13. InRaw(m)' => (Gone(m) <=> \E i \in DOMAIN raw' : raw'[i].name = m /\ raw'[i].kind = "deleted")
    <2> SUFFICES ASSUME InRaw(m)' PROVE Gone(m) <=> \E i \in DOMAIN raw' : raw'[i].name = m /\ raw'[i].kind = "deleted"
      OBVIOUS
    <2>1. (\E i \in DOMAIN raw' : raw'[i].name = m /\ raw'[i].kind = "deleted")
            <=> \E i \in DOMAIN raw : raw[i].name = m /\ raw[i].kind = "deleted"
      BY <1>2, <1>3, <1>7
    <2> QED BY <1>0, <1>8, <2>1 DEF LastWord
  <1>14. \A i, j \in DOMAIN raw' : raw'[i].name = m /\ raw'[i].kind = "deleted" /\ raw'[j].name = m => j <= i
    <2> SUFFICES ASSUME NEW i \in DOMAIN raw', NEW j \in DOMAIN raw',
                        raw'[i].name = m, raw'[i].kind = "deleted", raw'[j].name = m
                 PROVE  j <= i
      OBVIOUS
    <2>1. i \in Nat /\ j \in Nat /\ j + 1 <= i + 1
      BY <1>0, <1>2 DEF LastWord
    <2> QED BY <2>1
  <1>15. Gone(m)' <=> Gone(m)
    BY <1>1 DEF Gone
  <1>16. CASE cool /\ e.name \notin DOMAIN batch
    <2>1. PICK p \in Payloads : p = [kinds |-> now, topology |-> topo] /\ p.kinds = now
      <3>1. [kinds |-> now, topology |-> topo] \in Payloads
        BY DEF Payloads
      <3> QED BY <3>1
    <2>2. payloads' = Append(payloads, p) /\ batch' = NoBatch
      BY <1>4, <1>5, <1>16, <2>1 DEF Told, Emitted
    <2>3. payloads \in Seq(Payloads)
      BY <1>0 DEF WatchTyped
    <2>4. m \notin DOMAIN batch'
      BY <2>2, NoBatchTyped
    <2>5. ASSUME ~InRaw(m)'
          PROVE  /\ \A i \in DOMAIN payloads' :
                      Bears(i, m)' /\ (\A j \in DOMAIN payloads' : Bears(j, m)' => j <= i) =>
                        (payloads'[i].kinds[m] = "deleted" <=> Gone(m)')
                 /\ (\A i \in DOMAIN payloads' : ~Bears(i, m)') => servers'[m] = files'[folder'][m]
      <3>1. m \in DOMAIN p.kinds => (p.kinds[m] = "deleted" <=> Gone(m))
        BY <1>12, <2>1, <2>5
      <3>2. m \notin DOMAIN p.kinds => m # e.name /\ m \notin DOMAIN batch /\ ~InRaw(m)
        BY <1>5, <1>9, <2>1, <2>5
      <3>3. m \notin DOMAIN p.kinds =>
              /\ \A i \in DOMAIN payloads : Bears(i, m) /\ (\A j \in DOMAIN payloads : Bears(j, m) => j <= i) =>
                   (payloads[i].kinds[m] = "deleted" <=> Gone(m))
              /\ (\A i \in DOMAIN payloads : ~Bears(i, m)) => servers[m] = files[folder][m]
        BY <1>0, <3>2 DEF LastWord
      <3> QED BY <1>1, <2>2, <2>3, <3>1, <3>3, PayloadSent
    <2> QED BY <1>13, <1>14, <1>15, <2>4, <2>5 DEF LastWord
  <1>17. CASE ~(cool /\ e.name \notin DOMAIN batch)
    <2>1. batch' = now /\ payloads' = payloads
      BY <1>4, <1>5, <1>17 DEF Told
    <2>2. m \notin DOMAIN now => m # e.name /\ m \notin DOMAIN batch
      BY <1>5
    <2> QED BY <1>0, <1>1, <1>9, <1>11, <1>12, <1>13, <1>14, <1>15, <2>1, <2>2 DEF LastWord, Bears
  <1> QED BY <1>16, <1>17


LEMMA TakeEventKeeps == ASSUME WatchInv, TakeEvent PROVE WatchInv'
  <1>0. WatchTyped /\ FlushDue
    BY DEF WatchInv
  <1>1. /\ cmds = <<>> /\ raw # <<>> /\ raw' = Tail(raw)
        /\ UNCHANGED <<whim, files, ops, cmds, aimed, active, click, folder, tree, walk, strays, deferred, servers>>
        /\ \/ raw[1].root # aimed /\ UNCHANGED <<listed, covered, batch, topology, armed, cool, payloads>>
           \/ raw[1].root = aimed /\ AddSubtree(raw[1]) /\ Told(raw[1], topology \/ raw[1].kind # "changed")
    BY <1>0, EventTaken
  <1>2. raw[1] \in Events /\ raw' \in Seq(Events)
    BY <1>0, <1>1, HeadTaken
  <1>3. WatchTyped' /\ FlushDue'
    <2>1. CASE raw[1].root # aimed
      <3>1. UNCHANGED <<listed, covered, batch, topology, armed, cool, payloads>>
        BY <1>1, <2>1
      <3> QED BY <1>0, <1>1, <1>2, <3>1 DEF WatchTyped, FlushDue, NoBatch
    <2>2. CASE raw[1].root = aimed
      <3>1. PICK topo \in BOOLEAN : topo <=> topology \/ raw[1].kind # "changed"
        OBVIOUS
      <3>2. AddSubtree(raw[1]) /\ Told(raw[1], topo)
        BY <1>0, <1>1, <2>2, <3>1 DEF WatchTyped
      <3>3. PICK e \in Events : e = raw[1] /\ AddSubtree(e) /\ Told(e, topo)
        BY <1>2, <3>2
      <3>4. /\ batch' \in Batches /\ topology' \in BOOLEAN /\ armed' \in BOOLEAN /\ cool' \in BOOLEAN
            /\ payloads' \in Seq(Payloads) /\ (batch' # NoBatch => armed')
        BY <1>0, <3>3, ToldTyped
      <3>5. listed' \in BOOLEAN /\ covered' \in BOOLEAN /\ (covered' => listed')
        BY <1>0, <3>3, SubtreeAdded
      <3> QED BY <1>0, <1>1, <1>2, <3>4, <3>5 DEF WatchTyped, FlushDue, NoBatch
    <2> QED BY <2>1, <2>2
  <1>4. StraysCounted'
    BY <1>1 DEF WatchInv, StraysCounted, Adopted
  <1>5. "quick" \notin whim => Aims'
    BY <1>1 DEF WatchInv, Aims, InSwitch
  <1>6. TreeSafe => Still' /\ Steps' /\ Covers' /\ Walked'
    BY TakeEventSafe
  <1>7. whim = {} => \A n \in Names : LastWord(n)'
    BY TakeEventWords
  <1>8. TreeSafe' <=> TreeSafe
    BY <1>1 DEF TreeSafe
  <1> QED BY <1>1, <1>3, <1>4, <1>5, <1>6, <1>7, <1>8 DEF WatchInv


LEMMA TrailingKeeps == ASSUME WatchInv, TrailingFires PROVE WatchInv'
  <1> USE DEF TrailingFires, diskVars, desktopVars, windowVarsOf
  <1>0. WatchTyped /\ FlushDue /\ raw = <<>> /\ batch \in Batches /\ payloads \in Seq(Payloads)
    BY DEF WatchInv, WatchTyped
  <1>1. UNCHANGED <<whim, files, ops, raw, cmds, aimed, listed, covered, active, click, folder, tree, walk,
                    strays, deferred, servers>>
    OBVIOUS
  <1>2. StraysCounted' /\ ("quick" \notin whim => Aims') /\ (TreeSafe' <=> TreeSafe)
    BY DEF WatchInv, StraysCounted, Adopted, Aims, InSwitch, TreeSafe
  <1>3. CASE batch = NoBatch
    <2>1. armed' = FALSE /\ UNCHANGED <<batch, topology, cool, payloads>>
      BY <1>3
    <2> HIDE DEF TrailingFires
    <2>2. WatchTyped' /\ FlushDue'
      <3>1. WatchTyped'
        BY <1>0, <1>1, <2>1 DEF WatchTyped
      <3>2. FlushDue'
        BY <1>3, <2>1 DEF FlushDue, NoBatch
      <3> QED BY <3>1, <3>2
    <2>3. TreeSafe => Still' /\ Steps' /\ Covers' /\ Walked'
      BY <1>1, <2>1 DEF WatchInv, Still, InBetween, InSwitch, Steps, Covers, DirOf, Walked, Coming, Shown, There,
                        NoWalk, NoBatch
    <2>4. whim = {} => \A n \in Names : LastWord(n)'
      BY <1>1, <2>1 DEF WatchInv, LastWord, InRaw, Gone, Bears
    <2> QED BY <1>1, <1>2, <2>2, <2>3, <2>4 DEF WatchInv
  <1>4. CASE batch # NoBatch
    <2>1. PICK p \in Payloads : p = [kinds |-> batch, topology |-> topology]
      <3>1. [kinds |-> batch, topology |-> topology] \in Payloads
        BY <1>0 DEF Payloads, WatchTyped
      <3> QED BY <3>1
    <2>2. /\ payloads' = Append(payloads, p) /\ batch' = NoBatch /\ topology' = FALSE /\ armed' = FALSE
          /\ cool' = FALSE /\ p.kinds = batch /\ p.topology = topology
      BY <1>4, <2>1 DEF Emitted
    <2>3. /\ payloads' \in Seq(Payloads) /\ Len(payloads) + 1 \in DOMAIN payloads'
          /\ payloads'[Len(payloads) + 1] = p
          /\ \A i \in DOMAIN payloads : i \in DOMAIN payloads' /\ payloads'[i] = payloads[i]
      BY <1>0, <2>2
    <2> HIDE DEF TrailingFires
    <2>4. WatchTyped' /\ FlushDue'
      BY <1>0, <1>1, <2>2, <2>3, NoBatchTyped DEF WatchTyped, FlushDue, NoBatch
    <2>5. ASSUME TreeSafe PROVE Still' /\ Steps' /\ Covers' /\ Walked'
      <3>0. Still /\ Steps /\ Covers /\ Walked
        BY <2>5 DEF WatchInv
      <3>1. ~InBetween /\ ~InBetween'
        BY <1>1, <1>4, <3>0 DEF Still, InBetween, InSwitch
      <3>2. Still' /\ Steps' /\ Covers'
        BY <1>1, <2>2, <3>0, <3>1 DEF Still, Steps, Covers, DirOf, InSwitch, NoWalk
      <3>3. Coming => Coming'
        <4>1. topology => \E i \in DOMAIN payloads' : payloads'[i].topology
          BY <2>2, <2>3
        <4>2. (\E i \in DOMAIN payloads : payloads[i].topology) => \E i \in DOMAIN payloads' : payloads'[i].topology
          BY <2>3
        <4> QED BY <1>1, <4>1, <4>2 DEF Coming
      <3> QED BY <1>1, <3>0, <3>2, <3>3 DEF Walked, Shown, There
    <2>6. ASSUME whim = {}, NEW m \in Names PROVE LastWord(m)'
      <3>1. LastWord(m) /\ ~InRaw(m)
        BY <1>0, <2>6 DEF WatchInv, InRaw
      <3>2. m \in DOMAIN p.kinds => (p.kinds[m] = "deleted" <=> Gone(m))
        BY <2>2, <3>1 DEF LastWord
      <3>3. m \notin DOMAIN p.kinds =>
              /\ \A i \in DOMAIN payloads : Bears(i, m) /\ (\A j \in DOMAIN payloads : Bears(j, m) => j <= i) =>
                   (payloads[i].kinds[m] = "deleted" <=> Gone(m))
              /\ (\A i \in DOMAIN payloads : ~Bears(i, m)) => servers[m] = files[folder][m]
        BY <2>2, <3>1 DEF LastWord
      <3>4. /\ \A i \in DOMAIN payloads' :
                 Bears(i, m)' /\ (\A j \in DOMAIN payloads' : Bears(j, m)' => j <= i) =>
                   (payloads'[i].kinds[m] = "deleted" <=> Gone(m)')
            /\ (\A i \in DOMAIN payloads' : ~Bears(i, m)') => servers'[m] = files'[folder'][m]
        BY <1>0, <1>1, <2>2, <3>2, <3>3, PayloadSent
      <3>5. m \notin DOMAIN batch'
        BY <2>2, NoBatchTyped
      <3>6. ~InRaw(m)' /\ raw' = <<>>
        BY <1>0, <1>1 DEF InRaw
      <3> QED BY <3>4, <3>5, <3>6 DEF LastWord
    <2> QED BY <1>1, <1>2, <2>4, <2>5, <2>6 DEF WatchInv
  <1> QED BY <1>3, <1>4

LEMMA CoolsDownKeeps == ASSUME WatchInv, CoolsDown PROVE WatchInv'
  <1>1. /\ cool' = TRUE
        /\ UNCHANGED <<whim, files, ops, raw, cmds, aimed, listed, covered, batch, topology, armed, payloads,
                       active, click, folder, tree, walk, strays, deferred, servers>>
    BY DEF CoolsDown, diskVars, desktopVars, windowVarsOf
  <1>2. WatchTyped' /\ StraysCounted' /\ FlushDue'
    BY <1>1 DEF WatchInv, WatchTyped, StraysCounted, Adopted, FlushDue, NoBatch
  <1>3. ("quick" \notin whim => Aims') /\ (TreeSafe' <=> TreeSafe)
    BY <1>1 DEF WatchInv, Aims, InSwitch, TreeSafe
  <1>4. TreeSafe => Still' /\ Steps' /\ Covers' /\ Walked'
    BY <1>1 DEF WatchInv, Still, InBetween, InSwitch, Steps, Covers, DirOf, Walked, Coming, Shown, There,
                NoWalk, NoBatch
  <1>5. whim = {} => \A n \in Names : LastWord(n)'
    BY <1>1 DEF WatchInv, LastWord, InRaw, Gone, Bears
  <1> QED BY <1>1, <1>2, <1>3, <1>4, <1>5 DEF WatchInv

\* The payload that the window hears, and the ones behind it.
LEMMA PayloadTaken ==
  ASSUME WatchTyped, payloads # <<>>, payloads' = Tail(payloads)
  PROVE  /\ payloads[1] = Head(payloads) /\ payloads[1] \in Payloads /\ 1 \in DOMAIN payloads
         /\ payloads' \in Seq(Payloads) /\ DOMAIN payloads' \subseteq Nat /\ DOMAIN payloads \subseteq Nat \ {0}
         /\ \A i \in DOMAIN payloads' : i + 1 \in DOMAIN payloads /\ payloads'[i] = payloads[i + 1]
         /\ \A i \in DOMAIN payloads : i # 1 => i - 1 \in DOMAIN payloads' /\ payloads'[i - 1] = payloads[i]
  <1>1. payloads \in Seq(Payloads) /\ Len(payloads) \in Nat \ {0}
    BY DEF WatchTyped
  <1>2. /\ DOMAIN payloads = 1 .. Len(payloads) /\ DOMAIN Tail(payloads) = 1 .. Len(payloads) - 1
        /\ Tail(payloads) \in Seq(Payloads)
    BY <1>1
  <1>3. \A i \in 1 .. Len(payloads) - 1 : Tail(payloads)[i] = payloads[i + 1]
    BY <1>1
  <1>4. payloads[1] = Head(payloads) /\ payloads[1] \in Payloads
    BY <1>1
  <1> QED BY <1>1, <1>2, <1>3, <1>4

LEMMA WalksTyped ==
  /\ NoWalk \in [at : {"no", "read", "land"}, by : {"refresh", "adopt"}, got : SUBSET Names]
  /\ Walking \in [at : {"no", "read", "land"}, by : {"refresh", "adopt"}, got : SUBSET Names]
  /\ NoWalk.at = "no" /\ NoWalk.by = "refresh" /\ Walking.at = "read" /\ Walking.by = "refresh"
  BY DEF NoWalk, Walking

LEMMA HearWords ==
  ASSUME WatchInv, whim = {}, Hear, NEW m \in Names
  PROVE  LastWord(m)'
  <1>0. WatchTyped /\ Still /\ Aims /\ LastWord(m)
    BY DEF WatchInv, TreeSafe
  <1>1. /\ payloads # <<>> /\ payloads' = Tail(payloads)
        /\ UNCHANGED <<files, raw, batch, folder>>
        /\ servers' = [n \in Names |-> IF n \in DOMAIN Head(payloads).kinds
                                       THEN Notified(n, Head(payloads).kinds[n]) ELSE servers[n]]
    BY DEF Hear, diskVars, actorVars
  <1>2. /\ payloads[1] = Head(payloads) /\ payloads[1] \in Payloads /\ 1 \in DOMAIN payloads
        /\ DOMAIN payloads' \subseteq Nat /\ DOMAIN payloads \subseteq Nat \ {0}
        /\ \A i \in DOMAIN payloads' : i + 1 \in DOMAIN payloads /\ payloads'[i] = payloads[i + 1]
        /\ \A i \in DOMAIN payloads : i # 1 => i - 1 \in DOMAIN payloads' /\ payloads'[i - 1] = payloads[i]
    BY <1>0, <1>1, PayloadTaken
  <1>3. folder = active
    BY <1>0, <1>1 DEF Still, InBetween, Aims
  <1>4. /\ InRaw(m)' <=> InRaw(m)
        /\ Gone(m)' <=> Gone(m)
    BY <1>1 DEF InRaw, Gone
  <1>5. \A i \in DOMAIN payloads' : Bears(i, m)' <=> Bears(i + 1, m)
    BY <1>2 DEF Bears
  <1>6. ASSUME m \notin DOMAIN batch, ~InRaw(m), NEW i \in DOMAIN payloads', Bears(i, m)',
               \A j \in DOMAIN payloads' : Bears(j, m)' => j <= i
        PROVE  payloads'[i].kinds[m] = "deleted" <=> Gone(m)
    <2>1. i + 1 \in DOMAIN payloads /\ payloads'[i] = payloads[i + 1] /\ Bears(i + 1, m) /\ i \in Nat
      BY <1>2, <1>5, <1>6
    <2>2. ASSUME NEW j \in DOMAIN payloads, Bears(j, m) PROVE j <= i + 1
      <3>1. CASE j = 1
        BY <2>1, <3>1
      <3>2. CASE j # 1
        <4>1. j - 1 \in DOMAIN payloads' /\ payloads'[j - 1] = payloads[j] /\ j \in Nat
          BY <1>2, <3>2
        <4>2. j - 1 <= i
          BY <1>6, <2>2, <4>1 DEF Bears
        <4> QED BY <2>1, <4>1, <4>2
      <3> QED BY <3>1, <3>2
    <2> QED BY <1>0, <1>6, <2>1, <2>2 DEF LastWord
  <1>7. ASSUME m \notin DOMAIN batch, ~InRaw(m), \A i \in DOMAIN payloads' : ~Bears(i, m)'
        PROVE  servers'[m] = files[folder][m]
    <2>1. \A i \in DOMAIN payloads : Bears(i, m) => i = 1
      BY <1>2, <1>7 DEF Bears
    <2>2. CASE Bears(1, m)
      <3>1. payloads[1].kinds[m] = "deleted" <=> Gone(m)
        BY <1>0, <1>2, <1>7, <2>1, <2>2 DEF LastWord
      <3>2. servers'[m] = Notified(m, payloads[1].kinds[m])
        BY <1>1, <1>2, <2>2 DEF Bears
      <3> QED BY <1>3, <3>1, <3>2 DEF Notified, Gone
    <2>3. CASE ~Bears(1, m)
      <3>1. servers'[m] = servers[m]
        BY <1>1, <1>2, <2>3 DEF Bears
      <3> QED BY <1>0, <1>7, <2>1, <2>3, <3>1 DEF LastWord
    <2> QED BY <2>2, <2>3
  <1> QED BY <1>0, <1>1, <1>4, <1>6, <1>7 DEF LastWord

LEMMA HearKeeps == ASSUME WatchInv, Hear PROVE WatchInv'
  <1>0. WatchTyped
    BY DEF WatchInv
  <1>1. /\ payloads # <<>> /\ payloads' = Tail(payloads) /\ Refreshed(Head(payloads).topology)
        /\ UNCHANGED <<whim, files, ops, raw, cmds, aimed, listed, covered, batch, topology, armed, cool,
                       active, click, folder, tree, strays>>
        /\ servers' = [n \in Names |-> IF n \in DOMAIN Head(payloads).kinds
                                       THEN Notified(n, Head(payloads).kinds[n]) ELSE servers[n]]
    BY DEF Hear, diskVars, actorVars, desktopVars
  <1>2. /\ payloads[1] = Head(payloads) /\ payloads[1] \in Payloads /\ 1 \in DOMAIN payloads
        /\ payloads' \in Seq(Payloads)
        /\ \A i \in DOMAIN payloads : i # 1 => i - 1 \in DOMAIN payloads' /\ payloads'[i - 1] = payloads[i]
    BY <1>0, <1>1, PayloadTaken
  <1>3. PICK topo \in BOOLEAN : topo = payloads[1].topology /\ Refreshed(topo)
    BY <1>1, <1>2 DEF Payloads
  <1>4. WatchTyped'
    <2>1. servers' \in [Names -> Nat]
      <3>1. \A n \in Names : \A k : Notified(n, k) \in Nat
        BY <1>0 DEF Notified, WatchTyped
      <3> QED BY <1>0, <1>1, <3>1 DEF WatchTyped
    <2>2. deferred' \in {"no", "paths", "topology"}
      BY <1>0, <1>3 DEF Refreshed, Merged, WatchTyped
    <2>3. walk' \in [at : {"no", "read", "land"}, by : {"refresh", "adopt"}, got : SUBSET Names]
      <3>1. walk' = walk \/ walk' = Walking
        BY <1>3 DEF Refreshed
      <3> QED BY <1>0, <3>1, WalksTyped DEF WatchTyped
    <2> QED BY <1>0, <1>1, <1>2, <2>1, <2>2, <2>3 DEF WatchTyped
  <1>5. StraysCounted' /\ FlushDue' /\ (TreeSafe' <=> TreeSafe)
    BY <1>1 DEF WatchInv, StraysCounted, Adopted, FlushDue, NoBatch, TreeSafe
  <1>6. "quick" \notin whim => Aims'
    BY <1>1 DEF WatchInv, Aims, InSwitch
  <1>7. ASSUME TreeSafe PROVE Still' /\ Steps' /\ Covers' /\ Walked'
    <2>0. Still /\ Steps /\ Covers /\ Walked
      BY <1>7 DEF WatchInv
    <2>1. ~InBetween /\ walk.by = "refresh"
      BY <1>0, <1>1, <2>0 DEF Still, InBetween, WatchTyped
    \* What the refresh makes of the walk.
    <2>2. \/ Loading /\ deferred' = Merged(topo) /\ walk' = walk
          \/ ~Loading /\ walk' = Walking /\ deferred' # "topology"
          \/ ~Loading /\ ~topo /\ walk' = walk /\ walk.at = "no" /\ deferred' = "no" /\ deferred # "topology"
      BY <1>3, <2>0 DEF Refreshed, Loading, Steps
    <2>3. Still' /\ Covers'
      <3>1. walk'.by = "refresh"
        BY <2>1, <2>2, WalksTyped
      <3>2. ~InBetween'
        BY <1>1, <2>1, <3>1 DEF InBetween, InSwitch
      <3> QED BY <1>1, <2>0, <3>2 DEF Still, Covers, DirOf
    <2>4. Steps'
      <3>1. \A c \in Switches : ~InSwitch(c)'
        BY <1>1, <2>1 DEF InBetween, InSwitch
      <3>2. walk'.at = "no" => walk' = NoWalk
        BY <2>0, <2>2, WalksTyped DEF Steps
      <3>3. deferred' = "topology" => walk'.at # "no" /\ walk'.by = "refresh"
        BY <2>1, <2>2, WalksTyped DEF Loading
      <3>4. topology' => batch' # NoBatch
        BY <1>1, <2>0 DEF Steps
      <3> QED BY <1>1, <2>0, <3>1, <3>2, <3>3, <3>4 DEF Steps, NoWalk, NoBatch
    <2>5. Walked'
      <3>1. CASE Loading /\ deferred' = Merged(topo) /\ walk' = walk
        <4>1. Shown' = Shown /\ There(folder)' = There(folder)
          BY <1>1, <3>1 DEF Shown, There
        <4>2. Coming => Coming'
          <5>1. topo \/ deferred = "topology" => deferred' = "topology"
            BY <3>1 DEF Merged
          <5>2. ~topo /\ (\E i \in DOMAIN payloads : payloads[i].topology)
                  => \E i \in DOMAIN payloads' : payloads'[i].topology
            BY <1>2, <1>3
          <5> QED BY <1>1, <5>1, <5>2 DEF Coming
        <4> QED BY <2>0, <3>1, <4>1, <4>2 DEF Walked
      <3>2. CASE walk' = Walking
        BY <3>2, WalksTyped DEF Walked
      <3>3. CASE ~topo /\ walk' = walk /\ deferred # "topology"
        <4>1. Shown' = Shown /\ There(folder)' = There(folder)
          BY <1>1, <3>3 DEF Shown, There
        <4>2. Coming => Coming'
          <5>1. (\E i \in DOMAIN payloads : payloads[i].topology)
                  => \E i \in DOMAIN payloads' : payloads'[i].topology
            BY <1>2, <1>3, <3>3
          <5> QED BY <1>1, <3>3, <5>1 DEF Coming
        <4> QED BY <2>0, <3>3, <4>1, <4>2 DEF Walked
      <3> QED BY <2>2, <3>1, <3>2, <3>3
    <2> QED BY <2>3, <2>4, <2>5
  <1>8. whim = {} => \A n \in Names : LastWord(n)'
    BY HearWords
  <1> QED BY <1>1, <1>4, <1>5, <1>6, <1>7, <1>8 DEF WatchInv

\* A step of the walk alone.
LEMMA WalkTyped ==
  ASSUME WatchTyped, NEW at \in {"no", "read", "land"}, NEW got \in SUBSET Names,
         walk' = [walk EXCEPT !.at = at, !.got = got]
  PROVE  /\ walk' \in [at : {"no", "read", "land"}, by : {"refresh", "adopt"}, got : SUBSET Names]
         /\ walk'.at = at /\ walk'.got = got /\ walk'.by = walk.by
  BY DEF WatchTyped

LEMMA WalkReadsKeeps == ASSUME WatchInv, WalkReads PROVE WatchInv'
  <1>0. WatchTyped
    BY DEF WatchInv
  <1>1. /\ walk.at = "read" /\ walk' = [walk EXCEPT !.at = "land", !.got = There(active)]
        /\ UNCHANGED <<whim, files, ops, raw, cmds, aimed, listed, covered, batch, topology, armed, cool,
                       payloads, active, click, folder, tree, strays, deferred, servers>>
    BY DEF WalkReads, diskVars, actorVars, desktopVars
  <1>2. There(active) \in SUBSET Names
    BY DEF There
  <1>3. /\ walk' \in [at : {"no", "read", "land"}, by : {"refresh", "adopt"}, got : SUBSET Names]
        /\ walk'.at = "land" /\ walk'.got = There(active) /\ walk'.by = walk.by
    BY <1>0, <1>1, <1>2, WalkTyped
  <1>4. WatchTyped'
    BY <1>0, <1>1, <1>3 DEF WatchTyped
  <1>5. StraysCounted' /\ FlushDue' /\ (TreeSafe' <=> TreeSafe)
    BY <1>1 DEF WatchInv, StraysCounted, Adopted, FlushDue, NoBatch, TreeSafe
  <1>6. "quick" \notin whim => Aims'
    BY <1>1 DEF WatchInv, Aims, InSwitch
  <1>7. ASSUME TreeSafe PROVE Still' /\ Steps' /\ Covers' /\ Walked'
    <2>0. Still /\ Steps /\ Covers /\ Aims
      BY <1>7 DEF WatchInv, TreeSafe
    <2>1. \A c \in Switches : ~InSwitch(c)
      BY <1>1, <2>0, WalksTyped DEF Steps
    <2>2. folder = active
      BY <2>0, <2>1 DEF Aims
    <2>3. Still' /\ Covers'
      BY <1>1, <1>3, <2>0 DEF Still, InBetween, InSwitch, Covers, DirOf, NoBatch
    <2>4. Steps'
      BY <1>1, <1>3, <2>0, <2>1 DEF Steps, InSwitch, NoBatch
    <2>5. Walked'
      BY <1>1, <1>3, <2>2 DEF Walked, Shown, There
    <2> QED BY <2>3, <2>4, <2>5
  <1>8. whim = {} => \A n \in Names : LastWord(n)'
    BY <1>1 DEF WatchInv, LastWord, InRaw, Gone, Bears
  <1> QED BY <1>1, <1>4, <1>5, <1>6, <1>7, <1>8 DEF WatchInv

LEMMA WalkLandsKeeps == ASSUME WatchInv, WalkLands PROVE WatchInv'
  <1>0. WatchTyped
    BY DEF WatchInv
  <1>1. /\ walk.at = "land" /\ tree' = [tree EXCEPT ![folder] = walk.got]
        /\ UNCHANGED <<whim, files, ops, raw, cmds, aimed, listed, covered, batch, topology, armed, cool,
                       payloads, active, click, folder, strays, servers>>
    BY DEF WalkLands, diskVars, actorVars, desktopVars
  <1>2. \/ walk.by = "adopt" /\ walk' = NoWalk /\ deferred' = deferred
        \/ walk.by # "adopt" /\ deferred' = "no" /\ deferred = "topology" /\ walk' = Walking
        \/ walk.by # "adopt" /\ deferred' = "no" /\ deferred # "topology" /\ walk' = NoWalk
    BY DEF WalkLands
  <1>3. walk.got \in SUBSET Names /\ tree' \in [Roots -> SUBSET Names] /\ tree'[folder] = walk.got
    BY <1>0, <1>1 DEF WatchTyped
  <1>4. WatchTyped'
    <2>1. walk' \in [at : {"no", "read", "land"}, by : {"refresh", "adopt"}, got : SUBSET Names]
      BY <1>2, WalksTyped
    <2>2. deferred' \in {"no", "paths", "topology"}
      BY <1>0, <1>2 DEF WatchTyped
    <2> QED BY <1>0, <1>1, <1>3, <2>1, <2>2 DEF WatchTyped
  <1>5. StraysCounted' /\ FlushDue' /\ (TreeSafe' <=> TreeSafe)
    BY <1>1 DEF WatchInv, StraysCounted, Adopted, FlushDue, NoBatch, TreeSafe
  <1>6. "quick" \notin whim => Aims'
    BY <1>1 DEF WatchInv, Aims, InSwitch
  <1>7. ASSUME TreeSafe PROVE Still' /\ Steps' /\ Covers' /\ Walked'
    <2>0. Still /\ Steps /\ Covers /\ Walked
      BY <1>7 DEF WatchInv
    <2>1. \A c \in Switches : ~InSwitch(c)
      BY <1>1, <2>0, WalksTyped DEF Steps
    <2>2. walk'.by = "refresh" /\ (walk'.at = "no" => walk' = NoWalk)
      BY <1>2, WalksTyped
    <2>3. Still' /\ Covers'
      BY <1>1, <2>0, <2>2 DEF Still, InBetween, InSwitch, Covers, DirOf, NoBatch
    <2>4. deferred' # "topology"
      BY <1>2, <2>0 DEF Steps
    <2>5. Steps'
      BY <1>1, <2>0, <2>1, <2>2, <2>4 DEF Steps, InSwitch, NoBatch, NoWalk
    <2>6. walk'.at = "read" \/ (walk'.at = "no" /\ deferred # "topology")
      BY <1>2, <2>0, WalksTyped DEF Steps
    <2>7. Walked'
      <3>1. CASE walk'.at = "read"
        BY <3>1 DEF Walked
      <3>2. CASE walk'.at = "no" /\ deferred # "topology"
        <4>1. Shown' = Shown /\ There(folder)' = There(folder)
          BY <1>1, <1>3, <3>2 DEF Shown, There
        <4>2. Coming => Coming'
          BY <1>1, <3>2 DEF Coming
        <4> QED BY <1>1, <2>0, <4>1, <4>2 DEF Walked
      <3> QED BY <2>6, <3>1, <3>2
    <2> QED BY <2>3, <2>5, <2>7
  <1>8. whim = {} => \A n \in Names : LastWord(n)'
    BY <1>1 DEF WatchInv, LastWord, InRaw, Gone, Bears
  <1> QED BY <1>1, <1>4, <1>5, <1>6, <1>7, <1>8 DEF WatchInv

LEMMA AdoptedFinite ==
  IsFiniteSet(Adopted) /\ Cardinality(Adopted) \in Nat /\ Cardinality(Adopted) <= MaxClicks
  <1>1. /\ Adopted \subseteq 1 .. MaxClicks /\ IsFiniteSet(1 .. MaxClicks)
        /\ Cardinality(1 .. MaxClicks) = MaxClicks
    BY FileWatchAssumption, FS_Interval DEF Adopted, Switches
  <1> QED BY <1>1, FS_Subset, FS_CardinalityType

LEMMA StrayLandsKeeps == ASSUME WatchInv, StrayLands PROVE WatchInv'
  <1>0. WatchTyped
    BY DEF WatchInv
  <1>1. /\ strays > 0 /\ strays' = strays - 1
        /\ UNCHANGED <<whim, files, ops, raw, cmds, aimed, listed, covered, batch, topology, armed, cool,
                       payloads, active, click, folder, tree, servers>>
    BY DEF StrayLands, diskVars, actorVars, desktopVars
  <1>2. (deferred' = deferred \/ deferred' = "no") /\ (walk' = walk \/ walk' = Walking)
    BY DEF StrayLands
  <1>3. WatchTyped'
    <2>1. walk' \in [at : {"no", "read", "land"}, by : {"refresh", "adopt"}, got : SUBSET Names]
      BY <1>0, <1>2, WalksTyped DEF WatchTyped
    <2>2. deferred' \in {"no", "paths", "topology"} /\ strays' \in Nat
      BY <1>0, <1>1, <1>2 DEF WatchTyped
    <2> QED BY <1>0, <1>1, <2>1, <2>2 DEF WatchTyped
  <1>4. StraysCounted'
    <2>1. Adopted' = Adopted
      BY <1>1 DEF Adopted
    <2>2. Cardinality(Adopted) \in Nat
      BY AdoptedFinite
    <2> QED BY <1>0, <1>1, <2>1, <2>2 DEF WatchInv, StraysCounted, WatchTyped
  <1>5. FlushDue' /\ (TreeSafe' <=> TreeSafe)
    BY <1>1 DEF WatchInv, FlushDue, NoBatch, TreeSafe
  <1>6. "quick" \notin whim => Aims'
    BY <1>1 DEF WatchInv, Aims, InSwitch
  <1>7. ~TreeSafe
    BY <1>1 DEF WatchInv, Steps
  <1>8. whim = {} => FALSE
    BY <1>7 DEF TreeSafe
  <1> QED BY <1>1, <1>3, <1>4, <1>5, <1>6, <1>7, <1>8 DEF WatchInv

\* The calls, after one of them has moved on.
LEMMA ClickMoved ==
  ASSUME WatchTyped, NEW c \in Switches, NEW k \in [at : {"idle", "aim", "adopt", "done"}, root : Roots],
         click' = [click EXCEPT ![c] = k]
  PROVE  /\ click' \in [Switches -> [at : {"idle", "aim", "adopt", "done"}, root : Roots]]
         /\ click'[c] = k /\ \A b \in Switches : b # c => click'[b] = click[b]
         /\ \A b \in Switches : b # c => (InSwitch(b)' <=> InSwitch(b))
  <1>1. click \in [Switches -> [at : {"idle", "aim", "adopt", "done"}, root : Roots]]
    BY DEF WatchTyped
  <1>2. /\ click' \in [Switches -> [at : {"idle", "aim", "adopt", "done"}, root : Roots]]
        /\ click'[c] = k /\ \A b \in Switches : b # c => click'[b] = click[b]
    BY <1>1
  <1> QED BY <1>2 DEF InSwitch

LEMMA SwitchFolderKeeps ==
  ASSUME WatchInv, NEW c \in Switches, NEW r \in Roots, SwitchFolder(c, r)
  PROVE  WatchInv'
  <1>0. WatchTyped
    BY DEF WatchInv
  <1>1. /\ click[c].at = "idle" /\ r # folder /\ active' = r
        /\ "busy" \in whim \/ Settled
        /\ "quick" \in whim \/ ~Switching
        /\ UNCHANGED <<whim, files, ops, raw, cmds, aimed, listed, covered, batch, topology, armed, cool,
                       payloads, folder, tree, walk, strays, deferred, servers>>
    BY DEF SwitchFolder, diskVars, actorVars, windowVarsOf
  <1>2. PICK k \in [at : {"idle", "aim", "adopt", "done"}, root : Roots] :
           k.at = "aim" /\ k.root = r /\ click' = [click EXCEPT ![c] = k]
    BY DEF SwitchFolder
  <1>3. /\ click' \in [Switches -> [at : {"idle", "aim", "adopt", "done"}, root : Roots]]
        /\ click'[c] = k /\ (\A b \in Switches : b # c => click'[b] = click[b])
        /\ \A b \in Switches : b # c => (InSwitch(b)' <=> InSwitch(b))
    BY <1>0, <1>2, ClickMoved
  <1>4. WatchTyped'
    BY <1>0, <1>1, <1>3 DEF WatchTyped
  <1>5. StraysCounted' /\ FlushDue' /\ (TreeSafe' <=> TreeSafe)
    <2>1. Adopted' = Adopted
      BY <1>1, <1>2, <1>3 DEF Adopted
    <2> QED BY <1>1, <2>1 DEF WatchInv, StraysCounted, FlushDue, NoBatch, TreeSafe
  <1>6. "quick" \notin whim => \A b \in Switches : InSwitch(b)' <=> b = c
    <2>1. InSwitch(c)'
      BY <1>2, <1>3 DEF InSwitch
    <2> QED BY <1>0, <1>1, <1>3, <2>1, SwitchingIs
  <1>7. ASSUME "quick" \notin whim PROVE Aims'
    <2>1. click'[c].at = "aim" /\ click'[c].root = active'
      BY <1>1, <1>2, <1>3
    <2> QED BY <1>6, <1>7, <2>1 DEF Aims
  <1>8. ASSUME TreeSafe PROVE Still' /\ Steps' /\ Covers' /\ Walked'
    <2>0. Still /\ Steps /\ Covers /\ Walked /\ Settled /\ "quick" \notin whim
      BY <1>1, <1>8 DEF WatchInv, TreeSafe
    <2>1. Still' /\ Covers'
      BY <1>1, <2>0 DEF Settled, Still, Covers, DirOf, NoBatch
    <2>2. Steps'
      BY <1>1, <1>2, <1>3, <1>6, <2>0 DEF Settled, Steps, NoBatch, NoWalk
    <2>3. Walked'
      BY <1>1, <2>0 DEF Walked, Coming, Shown, There
    <2> QED BY <2>1, <2>2, <2>3
  <1>9. whim = {} => \A n \in Names : LastWord(n)'
    BY <1>1 DEF WatchInv, LastWord, InRaw, Gone, Bears
  <1> QED BY <1>1, <1>4, <1>5, <1>7, <1>8, <1>9 DEF WatchInv

LEMMA RepointKeeps ==
  ASSUME WatchInv, NEW c \in Switches, Repoint(c)
  PROVE  WatchInv'
  <1>0. WatchTyped
    BY DEF WatchInv
  <1>1. /\ click[c].at = "aim" /\ cmds' = Append(cmds, click[c].root)
        /\ UNCHANGED <<whim, files, ops, raw, aimed, listed, covered, batch, topology, armed, cool,
                       payloads, active, folder, tree, walk, strays, deferred, servers>>
    BY DEF Repoint, diskVars, windowVarsOf
  <1>2. PICK k \in [at : {"idle", "aim", "adopt", "done"}, root : Roots] :
           k.at = "adopt" /\ k.root = click[c].root /\ click' = [click EXCEPT ![c] = k]
    <2>1. click' = [click EXCEPT ![c] = [click[c] EXCEPT !.at = "adopt"]]
      BY DEF Repoint
    <2>2. /\ [click[c] EXCEPT !.at = "adopt"] \in [at : {"idle", "aim", "adopt", "done"}, root : Roots]
          /\ [click[c] EXCEPT !.at = "adopt"].at = "adopt"
          /\ [click[c] EXCEPT !.at = "adopt"].root = click[c].root
      BY <1>0 DEF WatchTyped
    <2> QED BY <2>1, <2>2
  <1>3. /\ click' \in [Switches -> [at : {"idle", "aim", "adopt", "done"}, root : Roots]]
        /\ click'[c] = k /\ (\A b \in Switches : b # c => click'[b] = click[b])
        /\ \A b \in Switches : b # c => (InSwitch(b)' <=> InSwitch(b))
    BY <1>0, <1>2, ClickMoved
  <1>4. /\ cmds' \in Seq(Roots) /\ cmds' # <<>> /\ cmds'[Len(cmds')] = click[c].root
    <2>1. PICK r \in Roots : r = click[c].root
      BY <1>0 DEF WatchTyped
    <2>2. cmds \in Seq(Roots) /\ cmds' = Append(cmds, r)
      BY <1>0, <1>1, <2>1 DEF WatchTyped
    <2>3. Append(cmds, r) \in Seq(Roots) /\ Len(Append(cmds, r)) = Len(cmds) + 1 /\ Len(cmds) \in Nat
      BY <2>2
    <2>4. Append(cmds, r)[Len(cmds) + 1] = r /\ Append(cmds, r) # <<>>
      BY <2>2, <2>3
    <2> QED BY <2>1, <2>2, <2>3, <2>4
  <1>5. WatchTyped'
    BY <1>0, <1>1, <1>3, <1>4 DEF WatchTyped
  <1>6. StraysCounted' /\ FlushDue' /\ (TreeSafe' <=> TreeSafe)
    <2>1. Adopted' = Adopted
      BY <1>1, <1>2, <1>3 DEF Adopted
    <2> QED BY <1>1, <2>1 DEF WatchInv, StraysCounted, FlushDue, NoBatch, TreeSafe
  <1>7. InSwitch(c) /\ \A b \in Switches : InSwitch(b)' <=> InSwitch(b)
    BY <1>1, <1>2, <1>3 DEF InSwitch
  <1>8. \A b \in Switches : click'[b].root = click[b].root
    BY <1>2, <1>3
  <1>9. ASSUME "quick" \notin whim PROVE Aims'
    <2>0. Aims
      BY <1>9 DEF WatchInv
    <2>1. click[c].root = active
      BY <1>7, <2>0 DEF Aims
    <2> QED BY <1>1, <1>4, <1>7, <1>8, <2>0, <2>1 DEF Aims
  <1>10. ASSUME TreeSafe PROVE Still' /\ Steps' /\ Covers' /\ Walked'
    <2>0. Still /\ Steps /\ Covers /\ Walked
      BY <1>10 DEF WatchInv
    <2>1. raw = <<>> /\ batch = NoBatch /\ payloads = <<>>
      BY <1>7, <2>0 DEF Still, InBetween
    <2>2. Still' /\ Covers'
      BY <1>1, <2>0, <2>1 DEF Still, Covers, DirOf, NoBatch
    <2>3. Steps'
      BY <1>1, <1>7, <1>8, <2>0 DEF Steps, NoBatch, NoWalk
    <2>4. Walked'
      BY <1>1, <2>0 DEF Walked, Coming, Shown, There
    <2> QED BY <2>2, <2>3, <2>4
  <1>11. whim = {} => \A n \in Names : LastWord(n)'
    BY <1>1 DEF WatchInv, LastWord, InRaw, Gone, Bears
  <1> QED BY <1>1, <1>5, <1>6, <1>9, <1>10, <1>11 DEF WatchInv

LEMMA AdoptFolderKeeps ==
  ASSUME WatchInv, NEW c \in Switches, AdoptFolder(c)
  PROVE  WatchInv'
  <1>0. WatchTyped
    BY DEF WatchInv
  <1>1. /\ click[c].at = "adopt" /\ folder' = click[c].root
        /\ UNCHANGED <<whim, files, ops, raw, cmds, aimed, listed, covered, batch, topology, armed, cool,
                       payloads, active, tree, deferred>>
    BY DEF AdoptFolder, diskVars, actorVars
  <1>2. PICK k \in [at : {"idle", "aim", "adopt", "done"}, root : Roots] :
           k.at = "done" /\ k.root = click[c].root /\ click' = [click EXCEPT ![c] = k]
    <2>1. click' = [click EXCEPT ![c] = [click[c] EXCEPT !.at = "done"]]
      BY DEF AdoptFolder
    <2>2. /\ [click[c] EXCEPT !.at = "done"] \in [at : {"idle", "aim", "adopt", "done"}, root : Roots]
          /\ [click[c] EXCEPT !.at = "done"].at = "done"
          /\ [click[c] EXCEPT !.at = "done"].root = click[c].root
      BY <1>0 DEF WatchTyped
    <2> QED BY <2>1, <2>2
  <1>3. /\ click' \in [Switches -> [at : {"idle", "aim", "adopt", "done"}, root : Roots]]
        /\ click'[c] = k /\ (\A b \in Switches : b # c => click'[b] = click[b])
        /\ \A b \in Switches : b # c => (InSwitch(b)' <=> InSwitch(b))
    BY <1>0, <1>2, ClickMoved
  <1>4. PICK w \in [at : {"no", "read", "land"}, by : {"refresh", "adopt"}, got : SUBSET Names] :
           w = [at |-> "read", by |-> "adopt", got |-> {}] /\ w.at = "read" /\ w.by = "adopt"
    <2>1. [at |-> "read", by |-> "adopt", got |-> {}]
            \in [at : {"no", "read", "land"}, by : {"refresh", "adopt"}, got : SUBSET Names]
      OBVIOUS
    <2> QED BY <2>1
  <1>5. \/ folder' = folder /\ UNCHANGED <<walk, strays, servers>>
        \/ /\ folder' # folder /\ walk' = w /\ servers' = files[folder']
           /\ strays' = IF Loading /\ walk.by = "refresh" THEN strays + 1 ELSE strays
    BY <1>4 DEF AdoptFolder
  <1>6. folder' \in Roots
    BY <1>0, <1>1 DEF WatchTyped
  <1>7. strays' \in Nat /\ (strays' = strays \/ strays' = strays + 1)
    BY <1>0, <1>5 DEF WatchTyped
  <1>8. WatchTyped'
    <2>1. servers' \in [Names -> Nat]
      BY <1>0, <1>5, <1>6 DEF WatchTyped
    <2>2. walk' \in [at : {"no", "read", "land"}, by : {"refresh", "adopt"}, got : SUBSET Names]
      BY <1>0, <1>4, <1>5 DEF WatchTyped
    <2> QED BY <1>0, <1>1, <1>3, <1>6, <1>7, <2>1, <2>2 DEF WatchTyped
  <1>9. StraysCounted'
    <2>1. Adopted' = Adopted \cup {c} /\ c \notin Adopted
      BY <1>1, <1>2, <1>3 DEF Adopted
    <2>3. IsFiniteSet(Adopted) /\ Cardinality(Adopted) \in Nat
      BY AdoptedFinite
    <2>4. Cardinality(Adopted') = Cardinality(Adopted) + 1
      BY <2>1, <2>3, FS_AddElement
    <2> QED BY <1>0, <1>7, <2>3, <2>4 DEF WatchInv, StraysCounted, WatchTyped
  <1>10. FlushDue' /\ (TreeSafe' <=> TreeSafe)
    BY <1>1 DEF WatchInv, FlushDue, NoBatch, TreeSafe
  <1>11. InSwitch(c) /\ ~InSwitch(c)' /\ click[c].at # "aim" /\ click'[c].at # "aim"
    BY <1>1, <1>2, <1>3 DEF InSwitch
  <1>12. ASSUME "quick" \notin whim PROVE Aims' /\ \A b \in Switches : ~InSwitch(b)'
    <2>0. Aims
      BY <1>12 DEF WatchInv
    <2>1. click[c].root = active /\ \A b \in Switches : InSwitch(b) => b = c
      BY <1>11, <2>0 DEF Aims
    <2>2. \A b \in Switches : ~InSwitch(b)'
      BY <1>3, <1>11, <2>1
    <2>3. \A b \in Switches : click[b].at # "aim"
      BY <1>11, <2>1 DEF InSwitch
    <2>4. IF cmds = <<>> THEN aimed = active ELSE cmds[Len(cmds)] = active
      BY <2>0, <2>3 DEF Aims
    <2> QED BY <1>1, <2>1, <2>2, <2>4 DEF Aims
  <1>13. ASSUME TreeSafe
         PROVE  Still' /\ Steps' /\ Covers' /\ Walked' /\ raw = <<>> /\ batch = NoBatch /\ payloads = <<>>
                /\ servers' = files[folder']
    <2>0. Still /\ Steps /\ Covers /\ "quick" \notin whim
      BY <1>13 DEF WatchInv, TreeSafe
    <2>1. raw = <<>> /\ batch = NoBatch /\ payloads = <<>>
      BY <1>11, <2>0 DEF Still, InBetween
    <2>2. walk = NoWalk /\ strays = 0 /\ click[c].root # folder
      BY <1>11, <2>0 DEF Steps
    <2>3. walk' = w /\ servers' = files[folder'] /\ strays' = strays
      BY <1>1, <1>5, <2>2, WalksTyped DEF Loading
    <2>4. deferred # "topology"
      BY <2>0, <2>2, WalksTyped DEF Steps
    <2>5. Still' /\ Covers'
      BY <1>1, <2>0, <2>1 DEF Still, Covers, DirOf, NoBatch
    <2>6. Steps'
      BY <1>1, <1>4, <1>12, <2>0, <2>2, <2>3, <2>4 DEF Steps, NoBatch
    <2>7. Walked'
      BY <1>4, <2>3 DEF Walked
    <2> QED BY <2>1, <2>3, <2>5, <2>6, <2>7
  <1>14. ASSUME whim = {}, NEW n \in Names PROVE LastWord(n)'
    <2>1. raw = <<>> /\ batch = NoBatch /\ payloads = <<>> /\ servers' = files[folder']
      BY <1>13, <1>14 DEF TreeSafe
    <2>2. raw' = <<>> /\ payloads' = <<>> /\ n \notin DOMAIN batch' /\ servers'[n] = files'[folder'][n]
      BY <1>1, <2>1, NoBatchTyped
    <2>3. DOMAIN raw' = {} /\ DOMAIN payloads' = {}
      BY <2>2
    <2> QED BY <2>2, <2>3 DEF LastWord, InRaw
  <1> QED BY <1>1, <1>8, <1>9, <1>10, <1>12, <1>13, <1>14 DEF WatchInv

LEMMA RepointAgainKeeps == ASSUME WatchInv, RepointAgain PROVE WatchInv'
  <1>0. WatchTyped
    BY DEF WatchInv
  <1>1. /\ cmds = <<>> /\ ~Switching /\ cmds' = <<active>> /\ ("again" \in whim \/ Settled)
        /\ UNCHANGED <<whim, files, ops, raw, aimed, listed, covered, batch, topology, armed, cool,
                       payloads, active, click, folder, tree, walk, strays, deferred, servers>>
    BY DEF RepointAgain, diskVars, desktopVars, windowVarsOf
  <1>2. cmds' \in Seq(Roots) /\ cmds' # <<>> /\ cmds'[Len(cmds')] = active
    BY <1>0, <1>1 DEF WatchTyped
  <1>3. WatchTyped'
    BY <1>0, <1>1, <1>2 DEF WatchTyped
  <1>4. StraysCounted' /\ FlushDue' /\ (TreeSafe' <=> TreeSafe)
    BY <1>1 DEF WatchInv, StraysCounted, Adopted, FlushDue, NoBatch, TreeSafe
  <1>5. ASSUME "quick" \notin whim PROVE Aims'
    BY <1>1, <1>2, <1>5 DEF WatchInv, Aims, InSwitch
  <1>6. ASSUME TreeSafe PROVE Still' /\ Steps' /\ Covers' /\ Walked'
    <2>0. Still /\ Steps /\ Covers /\ Walked /\ Settled
      BY <1>1, <1>6 DEF WatchInv, TreeSafe
    <2>1. Still' /\ Covers'
      BY <1>1, <2>0 DEF Settled, Still, Covers, DirOf, NoBatch
    <2>2. Steps'
      BY <1>1, <2>0 DEF Steps, InSwitch, NoBatch, NoWalk
    <2>3. Walked'
      BY <1>1, <2>0 DEF Walked, Coming, Shown, There
    <2> QED BY <2>1, <2>2, <2>3
  <1>7. whim = {} => \A n \in Names : LastWord(n)'
    BY <1>1 DEF WatchInv, LastWord, InRaw, Gone, Bears
  <1> QED BY <1>1, <1>3, <1>4, <1>5, <1>6, <1>7 DEF WatchInv

LEMMA WatchKeeps == ASSUME WatchInv, [WatchNext]_watchVars PROVE WatchInv'
  <1>1. CASE WatchNext
    BY <1>1, DiskKeeps, SetRootKeeps, TakeEventKeeps, TrailingKeeps, CoolsDownKeeps, HearKeeps,
       WalkReadsKeeps, WalkLandsKeeps, StrayLandsKeeps, SwitchFolderKeeps, RepointKeeps, AdoptFolderKeeps,
       RepointAgainKeeps
    DEF WatchNext, ActorStep, WindowStep, SwitchStep
  <1>2. CASE UNCHANGED watchVars
    BY <1>2 DEF watchVars, WatchInv, WatchTyped, StraysCounted, Adopted, FlushDue, Aims, InSwitch, TreeSafe, Still,
                InBetween, Steps, Covers, DirOf, Walked, Coming, Shown, There, LastWord, InRaw, Gone, Bears,
                NoWalk, NoBatch
  <1> QED BY <1>1, <1>2

LEMMA WatchInvImplies == ASSUME WatchInv PROVE WatcherOK
  <1>0. WatchTyped /\ FlushDue
    BY DEF WatchInv
  <1>1. WatchTypeOK
    <2>1. DOMAIN batch \subseteq Names
      BY <1>0, BatchEmpty DEF WatchTyped
    <2>2. strays \in 0 .. MaxClicks
      <3>1. Cardinality(Adopted) \in Nat /\ Cardinality(Adopted) <= MaxClicks
        BY AdoptedFinite
      <3> QED BY <1>0, <3>1, FileWatchAssumption DEF WatchInv, StraysCounted, WatchTyped
    <2> QED BY <1>0, <2>1, <2>2 DEF WatchTypeOK, WatchTyped
  <1>2. ASSUME "quick" \notin whim, AllTaken PROVE aimed = active /\ folder = active
    <2>1. Aims /\ cmds = <<>> /\ \A c \in Switches : ~InSwitch(c)
      BY <1>0, <1>2, SwitchingIs DEF WatchInv, AllTaken, Settled
    <2> QED BY <2>1 DEF Aims, InSwitch
  <1>3. ASSUME TreeSafe, AllTaken PROVE tree[folder] = There(folder) /\ deferred # "topology"
    <2>1. Steps /\ Walked /\ walk = NoWalk /\ raw = <<>> /\ batch = NoBatch /\ payloads = <<>>
      BY <1>3 DEF WatchInv, AllTaken, Settled
    <2>2. deferred # "topology" /\ ~topology
      BY <1>0, <2>1, WalksTyped DEF Steps, WatchTyped
    <2> QED BY <2>1, <2>2, WalksTyped DEF Walked, Coming, Shown
  <1>4. ASSUME whim = {}, AllTaken, NEW n \in Names PROVE servers[n] = files[folder][n]
    <2>1. LastWord(n) /\ raw = <<>> /\ batch = NoBatch /\ payloads = <<>>
      BY <1>4 DEF WatchInv, AllTaken, Settled
    <2>2. DOMAIN raw = {} /\ DOMAIN payloads = {} /\ n \notin DOMAIN batch
      BY <2>1, NoBatchTyped
    <2> QED BY <2>1, <2>2 DEF LastWord, InRaw
  <1> QED BY <1>0, <1>1, <1>2, <1>3, <1>4 DEF WatcherOK, AimRight, TreeRight, ServersRight, Names

\* Whatever happens on disk and wherever the user goes meanwhile: what is pending is told,
\* and when all is told the watcher watches the folder that is shown (unless switches
\* overlap), the tree has its files (where directories do not change beneath the watch),
\* and the language servers know them (where no name is taken again while its deletion
\* is pending).
THEOREM TreeFollows == WatchSpec => []WatcherOK
  <1>1. WatchInit => WatchInv
    BY WatchInitHolds
  <1>2. WatchInv /\ [WatchNext]_watchVars => WatchInv'
    BY WatchKeeps
  <1>3. WatchInv => WatcherOK
    BY WatchInvImplies
  <1> QED BY <1>1, <1>2, <1>3, PTL DEF WatchSpec

-----------------------------------------------------------------------------
(* Proofs about Terminals: whatever the profile, the shells are numbered as *)
(* they are spawned and each has its supervisor; where restarts do not      *)
(* overlap, one shell runs at a time and can be reached.                    *)
-----------------------------------------------------------------------------
\* Shells are numbered as they are spawned, one per agent at most: Latest is the number
\* of the last.
Spent == {a \in Agents : doing[a].at \in {"insert", "done"}}
Counted == {n \in Shells : shell[n] # "none"} = 1 .. Latest /\ Latest \in Nat /\ Latest <= Cardinality(Spent)

OpPlaces == {"idle", "unlist", "await", "spawn", "insert", "close", "forget", "done"}
TermTyped ==
  /\ bustle \in Bustles
  /\ shell \in [Shells -> {"none", "runs", "ended", "killed"}]
  /\ pump \in [Shells -> {"none", "serves", "reaps", "unlists", "marks", "gone"}]
  /\ handle \in 0 .. Latest /\ unheld \subseteq 1 .. Latest /\ aborted \subseteq unheld
  /\ listing \in {"none", "live", "exited"}
  /\ mail \in Seq({"opened", "respawned", "removed", "closed"})
  /\ tab \in {"none", "open", "shut"}
  /\ doing \in [Actors -> [at : OpPlaces, shell : Nat]]
  /\ doing["window"].at \in {"idle", "close", "forget"}
  /\ \A a \in Agents : doing[a].at \in {"await", "insert"} => doing[a].shell \in 1 .. Latest

PumpsRight ==
  \A n \in Shells :
    /\ pump[n] = "none" <=> shell[n] = "none"
    /\ pump[n] \in {"unlists", "marks", "gone"} => shell[n] # "runs"

\* What holds where neither restarts overlap nor a shell ends during one.
Restarting(a) == doing[a].at \in {"unlist", "await", "spawn", "insert"}
Quiet == bustle \subseteq {"closes", "fails"}

\* Earlier shells are over.
Earlier == \A n \in Shells : n < Latest => pump[n] = "gone"

\* Whoever opens or restarts the terminal is alone with it.
OpRight(a) ==
  /\ Restarting(a) =>
       /\ \A b \in Actors : UnderWay(b) => b = a
       /\ listing # "none" /\ Latest > 0 /\ \A i \in DOMAIN mail : mail[i] # "closed"
  /\ doing[a].at = "unlist" => Latest \in unwanted /\ (pump[Latest] = "gone" \/ Serving(Latest))
  /\ doing[a].at = "await" =>
       doing[a].shell = Latest /\ handle = 0 /\ (pump[Latest] = "gone" \/ shell[Latest] = "runs")
  /\ doing[a].at = "spawn" => handle = 0 /\ pump[Latest] = "gone"
  /\ doing[a].at = "insert" =>
       /\ doing[a].shell = Latest /\ handle = 0 /\ Latest \notin unheld /\ Serving(Latest)
       /\ listing = "live" /\ (Latest = 1 => mail = <<>>)
  /\ doing[a].at = "close" => Latest > 0 /\ (handle = 0 \/ Latest \in unwanted)
  /\ doing[a].at = "forget" => Latest > 0 /\ handle = 0

\* The handle of the last shell is in the map until it is let go of, or still on its way.
Held ==
  /\ handle \in {0, Latest}
  /\ Latest > 0 /\ Latest \notin unheld /\ handle = 0 => \E a \in Agents : doing[a].at = "insert"
  /\ handle # 0 => Latest \notin unheld /\ pump[Latest] \in {"serves", "reaps", "unlists"}
  /\ listing = "none" => handle = 0
  /\ Latest > 0 /\ Latest \in unheld =>
       \/ pump[Latest] \in {"marks", "gone"} \/ listing = "none"
       \/ \E a \in Actors : doing[a].at \in {"await", "forget"}

\* What the window has heard, or will.
Heard ==
  /\ Latest = 0 => listing = "none" /\ mail = <<>> /\ tab = "none"
  /\ \A i \in DOMAIN mail :
       /\ mail[i] = "closed" => pump[Latest] = "gone"
       /\ mail[i] = "removed" => listing = "none"
  /\ tab = "shut" => listing = "none"
  /\ Latest > 0 /\ tab = "none" =>
       \/ \E a \in Agents : doing[a].at = "insert" /\ doing[a].shell = 1
       \/ mail # <<>> /\ Head(mail) = "opened"

\* What the coder reads, and who was killed.
Listed ==
  /\ listing = "exited" => Latest > 0 /\ pump[Latest] = "gone"
  /\ listing = "live" /\ pump[Latest] = "gone" => Latest \in aborted
  /\ "fails" \notin bustle /\ Latest > 0 /\ Latest \in aborted =>
       listing = "none" \/ \E a \in Actors : doing[a].at \in {"await", "spawn", "forget"}
Asked == aborted \subseteq unwanted /\ KilledAsked

QuietInv == Earlier /\ (\A a \in Actors : OpRight(a)) /\ Held /\ Heard /\ Listed /\ Asked
TermShape == Counted /\ TermTyped /\ PumpsRight
TermInv ==
  /\ TermShape
  /\ Quiet => QuietInv

LEMMA LatestIs ==
  ASSUME NEW k \in Nat, {n \in Shells : shell[n] # "none"} = 1 .. k
  PROVE  Latest = k
  <1>1. Cardinality(1 .. k) = k
    BY FS_Interval
  <1> QED BY <1>1 DEF Latest

LEMMA LatestWillBe ==
  ASSUME NEW k \in Nat, {n \in Shells : shell'[n] # "none"} = 1 .. k
  PROVE  Latest' = k
  <1>1. Cardinality(1 .. k) = k
    BY FS_Interval
  <1> QED BY <1>1 DEF Latest

LEMMA SpentFinite ==
  /\ IsFiniteSet(Spent) /\ Cardinality(Spent) \in Nat /\ Cardinality(Spent) <= Cardinality(Agents)
  /\ IsFiniteSet(Spent') /\ Cardinality(Spent') \in Nat /\ Cardinality(Spent') <= Cardinality(Agents)
  /\ Cardinality(Agents) \in Nat
  <1>1. Spent \subseteq Agents /\ Spent' \subseteq Agents
    BY DEF Spent
  <1> QED BY <1>1, TerminalsAssumption, FS_Subset, FS_CardinalityType

\* No shell is spawned, and whoever has spawned one has done so for good.
LEMMA CountStays ==
  ASSUME Counted, \A n \in Shells : (shell'[n] = "none") <=> (shell[n] = "none"), Spent \subseteq Spent'
  PROVE  Counted' /\ Latest' = Latest
  <1>1. PICK k \in Nat : k = Latest
    BY DEF Counted
  <1>2. {n \in Shells : shell'[n] # "none"} = 1 .. k
    BY <1>1 DEF Counted
  <1>3. Latest' = k
    BY <1>2, LatestWillBe
  <1>4. Cardinality(Spent) <= Cardinality(Spent')
    BY SpentFinite, FS_Subset
  <1>5. k <= Cardinality(Spent')
    BY <1>1, <1>4, SpentFinite DEF Counted
  <1> QED BY <1>1, <1>2, <1>3, <1>5 DEF Counted

LEMMA ShellSpawned ==
  ASSUME Counted, shell \in [Shells -> {"none", "runs", "ended", "killed"}],
         NEW a \in Agents, a \notin Spent, Spent' = Spent \cup {a},
         shell' = [shell EXCEPT ![Latest + 1] = "runs"]
  PROVE  /\ Latest + 1 \in Shells /\ Latest' = Latest + 1 /\ Counted'
         /\ shell' \in [Shells -> {"none", "runs", "ended", "killed"}]
         /\ shell'[Latest + 1] = "runs" /\ \A n \in Shells : n # Latest + 1 => shell'[n] = shell[n]
  <1>1. PICK k \in Nat : k = Latest /\ k <= Cardinality(Spent) /\ {n \in Shells : shell[n] # "none"} = 1 .. k
    BY DEF Counted
  <1>2. Cardinality(Spent') = Cardinality(Spent) + 1
    BY SpentFinite, FS_AddElement
  <1>3. k + 1 \in Shells
    BY <1>1, <1>2, SpentFinite DEF Shells
  <1>4. /\ shell' \in [Shells -> {"none", "runs", "ended", "killed"}]
        /\ shell'[k + 1] = "runs" /\ \A n \in Shells : n # k + 1 => shell'[n] = shell[n]
    BY <1>1, <1>3
  <1>5. {n \in Shells : shell'[n] # "none"} = 1 .. k + 1
    BY <1>1, <1>3, <1>4 DEF Shells
  <1>6. Latest' = k + 1
    BY <1>5, LatestWillBe
  <1>7. k + 1 <= Cardinality(Spent')
    BY <1>1, <1>2, SpentFinite
  <1> QED BY <1>1, <1>3, <1>4, <1>5, <1>6, <1>7 DEF Counted

\* An actor that moves to w, with the shell n.
Moved(a, w, n) ==
  /\ doing' \in [Actors -> [at : OpPlaces, shell : Nat]]
  /\ doing'[a].at = w /\ doing'[a].shell = n
  /\ \A b \in Actors : b # a => doing'[b] = doing[b]

LEMMA StepMoves ==
  ASSUME TermTyped, NEW a \in Actors, NEW w \in OpPlaces, StepTo(a, w)
  PROVE  Moved(a, w, doing[a].shell)
  <1>1. doing \in [Actors -> [at : OpPlaces, shell : Nat]] /\ doing' = [doing EXCEPT ![a].at = w]
    BY DEF TermTyped, StepTo
  <1>2. doing[a] \in [at : OpPlaces, shell : Nat]
    BY <1>1
  <1>3. doing'[a] = [doing[a] EXCEPT !.at = w] /\ \A b \in Actors : b # a => doing'[b] = doing[b]
    BY <1>1
  <1>4. /\ [doing[a] EXCEPT !.at = w] \in [at : OpPlaces, shell : Nat]
        /\ [doing[a] EXCEPT !.at = w].at = w /\ [doing[a] EXCEPT !.at = w].shell = doing[a].shell
    BY <1>2
  <1>5. doing' \in [Actors -> [at : OpPlaces, shell : Nat]]
    BY <1>1, <1>3, <1>4
  <1> QED BY <1>3, <1>4, <1>5 DEF Moved

LEMMA SetMoves ==
  ASSUME TermTyped, NEW a \in Actors, NEW w \in OpPlaces, NEW n \in Nat,
         doing' = [doing EXCEPT ![a] = [at |-> w, shell |-> n]]
  PROVE  Moved(a, w, n)
  <1>1. doing \in [Actors -> [at : OpPlaces, shell : Nat]]
    BY DEF TermTyped
  <1>2. [at |-> w, shell |-> n] \in [at : OpPlaces, shell : Nat]
    OBVIOUS
  <1>3. doing'[a] = [at |-> w, shell |-> n] /\ \A b \in Actors : b # a => doing'[b] = doing[b]
    BY <1>1
  <1>4. doing' \in [Actors -> [at : OpPlaces, shell : Nat]]
    BY <1>1, <1>2
  <1> QED BY <1>3, <1>4 DEF Moved

LEMMA ActorsAre == Agents \subseteq Actors /\ "window" \in Actors /\ "window" \notin Agents
  BY TerminalsAssumption DEF Actors

\* Who moves, and where to, keeps the numbers unless a shell is spawned.
LEMMA SpentGrows ==
  ASSUME TermTyped, NEW a \in Actors, NEW w \in OpPlaces, NEW n \in Nat, Moved(a, w, n),
         doing[a].at \notin {"insert", "done"} \/ w \in {"insert", "done"}
  PROVE  Spent \subseteq Spent'
  BY ActorsAre DEF Spent, Moved

LEMMA EventSent ==
  ASSUME TermTyped, NEW e \in {"opened", "respawned", "removed", "closed"}, Emit(e)
  PROVE  /\ mail' \in Seq({"opened", "respawned", "removed", "closed"})
         /\ mail' # <<>> /\ (mail # <<>> => Head(mail') = Head(mail)) /\ (mail = <<>> => Head(mail') = e)
         /\ \A i \in DOMAIN mail' : mail'[i] = e \/ (i \in DOMAIN mail /\ mail'[i] = mail[i])
  <1>1. mail \in Seq({"opened", "respawned", "removed", "closed"}) /\ mail' = Append(mail, e)
    BY DEF TermTyped, Emit
  <1>2. /\ mail' \in Seq({"opened", "respawned", "removed", "closed"}) /\ Len(mail') = Len(mail) + 1
        /\ DOMAIN mail' = 1 .. Len(mail) + 1 /\ DOMAIN mail = 1 .. Len(mail) /\ Len(mail) \in Nat
        /\ mail'[Len(mail) + 1] = e /\ \A i \in 1 .. Len(mail) : mail'[i] = mail[i]
    BY <1>1
  <1>3. mail' # <<>> /\ Head(mail') = mail'[1]
    BY <1>2
  <1>4. mail # <<>> => Len(mail) # 0 /\ Head(mail) = mail[1]
    BY <1>1
  <1>5. mail = <<>> => Len(mail) = 0
    BY <1>1
  <1> QED BY <1>2, <1>3, <1>4, <1>5

LEMMA EventHeard ==
  ASSUME TermTyped, mail # <<>>, mail' = Tail(mail)
  PROVE  /\ mail' \in Seq({"opened", "respawned", "removed", "closed"})
         /\ 1 \in DOMAIN mail /\ Head(mail) = mail[1]
         /\ \A i \in DOMAIN mail' : i \in Nat /\ i + 1 \in DOMAIN mail /\ mail'[i] = mail[i + 1]
  <1>1. mail \in Seq({"opened", "respawned", "removed", "closed"}) /\ Len(mail) \in Nat \ {0}
    BY DEF TermTyped
  <1>2. /\ DOMAIN mail = 1 .. Len(mail) /\ DOMAIN Tail(mail) = 1 .. Len(mail) - 1
        /\ Tail(mail) \in Seq({"opened", "respawned", "removed", "closed"})
    BY <1>1
  <1>3. \A i \in 1 .. Len(mail) - 1 : Tail(mail)[i] = mail[i + 1]
    BY <1>1
  <1>4. Head(mail) = mail[1]
    BY <1>1
  <1> QED BY <1>1, <1>2, <1>3, <1>4

\* Whoever does nothing breaks no rule.
LEMMA IdleRight ==
  ASSUME NEW b \in Actors, doing'[b].at \in {"idle", "done"}
  PROVE  OpRight(b)'
  BY DEF OpRight, Restarting

LEMMA LastOne ==
  ASSUME TermShape
  PROVE  /\ Latest \in Nat /\ Latest > 0 => Latest \in Shells /\ shell[Latest] # "none" /\ pump[Latest] # "none"
         /\ \A n \in Shells : n > Latest => shell[n] = "none" /\ pump[n] = "none"
         /\ Earlier => \A n \in Shells : pump[n] \notin {"none", "gone"} => n = Latest /\ Latest > 0
  <1>1. PICK k \in Nat : k = Latest /\ {n \in Shells : shell[n] # "none"} = 1 .. k
    BY DEF TermShape, Counted
  <1>2. k > 0 => k \in Shells /\ shell[k] # "none"
    BY <1>1
  <1>3. \A n \in Shells : n > k => shell[n] = "none"
    BY <1>1
  <1>4. \A n \in Shells : pump[n] = "none" <=> shell[n] = "none"
    BY DEF TermShape, PumpsRight
  <1>5. Shells \subseteq Nat \ {0}
    BY SpentFinite DEF Shells
  <1>6. ASSUME Earlier, NEW n \in Shells, pump[n] \notin {"none", "gone"} PROVE n = k /\ k > 0
    <2>1. ~(n < k) /\ ~(n > k)
      BY <1>1, <1>3, <1>4, <1>6 DEF Earlier
    <2> QED BY <1>5, <2>1
  <1> QED BY <1>1, <1>2, <1>3, <1>4, <1>6

LEMMA TermInitHolds == ASSUME TermInit PROVE TermInv
  <1> USE DEF TermInit
  <1>1. Latest = 0
    <2>1. {n \in Shells : shell[n] # "none"} = 1 .. 0
      OBVIOUS
    <2> QED BY <2>1, LatestIs
  <1>2. Counted
    <2>1. {n \in Shells : shell[n] # "none"} = 1 .. 0
      OBVIOUS
    <2> QED BY <1>1, <2>1, SpentFinite DEF Counted
  <1>3. \A a \in Actors : doing[a].at = "idle"
    BY DEF NoOp
  <1>4. TermTyped
    <2>1. doing \in [Actors -> [at : OpPlaces, shell : Nat]]
      BY DEF NoOp, OpPlaces
    <2>2. mail \in Seq({"opened", "respawned", "removed", "closed"})
      OBVIOUS
    <2> QED BY <1>1, <1>3, <2>1, <2>2, ActorsAre DEF TermTyped
  <1>5. PumpsRight /\ Earlier
    BY <1>1, SpentFinite DEF PumpsRight, Earlier, Shells
  <1>6. \A a \in Actors : OpRight(a)
    BY <1>3 DEF OpRight, Restarting
  <1>7. Held /\ Heard /\ Listed /\ Asked
    BY <1>1 DEF Held, Heard, Listed, Asked, KilledAsked
  <1> QED BY <1>2, <1>4, <1>5, <1>6, <1>7 DEF TermInv, TermShape, QuietInv

-----------------------------------------------------------------------------
(* A shell is spawned.                                                     *)

LEMMA StartedShape ==
  ASSUME TermShape, NEW a \in Agents, doing[a].at \in {"idle", "spawn"},
         NEW reg \in {"none", "live", "exited"}, Started(a, reg),
         UNCHANGED <<bustle, unheld, aborted, handle, mail, tab, unwanted>>
  PROVE  /\ TermShape' /\ Latest + 1 \in Shells /\ Latest' = Latest + 1 /\ Moved(a, "insert", Latest + 1)
         /\ shell'[Latest + 1] = "runs" /\ pump'[Latest + 1] = "serves"
         /\ \A n \in Shells : n # Latest + 1 => shell'[n] = shell[n] /\ pump'[n] = pump[n]
  <1>0. Counted /\ TermTyped /\ PumpsRight /\ a \in Actors /\ Latest \in Nat
    BY ActorsAre DEF TermShape, Counted
  <1>1. PICK k \in Nat : k = Latest + 1
    BY <1>0
  <1>2. Moved(a, "insert", k)
    BY <1>0, <1>1, SetMoves DEF Started, OpPlaces
  <1>3. a \notin Spent /\ Spent' = Spent \cup {a}
    BY <1>0, <1>2, ActorsAre DEF Spent, Moved
  <1>4. /\ Latest + 1 \in Shells /\ Latest' = Latest + 1 /\ Counted'
        /\ shell' \in [Shells -> {"none", "runs", "ended", "killed"}]
        /\ shell'[Latest + 1] = "runs" /\ \A n \in Shells : n # Latest + 1 => shell'[n] = shell[n]
    BY <1>0, <1>3, ShellSpawned DEF Started, TermTyped
  <1>5. /\ pump' \in [Shells -> {"none", "serves", "reaps", "unlists", "marks", "gone"}]
        /\ pump'[Latest + 1] = "serves" /\ \A n \in Shells : n # Latest + 1 => pump'[n] = pump[n]
    BY <1>0, <1>4 DEF Started, TermTyped
  <1>6. PumpsRight'
    BY <1>0, <1>4, <1>5 DEF PumpsRight
  <1>7. TermTyped'
    <2>1. \A b \in Agents : doing'[b].at \in {"await", "insert"} => doing'[b].shell \in 1 .. Latest'
      <3>1. \A b \in Agents : b # a /\ doing[b].at \in {"await", "insert"} => doing[b].shell \in 1 .. Latest
        BY <1>0 DEF TermTyped
      <3> QED BY <1>0, <1>1, <1>2, <1>4, <3>1, ActorsAre DEF Moved
    <2>2. handle' \in 0 .. Latest' /\ unheld' \subseteq 1 .. Latest' /\ aborted' \subseteq unheld'
      BY <1>0, <1>4 DEF TermTyped
    <2>3. doing'["window"].at \in {"idle", "close", "forget"}
      BY <1>0, <1>2, ActorsAre DEF Moved, TermTyped
    <2>4. listing' \in {"none", "live", "exited"}
      BY DEF Started
    <2> QED BY <1>0, <1>2, <1>4, <1>5, <2>1, <2>2, <2>3, <2>4 DEF TermTyped, Moved
  <1> QED BY <1>1, <1>2, <1>4, <1>5, <1>6, <1>7 DEF TermShape

LEMMA StartedKeeps ==
  ASSUME TermInv, NEW a \in Agents, doing[a].at \in {"idle", "spawn"},
         NEW reg \in {"none", "live", "exited"}, Started(a, reg),
         UNCHANGED <<bustle, unheld, aborted, handle, mail, tab, unwanted>>,
         Quiet => /\ handle = 0 /\ reg = "live" /\ (Latest = 0 \/ pump[Latest] = "gone")
                  /\ \A b \in Actors : UnderWay(b) => b = a
                  /\ \A i \in DOMAIN mail : mail[i] \notin {"closed", "removed"}
                  /\ tab # "shut"
  PROVE  TermInv'
  <1>0. TermShape /\ TermTyped /\ a \in Actors /\ Latest \in Nat
    BY ActorsAre DEF TermInv, TermShape, Counted
  <1>1. /\ TermShape' /\ Latest + 1 \in Shells /\ Latest' = Latest + 1 /\ Moved(a, "insert", Latest + 1)
        /\ shell'[Latest + 1] = "runs" /\ pump'[Latest + 1] = "serves"
        /\ \A n \in Shells : n # Latest + 1 => shell'[n] = shell[n] /\ pump'[n] = pump[n]
    BY <1>0, StartedShape
  <1>2. listing' = reg
    BY DEF Started
  <1>3. ASSUME Quiet PROVE QuietInv'
    <2>0. /\ Earlier /\ Held /\ Heard /\ Listed /\ Asked
          /\ handle = 0 /\ listing' = "live" /\ (Latest = 0 \/ pump[Latest] = "gone")
          /\ \A b \in Actors : UnderWay(b) => b = a
          /\ \A i \in DOMAIN mail : mail[i] \notin {"closed", "removed"}
          /\ tab # "shut"
      BY <1>2, <1>3 DEF TermInv, QuietInv
    <2>1. Latest + 1 \notin unheld /\ Latest + 1 \notin aborted
      BY <1>0 DEF TermTyped
    <2>2. Shells \subseteq Nat \ {0}
      BY SpentFinite DEF Shells
    <2>3. Earlier'
      <3>1. ASSUME NEW n \in Shells, n < Latest + 1 PROVE pump'[n] = "gone"
        <4>1. n = Latest \/ n < Latest
          BY <1>0, <2>2, <3>1
        <4> QED BY <1>0, <1>1, <2>0, <2>2, <3>1, <4>1 DEF Earlier
      <3> QED BY <1>1, <3>1 DEF Earlier
    <2>4. doing'[a].at = "insert" /\ doing'[a].shell = Latest + 1 /\ \A b \in Actors : b # a => doing'[b] = doing[b]
      BY <1>1 DEF Moved
    <2>5. ASSUME NEW b \in Actors PROVE OpRight(b)'
      <3>1. CASE b # a
        <4>1. doing'[b].at \in {"idle", "done"}
          BY <2>0, <2>4, <3>1 DEF UnderWay
        <4> QED BY <4>1, IdleRight
      <3>2. CASE b = a
        <4>1. \A c \in Actors : UnderWay(c)' => c = a
          BY <2>0, <2>4 DEF UnderWay
        <4>2. /\ shell'[Latest'] = "runs" /\ pump'[Latest'] = "serves"
              /\ Latest' > 0 /\ (Latest' = 1 => mail' = <<>>)
          BY <1>0, <1>1, <2>0 DEF Heard
        <4> QED BY <1>1, <2>0, <2>1, <2>4, <3>2, <4>1, <4>2 DEF OpRight, Restarting, Serving
      <3> QED BY <3>1, <3>2
    <2>6. Held'
      BY <1>0, <1>1, <2>0, <2>1, <2>4 DEF Held
    <2>7. Heard'
      <3>1. tab = "none" /\ Latest > 0 => mail # <<>> /\ Head(mail) = "opened"
        BY <2>0, ActorsAre DEF Heard, UnderWay
      <3>2. Latest = 0 => doing'[a].shell = 1
        BY <2>4
      <3> QED BY <1>0, <1>1, <2>0, <2>4, <3>1, <3>2 DEF Heard
    <2>8. Listed'
      BY <1>1, <2>0, <2>1 DEF Listed
    <2>9. Asked'
      BY <1>1, <2>0 DEF Asked, KilledAsked
    <2> QED BY <2>3, <2>5, <2>6, <2>7, <2>8, <2>9 DEF QuietInv
  <1> QED BY <1>1, <1>3 DEF TermInv, Quiet

LEMMA OpenKeeps == ASSUME TermInv, NEW a \in Agents, OpenTerminal(a) PROVE TermInv'
  <1>1. /\ doing[a].at = "idle" /\ Latest = 0 /\ NoneUnderWay /\ Started(a, "live")
        /\ UNCHANGED <<bustle, unheld, aborted, handle, mail, tab, unwanted>>
    BY DEF OpenTerminal
  <1>2. handle = 0
    BY <1>1 DEF TermInv, TermShape, TermTyped
  <1>3. Quiet => mail = <<>> /\ tab = "none"
    BY <1>1 DEF TermInv, QuietInv, Heard
  <1> QED BY <1>1, <1>2, <1>3, StartedKeeps DEF NoneUnderWay

LEMMA RestartSpawnsKeeps == ASSUME TermInv, NEW a \in Actors, RestartSpawns(a) PROVE TermInv'
  <1>1. /\ doing[a].at = "spawn" /\ Started(a, IF listing = "none" THEN "none" ELSE "live")
        /\ UNCHANGED <<bustle, unheld, aborted, handle, mail, tab, unwanted>>
    BY DEF RestartSpawns
  <1>2. a \in Agents
    BY <1>1 DEF TermInv, TermShape, TermTyped, Actors
  <1>3. ASSUME Quiet
        PROVE  /\ handle = 0 /\ listing # "none" /\ pump[Latest] = "gone"
               /\ \A b \in Actors : UnderWay(b) => b = a
               /\ \A i \in DOMAIN mail : mail[i] \notin {"closed", "removed"}
               /\ tab # "shut"
    BY <1>1, <1>3 DEF TermInv, QuietInv, OpRight, Restarting, Heard
  <1> QED BY <1>1, <1>2, <1>3, StartedKeeps

-----------------------------------------------------------------------------
(* Operations that spawn nothing.                                          *)

\* The shape stays when an actor moves and the shells do not.
LEMMA MovedShape ==
  ASSUME TermShape, NEW a \in Actors, NEW w \in OpPlaces, NEW n \in Nat, Moved(a, w, n),
         doing[a].at \notin {"insert", "done"} \/ w = "done",
         a = "window" => w \in {"idle", "close", "forget"},
         w \in {"await", "insert"} => n \in 1 .. Latest,
         UNCHANGED <<bustle, shell, pump>>,
         handle' \in 0 .. Latest, unheld' \subseteq 1 .. Latest, aborted' \subseteq unheld',
         listing' \in {"none", "live", "exited"}, tab' \in {"none", "open", "shut"},
         mail' \in Seq({"opened", "respawned", "removed", "closed"})
  PROVE  TermShape' /\ Latest' = Latest
  <1>0. Counted /\ TermTyped /\ PumpsRight
    BY DEF TermShape
  <1>1. Spent \subseteq Spent'
    BY <1>0, SpentGrows
  <1>2. Counted' /\ Latest' = Latest
    BY <1>0, <1>1, CountStays
  <1>3. PumpsRight'
    BY <1>0 DEF PumpsRight
  <1>4. \A b \in Agents : doing'[b].at \in {"await", "insert"} => doing'[b].shell \in 1 .. Latest
    <2>1. \A b \in Agents : doing[b].at \in {"await", "insert"} => doing[b].shell \in 1 .. Latest
      BY <1>0 DEF TermTyped
    <2> QED BY <2>1, ActorsAre DEF Moved
  <1>5. doing'["window"].at \in {"idle", "close", "forget"}
    BY <1>0, ActorsAre DEF Moved, TermTyped
  <1>6. TermTyped'
    BY <1>0, <1>2, <1>4, <1>5 DEF TermTyped, Moved
  <1> QED BY <1>2, <1>3, <1>6 DEF TermShape

LEMMA InsertKeeps ==
  ASSUME TermInv, NEW a \in Actors, doing[a].at = "insert", NEW e \in {"opened", "respawned"},
         e = "opened" <=> doing[a].shell = 1, InsertHandle(a, e),
         UNCHANGED <<bustle, shell, pump, aborted, listing, tab, unwanted>>
  PROVE  TermInv'
  <1>0. TermShape /\ TermTyped /\ Latest \in Nat /\ a \in Agents /\ doing[a].shell \in 1 .. Latest
    BY DEF TermInv, TermShape, Counted, TermTyped, Actors
  <1>1. /\ unheld' = (IF handle = 0 THEN unheld ELSE unheld \cup {handle})
        /\ handle' = doing[a].shell /\ StepTo(a, "done") /\ Emit(e)
    BY DEF InsertHandle
  <1>2. Moved(a, "done", doing[a].shell)
    BY <1>0, <1>1, StepMoves DEF OpPlaces
  <1>3. /\ mail' \in Seq({"opened", "respawned", "removed", "closed"})
        /\ mail' # <<>> /\ (mail # <<>> => Head(mail') = Head(mail)) /\ (mail = <<>> => Head(mail') = e)
        /\ \A i \in DOMAIN mail' : mail'[i] = e \/ (i \in DOMAIN mail /\ mail'[i] = mail[i])
    BY <1>0, <1>1, EventSent
  <1>4. TermShape' /\ Latest' = Latest
    <2>1. handle' \in 0 .. Latest /\ unheld' \subseteq 1 .. Latest /\ aborted' \subseteq unheld'
      BY <1>0, <1>1 DEF TermTyped
    <2>2. doing[a].shell \in Nat /\ a # "window" /\ "done" \in OpPlaces
      BY <1>0, ActorsAre DEF OpPlaces
    <2> QED BY <1>0, <1>2, <1>3, <2>1, <2>2, MovedShape DEF TermTyped
  <1>5. ASSUME Quiet PROVE QuietInv'
    <2>0. Earlier /\ Held /\ Heard /\ Listed /\ Asked /\ OpRight(a)
      BY <1>5 DEF TermInv, QuietInv
    <2>1. /\ doing[a].shell = Latest /\ handle = 0 /\ Latest \notin unheld /\ Serving(Latest) /\ listing = "live"
          /\ (Latest = 1 => mail = <<>>) /\ Latest > 0
          /\ \A b \in Actors : UnderWay(b) => b = a
      BY <2>0 DEF OpRight, Restarting
    <2>2. handle' = Latest /\ unheld' = unheld /\ pump[Latest] = "serves"
      BY <1>1, <2>1 DEF Serving
    <2>3. \A b \in Actors : doing'[b].at \in {"idle", "done"}
      BY <1>2, <2>1 DEF Moved, UnderWay
    <2>4. \A b \in Actors : OpRight(b)'
      BY <2>3, IdleRight
    <2>5. Earlier' /\ Held'
      BY <1>4, <2>0, <2>1, <2>2 DEF Earlier, Held
    <2>6. Heard'
      <3>1. tab = "none" => Head(mail') = "opened"
        <4>1. CASE Latest = 1
          BY <1>3, <2>1, <4>1
        <4>2. CASE Latest # 1
          <5>1. ~\E b \in Agents : doing[b].at = "insert" /\ doing[b].shell = 1
            BY <2>1, <4>2, ActorsAre DEF UnderWay
          <5> QED BY <1>3, <2>0, <2>1, <5>1 DEF Heard
        <4> QED BY <4>1, <4>2
      <3> QED BY <1>3, <1>4, <2>0, <2>1, <3>1 DEF Heard
    <2>7. Listed' /\ Asked'
      BY <1>0, <1>4, <2>0, <2>1, <2>2 DEF Listed, Asked, KilledAsked, TermTyped
    <2> QED BY <2>4, <2>5, <2>6, <2>7 DEF QuietInv
  <1> QED BY <1>4, <1>5 DEF TermInv, Quiet


LEMMA OpenDoneKeeps == ASSUME TermInv, NEW a \in Actors, OpenDone(a) PROVE TermInv'
  BY InsertKeeps DEF OpenDone

LEMMA RestartDoneKeeps == ASSUME TermInv, NEW a \in Actors, RestartDone(a) PROVE TermInv'
  BY InsertKeeps DEF RestartDone

LEMMA RestartBeginsKeeps == ASSUME TermInv, NEW a \in Agents, RestartBegins(a) PROVE TermInv'
  <1>0. TermShape /\ TermTyped /\ Latest \in Nat /\ a \in Actors /\ a # "window"
    BY ActorsAre DEF TermInv, TermShape, Counted
  <1>1. /\ doing[a].at = "idle" /\ listing # "none" /\ MayAct /\ unwanted' = unwanted \cup {Latest}
        /\ UNCHANGED <<bustle, shell, pump, unheld, aborted, handle, listing, mail, tab>>
    BY DEF RestartBegins
  <1>2. Moved(a, "unlist", Latest)
    BY <1>0, SetMoves DEF RestartBegins, OpPlaces
  <1>3. TermShape' /\ Latest' = Latest
    BY <1>0, <1>1, <1>2, MovedShape DEF TermTyped, OpPlaces
  <1>4. ASSUME Quiet PROVE QuietInv'
    <2>0. Earlier /\ Held /\ Heard /\ Listed /\ Asked /\ NoneUnderWay /\ AllTold
      BY <1>1, <1>4 DEF TermInv, QuietInv, MayAct, Quiet
    <2>1. Latest > 0
      BY <1>0, <1>1, <2>0 DEF Heard
    <2>2. pump[Latest] = "gone" \/ Serving(Latest)
      BY <1>0, <2>0, <2>1, LastOne DEF AllTold
    <2>3. \A b \in Actors : b # a => doing'[b].at \in {"idle", "done"} /\ doing[b].at \in {"idle", "done"}
      BY <1>2, <2>0 DEF Moved, NoneUnderWay, UnderWay
    <2>4. doing'[a].at = "unlist"
      BY <1>2 DEF Moved
    <2>5. ASSUME NEW b \in Actors PROVE OpRight(b)'
      <3>1. CASE b # a
        BY <2>3, <3>1, IdleRight
      <3>2. CASE b = a
        <4>1. \A c \in Actors : UnderWay(c)' => c = a
          BY <2>3 DEF UnderWay
        <4>2. Latest' \in unwanted' /\ (pump'[Latest'] = "gone" \/ Serving(Latest'))
          BY <1>1, <1>3, <2>2
        <4> QED BY <1>1, <1>3, <2>0, <2>1, <2>2, <2>4, <3>2, <4>1 DEF OpRight, Restarting, AllTold, Serving
      <3> QED BY <3>1, <3>2
    <2>6. Earlier' /\ Held'
      BY <1>1, <1>3, <2>0, ActorsAre DEF Earlier, Held, NoneUnderWay, UnderWay
    <2>7. Heard'
      BY <1>1, <1>3, <2>0, ActorsAre DEF Heard, NoneUnderWay, UnderWay
    <2>8. Listed' /\ Asked'
      BY <1>1, <1>3, <2>0, ActorsAre DEF Listed, Asked, KilledAsked, NoneUnderWay, UnderWay
    <2> QED BY <2>5, <2>6, <2>7, <2>8 DEF QuietInv
  <1> QED BY <1>1, <1>3, <1>4 DEF TermInv, Quiet

LEMMA RestartUnlistsKeeps == ASSUME TermInv, NEW a \in Actors, RestartUnlists(a) PROVE TermInv'
  <1>0. TermShape /\ TermTyped /\ Latest \in Nat /\ a # "window" /\ doing[a].shell \in Nat /\ handle \in 0 .. Latest
    BY DEF TermInv, TermShape, Counted, TermTyped, RestartUnlists
  <1>1. /\ doing[a].at = "unlist" /\ handle' = 0
        /\ UNCHANGED <<bustle, shell, pump, listing, mail, tab, unwanted>>
    BY DEF RestartUnlists
  <1>2. CASE handle = 0
    <2>1. UNCHANGED <<unheld, aborted>> /\ Moved(a, "spawn", doing[a].shell)
      BY <1>0, <1>2, StepMoves DEF RestartUnlists, OpPlaces
    <2>2. TermShape' /\ Latest' = Latest
      <3>1. /\ handle' \in 0 .. Latest /\ unheld' \subseteq 1 .. Latest /\ aborted' \subseteq unheld'
            /\ "spawn" \in OpPlaces
        BY <1>0, <1>1, <2>1 DEF TermTyped, OpPlaces
      <3> QED BY <1>0, <1>1, <2>1, <3>1, MovedShape DEF TermTyped
    <2>3. ASSUME Quiet PROVE QuietInv'
      <3>0. Earlier /\ Held /\ Heard /\ Listed /\ Asked /\ OpRight(a)
        BY <2>3 DEF TermInv, QuietInv
      <3>1. /\ \A b \in Actors : UnderWay(b) => b = a
            /\ listing # "none" /\ Latest > 0 /\ (\A i \in DOMAIN mail : mail[i] # "closed")
            /\ pump[Latest] = "gone" \/ Serving(Latest)
        BY <1>1, <3>0 DEF OpRight, Restarting
      <3>2. \A b \in Actors : doing[b].at \notin {"insert", "await", "forget", "spawn"}
        BY <1>1, <3>1 DEF UnderWay
      <3>3. Latest \in unheld /\ pump[Latest] = "gone"
        BY <1>2, <3>0, <3>1, <3>2, ActorsAre DEF Held, Serving
      <3>4. doing'[a].at = "spawn" /\ \A b \in Actors : b # a => doing'[b].at \in {"idle", "done"}
        BY <2>1, <3>1 DEF Moved, UnderWay
      <3>5. ASSUME NEW b \in Actors PROVE OpRight(b)'
        <4>1. CASE b # a
          BY <3>4, <4>1, IdleRight
        <4>2. CASE b = a
          <5>1. \A c \in Actors : UnderWay(c)' => c = a
            BY <3>4 DEF UnderWay
          <5> QED BY <1>1, <2>2, <3>1, <3>3, <3>4, <4>2, <5>1 DEF OpRight, Restarting
        <4> QED BY <4>1, <4>2
      <3>6. Earlier' /\ Held'
        BY <1>1, <2>1, <2>2, <3>0, <3>3 DEF Earlier, Held
      <3>7. Heard'
        BY <1>1, <2>2, <3>0, <3>2, ActorsAre DEF Heard
      <3>8. Listed' /\ Asked'
        BY <1>1, <2>1, <2>2, <3>0, <3>4 DEF Listed, Asked, KilledAsked
      <3> QED BY <3>5, <3>6, <3>7, <3>8 DEF QuietInv
    <2> QED BY <1>1, <2>2, <2>3 DEF TermInv, Quiet
  <1>3. CASE handle # 0
    <2>1. /\ aborted' = aborted \cup {handle} /\ unheld' = unheld \cup {handle}
          /\ Moved(a, "await", handle) /\ handle \in 1 .. Latest
      BY <1>0, <1>3, SetMoves DEF RestartUnlists, OpPlaces
    <2>2. TermShape' /\ Latest' = Latest
      <3>1. /\ handle' \in 0 .. Latest /\ unheld' \subseteq 1 .. Latest /\ aborted' \subseteq unheld'
            /\ "await" \in OpPlaces /\ handle \in Nat
        BY <1>0, <1>1, <2>1 DEF TermTyped, OpPlaces
      <3> QED BY <1>0, <1>1, <2>1, <3>1, MovedShape DEF TermTyped
    <2>3. ASSUME Quiet PROVE QuietInv'
      <3>0. Earlier /\ Held /\ Heard /\ Listed /\ Asked /\ OpRight(a)
        BY <2>3 DEF TermInv, QuietInv
      <3>1. /\ \A b \in Actors : UnderWay(b) => b = a
            /\ listing # "none" /\ Latest > 0 /\ (\A i \in DOMAIN mail : mail[i] # "closed")
            /\ Latest \in unwanted /\ (pump[Latest] = "gone" \/ Serving(Latest))
        BY <1>1, <3>0 DEF OpRight, Restarting
      <3>2. \A b \in Actors : doing[b].at \notin {"insert", "await", "forget", "spawn"}
        BY <1>1, <3>1 DEF UnderWay
      <3>3. handle = Latest /\ shell[Latest] = "runs" /\ pump[Latest] = "serves"
        BY <1>3, <3>0, <3>1 DEF Held, Serving
      <3>4. /\ doing'[a].at = "await" /\ doing'[a].shell = Latest
            /\ \A b \in Actors : b # a => doing'[b].at \in {"idle", "done"}
        BY <2>1, <3>1, <3>3 DEF Moved, UnderWay
      <3>5. ASSUME NEW b \in Actors PROVE OpRight(b)'
        <4>1. CASE b # a
          BY <3>4, <4>1, IdleRight
        <4>2. CASE b = a
          <5>1. \A c \in Actors : UnderWay(c)' => c = a
            BY <3>4 DEF UnderWay
          <5> QED BY <1>1, <2>2, <3>1, <3>3, <3>4, <4>2, <5>1 DEF OpRight, Restarting
        <4> QED BY <4>1, <4>2
      <3>6. Earlier' /\ Held'
        BY <1>1, <2>1, <2>2, <3>0, <3>3, <3>4 DEF Earlier, Held
      <3>7. Heard'
        BY <1>1, <2>2, <3>0, <3>2, ActorsAre DEF Heard
      <3>8. Listed' /\ Asked'
        BY <1>1, <2>1, <2>2, <3>0, <3>1, <3>3, <3>4 DEF Listed, Asked, KilledAsked
      <3> QED BY <3>5, <3>6, <3>7, <3>8 DEF QuietInv
    <2> QED BY <1>1, <2>2, <2>3 DEF TermInv, Quiet
  <1> QED BY <1>2, <1>3

\* A restart that has awaited the old shell, or was refused a new one.
LEMMA RestartAwaitsKeeps == ASSUME TermInv, NEW a \in Actors, RestartAwaits(a) PROVE TermInv'
  <1>0. TermShape /\ TermTyped /\ Latest \in Nat /\ a # "window" /\ doing[a].shell \in Nat
    BY DEF TermInv, TermShape, Counted, TermTyped, RestartAwaits
  <1>1. /\ doing[a].at = "await" /\ pump[doing[a].shell] = "gone"
        /\ UNCHANGED <<bustle, shell, pump, unheld, aborted, handle, listing, mail, tab, unwanted>>
    BY DEF RestartAwaits
  <1>2. Moved(a, "spawn", doing[a].shell)
    BY <1>0, StepMoves DEF RestartAwaits, OpPlaces
  <1>3. TermShape' /\ Latest' = Latest
    BY <1>0, <1>1, <1>2, MovedShape DEF TermTyped, OpPlaces
  <1>4. ASSUME Quiet PROVE QuietInv'
    <2>0. Earlier /\ Held /\ Heard /\ Listed /\ Asked /\ OpRight(a)
      BY <1>4 DEF TermInv, QuietInv
    <2>1. /\ \A b \in Actors : UnderWay(b) => b = a
          /\ listing # "none" /\ Latest > 0 /\ (\A i \in DOMAIN mail : mail[i] # "closed")
          /\ handle = 0 /\ pump[Latest] = "gone"
      BY <1>1, <2>0 DEF OpRight, Restarting
    <2>2. \A b \in Actors : doing[b].at # "insert"
      BY <1>1, <2>1 DEF UnderWay
    <2>3. doing'[a].at = "spawn" /\ \A b \in Actors : b # a => doing'[b].at \in {"idle", "done"}
      BY <1>2, <2>1 DEF Moved, UnderWay
    <2>4. ASSUME NEW b \in Actors PROVE OpRight(b)'
      <3>1. CASE b # a
        BY <2>3, <3>1, IdleRight
      <3>2. CASE b = a
        <4>1. \A c \in Actors : UnderWay(c)' => c = a
          BY <2>3 DEF UnderWay
        <4> QED BY <1>1, <1>3, <2>1, <2>3, <3>2, <4>1 DEF OpRight, Restarting
      <3> QED BY <3>1, <3>2
    <2>5. Earlier' /\ Held'
      BY <1>1, <1>3, <2>0, <2>1, <2>2, ActorsAre DEF Earlier, Held
    <2>6. Heard'
      BY <1>1, <1>3, <2>0, <2>2, ActorsAre DEF Heard
    <2>7. Listed' /\ Asked'
      BY <1>1, <1>3, <2>0, <2>3 DEF Listed, Asked, KilledAsked
    <2> QED BY <2>4, <2>5, <2>6, <2>7 DEF QuietInv
  <1> QED BY <1>1, <1>3, <1>4 DEF TermInv, Quiet

LEMMA RestartFailsKeeps == ASSUME TermInv, NEW a \in Actors, RestartFails(a) PROVE TermInv'
  <1>0. TermShape /\ TermTyped /\ Latest \in Nat /\ a # "window" /\ doing[a].shell \in Nat
    BY DEF TermInv, TermShape, Counted, TermTyped, RestartFails
  <1>1. /\ doing[a].at = "spawn" /\ "fails" \in bustle
        /\ UNCHANGED <<bustle, shell, pump, unheld, aborted, handle, listing, mail, tab, unwanted>>
    BY DEF RestartFails
  <1>2. Moved(a, "done", doing[a].shell)
    BY <1>0, StepMoves DEF RestartFails, OpPlaces
  <1>3. TermShape' /\ Latest' = Latest
    BY <1>0, <1>1, <1>2, MovedShape DEF TermTyped, OpPlaces
  <1>4. ASSUME Quiet PROVE QuietInv'
    <2>0. Earlier /\ Held /\ Heard /\ Listed /\ Asked /\ OpRight(a)
      BY <1>4 DEF TermInv, QuietInv
    <2>1. /\ \A b \in Actors : UnderWay(b) => b = a
          /\ Latest > 0 /\ handle = 0 /\ pump[Latest] = "gone"
      BY <1>1, <2>0 DEF OpRight, Restarting
    <2>2. \A b \in Actors : doing[b].at # "insert" /\ doing'[b].at \in {"idle", "done"}
      BY <1>1, <1>2, <2>1 DEF UnderWay, Moved
    <2>3. \A b \in Actors : OpRight(b)'
      BY <2>2, IdleRight
    <2>4. Earlier' /\ Held'
      BY <1>1, <1>3, <2>0, <2>1, <2>2, ActorsAre DEF Earlier, Held
    <2>5. Heard'
      BY <1>1, <1>3, <2>0, <2>2, ActorsAre DEF Heard
    <2>6. Listed' /\ Asked'
      BY <1>1, <1>3, <2>0 DEF Listed, Asked, KilledAsked
    <2> QED BY <2>3, <2>4, <2>5, <2>6 DEF QuietInv
  <1> QED BY <1>1, <1>3, <1>4 DEF TermInv, Quiet


LEMMA CloseBeginning ==
  ASSUME TermInv, NEW a \in Actors, doing[a].at = "idle", MayClose, Quiet => Latest > 0,
         StepTo(a, "close"), unwanted' = unwanted \cup {Latest},
         UNCHANGED <<bustle, shell, pump, unheld, aborted, handle, listing, mail, tab>>
  PROVE  TermInv'
  <1>0. TermShape /\ TermTyped /\ Latest \in Nat /\ doing[a].shell \in Nat
    BY DEF TermInv, TermShape, Counted, TermTyped
  <1>1. Moved(a, "close", doing[a].shell)
    BY <1>0, StepMoves DEF OpPlaces
  <1>2. TermShape' /\ Latest' = Latest
    <2>1. "close" \in OpPlaces
      BY DEF OpPlaces
    <2> QED BY <1>0, <1>1, <2>1, MovedShape DEF TermTyped
  <1>3. ASSUME Quiet PROVE QuietInv'
    <2>0. Earlier /\ (\A b \in Actors : OpRight(b)) /\ Held /\ Heard /\ Listed /\ Asked /\ Latest > 0
      BY <1>3 DEF TermInv, QuietInv
    <2>1. \A b \in Actors : ~Restarting(b)
      BY <1>3 DEF MayClose, MayAct, Quiet, NoneUnderWay, OnlyCloses, UnderWay, Restarting
    <2>2. doing'[a].at = "close" /\ \A b \in Actors : b # a => doing'[b] = doing[b]
      BY <1>1 DEF Moved
    <2>3. \A b \in Actors : ~Restarting(b)' /\ (doing'[b].at = "forget" => doing[b].at = "forget")
      BY <2>1, <2>2 DEF Restarting
    <2>4. ASSUME NEW b \in Actors PROVE OpRight(b)'
      BY <1>2, <2>0, <2>3 DEF OpRight, Restarting
    <2>5. Earlier' /\ Held'
      BY <1>2, <2>0, <2>1, <2>2, ActorsAre DEF Earlier, Held, Restarting
    <2>6. Heard'
      BY <1>2, <2>0, <2>1, ActorsAre DEF Heard, Restarting
    <2>7. Listed' /\ Asked'
      BY <1>2, <2>0, <2>2 DEF Listed, Asked, KilledAsked
    <2> QED BY <2>4, <2>5, <2>6, <2>7 DEF QuietInv
  <1> QED BY <1>2, <1>3 DEF TermInv, Quiet

LEMMA CloseBeginsKeeps == ASSUME TermInv, NEW a \in Agents, CloseBegins(a) PROVE TermInv'
  <1>1. Quiet => Latest > 0
    BY DEF CloseBegins, TermInv, TermShape, Counted, QuietInv, Heard
  <1> QED BY <1>1, CloseBeginning, ActorsAre DEF CloseBegins

LEMMA TabClickKeeps == ASSUME TermInv, TabClick PROVE TermInv'
  <1>1. Quiet => Latest > 0
    BY DEF TabClick, TermInv, TermShape, Counted, QuietInv, Heard
  <1> QED BY <1>1, CloseBeginning, ActorsAre DEF TabClick

LEMMA CloseAbortsKeeps == ASSUME TermInv, NEW a \in Actors, CloseAborts(a) PROVE TermInv'
  <1>0. TermShape /\ TermTyped /\ Latest \in Nat /\ doing[a].shell \in Nat /\ handle \in 0 .. Latest
    BY DEF TermInv, TermShape, Counted, TermTyped
  <1>1. /\ doing[a].at = "close" /\ handle' = 0
        /\ IF handle = 0
           THEN UNCHANGED <<unheld, aborted>>
           ELSE aborted' = aborted \cup {handle} /\ unheld' = unheld \cup {handle}
        /\ UNCHANGED <<bustle, shell, pump, listing, mail, tab, unwanted>>
    BY DEF CloseAborts
  <1>2. Moved(a, "forget", doing[a].shell)
    BY <1>0, StepMoves DEF CloseAborts, OpPlaces
  <1>3. TermShape' /\ Latest' = Latest
    <2>1. unheld \subseteq 1 .. Latest /\ aborted \subseteq unheld /\ "forget" \in OpPlaces /\ handle' \in 0 .. Latest
      BY <1>0, <1>1 DEF TermTyped, OpPlaces
    <2>2. unheld' \subseteq 1 .. Latest /\ aborted' \subseteq unheld'
      <3>1. CASE handle = 0
        BY <1>1, <2>1, <3>1
      <3>2. CASE handle # 0
        <4>1. handle \in 1 .. Latest
          BY <1>0, <3>2
        <4>2. aborted' = aborted \cup {handle} /\ unheld' = unheld \cup {handle}
          BY <1>1, <3>2
        <4> QED BY <2>1, <4>1, <4>2
      <3> QED BY <3>1, <3>2
    <2> QED BY <1>0, <1>1, <1>2, <2>1, <2>2, MovedShape DEF TermTyped
  <1>4. ASSUME Quiet PROVE QuietInv'
    <2>0. Earlier /\ (\A b \in Actors : OpRight(b)) /\ Held /\ Heard /\ Listed /\ Asked
      BY <1>4 DEF TermInv, QuietInv
    <2>1. \A b \in Actors : ~Restarting(b)
      BY <1>1, <2>0 DEF OpRight, Restarting, UnderWay
    <2>2. doing'[a].at = "forget" /\ \A b \in Actors : b # a => doing'[b] = doing[b]
      BY <1>2 DEF Moved
    <2>3. \A b \in Actors : ~Restarting(b)' /\ (doing'[b].at \in {"close", "forget"} => doing[b].at \in {"close", "forget"})
      BY <1>1, <2>1, <2>2 DEF Restarting
    <2>4. Latest > 0 /\ (handle = 0 \/ (Latest \in unwanted /\ handle = Latest))
      BY <1>1, <2>0 DEF OpRight, Held
    <2>5. ASSUME NEW b \in Actors PROVE OpRight(b)'
      BY <1>1, <1>3, <2>3, <2>4 DEF OpRight, Restarting
    <2>6. Earlier'
      BY <1>1, <1>3, <2>0 DEF Earlier
    <2>7. Held'
      BY <1>1, <1>3, <2>0, <2>1, <2>2, <2>4, ActorsAre DEF Held, Restarting
    <2>8. Heard'
      BY <1>1, <1>3, <2>0, <2>1, ActorsAre DEF Heard, Restarting
    <2>9. Listed' /\ Asked'
      BY <1>1, <1>3, <2>0, <2>2, <2>4 DEF Listed, Asked, KilledAsked
    <2> QED BY <2>5, <2>6, <2>7, <2>8, <2>9 DEF QuietInv
  <1> QED BY <1>1, <1>3, <1>4 DEF TermInv, Quiet

LEMMA CloseForgetsKeeps == ASSUME TermInv, NEW a \in Actors, CloseForgets(a) PROVE TermInv'
  <1>0. TermShape /\ TermTyped /\ Latest \in Nat
    BY DEF TermInv, TermShape, Counted
  <1>1. /\ doing[a].at = "forget" /\ listing' = "none"
        /\ IF a = "window" THEN tab' = "shut" /\ UNCHANGED mail ELSE Emit("removed") /\ UNCHANGED tab
        /\ UNCHANGED <<bustle, shell, pump, unheld, aborted, handle, unwanted>>
    BY DEF CloseForgets
  <1>2. PICK w \in {"idle", "done"} : w = (IF a = "window" THEN "idle" ELSE "done")
    OBVIOUS
  <1>3. Moved(a, w, 0)
    <2>1. [NoOp EXCEPT !.at = w] = [at |-> w, shell |-> 0] /\ w \in OpPlaces
      BY DEF NoOp, OpPlaces
    <2>2. doing' = [doing EXCEPT ![a] = [at |-> w, shell |-> 0]]
      BY <1>2, <2>1 DEF CloseForgets
    <2> QED BY <1>0, <2>1, <2>2, SetMoves
  <1>4. /\ mail' \in Seq({"opened", "respawned", "removed", "closed"})
        /\ (mail # <<>> => mail' # <<>> /\ Head(mail') = Head(mail))
        /\ \A i \in DOMAIN mail' : mail'[i] = "removed" \/ (i \in DOMAIN mail /\ mail'[i] = mail[i])
    <2>1. CASE a = "window"
      BY <1>0, <1>1, <2>1 DEF TermTyped
    <2>2. CASE a # "window"
      BY <1>0, <1>1, <2>2, EventSent
    <2> QED BY <2>1, <2>2
  <1>5. TermShape' /\ Latest' = Latest
    <2>1. w \in OpPlaces /\ (a = "window" => w = "idle") /\ w \notin {"await", "insert"} /\ tab' \in {"none", "open", "shut"}
      BY <1>0, <1>1, <1>2 DEF TermTyped, OpPlaces
    <2> QED BY <1>0, <1>1, <1>3, <1>4, <2>1, MovedShape DEF TermTyped
  <1>6. ASSUME Quiet PROVE QuietInv'
    <2>0. Earlier /\ (\A b \in Actors : OpRight(b)) /\ Held /\ Heard /\ Listed /\ Asked
      BY <1>6 DEF TermInv, QuietInv
    <2>1. \A b \in Actors : ~Restarting(b)
      BY <1>1, <2>0 DEF OpRight, Restarting, UnderWay
    <2>2. doing'[a].at \in {"idle", "done"} /\ \A b \in Actors : b # a => doing'[b] = doing[b]
      BY <1>3 DEF Moved
    <2>3. \A b \in Actors : ~Restarting(b)' /\ (doing'[b].at \in {"close", "forget"} => doing[b].at = doing'[b].at)
      BY <1>1, <2>1, <2>2 DEF Restarting
    <2>4. Latest > 0 /\ handle = 0
      BY <1>1, <2>0 DEF OpRight
    <2>5. ASSUME NEW b \in Actors PROVE OpRight(b)'
      BY <1>1, <1>5, <2>3, <2>4 DEF OpRight, Restarting
    <2>6. Earlier' /\ Held'
      BY <1>1, <1>5, <2>0, <2>1, <2>4, ActorsAre DEF Earlier, Held, Restarting
    <2>7. Heard'
      <3>1. \A i \in DOMAIN mail' : mail'[i] = "closed" => pump'[Latest'] = "gone"
        BY <1>1, <1>4, <1>5, <2>0 DEF Heard
      <3>2. tab' = "none" => mail' # <<>> /\ Head(mail') = "opened"
        BY <1>1, <1>4, <2>0, <2>1, <2>4, ActorsAre DEF Heard, Restarting
      <3> QED BY <1>1, <1>5, <2>4, <3>1, <3>2 DEF Heard
    <2>8. Listed' /\ Asked'
      BY <1>1, <1>5, <2>0 DEF Listed, Asked, KilledAsked
    <2> QED BY <2>5, <2>6, <2>7, <2>8 DEF QuietInv
  <1> QED BY <1>1, <1>5, <1>6 DEF TermInv, Quiet

LEMMA HearsKeeps == ASSUME TermInv, Hears PROVE TermInv'
  <1>0. TermShape /\ TermTyped /\ Latest \in Nat /\ "window" \in Actors /\ "window" \notin Agents
    BY ActorsAre DEF TermInv, TermShape, Counted
  <1>1. /\ mail # <<>> /\ mail' = Tail(mail)
        /\ tab' = (CASE Head(mail) = "opened" /\ tab = "none" -> "open"
                     [] Head(mail) = "removed" -> "shut"
                     [] OTHER -> tab)
        /\ UNCHANGED <<bustle, shell, pump, unheld, aborted, handle, listing, unwanted>>
    BY DEF Hears
  <1>2. /\ mail' \in Seq({"opened", "respawned", "removed", "closed"})
        /\ 1 \in DOMAIN mail /\ Head(mail) = mail[1]
        /\ \A i \in DOMAIN mail' : i \in Nat /\ i + 1 \in DOMAIN mail /\ mail'[i] = mail[i + 1]
    BY <1>0, <1>1, EventHeard
  <1>3. PICK w \in {"idle", "close", "forget"} :
           /\ Moved("window", w, doing["window"].shell)
           /\ \/ w = doing["window"].at
              \/ Head(mail) = "closed" /\ doing["window"].at = "idle" /\ w = "close"
    <2>1. doing["window"].at \in {"idle", "close", "forget"} /\ doing \in [Actors -> [at : OpPlaces, shell : Nat]]
      BY <1>0 DEF TermTyped
    <2>2. CASE UNCHANGED doing
      BY <1>0, <2>1, <2>2 DEF Moved
    <2>3. CASE Head(mail) = "closed" /\ doing["window"].at = "idle" /\ StepTo("window", "close")
      BY <1>0, <2>3, StepMoves DEF OpPlaces
    <2> QED BY <2>2, <2>3 DEF Hears
  <1>4. TermShape' /\ Latest' = Latest
    <2>1. w \in OpPlaces /\ doing["window"].shell \in Nat /\ tab' \in {"none", "open", "shut"} /\ doing["window"].at # "insert"
      BY <1>0, <1>1 DEF TermTyped, OpPlaces
    <2> QED BY <1>0, <1>1, <1>2, <1>3, <2>1, MovedShape DEF TermTyped
  <1>5. ASSUME Quiet PROVE QuietInv'
    <2>0. Earlier /\ (\A b \in Actors : OpRight(b)) /\ Held /\ Heard /\ Listed /\ Asked
      BY <1>5 DEF TermInv, QuietInv
    <2>1. /\ doing'["window"].at = w /\ (\A b \in Actors : b # "window" => doing'[b] = doing[b])
          /\ w # doing["window"].at => doing["window"].at = "idle" /\ w = "close" /\ Head(mail) = "closed"
      BY <1>3 DEF Moved
    <2>2. Latest > 0
      BY <1>0, <1>1, <2>0 DEF Heard
    <2>3. Head(mail) = "closed" => handle = 0 /\ \A b \in Actors : ~Restarting(b)
      BY <1>2, <2>0 DEF Heard, Held, OpRight
    <2>4. ASSUME NEW b \in Actors PROVE OpRight(b)'
      <3>1. CASE b = "window"
        <4>1. ~Restarting(b)'
          BY <2>1, <3>1 DEF Restarting
        <4>2. CASE w # doing["window"].at
          BY <1>1, <1>4, <2>1, <2>2, <2>3, <3>1, <4>1, <4>2 DEF OpRight, Restarting
        <4>3. CASE w = doing["window"].at
          BY <1>1, <1>4, <2>0, <2>1, <2>2, <3>1, <4>1, <4>3 DEF OpRight, Restarting
        <4> QED BY <4>2, <4>3
      <3>2. CASE b # "window"
        <4>1. OpRight(b) /\ doing'[b] = doing[b]
          BY <2>0, <2>1, <3>2
        <4>2. ASSUME Restarting(b)
              PROVE  /\ \A c \in Actors : UnderWay(c)' => c = b
                     /\ \A i \in DOMAIN mail' : mail'[i] # "closed"
                     /\ doing[b].at = "insert" => Latest # 1
          <5>1. /\ \A c \in Actors : UnderWay(c) => c = b
                /\ \A i \in DOMAIN mail : mail[i] # "closed"
                /\ doing[b].at = "insert" => Latest # 1
            BY <1>1, <4>1, <4>2 DEF OpRight
          <5> QED BY <1>2, <2>1, <5>1 DEF UnderWay
        <4>3. Restarting(b)' = Restarting(b) /\ pump'[Latest'] = pump[Latest] /\ shell'[Latest'] = shell[Latest]
          BY <1>1, <1>4, <4>1 DEF Restarting
        <4>4. Restarting(b) <=> doing[b].at \in {"unlist", "await", "spawn", "insert"}
          BY DEF Restarting
        <4> QED BY <1>1, <1>4, <4>1, <4>2, <4>3, <4>4 DEF OpRight, Serving
      <3> QED BY <3>1, <3>2
    <2>5. Earlier'
      BY <1>1, <1>4, <2>0 DEF Earlier
    <2>6. Held'
      <3>1. \A b \in Actors : doing[b].at \in {"await", "forget"} => doing'[b].at \in {"await", "forget"}
        BY <2>1
      <3>2. \A b \in Agents : doing'[b] = doing[b]
        BY <1>0, <2>1, ActorsAre
      <3> QED BY <1>1, <1>4, <2>0, <3>1, <3>2 DEF Held
    <2>7. Heard'
      <3>1. \A i \in DOMAIN mail' : (mail'[i] = "closed" => pump[Latest] = "gone") /\ (mail'[i] = "removed" => listing = "none")
        BY <1>2, <2>0 DEF Heard
      <3>2. tab' = "shut" => listing = "none"
        BY <1>1, <1>2, <2>0 DEF Heard
      <3>3. tab' = "none" => \E b \in Agents : doing'[b].at = "insert" /\ doing'[b].shell = 1
        <4>1. tab' = "none" => tab = "none" /\ Head(mail) # "opened"
          BY <1>0, <1>1 DEF TermTyped
        <4> QED BY <1>0, <2>0, <2>1, <2>2, <4>1, ActorsAre DEF Heard
      <3> QED BY <1>1, <1>4, <2>2, <3>1, <3>2, <3>3 DEF Heard
    <2>8. Listed' /\ Asked'
      <3>1. \A b \in Actors : doing[b].at \in {"await", "spawn", "forget"} => doing'[b].at \in {"await", "spawn", "forget"}
        BY <2>1
      <3> QED BY <1>1, <1>4, <2>0, <3>1 DEF Listed, Asked, KilledAsked
    <2> QED BY <2>4, <2>5, <2>6, <2>7, <2>8 DEF QuietInv
  <1> QED BY <1>1, <1>4, <1>5 DEF TermInv, Quiet


-----------------------------------------------------------------------------
(* The shells and their supervisors.                                       *)

\* The shape stays when shells end and supervisors go on.
LEMMA PumpedShape ==
  ASSUME TermShape, UNCHANGED <<bustle, doing, tab>>,
         shell' \in [Shells -> {"none", "runs", "ended", "killed"}],
         pump' \in [Shells -> {"none", "serves", "reaps", "unlists", "marks", "gone"}],
         \A n \in Shells : (shell'[n] = "none") <=> (shell[n] = "none"), PumpsRight',
         handle' \in 0 .. Latest, unheld' \subseteq 1 .. Latest, aborted' \subseteq unheld',
         listing' \in {"none", "live", "exited"},
         mail' \in Seq({"opened", "respawned", "removed", "closed"})
  PROVE  TermShape' /\ Latest' = Latest
  <1>0. Counted /\ TermTyped
    BY DEF TermShape
  <1>1. Spent = Spent'
    BY DEF Spent
  <1>2. Counted' /\ Latest' = Latest
    BY <1>0, <1>1, CountStays
  <1>3. TermTyped'
    BY <1>0, <1>2 DEF TermTyped
  <1> QED BY <1>2, <1>3 DEF TermShape

LEMMA ShellEndsKeeps == ASSUME TermInv, NEW n \in Shells, ShellEnds(n) PROVE TermInv'
  <1>0. TermShape /\ TermTyped /\ PumpsRight /\ Latest \in Nat
    BY DEF TermInv, TermShape, Counted
  <1>1. /\ shell[n] = "runs" /\ shell' = [shell EXCEPT ![n] = "ended"]
        /\ UNCHANGED <<bustle, pump, unheld, aborted, handle, listing, mail, tab, doing, unwanted>>
    BY DEF ShellEnds
  <1>2. /\ shell' \in [Shells -> {"none", "runs", "ended", "killed"}]
        /\ shell'[n] = "ended" /\ \A m \in Shells : m # n => shell'[m] = shell[m]
    BY <1>0, <1>1 DEF TermTyped
  <1>3. PumpsRight'
    BY <1>0, <1>1, <1>2 DEF PumpsRight
  <1>4. TermShape' /\ Latest' = Latest
    BY <1>0, <1>1, <1>2, <1>3, PumpedShape DEF TermTyped
  <1>5. ASSUME Quiet PROVE QuietInv'
    <2>0. Earlier /\ (\A b \in Actors : OpRight(b)) /\ Held /\ Heard /\ Listed /\ Asked
      BY <1>5 DEF TermInv, QuietInv
    <2>1. \A b \in Actors : ~Restarting(b)
      BY <1>5 DEF ShellEnds, Quiet, NoneUnderWay, OnlyCloses, UnderWay, Restarting
    <2>2. ASSUME NEW b \in Actors PROVE OpRight(b)'
      BY <1>1, <1>4, <2>0, <2>1 DEF OpRight, Restarting
    <2>3. Earlier' /\ Held' /\ Heard' /\ Listed'
      BY <1>1, <1>4, <2>0 DEF Earlier, Held, Heard, Listed
    <2>4. Asked'
      BY <1>1, <1>2, <2>0 DEF Asked, KilledAsked
    <2> QED BY <2>2, <2>3, <2>4 DEF QuietInv
  <1> QED BY <1>1, <1>4, <1>5 DEF TermInv, Quiet

LEMMA AbortKeeps == ASSUME TermInv, NEW n \in Shells, Abort(n) PROVE TermInv'
  <1>0. TermShape /\ TermTyped /\ PumpsRight /\ Latest \in Nat
    BY DEF TermInv, TermShape, Counted
  <1>1. /\ n \in aborted /\ pump[n] \notin {"none", "gone"} /\ pump' = [pump EXCEPT ![n] = "gone"]
        /\ shell' = [shell EXCEPT ![n] = IF @ = "runs" THEN "killed" ELSE @]
        /\ UNCHANGED <<bustle, unheld, aborted, handle, listing, mail, tab, doing, unwanted>>
    BY DEF Abort, Dropped
  <1>2. /\ shell' \in [Shells -> {"none", "runs", "ended", "killed"}]
        /\ shell'[n] # "runs" /\ (shell'[n] = "none" <=> shell[n] = "none")
        /\ \A m \in Shells : m # n => shell'[m] = shell[m]
    BY <1>0, <1>1 DEF TermTyped
  <1>3. /\ pump' \in [Shells -> {"none", "serves", "reaps", "unlists", "marks", "gone"}]
        /\ pump'[n] = "gone" /\ \A m \in Shells : m # n => pump'[m] = pump[m]
    BY <1>0, <1>1 DEF TermTyped
  <1>4. PumpsRight'
    BY <1>0, <1>1, <1>2, <1>3 DEF PumpsRight
  <1>5. TermShape' /\ Latest' = Latest
    BY <1>0, <1>1, <1>2, <1>3, <1>4, PumpedShape DEF TermTyped
  <1>6. ASSUME Quiet PROVE QuietInv'
    <2>0. Earlier /\ (\A b \in Actors : OpRight(b)) /\ Held /\ Heard /\ Listed /\ Asked
      BY <1>6 DEF TermInv, QuietInv
    <2>1. n = Latest /\ Latest > 0
      BY <1>0, <1>1, <2>0, LastOne
    <2>2. Latest \in unheld /\ Latest \in aborted /\ handle = 0 /\ pump'[Latest'] = "gone"
      BY <1>0, <1>1, <1>3, <1>5, <2>0, <2>1 DEF Held, TermTyped
    <2>3. ASSUME NEW b \in Actors PROVE OpRight(b)'
      <3>1. OpRight(b)
        BY <2>0
      <3> QED BY <1>1, <1>5, <2>1, <2>2, <3>1 DEF OpRight, Restarting, UnderWay
    <2>4. Earlier'
      BY <1>3, <1>5, <2>0 DEF Earlier
    <2>5. Held' /\ Heard' /\ Listed'
      BY <1>1, <1>5, <2>0, <2>1, <2>2 DEF Held, Heard, Listed
    <2>6. Asked'
      <3>1. n \in unwanted
        BY <1>1, <2>0 DEF Asked
      <3> QED BY <1>1, <1>2, <2>0, <3>1 DEF Asked, KilledAsked
    <2> QED BY <2>3, <2>4, <2>5, <2>6 DEF QuietInv
  <1> QED BY <1>1, <1>5, <1>6 DEF TermInv, Quiet

\* A supervisor that leaves its loop, or sees that its shell is over.
LEMMA WindsDownKeeps == ASSUME TermInv, NEW n \in Shells, Breaks(n) \/ Reaps(n) PROVE TermInv'
  <1>0. TermShape /\ TermTyped /\ PumpsRight /\ Latest \in Nat
    BY DEF TermInv, TermShape, Counted
  <1>1. PICK p \in {"reaps", "unlists"} :
          /\ pump' = [pump EXCEPT ![n] = p]
          /\ p = "reaps" => pump[n] = "serves" /\ (shell[n] # "runs" \/ n \in unheld)
          /\ p = "unlists" => pump[n] = "reaps" /\ shell[n] # "runs"
    BY DEF Breaks, Reaps
  <1>2. UNCHANGED <<bustle, shell, unheld, aborted, handle, listing, mail, tab, doing, unwanted>>
    BY DEF Breaks, Reaps
  <1>3. /\ pump' \in [Shells -> {"none", "serves", "reaps", "unlists", "marks", "gone"}]
        /\ pump'[n] = p /\ \A m \in Shells : m # n => pump'[m] = pump[m]
    BY <1>0, <1>1 DEF TermTyped
  <1>4. PumpsRight'
    BY <1>0, <1>1, <1>2, <1>3 DEF PumpsRight
  <1>5. TermShape' /\ Latest' = Latest
    BY <1>0, <1>1, <1>2, <1>3, <1>4, PumpedShape DEF TermTyped
  <1>6. ASSUME Quiet PROVE QuietInv'
    <2>0. Earlier /\ (\A b \in Actors : OpRight(b)) /\ Held /\ Heard /\ Listed /\ Asked
      BY <1>6 DEF TermInv, QuietInv
    <2>1. n = Latest /\ Latest > 0 /\ pump[Latest] \in {"serves", "reaps"} /\ pump'[Latest'] = p
      BY <1>0, <1>1, <1>3, <1>5, <2>0, LastOne
    <2>2. ASSUME NEW b \in Actors PROVE OpRight(b)'
      <3>1. OpRight(b)
        BY <2>0
      <3>2. doing[b].at \notin {"spawn", "insert", "unlist"}
        <4>1. doing[b].at # "spawn"
          BY <2>1, <3>1 DEF OpRight
        <4>2. doing[b].at # "insert"
          BY <1>1, <2>1, <3>1 DEF OpRight, Serving
        <4>3. ASSUME doing[b].at = "unlist" PROVE FALSE
          <5>1. /\ \A c \in Actors : UnderWay(c) => c = b
                /\ listing # "none" /\ Latest \in unheld
            BY <1>1, <2>1, <3>1, <4>3 DEF OpRight, Restarting, Serving
          <5>2. \A c \in Actors : doing[c].at \notin {"await", "forget"}
            BY <4>3, <5>1 DEF UnderWay
          <5> QED BY <2>0, <2>1, <5>1, <5>2 DEF Held
        <4> QED BY <4>1, <4>2, <4>3
      <3>3. doing[b].at = "await" => shell[Latest] = "runs"
        BY <2>1, <3>1 DEF OpRight
      <3> QED BY <1>2, <1>5, <3>1, <3>2, <3>3 DEF OpRight, Restarting, UnderWay
    <2>3. Earlier'
      BY <1>3, <1>5, <2>0, <2>1 DEF Earlier
    <2>4. Held' /\ Heard' /\ Listed'
      BY <1>2, <1>5, <2>0, <2>1 DEF Held, Heard, Listed
    <2>5. Asked'
      BY <1>2, <2>0 DEF Asked, KilledAsked
    <2> QED BY <2>2, <2>3, <2>4, <2>5 DEF QuietInv
  <1> QED BY <1>2, <1>5, <1>6 DEF TermInv, Quiet

LEMMA UnlistsKeeps == ASSUME TermInv, NEW n \in Shells, Unlists(n) PROVE TermInv'
  <1>0. TermShape /\ TermTyped /\ PumpsRight /\ Latest \in Nat
    BY DEF TermInv, TermShape, Counted
  <1>1. /\ pump[n] = "unlists" /\ pump' = [pump EXCEPT ![n] = "marks"] /\ handle' = 0
        /\ unheld' = (IF handle = 0 THEN unheld ELSE unheld \cup {handle})
        /\ UNCHANGED <<bustle, shell, aborted, listing, mail, tab, doing, unwanted>>
    BY DEF Unlists
  <1>2. /\ pump' \in [Shells -> {"none", "serves", "reaps", "unlists", "marks", "gone"}]
        /\ pump'[n] = "marks" /\ \A m \in Shells : m # n => pump'[m] = pump[m]
    BY <1>0, <1>1 DEF TermTyped
  <1>3. PumpsRight'
    BY <1>0, <1>1, <1>2 DEF PumpsRight
  <1>4. TermShape' /\ Latest' = Latest
    <2>1. handle' \in 0 .. Latest /\ unheld' \subseteq 1 .. Latest /\ aborted' \subseteq unheld'
      BY <1>0, <1>1 DEF TermTyped
    <2> QED BY <1>0, <1>1, <1>2, <1>3, <2>1, PumpedShape DEF TermTyped
  <1>5. ASSUME Quiet PROVE QuietInv'
    <2>0. Earlier /\ (\A b \in Actors : OpRight(b)) /\ Held /\ Heard /\ Listed /\ Asked
      BY <1>5 DEF TermInv, QuietInv
    <2>1. n = Latest /\ Latest > 0 /\ pump'[Latest'] = "marks" /\ shell[Latest] # "runs"
      BY <1>0, <1>1, <1>2, <1>4, <2>0, LastOne DEF PumpsRight
    <2>2. ASSUME NEW b \in Actors PROVE OpRight(b)' /\ doing[b].at # "insert"
      <3>1. OpRight(b)
        BY <2>0
      <3>2. ~Restarting(b)
        BY <1>1, <2>1, <3>1 DEF OpRight, Restarting, Serving
      <3> QED BY <1>1, <1>4, <3>1, <3>2 DEF OpRight, Restarting
    <2>3. Earlier'
      <3>1. \A m \in Shells : m < Latest => m # n
        BY <1>0, <2>1
      <3> QED BY <1>2, <1>4, <2>0, <3>1 DEF Earlier
    <2>4. Held'
      <3>1. Latest \in unheld'
        BY <1>1, <2>0, <2>1, <2>2, ActorsAre DEF Held
      <3> QED BY <1>1, <1>4, <2>1, <3>1 DEF Held
    <2>5. Heard' /\ Listed'
      BY <1>1, <1>4, <2>0, <2>1 DEF Heard, Listed
    <2>6. Asked'
      BY <1>1, <2>0 DEF Asked, KilledAsked
    <2> QED BY <2>2, <2>3, <2>4, <2>5, <2>6 DEF QuietInv
  <1> QED BY <1>1, <1>4, <1>5 DEF TermInv, Quiet

LEMMA MarksKeeps == ASSUME TermInv, NEW n \in Shells, Marks(n) PROVE TermInv'
  <1>0. TermShape /\ TermTyped /\ PumpsRight /\ Latest \in Nat
    BY DEF TermInv, TermShape, Counted
  <1>1. /\ pump[n] = "marks" /\ pump' = [pump EXCEPT ![n] = "gone"]
        /\ listing' = (IF listing = "none" THEN "none" ELSE "exited")
        /\ UNCHANGED <<bustle, shell, unheld, aborted, handle, tab, doing, unwanted>>
    BY DEF Marks
  <1>2. /\ pump' \in [Shells -> {"none", "serves", "reaps", "unlists", "marks", "gone"}]
        /\ pump'[n] = "gone" /\ \A m \in Shells : m # n => pump'[m] = pump[m]
    BY <1>0, <1>1 DEF TermTyped
  <1>3. /\ mail' \in Seq({"opened", "respawned", "removed", "closed"})
        /\ mail' # <<>> /\ (mail # <<>> => Head(mail') = Head(mail))
        /\ \A i \in DOMAIN mail' : mail'[i] = "closed" \/ (i \in DOMAIN mail /\ mail'[i] = mail[i])
    BY <1>0, EventSent DEF Marks
  <1>4. PumpsRight'
    BY <1>0, <1>1, <1>2 DEF PumpsRight
  <1>5. TermShape' /\ Latest' = Latest
    BY <1>0, <1>1, <1>2, <1>3, <1>4, PumpedShape DEF TermTyped
  <1>6. ASSUME Quiet PROVE QuietInv'
    <2>0. Earlier /\ (\A b \in Actors : OpRight(b)) /\ Held /\ Heard /\ Listed /\ Asked
      BY <1>6 DEF TermInv, QuietInv
    <2>1. n = Latest /\ Latest > 0 /\ pump'[Latest'] = "gone" /\ shell[Latest] # "runs"
      BY <1>0, <1>1, <1>2, <1>5, <2>0, LastOne DEF PumpsRight
    <2>2. ASSUME NEW b \in Actors PROVE OpRight(b)' /\ ~Restarting(b)
      <3>1. OpRight(b)
        BY <2>0
      <3>2. ~Restarting(b)
        BY <1>1, <2>1, <3>1 DEF OpRight, Restarting, Serving
      <3> QED BY <1>1, <1>5, <3>1, <3>2 DEF OpRight, Restarting
    <2>3. Earlier'
      BY <1>2, <1>5, <2>0, <2>1 DEF Earlier
    <2>4. handle = 0
      BY <1>1, <2>0, <2>1 DEF Held
    <2>5. Held'
      BY <1>1, <1>5, <2>0, <2>1, <2>4 DEF Held
    <2>6. Heard'
      <3>1. \A i \in DOMAIN mail' : mail'[i] = "removed" => listing' = "none"
        BY <1>1, <1>3, <2>0 DEF Heard
      <3>2. tab' = "none" => mail' # <<>> /\ Head(mail') = "opened"
        BY <1>1, <1>3, <2>0, <2>1, <2>2, ActorsAre DEF Heard, Restarting
      <3>3. tab' = "shut" => listing' = "none"
        BY <1>1, <2>0 DEF Heard
      <3> QED BY <1>5, <2>1, <3>1, <3>2, <3>3 DEF Heard
    <2>7. Listed' /\ Asked'
      BY <1>1, <1>5, <2>0, <2>1 DEF Listed, Asked, KilledAsked
    <2> QED BY <2>2, <2>3, <2>5, <2>6, <2>7 DEF QuietInv
  <1> QED BY <1>1, <1>5, <1>6 DEF TermInv, Quiet

-----------------------------------------------------------------------------
LEMMA TermKeeps == ASSUME TermInv, [TermNext]_termVars PROVE TermInv'
  <1>1. ASSUME UNCHANGED termVars PROVE TermInv'
    <2>1. TermShape' = TermShape
      BY <1>1 DEF termVars, TermShape, Counted, TermTyped, PumpsRight, Latest, Spent
    <2>2. QuietInv' = QuietInv /\ Quiet' = Quiet
      BY <1>1 DEF termVars, Quiet, QuietInv, Earlier, OpRight, Restarting, UnderWay, Serving, Held, Heard,
                  Listed, Asked, KilledAsked, Latest
    <2> QED BY <2>1, <2>2 DEF TermInv
  <1>2. ASSUME NEW a \in Agents, OpenTerminal(a) \/ RestartBegins(a) \/ CloseBegins(a) PROVE TermInv'
    BY <1>2, OpenKeeps, RestartBeginsKeeps, CloseBeginsKeeps
  <1>3. ASSUME NEW a \in Actors, OpStep(a) PROVE TermInv'
    BY <1>3, OpenDoneKeeps, RestartUnlistsKeeps, RestartAwaitsKeeps, RestartSpawnsKeeps,
       RestartFailsKeeps, RestartDoneKeeps, CloseAbortsKeeps, CloseForgetsKeeps DEF OpStep
  <1>4. ASSUME NEW n \in Shells, ShellEnds(n) \/ PumpStep(n) PROVE TermInv'
    BY <1>4, ShellEndsKeeps, AbortKeeps, WindsDownKeeps, UnlistsKeeps, MarksKeeps DEF PumpStep
  <1> QED BY <1>1, <1>2, <1>3, <1>4, TabClickKeeps, HearsKeeps DEF TermNext

LEMMA TermInvImplies == ASSUME TermInv PROVE TerminalsOK
  <1>0. TermShape /\ TermTyped /\ PumpsRight /\ Latest \in Nat
    BY DEF TermInv, TermShape, Counted
  <1>1. TermTypeOK
    <2>1. 1 .. Latest \subseteq Shells
      BY DEF TermInv, TermShape, Counted
    <2> QED BY <1>0, <2>1 DEF TermTypeOK, TermTyped, PumpsRight
  <1>2. ASSUME Quiet PROVE OneShell /\ EndsOwn /\ Reachable /\ KilledAsked /\ ("fails" \notin bustle => ListedTruthful)
    <2>0. Earlier /\ Held /\ Heard /\ Listed /\ Asked
      BY <1>2 DEF TermInv, QuietInv
    <2>1. \A n \in Shells : pump[n] \notin {"none", "gone"} => n = Latest /\ Latest > 0
      BY <1>0, <2>0, LastOne
    <2>2. \A n \in Shells : shell[n] = "runs" => n = Latest /\ Latest > 0
      BY <1>0, <2>1 DEF PumpsRight
    <2>3. OneShell
      BY <2>2 DEF OneShell
    <2>4. EndsOwn
      BY <1>0, <2>1, LastOne DEF EndsOwn
    <2>5. ASSUME AtRest, NEW n \in Shells, shell[n] = "runs"
          PROVE  handle = n /\ tab = "open" /\ listing = "live"
      <3>1. n = Latest /\ Latest > 0 /\ Serving(n) /\ n \notin unheld
        BY <1>0, <2>2, <2>5 DEF AtRest, PumpsRight
      <3>2. \A b \in Agents : doing[b].at # "insert"
        BY <2>5, ActorsAre DEF AtRest, NoneUnderWay, UnderWay
      <3>3. handle = n
        BY <2>0, <3>1, <3>2 DEF Held
      <3>4. listing = "live"
        BY <1>0, <2>0, <3>1, <3>3 DEF Held, Listed, Serving, TermTyped
      <3>5. tab = "open"
        BY <1>0, <2>0, <2>5, <3>1, <3>2, <3>4 DEF AtRest, Heard, TermTyped
      <3> QED BY <3>3, <3>4, <3>5
    <2>6. ASSUME AtRest, "fails" \notin bustle, listing = "live" PROVE \E n \in Shells : shell[n] = "runs"
      <3>1. Latest > 0 /\ Latest \in Shells /\ pump[Latest] # "none"
        BY <1>0, <2>0, <2>6, LastOne DEF Heard
      <3>2. \A b \in Actors : doing[b].at \in {"idle", "done"}
        BY <2>6 DEF AtRest, NoneUnderWay, UnderWay
      <3>3. pump[Latest] # "gone"
        BY <2>0, <2>6, <3>1, <3>2 DEF Listed
      <3> QED BY <2>6, <3>1, <3>3 DEF AtRest, Serving
    <2>7. "fails" \notin bustle => ListedTruthful
      BY <2>5, <2>6 DEF ListedTruthful
    <2> QED BY <2>0, <2>3, <2>4, <2>5, <2>7 DEF Reachable, Asked
  <1>3. bustle \subseteq {"closes"} => Quiet /\ "fails" \notin bustle
    BY DEF Quiet
  <1> QED BY <1>1, <1>2, <1>3 DEF TerminalsOK, Quiet

\* An agent's terminal has one shell at a time, whose end takes nobody else's
\* bookkeeping; at rest a shell that runs can be reached and closed, what the coder
\* is told of it is so, and no shell was killed unasked: TerminalsOK, whose
\* complications each of these bears it states, for any number of agents.
THEOREM OneShellReachable == TermSpec => []TerminalsOK
  <1>1. TermInit => TermInv
    BY TermInitHolds
  <1>2. TermInv /\ [TermNext]_termVars => TermInv'
    BY TermKeeps
  <1>3. TermInv => TerminalsOK
    BY TermInvImplies
  <1> QED BY <1>1, <1>2, <1>3, PTL DEF TermSpec
=============================================================================
