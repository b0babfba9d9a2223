----------------------------- MODULE Transcript -----------------------------
(***************************************************************************)
(* The history of one session as the model sees it (`chat`, messages       *)
(* without the system prompt) against the records of its JSONL (`log`):    *)
(* compaction (crates/moon-coder/src/compaction.rs), the rebuild when the  *)
(* session is opened, recovery of tool calls without a result, revert to a *)
(* message and resume from a tool call (runner.rs, sessions.rs).           *)
(*                                                                         *)
(* One turn runs at a time; its races with the user are in TurnLoop.       *)
(***************************************************************************)
EXTENDS Naturals, FiniteSets, SequencesExt

CONSTANTS Keep,       \* RECENT_USER_TURNS_KEPT
          BatchSize,  \* bound: tool calls in one assistant message
          MaxIds,     \* bound: messages of the user and the assistant
          Profiles    \* what may happen besides turns and reverts: sets of
              \* "kill"    the process dies
              \* "compact" the prompt crosses the compaction threshold
              \* "resume"  the user resumes from a tool call
              \* "notice"  a steer waits when a resumed turn begins
              \* "disk"    a compaction record cannot be written

ASSUME TranscriptAssumption ==
  /\ Keep \in Nat \ {0} /\ BatchSize \in Nat \ {0} /\ MaxIds \in Nat
  /\ Profiles \subseteq SUBSET {"kill", "compact", "resume", "notice", "disk"}

VARIABLES log,    \* records of the JSONL that shape the history
          chat,   \* Session.messages
          mode,   \* "closed", "idle", or where the turn is
          todo,   \* calls the turn has still to dispatch
          ids,    \* messages numbered so far
          sentAt, \* per user message: `chat` just before it
          may     \* the profile of this behaviour

transcriptVars == <<log, chat, mode, todo, ids, sentAt, may>>

-----------------------------------------------------------------------------

User(n)      == <<"user", n>>
Text(n)      == <<"text", n>>
CallsOf(cs)  == <<"calls", cs>>    \* an assistant message with calls cs
Result(c)    == <<"tool", c>>      \* the result of call c
Summary(S)   == <<"summary", S>>   \* a summary of the entries S
Compaction(S, kept) == <<"compaction", S, kept>>

CallIds == (1..MaxIds) \X {"work", "ask_user"} \X (1..BatchSize)
Modes   == {"closed", "idle", "resume", "top", "ask", "calls"}
Turning == {"resume", "top", "ask", "calls"}

-----------------------------------------------------------------------------
(* compaction.rs.                                                          *)

\* Mutant of FindCutoff: the cut is behind the message it should keep.
FindCutoffPast(h) ==
  LET Users == {i \in DOMAIN h : h[i][1] = "user"}
      Kth   == {i \in Users : Cardinality({j \in Users : j >= i}) = Keep /\ i > 1}
  IN IF Kth = {} THEN 0 ELSE 1 + CHOOSE i \in Kth : TRUE

\* find_cutoff_index: the Keep-th user message from the end, 0 for None.
FindCutoff(h) ==
  LET Users == {i \in DOMAIN h : h[i][1] = "user"}
      Kth   == {i \in Users : Cardinality({j \in Users : j >= i}) = Keep /\ i > 1}
  IN IF Kth = {} THEN 0 ELSE CHOOSE i \in Kth : TRUE

\* compact_if_needed has something new to fold.
Compactable(h, cut) == cut > 1 /\ \E i \in 1..(cut - 1) : h[i][1] # "summary"

\* The end of a run of tool results that begins at i.
PastResults(h, i) ==
  Min({j \in i..(Len(h) + 1) : j = Len(h) + 1 \/ h[j][1] # "tool"})

\* snap_cutoff_to_tool_boundary: its first case needs an index that is both
\* past the cut and before it, so the orphaned run is what it walks over.
Snap(h, cut) == PastResults(h, cut)

\* Mutant of Summarised: the summary before this one is not part of the prompt.
SummarisedAnew(h, cut) ==
  UNION {IF h[i][1] = "summary" THEN {} ELSE {h[i]} : i \in 1..(cut - 1)}

\* What the summary of h[1..cut-1] stands for.
Summarised(h, cut) ==
  UNION {IF h[i][1] = "summary" THEN h[i][2] ELSE {h[i]} : i \in 1..(cut - 1)}

\* Mutant of ApplySummary: the summary goes behind the messages that are kept.
ApplySummaryBehind(h, cut, S) == SubSeq(h, Snap(h, cut), Len(h)) \o <<Summary(S)>>

\* apply_summary_to_messages
ApplySummary(h, cut, S) == <<Summary(S)>> \o SubSeq(h, Snap(h, cut), Len(h))

-----------------------------------------------------------------------------
(* Reopening.                                                              *)

\* Mutant of Replay: the rebuild keeps one message less than the cut did.
ReplayShort(h, r) ==
  IF r[1] # "compaction" THEN Append(h, r)
  ELSE LET cut == IF r[3] > Len(h) THEN 1 ELSE Len(h) - r[3] + 2
       IN ApplySummary(h, cut, r[2])

\* rebuild_messages_from_records, one record.
Replay(h, r) ==
  IF r[1] # "compaction" THEN Append(h, r)
  ELSE LET cut == IF r[3] >= Len(h) THEN 1 ELSE Len(h) - r[3] + 1
       IN ApplySummary(h, cut, r[2])
Rebuild(recs) == FoldLeft(Replay, <<>>, recs)

\* orphan_tool_call_ids, of records or of messages.
AllCalls(h) ==
  FoldLeft(LAMBDA cs, r : IF r[1] = "calls" THEN cs \o r[2] ELSE cs, <<>>, h)
Orphans(h) ==
  FoldLeft(LAMBDA os, c : IF Result(c) \in ToSet(h) THEN os ELSE Append(os, c),
           <<>>, AllCalls(h))

\* Mutant of InsertResult: the recovered result goes to the end.
InsertResultLast(h, c) == Append(h, Result(c))

\* An "interrupted" result goes behind the results its batch has, or to the
\* end when no message has the call.
InsertResult(h, c) ==
  LET Owners == {i \in DOMAIN h : h[i][1] = "calls" /\ c \in ToSet(h[i][2])}
  IN InsertAt(h, IF Owners = {} THEN Len(h) + 1 ELSE PastResults(h, Max(Owners) + 1),
              Result(c))

\* orphaned_ask_user_calls: all of them, or none.
Parked(recs) ==
  IF \A i \in DOMAIN Orphans(recs) : Orphans(recs)[i][2] = "ask_user"
  THEN Orphans(recs) ELSE <<>>

\* open_session_impl of a session that is not mounted.
Opened(recs) ==
  IF Parked(recs) # <<>> THEN Rebuild(recs)
  ELSE FoldLeft(InsertResult, Rebuild(recs), Orphans(recs))
Mount(recs) ==
  /\ chat' = Opened(recs)
  /\ todo' = Parked(recs)
  /\ mode' = IF Parked(recs) # <<>> THEN "resume" ELSE "idle"

-----------------------------------------------------------------------------

TranscriptInit ==
  /\ log = <<>> /\ chat = <<>> /\ mode = "idle" /\ todo = <<>> /\ ids = 0
  /\ sentAt = [n \in 1..MaxIds |-> <<>>]
  /\ may \in Profiles

Write(q) ==
  /\ log' = log \o q
  /\ chat' = chat \o q

\* A prompt, or a steer that the turn drains.
HearUser ==
  /\ ids < MaxIds
  /\ ids' = ids + 1
  /\ sentAt' = [sentAt EXCEPT ![ids + 1] = chat]
  /\ Write(<<User(ids + 1)>>)

Prompt ==
  /\ mode = "idle"
  /\ mode' = "top" /\ HearUser
  /\ UNCHANGED <<todo, may>>

DrainSteer ==
  /\ mode = "top" \/ (mode = "resume" /\ "notice" \in may)
  /\ HearUser
  /\ UNCHANGED <<mode, todo, may>>

\* Mutant of Compact: the record counts the messages that were folded.
CompactCounts ==
  LET cut == FindCutoff(chat)
      S   == Summarised(chat, cut)
  IN /\ "compact" \in may /\ Compactable(chat, cut)
     /\ chat' = ApplySummary(chat, cut, S)
     /\ log' = Append(log, Compaction(S, cut - 1))

\* The rest of the loop's top: compaction, when the last prompt was large,
\* then the calls of a checkpoint, or the model.
Compact ==
  LET cut == FindCutoff(chat)
      S   == Summarised(chat, cut)
  IN /\ "compact" \in may /\ Compactable(chat, cut)
     /\ chat' = ApplySummary(chat, cut, S)
     /\ \/ log' = Append(log, Compaction(S, Len(chat) - cut + 1))
        \/ "disk" \in may /\ UNCHANGED log

BeginIteration ==
  /\ mode \in {"top", "resume"}
  /\ Compact \/ UNCHANGED <<log, chat>>
  /\ mode' = IF mode = "top" THEN "ask" ELSE "calls"
  /\ UNCHANGED <<todo, ids, sentAt, may>>

\* A text answer ends the turn unless a steer is queued.
AnswerText ==
  /\ mode = "ask" /\ ids < MaxIds
  /\ ids' = ids + 1 /\ Write(<<Text(ids + 1)>>)
  /\ mode' \in {"idle", "top"}
  /\ UNCHANGED <<todo, sentAt, may>>

AnswerCalls ==
  /\ mode = "ask" /\ ids < MaxIds
  /\ ids' = ids + 1
  /\ \E n \in 1..BatchSize, kind \in {"work", "ask_user"} :
        /\ kind = "ask_user" => n = 1
        /\ todo' = [i \in 1..n |-> <<ids + 1, kind, i>>]
  /\ Write(<<CallsOf(todo')>>)
  /\ mode' = "calls"
  /\ UNCHANGED <<sentAt, may>>

RunTool ==
  /\ mode = "calls" /\ todo # <<>>
  /\ Write(<<Result(Head(todo))>>)
  /\ todo' = Tail(todo)
  /\ mode' = IF Len(todo) = 1 THEN "top" ELSE "calls"
  /\ UNCHANGED <<ids, sentAt, may>>

\* A turn that is aborted or fails: recover_in_memory_orphans.
TurnStops ==
  /\ mode \in Turning
  /\ mode' = "idle" /\ todo' = <<>>
  /\ Write([i \in DOMAIN Orphans(chat) |-> Result(Orphans(chat)[i])])
  /\ UNCHANGED <<ids, sentAt, may>>

Kill ==
  /\ "kill" \in may /\ mode # "closed" /\ ids < MaxIds
  /\ mode' = "closed" /\ chat' = <<>> /\ todo' = <<>>
  /\ UNCHANGED <<log, ids, sentAt, may>>

Open ==
  /\ mode = "closed" /\ Mount(log)
  /\ UNCHANGED <<log, ids, sentAt, may>>

\* truncate_before_user_record, then the runtime is dropped and reopened.
Revert(i) ==
  /\ mode = "idle" /\ log[i][1] = "user" /\ ids < MaxIds
  /\ log' = SubSeq(log, 1, i - 1)
  /\ Mount(log')
  /\ UNCHANGED <<ids, sentAt, may>>

\* truncate_before_assistant_record; the runtime takes the rebuilt history.
Resume(i) ==
  /\ "resume" \in may
  /\ mode = "idle" /\ log[i][1] = "calls" /\ ids < MaxIds
  /\ log' = SubSeq(log, 1, i)
  /\ chat' = Rebuild(log')
  /\ mode' = "resume" /\ todo' = log[i][2]
  /\ UNCHANGED <<ids, sentAt, may>>

TranscriptNext ==
  \/ Prompt \/ DrainSteer \/ BeginIteration \/ AnswerText \/ AnswerCalls
  \/ RunTool \/ TurnStops \/ Kill \/ Open
  \/ \E i \in DOMAIN log : Revert(i) \/ Resume(i)

TranscriptSpec == TranscriptInit /\ [][TranscriptNext]_transcriptVars

-----------------------------------------------------------------------------
(* Properties.                                                             *)

TranscriptTypeOK ==
  /\ ids \in 0..MaxIds /\ mode \in Modes /\ may \in Profiles
  /\ ToSet(todo) \subseteq CallIds
  /\ todo # <<>> => mode \in {"resume", "calls"}
  /\ \A i \in DOMAIN log : log[i][1] \in {"user", "text", "calls", "tool", "compaction"}
  /\ \A i \in DOMAIN chat : chat[i][1] \in {"user", "text", "calls", "tool", "summary"}
  /\ \A i \in DOMAIN chat : chat[i][1] = "summary" => i = 1

\* The history a provider accepts: the results of a batch follow it at once,
\* and there is no result without its call.
WellFormed(h) ==
  /\ \A i \in DOMAIN h : h[i][1] = "calls" =>
        LET n == Len(h[i][2])
        IN i + n <= Len(h) /\ {h[i + j] : j \in 1..n} = {Result(c) : c \in ToSet(h[i][2])}
  /\ \A i \in DOMAIN h : h[i][1] = "tool" =>
        \E j \in 1..(i - 1) : h[j][1] = "calls" /\ h[i][2] \in ToSet(h[j][2])

\* Whatever was reverted, resumed, compacted, aborted or reopened before, the
\* model is asked with such a history.
FitToAsk == mode = "ask" => WellFormed(chat)

\* A session that is closed and opened again has the history it had.
ReplayIsLive == mode = "idle" => Opened(log) = chat

\* Reverting to a message brings back the history it was sent with, also when
\* the session was compacted since.
RevertRestores ==
  mode = "idle" =>
    \A i \in DOMAIN log : log[i][1] = "user" =>
      Opened(SubSeq(log, 1, i - 1)) = sentAt[log[i][2]]

\* Nothing the log knows is missing: it is in the history or in a summary.
NothingUnsummarised ==
  mode # "closed" =>
    \A i \in DOMAIN log : log[i][1] # "compaction" =>
      log[i] \in ToSet(chat) \cup Summarised(chat, Len(chat) + 1)

\* The last messages of the user are there word for word.
RecentKept ==
  mode # "closed" =>
    \A i \in DOMAIN log :
      /\ log[i][1] = "user"
      /\ Cardinality({j \in DOMAIN log : j >= i /\ log[j][1] = "user"}) <= Keep
      => log[i] \in ToSet(chat)

\* A question that was waiting for the user when the process died is asked
\* again.
PromptSurvives ==
  mode = "idle" => \A i \in DOMAIN log : log[i][1] = "calls" /\ i = Len(log) =>
    log[i][2][1][2] # "ask_user"

\* Well typed; a revert and a compaction leave the history they promise, and
\* nothing is missing from it.
HistoryOK == TranscriptTypeOK /\ RevertRestores /\ RecentKept /\ NothingUnsummarised

\* A history is never damaged, and what was done to it survives a reload: nothing
\* is lost between summaries, a revert restores, and the records of a session at
\* rest make the same conversation again.
ChatKept == HistoryOK /\ ReplayIsLive
=============================================================================
