------------------------------ MODULE Subagent ------------------------------
(***************************************************************************)
(* One sub-agent of crates/moon-coder/src/subagent.rs: its loop, the steer *)
(* channel through which the pop-out composer and the parent's             *)
(* `task_steer` reach it, its JSONL, its card in the panel, and            *)
(* `continue_subagent`, which resumes it once it has finished.             *)
(*                                                                         *)
(* A run is the first one (`First`, spawned by the parent's `task` call)   *)
(* or the one a follow-up message resumed, and is then named after that    *)
(* message.  The channel registry is a plain mutex, so one action is one   *)
(* critical section of it or one awaited call of a loop.                   *)
(***************************************************************************)
EXTENDS Naturals, FiniteSets, SequencesExt

CONSTANTS Steers,     \* messages typed into the pop-out or sent by the parent
          Orders,     \* those sent by the parent's task_steer tool
          First,      \* the run that the parent's task call spawned
          NoOne,      \* no channel is registered
          SubIters,   \* bound: MAX_TURN_ITERATIONS
          SubBatch,   \* bound: tool calls in one assistant message
          SubOps,     \* bound: continue requests in flight at the same time
          SubFaults   \* what may go wrong together: sets of "stop", "provider" and
                      \* "folder" (the folder of the session is not bound any more)

SubRuns == Steers \cup {First}

ASSUME SubAssumption ==
  /\ First \notin Steers /\ NoOne \notin SubRuns
  /\ Orders \subseteq Steers
  /\ {SubIters, SubBatch, SubOps} \subseteq Nat
  /\ SubFaults \subseteq SUBSET {"stop", "provider", "folder"}

VARIABLES channel,  \* steer registry: the run whose channel it holds, or NoOne
          queue,    \* SubagentSteerChannel.queue
          cut,      \* runs whose token is cancelled
          run,      \* per run: where it is
          iter,     \* per run: iterations begun
          todo,     \* per run: calls of the current batch still to dispatch
          ended,    \* per run: how its loop ended
          chat,     \* per run: `messages`, its history in memory
          trace,    \* the records of the sub-agent's JSONL
          seen,     \* per message: the JSONL as continue_subagent loaded it
          sent,     \* per message: where its request is
          card,     \* the status the panel's card shows
          late,     \* messages accepted after the loop had ended
          dropped,  \* messages that were accepted and then discarded
          wrong     \* what may go wrong in this behaviour

subVars == <<channel, queue, cut, run, iter, todo, ended, chat, trace, seen,
             sent, card, late, dropped, wrong>>

-----------------------------------------------------------------------------

Said(s)   == <<"user", s>>           \* a user message; the task is Said(First)
Batch(n)  == <<"calls", n>>          \* an assistant message with n tool calls
Text      == <<"text", 0>>           \* an assistant message without calls
Outcome   == <<"result", 0>>         \* the result of one tool call
Sentinel  == <<"note", 0>>           \* the continuation or the wrap-up prompt
SubEntries == ({"user"} \X SubRuns) \cup ({"calls"} \X (1..SubBatch))
                \cup {Text, Outcome, Sentinel}

Looping == {"top", "ask", "calls", "wrap"}
Working == Looping \cup {"claimed", "closing", "closed"}
EndKinds == {"none", "done", "capped", "aborted", "failed"}

SubTypeOK ==
  /\ channel \in SubRuns \cup {NoOne}
  /\ queue \in Seq(Steers)
  /\ cut \subseteq SubRuns
  /\ run \in [SubRuns -> Working \cup {"off", "gone"}]
  /\ iter \in [SubRuns -> 0..SubIters]
  /\ todo \in [SubRuns -> 0..SubBatch]
  /\ ended \in [SubRuns -> EndKinds]
  /\ chat \in [SubRuns -> Seq(SubEntries)]
  /\ trace \in Seq(SubEntries)
  /\ seen \in [Steers -> Seq(SubEntries)]
  /\ sent \in [Steers -> {"idle", "load", "claim", "stray", "follow", "steer",
                          "refused"}]
  /\ card \in {"none", "running", "finished"}
  /\ late \subseteq Steers /\ dropped \subseteq Steers /\ wrong \in SubFaults

SubInit ==
  /\ channel = NoOne /\ queue = <<>> /\ cut = {}
  /\ run = [r \in SubRuns |-> "off"]
  /\ iter = [r \in SubRuns |-> 0] /\ todo = [r \in SubRuns |-> 0]
  /\ ended = [r \in SubRuns |-> "none"]
  /\ chat = [r \in SubRuns |-> <<>>] /\ trace = <<>>
  /\ seen = [s \in Steers |-> <<>>] /\ sent = [s \in Steers |-> "idle"]
  /\ card = "none" /\ late = {} /\ dropped = {}
  /\ wrong \in SubFaults

-----------------------------------------------------------------------------
(* The first run: run_subagent_in_dir.  The channel is registered before   *)
(* the spawn is announced; the task is the first record of the JSONL.      *)

Write(r, q) ==
  /\ chat' = [chat EXCEPT ![r] = @ \o q]
  /\ trace' = trace \o q

StartRun ==
  /\ run[First] = "off"
  /\ run' = [run EXCEPT ![First] = "top"]
  /\ channel' = First /\ queue' = <<>>
  /\ card' = "running"
  /\ Write(First, <<Said(First)>>)
  /\ UNCHANGED <<cut, iter, todo, ended, seen, sent, late, dropped, wrong>>

-----------------------------------------------------------------------------
(* Steering and resuming.                                                  *)

\* queue_subagent_steer on a channel that is there.
Enqueue(s) ==
  /\ queue' = Append(queue, s)
  /\ sent' = [sent EXCEPT ![s] = "steer"]
  /\ late' = IF \E r \in SubRuns : run[r] \in Looping \cup {"claimed"}
             THEN late ELSE late \cup {s}

Requests == {s \in Steers : sent[s] \in {"load", "claim", "stray"}}

\* task_steer on a run that has no channel answers "not_running".
Steer(s) ==
  /\ sent[s] = "idle" /\ run[First] # "off"
  /\ Cardinality(Requests) < SubOps
  /\ \/ /\ channel # NoOne
        /\ Enqueue(s)
     \/ /\ channel = NoOne
        /\ sent' = [sent EXCEPT ![s] = IF s \in Orders THEN "refused" ELSE "load"]
        /\ UNCHANGED <<queue, late>>
  /\ UNCHANGED <<channel, cut, run, iter, todo, ended, chat, trace, seen, card,
                 dropped, wrong>>

\* continue_subagent rebuilds the history from the JSONL; a folder that is no
\* longer bound refuses the request.
LoadTrace(s) ==
  /\ sent[s] = "load"
  /\ \/ /\ trace # <<>>
        /\ sent' = [sent EXCEPT ![s] = "claim"]
        /\ seen' = [seen EXCEPT ![s] = trace]
     \/ /\ trace = <<>> \/ "folder" \in wrong
        /\ sent' = [sent EXCEPT ![s] = "refused"]
        /\ UNCHANGED seen
  /\ UNCHANGED <<channel, queue, cut, run, iter, todo, ended, chat, trace, card,
                 late, dropped, wrong>>

\* Mutant of ClaimResume: the claim does not look whether a channel is there.
ClaimResumeBlind(s) ==
  /\ sent[s] = "claim"
  /\ channel' = s /\ queue' = <<>>
  /\ run' = [run EXCEPT ![s] = "claimed"]
  /\ chat' = [chat EXCEPT ![s] = seen[s]]
  /\ sent' = [sent EXCEPT ![s] = "follow"]
  /\ seen' = [seen EXCEPT ![s] = <<>>]
  /\ UNCHANGED <<cut, iter, todo, ended, trace, card, late, dropped, wrong>>

\* claim_subagent_for_resume: register a channel, or fall back to a steer.
ClaimResume(s) ==
  /\ sent[s] = "claim"
  /\ \/ /\ channel = NoOne
        /\ channel' = s /\ queue' = <<>>
        /\ run' = [run EXCEPT ![s] = "claimed"]
        /\ chat' = [chat EXCEPT ![s] = seen[s]]
        /\ sent' = [sent EXCEPT ![s] = "follow"]
     \/ /\ channel # NoOne
        /\ sent' = [sent EXCEPT ![s] = "stray"]
        /\ UNCHANGED <<channel, queue, run, chat>>
  /\ seen' = [seen EXCEPT ![s] = <<>>]
  /\ UNCHANGED <<cut, iter, todo, ended, trace, card, late, dropped, wrong>>

\* The fallback takes the lock again and ignores whether the steer was queued.
ClaimSteers(s) ==
  /\ sent[s] = "stray"
  /\ \/ /\ channel # NoOne
        /\ Enqueue(s)
        /\ UNCHANGED dropped
     \/ /\ channel = NoOne
        /\ sent' = [sent EXCEPT ![s] = "steer"]
        /\ dropped' = dropped \cup {s} /\ late' = late \cup {s}
        /\ UNCHANGED queue
  /\ UNCHANGED <<channel, cut, run, iter, todo, ended, chat, trace, seen, card, wrong>>

\* resume_subagent: announce the run again, add the follow-up.
Resume(s) ==
  /\ run[s] = "claimed"
  /\ run' = [run EXCEPT ![s] = "top"]
  /\ card' = "running"
  /\ Write(s, <<Said(s)>>)
  /\ UNCHANGED <<channel, queue, cut, iter, todo, ended, seen, sent, late, dropped, wrong>>

\* abort_subagent (the pop-out's stop button) cancels the channel's token, the
\* parent's `stop` tool and the abort cascade the first run's.
StopSubagent ==
  /\ "stop" \in wrong
  /\ \E r \in {channel, First} \cap SubRuns :
        /\ run[r] \in Working /\ r \notin cut
        /\ cut' = cut \cup {r}
  /\ UNCHANGED <<channel, queue, run, iter, todo, ended, chat, trace, seen, sent,
                 card, late, dropped, wrong>>

-----------------------------------------------------------------------------
(* run_subagent_loop.                                                      *)

EndLoop(r, how) ==
  /\ run' = [run EXCEPT ![r] = "closing"]
  /\ ended' = [ended EXCEPT ![r] = how]
  /\ todo' = [todo EXCEPT ![r] = 0]
LoopKeeps == UNCHANGED <<channel, cut, seen, sent, card, late, dropped, wrong>>

\* Mutant of LoopTop: the iteration cap is not looked at.
LoopTopUncapped(r) ==
  /\ run[r] = "top"
  /\ run' = [run EXCEPT ![r] = "ask"]
  /\ iter' = [iter EXCEPT ![r] = @ + 1]
  /\ queue' = <<>>
  /\ Write(r, [i \in DOMAIN queue |-> Said(queue[i])])
  /\ UNCHANGED <<todo, ended>> /\ LoopKeeps

\* Mutant of LoopTop: the queue is read and not taken.
LoopTopPeeks(r) ==
  /\ run[r] = "top" /\ iter[r] < SubIters
  /\ run' = [run EXCEPT ![r] = "ask"]
  /\ iter' = [iter EXCEPT ![r] = @ + 1]
  /\ Write(r, [i \in DOMAIN queue |-> Said(queue[i])])
  /\ UNCHANGED <<queue, todo, ended>> /\ LoopKeeps

\* The loop's top: the token, then the queue.
LoopTop(r) ==
  /\ run[r] = "top" /\ iter[r] < SubIters
  /\ \/ /\ r \in cut
        /\ EndLoop(r, "aborted")
        /\ UNCHANGED <<iter, queue, chat, trace>>
     \/ /\ r \notin cut
        /\ run' = [run EXCEPT ![r] = "ask"]
        /\ iter' = [iter EXCEPT ![r] = @ + 1]
        /\ queue' = <<>>
        /\ Write(r, [i \in DOMAIN queue |-> Said(queue[i])])
        /\ UNCHANGED <<todo, ended>>
  /\ LoopKeeps

\* The round-trip fails, or observes the cancelled token.
AskFails(r) ==
  /\ run[r] = "ask"
  /\ \/ "provider" \in wrong /\ EndLoop(r, "failed")
     \/ r \in cut /\ EndLoop(r, "aborted")
  /\ UNCHANGED <<queue, iter, chat, trace>> /\ LoopKeeps

\* An empty answer is not kept; the round-trip is made again.
AskEmpty(r) ==
  /\ run[r] = "ask" /\ "provider" \in wrong
  /\ run' = [run EXCEPT ![r] = "top"]
  /\ UNCHANGED <<queue, iter, todo, ended, chat, trace>> /\ LoopKeeps

\* Mutant of AskText: a text answer ends the run whatever is queued.
AskTextEnds(r) ==
  /\ run[r] = "ask"
  /\ EndLoop(r, "done")
  /\ Write(r, <<Text>>)
  /\ UNCHANGED <<queue, iter>> /\ LoopKeeps

\* A text answer ends the run, unless a steer arrived while it streamed or the
\* provider cut it off and is asked for the rest.
AskText(r) ==
  /\ run[r] = "ask"
  /\ \/ /\ queue # <<>>
        /\ run' = [run EXCEPT ![r] = "top"]
        /\ Write(r, <<Text>>)
        /\ UNCHANGED <<todo, ended>>
     \/ /\ queue = <<>>
        /\ EndLoop(r, "done")
        /\ Write(r, <<Text>>)
     \/ /\ queue = <<>>
        /\ run' = [run EXCEPT ![r] = "top"]
        /\ Write(r, <<Text, Sentinel>>)
        /\ UNCHANGED <<todo, ended>>
  /\ UNCHANGED <<queue, iter>> /\ LoopKeeps

AskCalls(r) ==
  /\ run[r] = "ask"
  /\ \E n \in 1..SubBatch :
        /\ Write(r, <<Batch(n)>>)
        /\ \/ /\ run' = [run EXCEPT ![r] = "calls"]
              /\ todo' = [todo EXCEPT ![r] = n]
              /\ UNCHANGED ended
           \/ "provider" \in wrong /\ EndLoop(r, "failed")
  /\ UNCHANGED <<queue, iter>> /\ LoopKeeps

\* Mutant of DispatchCall: the queue is drained before every call of a batch.
DispatchCallDrains(r) ==
  /\ run[r] = "calls" /\ r \notin cut
  /\ IF todo[r] > 0
     THEN /\ todo' = [todo EXCEPT ![r] = @ - 1]
          /\ Write(r, [i \in DOMAIN queue |-> Said(queue[i])] \o <<Outcome>>)
          /\ queue' = <<>> /\ UNCHANGED run
     ELSE /\ run' = [run EXCEPT ![r] = "top"]
          /\ UNCHANGED <<todo, chat, trace, queue>>
  /\ UNCHANGED <<ended, iter>> /\ LoopKeeps

\* The calls of a batch run one after the other; a cancelled token ends the
\* loop between two of them or inside one, without a result.
DispatchCall(r) ==
  /\ run[r] = "calls"
  /\ \/ /\ todo[r] > 0 /\ r \in cut
        /\ EndLoop(r, "aborted")
        /\ UNCHANGED <<chat, trace>>
     \/ /\ todo[r] > 0
        /\ todo' = [todo EXCEPT ![r] = @ - 1]
        /\ Write(r, <<Outcome>>)
        /\ UNCHANGED <<run, ended>>
     \/ /\ todo[r] = 0
        /\ run' = [run EXCEPT ![r] = "top"]
        /\ UNCHANGED <<todo, ended, chat, trace>>
  /\ UNCHANGED <<queue, iter>> /\ LoopKeeps

\* The iteration cap: a tool-less round-trip whose failure is not one of the
\* run.  The token is not looked at.
CapReached(r) ==
  /\ run[r] = "top" /\ iter[r] = SubIters
  /\ run' = [run EXCEPT ![r] = "wrap"]
  /\ Write(r, <<Sentinel>>)
  /\ UNCHANGED <<queue, iter, todo, ended>> /\ LoopKeeps

\* Mutant of WrapUp: the wrap-up gives up without ending the loop.
WrapUpRetries(r) ==
  /\ run[r] = "wrap"
  /\ run' = [run EXCEPT ![r] = "top"]
  /\ UNCHANGED <<queue, iter, todo, ended, chat, trace>> /\ LoopKeeps

WrapUp(r) ==
  /\ run[r] = "wrap"
  /\ EndLoop(r, "capped")
  /\ \/ Write(r, <<Text>>)
     \/ UNCHANGED <<chat, trace>>
  /\ UNCHANGED <<queue, iter>> /\ LoopKeeps

\* run_subagent_wrapped: format, reap, then close the channel and say so.
CloseChannel(r) ==
  /\ run[r] = "closing"
  /\ run' = [run EXCEPT ![r] = "closed"]
  /\ channel' = NoOne /\ queue' = <<>>
  /\ dropped' = dropped \cup ToSet(queue)
  /\ UNCHANGED <<cut, iter, todo, ended, chat, trace, seen, sent, card, late,
                 wrong>>

\* Mutant of AnnounceEnd: a run that ended early returns before it says so.
AnnounceEndOnSuccess(r) ==
  /\ run[r] = "closed"
  /\ run' = [run EXCEPT ![r] = "gone"]
  /\ chat' = [chat EXCEPT ![r] = <<>>]
  /\ card' = IF ended[r] = "failed" THEN card ELSE "finished"
  /\ UNCHANGED <<channel, queue, cut, iter, todo, ended, trace, seen, sent, late,
                 dropped, wrong>>

AnnounceEnd(r) ==
  /\ run[r] = "closed"
  /\ run' = [run EXCEPT ![r] = "gone"]
  /\ chat' = [chat EXCEPT ![r] = <<>>]
  /\ card' = "finished"
  /\ UNCHANGED <<channel, queue, cut, iter, todo, ended, trace, seen, sent, late,
                 dropped, wrong>>

-----------------------------------------------------------------------------

RunStep(r) ==
  \/ LoopTop(r) \/ AskFails(r) \/ AskEmpty(r) \/ AskText(r) \/ AskCalls(r)
  \/ DispatchCall(r) \/ CapReached(r) \/ WrapUp(r) \/ CloseChannel(r)
  \/ AnnounceEnd(r)
RequestStep(s) == LoadTrace(s) \/ ClaimResume(s) \/ ClaimSteers(s) \/ Resume(s)

SubNext ==
  \/ StartRun \/ StopSubagent
  \/ \E s \in Steers : Steer(s) \/ RequestStep(s)
  \/ \E r \in SubRuns : RunStep(r)

SubSpec == SubInit /\ [][SubNext]_subVars

\* Spawned loops and requests that have begun make progress.
SubFairness ==
  /\ \A r \in SubRuns : WF_subVars(RunStep(r))
  /\ \A s \in Steers : WF_subVars(RequestStep(s))
SubFairSpec == SubSpec /\ SubFairness

-----------------------------------------------------------------------------
(* Properties.                                                             *)

\* A double click on a follow-up, or a follow-up that races the end of a run,
\* never puts two loops on one JSONL: the loop that works is the one whose
\* channel is registered (the claim is one critical section).
OneLoop ==
  \A r \in SubRuns : run[r] \in Working \ {"closed"} => channel = r

\* A message the composer was told is accepted is in exactly one place: on the
\* queue, in the JSONL, among the discarded ones, or about to open a run.
SteerKept ==
  \A s \in Steers :
    LET Places == {<<"queue", i>> : i \in {j \in DOMAIN queue : queue[j] = s}}
                    \cup {<<"trace", i>> : i \in {j \in DOMAIN trace : trace[j] = Said(s)}}
                    \cup {<<"dropped", 0>> : x \in {s} \cap dropped}
                    \cup {<<"claimed", 0>> : x \in {r \in {s} : run[r] = "claimed"}}
    IN Cardinality(Places) = IF sent[s] \in {"follow", "steer"} THEN 1 ELSE 0

\* A run that reports an answer of its own leaves no message behind that was
\* accepted while it still worked: a steer that lands during the last answer
\* earns another round-trip.
SteersServedFirst ==
  \A r \in SubRuns :
    run[r] = "closing" /\ ended[r] = "done" => ToSet(queue) \subseteq late

\* A history the model may be sent: every batch of calls is followed by one
\* result per call before anything else is said.
WellFormed(h) ==
  \A i \in DOMAIN h :
    h[i][1] = "calls" =>
      \A j \in 1..h[i][2] : i + j \in DOMAIN h /\ h[i + j] = Outcome

\* What a run has said and heard itself: its history from its task or
\* follow-up on.
Own(r) ==
  SubSeq(chat[r], CHOOSE i \in DOMAIN chat[r] : chat[r][i] = Said(r), Len(chat[r]))

\* The model is never asked with a call of this run unanswered or a steer
\* inside a batch of calls.
AskedWellFormed ==
  \A r \in SubRuns : run[r] \in {"ask", "wrap"} => WellFormed(Own(r))

\* The same for the history a run has resumed; when the run before it was
\* stopped, the code that rebuilds the history leaves the orphaned calls in it.
ResumedWellFormed ==
  \A r \in Steers : run[r] \in {"ask", "wrap"} => WellFormed(chat[r])

\* A resumed run knows everything the JSONL knows.
NothingForgotten ==
  \A r \in SubRuns : run[r] \in Looping => chat[r] = trace

\* Once nothing works any more, the panel's card does not say "running".
CardRight ==
  (\A r \in SubRuns : run[r] \notin Working) => card # "running"

\* Whatever is steered, resumed or stopped, and however a run fails, again and
\* again no run works any more and the card says so.
SubagentEnds ==
  []<>(card # "running" /\ \A r \in SubRuns : run[r] \notin Working)

\* While a sub-agent works and nothing else is about to, its card says so.
CardLive ==
  \A r \in SubRuns : run[r] \in Looping => card = "running"

\* A message that was accepted is never discarded.
NeverDropped == dropped = {}

\* Well typed, with one loop on the JSONL, every message in one place, the messages
\* that were accepted while it worked answered, every call answered when the model
\* is asked, and a card that does not spin.
SubagentOK ==
  /\ SubTypeOK /\ OneLoop /\ SteerKept /\ SteersServedFirst /\ AskedWellFormed
  /\ CardRight
=============================================================================
