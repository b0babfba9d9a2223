------------------------------ MODULE TurnLoop ------------------------------
(***************************************************************************)
(* One coder session of moon-ide: the `SessionRuntime` of                  *)
(* crates/moon-coder/src/runner.rs, the handlers that talk to it (send,    *)
(* "go now", un-queue, Esc, an answered prompt, retry, a parked notice)    *)
(* and the detached turn loops those handlers spawn.                       *)
(*                                                                         *)
(* A message is identified with the handler that sends it, and a turn loop *)
(* with the message (or retry) whose handler spawned it.  A loop's         *)
(* `CancellationToken` is one-shot: every fresh token is stored in the     *)
(* turn slot by the loop that will listen to it, so the slot is the name   *)
(* of a loop and `tripped` says whether that loop's current token is       *)
(* cancelled.  One action is one lock section or one awaited call; a       *)
(* transcript append is a step of its own (`AppendRecord`), because the    *)
(* code awaits the file system after it has released the session lock.     *)
(***************************************************************************)
EXTENDS Naturals, FiniteSets, SequencesExt

CONSTANTS Users,     \* messages typed by a user or sent by another session
          Notices,   \* notices parked on the session, which start no turn
          Retries,   \* clicks on "Retry" after a failed turn
          GoNows,    \* the queued messages on which "go now" is clicked
          NoRun,     \* the empty turn slot (`cancel: None`)
          MaxOps,    \* bound: client operations in flight at the same time
          MaxEsc,    \* bound: presses of Esc
          MaxIter,   \* bound: MAX_TURN_ITERATIONS
          MaxBatch,  \* bound: tool calls in one assistant message
          MaxCalls,  \* bound: tool calls ever minted
          Asks,      \* TRUE: a tool call may be `ask_user`
          Faults     \* what may fail: the "provider", the "disk"

Messages == Users \cup Notices
Runs == Messages \cup Retries

ASSUME RunsAssumption ==
  /\ NoRun \notin Runs
  /\ Users \cap Notices = {} /\ Messages \cap Retries = {}
  /\ GoNows \subseteq Messages

ASSUME BoundsAssumption ==
  /\ {MaxOps, MaxEsc, MaxIter, MaxBatch, MaxCalls} \subseteq Nat
  /\ Asks \in BOOLEAN /\ Faults \subseteq {"provider", "disk"}

VARIABLES slot,      \* turn.cancel: the loop whose token it holds, or NoRun
          tripped,   \* loops whose current token is cancelled
          steers,    \* session.pending_steers
          messages,  \* session.messages, the history the model is sent
          disk,      \* the records of the session's JSONL
          unsaved,   \* per actor: records pushed or built, not yet appended
          rows,      \* messages the panel shows as a muted "queued" row
          parked,    \* PromptRegistry.pending: tool calls waiting on the user
          minted,    \* tool-call ids handed out so far
          post,      \* per handler of send / retry / notice: where it is
          go,        \* per message: where the "go now" handler is
          loop,      \* per turn loop: where it is
          todo,      \* per actor: tool calls to dispatch, or to recover
          iter,      \* per turn loop: iterations of the running run_turn
          returned,  \* messages un-queued back into the composer
          escs       \* presses of Esc so far

session == <<steers, messages, returned>>
vars == <<slot, tripped, steers, messages, disk, unsaved, rows, parked, minted,
          post, go, loop, todo, iter, returned, escs>>

-----------------------------------------------------------------------------
(* The transcript: user, assistant text, assistant tool calls, tool result *)
(* and the runner's own sentinel messages.                                 *)

CallIds == 1..MaxCalls
Entries == ({"user"} \X Messages) \cup ({"text", "note"} \X Runs)
             \cup ({"calls"} \X SUBSET CallIds) \cup ({"result"} \X CallIds)

User(m)    == <<"user", m>>
Result(c)  == <<"result", c>>
UserRows(q)   == [i \in DOMAIN q |-> User(q[i])]
ResultRows(q) == [i \in DOMAIN q |-> Result(q[i])]

Calls(h) == {c \in CallIds : \E i \in DOMAIN h : h[i][1] = "calls" /\ c \in h[i][2]}
Answered(h) == {c \in CallIds : Result(c) \in ToSet(h)}
Orphans(h) == Calls(h) \ Answered(h)

\* The sequence (one, ascending) that lists the finite set S of call ids.
Listings(S) ==
  {q \in UNION {[1..n -> S] : n \in 0..MaxCalls} :
     /\ \A i, j \in DOMAIN q : i < j => q[i] < q[j]
     /\ \A c \in S : \E i \in DOMAIN q : q[i] = c}

PostStates == {"idle", "skip", "queue", "announce", "claim", "drain", "own",
               "spawn", "snap", "fill", "done"}
GoStates   == {"idle", "checked", "skip", "cancel", "done"}
InTurn     == {"start", "top", "model", "final", "tools", "exec", "ask", "push",
               "wrap"}
LoopStates == InTurn \cup {"off", "ok", "abort", "err", "snap_back", "fill_back",
                           "fresh", "release", "snap_end", "fill_end"}
\* A loop that has been spawned and has not yet given up the turn slot.
Holding    == LoopStates \ {"off", "snap_end", "fill_end"}

TypeOK ==
  /\ slot \in Runs \cup {NoRun}
  /\ tripped \subseteq Runs
  /\ steers \in Seq(Messages)
  /\ messages \in Seq(Entries)
  /\ disk \in Seq(Entries)
  /\ unsaved \in [Runs -> Seq(Entries)]
  /\ rows \subseteq Messages
  /\ parked \subseteq CallIds
  /\ minted \in 0..MaxCalls
  /\ post \in [Runs -> PostStates]
  /\ go \in [Messages -> GoStates]
  /\ loop \in [Runs -> LoopStates]
  /\ todo \in [Runs -> Seq(CallIds)]
  /\ iter \in [Runs -> 0..MaxIter]
  /\ returned \subseteq Messages
  /\ escs \in 0..MaxEsc

Init ==
  /\ slot = NoRun /\ tripped = {}
  /\ steers = <<>> /\ messages = <<>> /\ disk = <<>>
  /\ unsaved = [r \in Runs |-> <<>>]
  /\ rows = {} /\ parked = {} /\ minted = 0
  /\ post = [r \in Runs |-> "idle"]
  /\ go = [m \in Messages |-> "idle"]
  /\ loop = [r \in Runs |-> "off"]
  /\ todo = [r \in Runs |-> <<>>]
  /\ iter = [r \in Runs |-> 0]
  /\ returned = {} /\ escs = 0

-----------------------------------------------------------------------------
(* Pieces the handlers share.                                              *)

Saved(a) == unsaved[a] = <<>>
PostTo(a, from, to) == post[a] = from /\ post' = [post EXCEPT ![a] = to]
GoTo(m, from, to) == go[m] = from /\ go' = [go EXCEPT ![m] = to]
LoopTo(r, from, to) == loop[r] = from /\ loop' = [loop EXCEPT ![r] = to]

\* Store a fresh token in the turn slot; the loop r will listen to it.
Arm(r) == slot' = r /\ tripped' = tripped \ {r}

\* Mutant of Drain: the queue is copied into the history but not taken.
DrainKeeps(a) ==
  /\ messages' = messages \o UserRows(steers)
  /\ unsaved' = [unsaved EXCEPT ![a] = UserRows(steers)]
  /\ rows' = rows \ ToSet(steers)
  /\ UNCHANGED steers

\* drain_pending_steers: every queued message becomes history, in order.
Drain(a) ==
  /\ steers' = <<>>
  /\ messages' = messages \o UserRows(steers)
  /\ unsaved' = [unsaved EXCEPT ![a] = UserRows(steers)]
  /\ rows' = rows \ ToSet(steers)

Push(a, e) ==
  /\ messages' = Append(messages, e)
  /\ unsaved' = [unsaved EXCEPT ![a] = <<e>>]

\* PromptRegistry::skip_any, after has_pending.
SkipAny == IF parked = {} THEN UNCHANGED parked
           ELSE \E c \in parked : parked' = parked \ {c}

\* Every append is awaited by the actor that built the record.
AppendRecord(a) ==
  /\ unsaved[a] # <<>>
  /\ unsaved' = [unsaved EXCEPT ![a] = Tail(@)]
  /\ \/ disk' = Append(disk, Head(unsaved[a]))
     \/ "disk" \in Faults /\ UNCHANGED disk
  /\ UNCHANGED <<slot, tripped, session, rows, parked, minted, post, go, loop,
                 todo, iter, escs>>

\* Client operations in flight: a client awaits one before it issues another.
Ops == Cardinality({a \in Users \cup Retries : post[a] \notin {"idle", "done"}})
         + Cardinality({m \in Messages : go[m] \notin {"idle", "done"}})

-----------------------------------------------------------------------------
(* send and send_to: steer a running turn, or claim the slot and spawn one *)

Probe(m) ==
  /\ Ops < MaxOps
  /\ PostTo(m, "idle", IF slot = NoRun THEN "claim" ELSE "skip")
  /\ UNCHANGED <<slot, tripped, session, disk, unsaved, rows, parked, minted, go,
                 loop, todo, iter, escs>>

SkipPrompt(m) ==
  /\ PostTo(m, "skip", "queue")
  /\ SkipAny
  /\ UNCHANGED <<slot, tripped, session, disk, unsaved, rows, minted, go, loop,
                 todo, iter, escs>>

\* Mutant of QueueSteer: the message goes into the history at queue time.
QueueSteerNow(m) ==
  /\ PostTo(m, "queue", "announce")
  /\ messages' = Append(messages, User(m))
  /\ UNCHANGED <<slot, tripped, steers, returned, disk, unsaved, rows, parked,
                 minted, go, loop, todo, iter, escs>>

QueueSteer(m) ==
  /\ PostTo(m, "queue", "announce")
  /\ steers' = Append(steers, m)
  /\ UNCHANGED <<slot, tripped, messages, returned, disk, unsaved, rows, parked,
                 minted, go, loop, todo, iter, escs>>

Announce(m) ==
  /\ PostTo(m, "announce", "done")
  /\ rows' = rows \cup {m}
  /\ UNCHANGED <<slot, tripped, session, disk, unsaved, parked, minted, go, loop,
                 todo, iter, escs>>

Claim(m) ==
  /\ PostTo(m, "claim", "drain")
  /\ Arm(m)
  /\ UNCHANGED <<session, disk, unsaved, rows, parked, minted, go, loop, todo,
                 iter, escs>>

DrainOlder(m) ==
  /\ PostTo(m, "drain", "own")
  /\ Drain(m)
  /\ UNCHANGED <<slot, tripped, returned, disk, parked, minted, go, loop, todo,
                 iter, escs>>

PushOwn(m) ==
  /\ Saved(m)
  /\ PostTo(m, "own", "spawn")
  /\ Push(m, User(m))
  /\ UNCHANGED <<slot, tripped, steers, returned, disk, rows, parked, minted, go,
                 loop, todo, iter, escs>>

SpawnTurnLoop(a) ==
  /\ Saved(a)
  /\ PostTo(a, "spawn", "done")
  /\ loop' = [loop EXCEPT ![a] = "start"]
  /\ UNCHANGED <<slot, tripped, session, disk, unsaved, rows, parked, minted, go,
                 todo, iter, escs>>

Send(m) == \/ Probe(m) \/ SkipPrompt(m) \/ QueueSteer(m)
           \/ Claim(m) \/ DrainOlder(m) \/ PushOwn(m)

\* park_coordinator_notice: queues whether or not a turn is running.
ParkNotice(n) ==
  /\ PostTo(n, "idle", "announce")
  /\ steers' = Append(steers, n)
  /\ UNCHANGED <<slot, tripped, messages, returned, disk, unsaved, rows, parked,
                 minted, go, loop, todo, iter, escs>>

-----------------------------------------------------------------------------
(* retry_last_turn_in: refuse mid-turn, recover orphans, claim, spawn.     *)

\* Mutant of RetryProbe: claim at once, without recovering the orphans.
RetryProbeOnly(x) ==
  /\ Ops < MaxOps
  /\ PostTo(x, "idle", IF slot = NoRun /\ messages # <<>> THEN "claim" ELSE "done")
  /\ UNCHANGED <<slot, tripped, session, disk, unsaved, rows, parked, minted, go,
                 loop, todo, iter, escs>>

RetryProbe(x) ==
  /\ Ops < MaxOps
  /\ PostTo(x, "idle", IF slot = NoRun /\ messages # <<>> THEN "snap" ELSE "done")
  /\ UNCHANGED <<slot, tripped, session, disk, unsaved, rows, parked, minted, go,
                 loop, todo, iter, escs>>

RetrySnapshot(x) ==
  /\ PostTo(x, "snap", "fill")
  /\ \E q \in Listings(Orphans(messages)) : todo' = [todo EXCEPT ![x] = q]
  /\ UNCHANGED <<slot, tripped, session, disk, unsaved, rows, parked, minted, go,
                 loop, iter, escs>>

RetryFill(x) ==
  /\ PostTo(x, "fill", "claim")
  /\ messages' = messages \o ResultRows(todo[x])
  /\ unsaved' = [unsaved EXCEPT ![x] = ResultRows(todo[x])]
  /\ todo' = [todo EXCEPT ![x] = <<>>]
  /\ UNCHANGED <<slot, tripped, steers, returned, disk, rows, parked, minted, go,
                 loop, iter, escs>>

RetryClaim(x) ==
  /\ Saved(x)
  /\ PostTo(x, "claim", "spawn")
  /\ Arm(x)
  /\ UNCHANGED <<session, disk, unsaved, rows, parked, minted, go, loop, todo,
                 iter, escs>>

Retry(x) == RetryProbe(x) \/ RetrySnapshot(x) \/ RetryFill(x) \/ RetryClaim(x)

-----------------------------------------------------------------------------
(* drain_steer_on ("go now"), unqueue_steer_on, abort, respond_to_prompt.  *)

GoNowCheck(m) ==
  /\ Ops < MaxOps
  /\ m \in rows
  /\ GoTo(m, "idle", IF m \in ToSet(steers) THEN "checked" ELSE "done")
  /\ UNCHANGED <<slot, tripped, session, disk, unsaved, rows, parked, minted, post,
                 loop, todo, iter, escs>>

\* Mutant of GoNowWake: the slot is claimed but no loop is spawned.
GoNowWakeOnlyClaims(m) ==
  /\ slot = NoRun
  /\ GoTo(m, "checked", "done")
  /\ Arm(m)
  /\ UNCHANGED <<session, disk, unsaved, rows, parked, minted, post, loop, todo, iter,
                 escs>>

\* An idle session is claimed and its loop spawned under the turn lock.
GoNowWake(m) ==
  /\ slot = NoRun
  /\ GoTo(m, "checked", "done")
  /\ Arm(m)
  /\ loop' = [loop EXCEPT ![m] = "start"]
  /\ UNCHANGED <<session, disk, unsaved, rows, parked, minted, post, todo, iter,
                 escs>>

GoNowBusy(m) ==
  /\ slot # NoRun
  /\ GoTo(m, "checked", "skip")
  /\ UNCHANGED <<slot, tripped, session, disk, unsaved, rows, parked, minted, post,
                 loop, todo, iter, escs>>

GoNowSkip(m) ==
  /\ GoTo(m, "skip", "cancel")
  /\ SkipAny
  /\ rows' = rows \ {m}
  /\ UNCHANGED <<slot, tripped, session, disk, unsaved, minted, post, loop, todo,
                 iter, escs>>

GoNowCancel(m) ==
  /\ GoTo(m, "cancel", "done")
  /\ tripped' = tripped \cup ({slot} \ {NoRun})
  /\ UNCHANGED <<slot, session, disk, unsaved, rows, parked, minted, post, loop,
                 todo, iter, escs>>

GoNow(m) == GoNowCheck(m) \/ GoNowWake(m) \/ GoNowBusy(m) \/ GoNowSkip(m)
              \/ GoNowCancel(m)

Unqueue(m) ==
  /\ m \in rows
  /\ \E i \in DOMAIN steers : steers[i] = m /\ steers' = RemoveAt(steers, i)
  /\ rows' = rows \ {m}
  /\ returned' = returned \cup {m}
  /\ UNCHANGED <<slot, tripped, messages, disk, unsaved, parked, minted, post, go,
                 loop, todo, iter, escs>>

Abort ==
  /\ escs < MaxEsc /\ slot # NoRun
  /\ tripped' = tripped \cup {slot}
  /\ escs' = escs + 1
  /\ UNCHANGED <<slot, session, disk, unsaved, rows, parked, minted, post, go, loop,
                 todo, iter>>

RespondToPrompt(c) ==
  /\ c \in parked
  /\ parked' = parked \ {c}
  /\ UNCHANGED <<slot, tripped, session, disk, unsaved, rows, minted, post, go, loop,
                 todo, iter, escs>>

-----------------------------------------------------------------------------
(* run_turn: drain, ask the model, dispatch its tool calls, again.         *)

\* The session's folder may have been unbound before the turn starts (counted
\* with the provider's failures).
StartTurn(r) ==
  /\ \/ LoopTo(r, "start", "top")
     \/ "provider" \in Faults /\ LoopTo(r, "start", "err")
  /\ iter' = [iter EXCEPT ![r] = 0]
  /\ UNCHANGED <<slot, tripped, session, disk, unsaved, rows, parked, minted, post,
                 go, todo, escs>>

\* Mutant of IterationTop: the budget is not looked at.
IterationTopUnbounded(r) ==
  /\ Saved(r)
  /\ IF r \in tripped
     THEN /\ LoopTo(r, "top", "abort")
          /\ UNCHANGED <<steers, messages, unsaved, rows>>
     ELSE LoopTo(r, "top", "model") /\ Drain(r)
  /\ UNCHANGED <<slot, tripped, returned, disk, parked, minted, post, go, todo, iter,
                 escs>>

IterationTop(r) ==
  /\ Saved(r)
  /\ iter[r] < MaxIter
  /\ IF r \in tripped
     THEN /\ LoopTo(r, "top", "abort")
          /\ UNCHANGED <<steers, messages, unsaved, rows>>
     ELSE LoopTo(r, "top", "model") /\ Drain(r)
  /\ UNCHANGED <<slot, tripped, returned, disk, parked, minted, post, go, todo, iter,
                 escs>>

\* Out of iterations: one sentinel, one tool-less round-trip.
BudgetSpent(r) ==
  /\ Saved(r)
  /\ iter[r] = MaxIter
  /\ LoopTo(r, "top", "wrap")
  /\ Push(r, <<"note", r>>)
  /\ UNCHANGED <<slot, tripped, steers, returned, disk, rows, parked, minted, post,
                 go, todo, iter, escs>>

\* The request failed, or the stream saw the cancelled token.
ModelStops(r, at) ==
  /\ Saved(r)
  /\ \/ "provider" \in Faults /\ LoopTo(r, at, "err")
     \/ r \in tripped /\ LoopTo(r, at, "abort")
  /\ UNCHANGED <<slot, tripped, session, disk, unsaved, rows, parked, minted, post,
                 go, todo, iter, escs>>

ModelEmpty(r) ==
  /\ "provider" \in Faults
  /\ Saved(r)
  /\ LoopTo(r, "model", "top")
  /\ iter' = [iter EXCEPT ![r] = @ + 1]
  /\ UNCHANGED <<slot, tripped, session, disk, unsaved, rows, parked, minted, post,
                 go, todo, escs>>

ModelText(r) ==
  /\ Saved(r)
  /\ LoopTo(r, "model", "final") \/ LoopTo(r, "wrap", "ok")
  /\ Push(r, <<"text", r>>)
  /\ UNCHANGED <<slot, tripped, steers, returned, disk, rows, parked, minted, post,
                 go, todo, iter, escs>>

\* Call ids are made unique before anything observes the response.  A round
\* that is the last straw of a series of malformed calls ends the turn here.
ModelCalls(r) ==
  /\ Saved(r)
  /\ \E n \in 1..MaxBatch :
       LET ids == (minted + 1)..(minted + n) IN
       /\ minted + n <= MaxCalls
       /\ minted' = minted + n
       /\ Push(r, <<"calls", ids>>)
       /\ \/ /\ LoopTo(r, "model", "tools")
             /\ todo' = [todo EXCEPT ![r] = [i \in 1..n |-> minted + i]]
          \/ /\ "provider" \in Faults /\ iter[r] > 0
             /\ LoopTo(r, "model", "err")
             /\ UNCHANGED todo
  /\ UNCHANGED <<slot, tripped, steers, returned, disk, rows, parked, post, go, iter,
                 escs>>

FinalAnswer(r) ==
  /\ Saved(r)
  /\ IF steers = <<>>
     THEN LoopTo(r, "final", "ok") /\ UNCHANGED iter
     ELSE LoopTo(r, "final", "top") /\ iter' = [iter EXCEPT ![r] = @ + 1]
  /\ UNCHANGED <<slot, tripped, session, disk, unsaved, rows, parked, minted, post,
                 go, todo, escs>>

\* The provider cut the answer off: ask for the rest with a sentinel.
FinalCut(r) ==
  /\ "provider" \in Faults
  /\ Saved(r)
  /\ LoopTo(r, "final", "top")
  /\ iter' = [iter EXCEPT ![r] = @ + 1]
  /\ Push(r, <<"note", r>>)
  /\ UNCHANGED <<slot, tripped, steers, returned, disk, rows, parked, minted, post,
                 go, todo, escs>>

\* Mutant of NextCall: does not wait for the assistant's record to be written.
NextCallEager(r) ==
  /\ LoopTo(r, "tools", "exec")
  /\ UNCHANGED <<slot, tripped, session, disk, unsaved, rows, parked, minted, post, go,
                 todo, iter, escs>>

\* dispatch_tool_calls: the calls of one message, in order.
NextCall(r) ==
  /\ Saved(r)
  /\ IF r \in tripped
     THEN /\ LoopTo(r, "tools", "abort")
          /\ todo' = [todo EXCEPT ![r] = <<>>]
          /\ UNCHANGED parked
     ELSE /\ \/ LoopTo(r, "tools", "exec") /\ UNCHANGED parked
             \/ /\ Asks /\ LoopTo(r, "tools", "ask")
                /\ parked' = parked \cup {Head(todo[r])}
          /\ UNCHANGED todo
  /\ UNCHANGED <<slot, tripped, session, disk, unsaved, rows, minted, post, go, iter,
                 escs>>

\* Mutant of ToolAborts: an aborted prompt stays in the registry.
ToolAbortsParked(r) ==
  /\ r \in tripped
  /\ LoopTo(r, "exec", "abort") \/ LoopTo(r, "ask", "abort")
  /\ todo' = [todo EXCEPT ![r] = <<>>]
  /\ UNCHANGED <<slot, tripped, session, disk, unsaved, rows, parked, minted, post, go,
                 iter, escs>>

\* Mutant of ToolAborts: a parked prompt does not watch the token.
ToolAbortsExecOnly(r) ==
  /\ r \in tripped
  /\ LoopTo(r, "exec", "abort")
  /\ todo' = [todo EXCEPT ![r] = <<>>]
  /\ UNCHANGED <<slot, tripped, session, disk, unsaved, rows, parked, minted, post, go,
                 iter, escs>>

\* handle_ask_user and the other tools watch the token while they wait.
ToolAborts(r) ==
  /\ r \in tripped
  /\ LoopTo(r, "exec", "abort") \/ LoopTo(r, "ask", "abort")
  /\ parked' = parked \ {Head(todo[r])}
  /\ todo' = [todo EXCEPT ![r] = <<>>]
  /\ UNCHANGED <<slot, tripped, session, disk, unsaved, rows, minted, post, go, iter,
                 escs>>

\* The result is persisted first and pushed after.
ToolReturns(r) ==
  /\ \/ LoopTo(r, "exec", "push")
     \/ /\ LoopTo(r, "ask", "push")
        /\ r \notin tripped /\ Head(todo[r]) \notin parked
  /\ unsaved' = [unsaved EXCEPT ![r] = <<Result(Head(todo[r]))>>]
  /\ UNCHANGED <<slot, tripped, session, disk, rows, parked, minted, post, go, todo,
                 iter, escs>>

\* Mutant of PushResult: the first call of a batch ends it.
PushResultFirst(r) ==
  /\ Saved(r) /\ LoopTo(r, "push", "top")
  /\ messages' = Append(messages, Result(Head(todo[r])))
  /\ todo' = [todo EXCEPT ![r] = Tail(@)]
  /\ iter' = [iter EXCEPT ![r] = @ + 1]
  /\ UNCHANGED <<slot, tripped, steers, returned, disk, unsaved, rows, parked, minted,
                 post, go, escs>>

PushResult(r) ==
  /\ Saved(r)
  /\ loop[r] = "push"
  /\ messages' = Append(messages, Result(Head(todo[r])))
  /\ todo' = [todo EXCEPT ![r] = Tail(@)]
  /\ IF Tail(todo[r]) = <<>>
     THEN LoopTo(r, "push", "top") /\ iter' = [iter EXCEPT ![r] = @ + 1]
     ELSE LoopTo(r, "push", "tools") /\ UNCHANGED iter
  /\ UNCHANGED <<slot, tripped, steers, returned, disk, unsaved, rows, parked, minted,
                 post, go, escs>>

RunTurn(r) ==
  \/ StartTurn(r) \/ IterationTop(r) \/ BudgetSpent(r)
  \/ ModelStops(r, "model") \/ ModelStops(r, "wrap")
  \/ ModelEmpty(r) \/ ModelText(r) \/ ModelCalls(r)
  \/ FinalAnswer(r) \/ FinalCut(r)
  \/ NextCall(r) \/ ToolAborts(r) \/ ToolReturns(r) \/ PushResult(r)

-----------------------------------------------------------------------------
(* spawn_turn_loop: what happens when run_turn returns.                    *)

\* Mutant of TurnOk: the slot is released without looking at the queue.
TurnOkBlind(r) ==
  /\ Saved(r)
  /\ LoopTo(r, "ok", "off") /\ slot' = NoRun
  /\ UNCHANGED <<tripped, session, disk, unsaved, rows, parked, minted, post, go, todo,
                 iter, escs>>

\* Mutant of TurnOk: the slot is cleared before the loop goes round again.
TurnOkUnarmed(r) ==
  /\ Saved(r)
  /\ LoopTo(r, "ok", IF steers = <<>> THEN "off" ELSE "start")
  /\ slot' = NoRun
  /\ UNCHANGED <<tripped, session, disk, unsaved, rows, parked, minted, post, go, todo,
                 iter, escs>>

\* Ok: queue check and release are one section under both locks.
TurnOk(r) ==
  /\ Saved(r)
  /\ IF steers = <<>>
     THEN LoopTo(r, "ok", "off") /\ slot' = NoRun /\ UNCHANGED tripped
     ELSE LoopTo(r, "ok", "start") /\ Arm(r)
  /\ UNCHANGED <<session, disk, unsaved, rows, parked, minted, post, go, todo, iter,
                 escs>>

\* Aborted: the queue decides between looping back and releasing the slot.
TurnAborted(r) ==
  /\ LoopTo(r, "abort", IF steers = <<>> THEN "release" ELSE "snap_back")
  /\ UNCHANGED <<slot, tripped, session, disk, unsaved, rows, parked, minted, post,
                 go, todo, iter, escs>>

\* Mutant of ReleaseSlot: the loop ends and its token stays in the slot.
ReleaseForgotten(r) ==
  /\ Saved(r)
  /\ LoopTo(r, "release", "snap_end") \/ LoopTo(r, "err", "off")
  /\ UNCHANGED <<slot, tripped, session, disk, unsaved, rows, parked, minted, post, go,
                 todo, iter, escs>>

\* The slot is cleared whoever's token it holds.
ReleaseSlot(r) ==
  /\ Saved(r)
  /\ LoopTo(r, "release", "snap_end") \/ LoopTo(r, "err", "off")
  /\ slot' = NoRun
  /\ UNCHANGED <<tripped, session, disk, unsaved, rows, parked, minted, post, go,
                 todo, iter, escs>>

\* recover_in_memory_orphans: snapshot in one lock section, push in another.
SnapshotOrphans(r) ==
  /\ LoopTo(r, "snap_back", "fill_back") \/ LoopTo(r, "snap_end", "fill_end")
  /\ \E q \in Listings(Orphans(messages)) : todo' = [todo EXCEPT ![r] = q]
  /\ UNCHANGED <<slot, tripped, session, disk, unsaved, rows, parked, minted, post,
                 go, iter, escs>>

FillOrphans(r) ==
  /\ LoopTo(r, "fill_back", "fresh") \/ LoopTo(r, "fill_end", "off")
  /\ messages' = messages \o ResultRows(todo[r])
  /\ unsaved' = [unsaved EXCEPT ![r] = ResultRows(todo[r])]
  /\ todo' = [todo EXCEPT ![r] = <<>>]
  /\ UNCHANGED <<slot, tripped, steers, returned, disk, rows, parked, minted, post,
                 go, iter, escs>>

FreshCancel(r) ==
  /\ Saved(r)
  /\ LoopTo(r, "fresh", "start")
  /\ Arm(r)
  /\ UNCHANGED <<session, disk, unsaved, rows, parked, minted, post, go, todo, iter,
                 escs>>

LoopEnd(r) == TurnOk(r) \/ TurnAborted(r) \/ ReleaseSlot(r) \/ SnapshotOrphans(r)
                \/ FillOrphans(r) \/ FreshCancel(r)

-----------------------------------------------------------------------------
Handler(a) ==
  \/ a \in Users /\ Send(a)
  \/ a \in Notices /\ ParkNotice(a)
  \/ a \in Messages /\ Announce(a)
  \/ a \in Retries /\ Retry(a)
  \/ SpawnTurnLoop(a)

Next ==
  \/ \E a \in Runs : Handler(a) \/ AppendRecord(a) \/ RunTurn(a) \/ LoopEnd(a)
  \/ \E m \in GoNows : GoNow(m)
  \/ \E m \in Messages : Unqueue(m)
  \/ Abort
  \/ \E c \in CallIds : RespondToPrompt(c)

Spec == Init /\ [][Next]_vars

\* A spawned task and a handler that has begun keep running; a user is not
\* obliged to begin anything, nor to answer a prompt.
Fairness ==
  /\ \A r \in Runs : WF_vars(RunTurn(r) \/ LoopEnd(r)) /\ WF_vars(AppendRecord(r))
  /\ \A a \in Runs : WF_vars(post[a] # "idle" /\ Handler(a))
  /\ \A m \in GoNows : WF_vars(go[m] # "idle" /\ GoNow(m))

FairSpec == Spec /\ Fairness

-----------------------------------------------------------------------------
(* Properties.                                                             *)

Queued(m)    == m \in ToSet(steers)
InHistory(m) == User(m) \in ToSet(messages)

\* A handler that has not yet put its message anywhere.
Unplaced == {"idle", "skip", "queue", "claim", "drain", "own"}

\* No message is lost or duplicated: once its handler has placed it, a message
\* is in exactly one of the queue, the history and the composer, and it is
\* there once, whatever drains, un-queues, aborts and retries have raced.
Conserved ==
  \A m \in Messages :
    /\ \A i, j \in DOMAIN steers : steers[i] = m /\ steers[j] = m => i = j
    /\ \A i, j \in DOMAIN messages :
         messages[i] = User(m) /\ messages[j] = User(m) => i = j
    /\ post[m] \in Unplaced => ~Queued(m) /\ ~InHistory(m) /\ m \notin returned
    /\ post[m] \notin Unplaced =>
         /\ Queued(m) \/ InHistory(m) \/ m \in returned
         /\ ~(Queued(m) /\ InHistory(m))
         /\ m \in returned => ~Queued(m) /\ ~InHistory(m)

\* The busy flag never sticks: whoever's token is in the turn slot, either its
\* handler is still about to spawn the loop, or the loop is still to release it.
SlotOwned ==
  slot # NoRun => post[slot] \in {"drain", "own", "spawn"} \/ loop[slot] \in Holding

\* The chat shape the providers require: between an assistant's tool calls and
\* their results no user message, answer or further call.
ShapeOK ==
  \A i, j \in DOMAIN messages :
    /\ i < j
    /\ messages[i][1] = "calls"
    /\ messages[j][1] # "result"
    => \A c \in messages[i][2] : \E k \in i..j : messages[k] = Result(c)

\* Every tool call is answered exactly once, before the model is asked again.
AnsweredBeforeModel ==
  \A r \in Runs : loop[r] \in {"model", "wrap"} =>
    /\ Orphans(messages) = {}
    /\ \A i, j \in DOMAIN messages :
         messages[i][1] = "result" /\ messages[i] = messages[j] => i = j

\* A retry repairs the history first: the loop it starts never sends the model
\* a tool call without its result, or a result twice.
RetryRepairs ==
  \A x \in Retries : loop[x] \in {"model", "wrap"} =>
    /\ Orphans(messages) = {}
    /\ \A i, j \in DOMAIN messages :
         messages[i][1] = "result" /\ messages[i] = messages[j] => i = j

\* A session runs one turn at a time.
SingleLoop ==
  \A r, s \in Runs : loop[r] \in InTurn /\ loop[s] \in InTurn => r = s

\* A turn that is running can be stopped: the slot holds its token.
Stoppable == \A r \in Runs : loop[r] \in InTurn => slot = r

\* At most one prompt is parked, and the loop that parked it waits for it.
OnePrompt ==
  /\ Cardinality(parked) <= 1
  /\ \A c \in parked : \E r \in Runs : loop[r] = "ask" /\ Head(todo[r]) = c

\* The JSONL is the history the model saw, up to the records in flight: a
\* reload resumes the same conversation, in the same order.
DiskFollows == IsPrefix(disk, messages) \/ IsPrefix(messages, disk)

Quiet ==
  /\ slot = NoRun
  /\ \A a \in Runs : loop[a] = "off" /\ Saved(a) /\ post[a] \in {"idle", "done"}
  /\ \A m \in Messages : go[m] \in {"idle", "done"}

\* When everything has settled, no message sits in the queue of an idle session
\* (a notice may: it waits for the next turn).
NoStrandedSteer == Quiet => \A m \in Users : ~Queued(m)

\* When everything has settled, the panel shows as queued only what is queued.
RowsSettle == Quiet => \A m \in rows : Queued(m)

\* A stale "go now" click does not abort a turn: what it cancels still has the
\* clicked message in its queue.
StaleGoNowHarmless ==
  [][\A m \in GoNows : go[m] = "cancel" /\ go'[m] = "done" /\ tripped' # tripped
       => Queued(m)]_vars

\* A message queued while a loop is bound to look at the queue once more does
\* not stay there, unless the loop waits for the user's answer.
WillLook == \E r \in Runs : loop[r] \in InTurn \cup {"ok", "abort", "snap_back",
                                                      "fill_back", "fresh"}
QueuedIsServed ==
  \A m \in Messages : Queued(m) /\ WillLook ~> ~Queued(m) \/ parked # {}

\* Every turn settles: the slot is given up, unless a prompt is parked.
TurnSettles == slot # NoRun ~> slot = NoRun \/ parked # {}

\* Esc ends the turn it hits, also one that waits for an answer: the loop gives
\* the slot up, or takes a fresh token to serve what was queued meanwhile.
EscEndsTurn ==
  \A r \in Runs : slot = r /\ r \in tripped ~> slot # r \/ r \notin tripped

\* The chat keeps its shape at every moment, and the model is only asked with a
\* history whose calls all have their results.
ChatWellFormed == ShapeOK /\ AnsweredBeforeModel

\* Esc and the answer to a prompt reach the loop that runs: its token is in the
\* slot, and the one prompt that is parked is the call it waits for.
LoopReachable == Stoppable /\ OnePrompt

\* Every turn ends by itself, and by Esc whatever it waits for.
TurnsEnd == TurnSettles /\ EscEndsTurn
=============================================================================
