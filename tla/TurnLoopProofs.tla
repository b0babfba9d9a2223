--------------------------- MODULE TurnLoopProofs ---------------------------
(***************************************************************************)
(* What TurnLoop guarantees for every number of messages, retries, clicks  *)
(* and tool calls.                                                         *)
(***************************************************************************)
EXTENDS TurnLoop, SequenceTheorems, FiniteSetTheorems, TLAPS

\* What typing needs besides itself: a loop that handles a tool call has one,
\* a round of the model is within the budget, and a retry prepares its orphans
\* before its loop exists.
Progress ==
  /\ \A r \in Runs : loop[r] \in {"tools", "exec", "ask", "push"} => todo[r] # <<>>
  /\ \A r \in Runs :
       loop[r] \in {"model", "final", "tools", "exec", "ask", "push"} => iter[r] < MaxIter
  /\ \A x \in Retries : post[x] # "done" => loop[x] = "off"

TypeInv == TypeOK /\ Progress

\* The rows a drained queue becomes are transcript entries.
LEMMA UserRowsType ==
  ASSUME NEW q \in Seq(Messages)
  PROVE  UserRows(q) \in Seq(Entries)
  BY DEF UserRows, User, Entries

\* The results of recovered orphans are transcript entries.
LEMMA ResultRowsType ==
  ASSUME NEW q \in Seq(CallIds)
  PROVE  ResultRows(q) \in Seq(Entries)
  BY DEF ResultRows, Result, Entries

\* A listing of call ids is a sequence of call ids.
LEMMA ListingsType ==
  ASSUME NEW S \in SUBSET CallIds, NEW q \in Listings(S)
  PROVE  q \in Seq(CallIds)
  <1>1. PICK n \in 0..MaxCalls : q \in [1..n -> S]
    BY DEF Listings
  <1>2. n \in Nat
    BY BoundsAssumption
  <1> QED BY <1>1, <1>2

LEMMA DrainType ==
  ASSUME TypeOK, NEW a \in Runs, Drain(a)
  PROVE  /\ steers' \in Seq(Messages) /\ messages' \in Seq(Entries)
         /\ unsaved' \in [Runs -> Seq(Entries)] /\ rows' \in SUBSET Messages
  <1>1. UserRows(steers) \in Seq(Entries)
    BY UserRowsType DEF TypeOK
  <1>2. messages' \in Seq(Entries)
    BY <1>1 DEF TypeOK, Drain
  <1> QED BY <1>1, <1>2 DEF TypeOK, Drain, ToSet

LEMMA InitType == Init => TypeInv
  BY RunsAssumption, BoundsAssumption
  DEF Init, TypeInv, TypeOK, Progress, Runs, PostStates, GoStates, LoopStates, InTurn
\* The parts of the state that a move of one program counter must keep typed.
LEMMA SendType ==
  ASSUME TypeInv, NEW m \in Users, Send(m)
  PROVE  TypeInv'
  <1> m \in Runs /\ m \in Messages /\ m \notin Retries
    BY RunsAssumption DEF Runs, Messages
  <1> USE DEF TypeInv, TypeOK, Progress, session, PostTo, PostStates
  <1>1. CASE Probe(m)
    BY <1>1 DEF Probe
  <1>2. CASE SkipPrompt(m)
    BY <1>2 DEF SkipPrompt, SkipAny
  <1>3. CASE QueueSteer(m)
    BY <1>3 DEF QueueSteer
  <1>4. CASE Claim(m)
    BY <1>4 DEF Claim, Arm
  <1>5. CASE DrainOlder(m)
    BY <1>5, DrainType DEF DrainOlder
  <1>6. CASE PushOwn(m)
    BY <1>6 DEF PushOwn, Push, User, Entries
  <1> QED BY <1>1, <1>2, <1>3, <1>4, <1>5, <1>6 DEF Send

LEMMA HandlerType ==
  ASSUME TypeInv, NEW a \in Runs, Handler(a)
  PROVE  TypeInv'
  <1> USE DEF TypeInv, TypeOK, Progress, session, PostTo, PostStates
  <1>1. CASE a \in Users /\ Send(a)
    BY <1>1, SendType
  <1>2. CASE a \in Notices /\ ParkNotice(a)
    BY <1>2, RunsAssumption DEF ParkNotice, Messages
  <1>3. CASE a \in Messages /\ Announce(a)
    BY <1>3, RunsAssumption DEF Announce
  <1>4. CASE a \in Retries /\ RetryProbe(a)
    BY <1>4 DEF RetryProbe
  <1>5. CASE a \in Retries /\ RetrySnapshot(a)
    <2>1. PICK q \in Listings(Orphans(messages)) : todo' = [todo EXCEPT ![a] = q]
      BY <1>5 DEF RetrySnapshot
    <2>2. q \in Seq(CallIds)
      BY ListingsType DEF Orphans, Calls
    <2>3. loop[a] = "off" /\ todo' \in [Runs -> Seq(CallIds)]
      BY <1>5, <2>1, <2>2 DEF RetrySnapshot
    <2>4. TypeOK'
      BY <1>5, <2>3 DEF RetrySnapshot
    <2>5. Progress'
      BY <1>5, <2>1, <2>3 DEF RetrySnapshot
    <2> QED BY <2>4, <2>5
  <1>6. CASE a \in Retries /\ RetryFill(a)
    <2>1. ResultRows(todo[a]) \in Seq(Entries)
      BY ResultRowsType
    <2>2. messages' \in Seq(Entries)
      BY <1>6, <2>1 DEF RetryFill
    <2>3. loop[a] = "off"
      BY <1>6 DEF RetryFill
    <2>4. TypeOK'
      BY <1>6, <2>1, <2>2 DEF RetryFill
    <2>5. Progress'
      BY <1>6, <2>3 DEF RetryFill
    <2> QED BY <2>4, <2>5
  <1>7. CASE a \in Retries /\ RetryClaim(a)
    BY <1>7 DEF RetryClaim, Arm
  <1>8. CASE SpawnTurnLoop(a)
    BY <1>8 DEF SpawnTurnLoop, LoopStates, InTurn
  <1> QED BY <1>1, <1>2, <1>3, <1>4, <1>5, <1>6, <1>7, <1>8 DEF Handler, Retry

LEMMA ClientType ==
  ASSUME TypeInv,
         \/ \E a \in Runs : AppendRecord(a)
         \/ \E m \in GoNows : GoNow(m)
         \/ \E m \in Messages : Unqueue(m)
         \/ Abort
         \/ \E c \in CallIds : RespondToPrompt(c)
  PROVE  TypeInv'
  <1> USE DEF TypeInv, TypeOK, Progress, session, GoTo, GoStates
  <1>1. ASSUME NEW a \in Runs, AppendRecord(a) PROVE TypeInv'
    <2>1. unsaved[a] \in Seq(Entries) /\ unsaved[a] # <<>>
      BY <1>1 DEF AppendRecord
    <2>2. Head(unsaved[a]) \in Entries /\ Tail(unsaved[a]) \in Seq(Entries)
      BY <2>1
    <2>3. unsaved' \in [Runs -> Seq(Entries)]
      BY <1>1, <2>2 DEF AppendRecord
    <2>4. disk' \in Seq(Entries)
      <3>1. Append(disk, Head(unsaved[a])) \in Seq(Entries)
        BY <2>2
      <3> QED BY <1>1, <3>1 DEF AppendRecord
    <2> QED BY <1>1, <2>3, <2>4 DEF AppendRecord
  <1>2. ASSUME NEW m \in GoNows, GoNow(m) PROVE TypeInv'
    <2> m \in Runs /\ m \in Messages /\ m \notin Retries
      BY RunsAssumption DEF Runs, Messages
    <2>1. CASE GoNowCheck(m)
      BY <2>1 DEF GoNowCheck
    <2>2. CASE GoNowWake(m)
      BY <2>2 DEF GoNowWake, Arm, LoopStates, InTurn
    <2>3. CASE GoNowBusy(m)
      BY <2>3 DEF GoNowBusy
    <2>4. CASE GoNowSkip(m)
      BY <2>4 DEF GoNowSkip, SkipAny
    <2>5. CASE GoNowCancel(m)
      BY <2>5 DEF GoNowCancel
    <2> QED BY <1>2, <2>1, <2>2, <2>3, <2>4, <2>5 DEF GoNow
  <1>3. ASSUME NEW m \in Messages, Unqueue(m) PROVE TypeInv'
    <2>1. PICK i \in DOMAIN steers : steers' = RemoveAt(steers, i)
      BY <1>3 DEF Unqueue
    <2>2. SubSeq(steers, 1, i - 1) \in Seq(Messages)
      BY <2>1
    <2>3. SubSeq(steers, i + 1, Len(steers)) \in Seq(Messages)
      BY <2>1
    <2>4. steers' \in Seq(Messages)
      BY <2>1, <2>2, <2>3 DEF RemoveAt
    <2> QED BY <1>3, <2>4 DEF Unqueue
  <1>4. CASE Abort
    BY <1>4, BoundsAssumption DEF Abort
  <1>5. CASE \E c \in CallIds : RespondToPrompt(c)
    BY <1>5 DEF RespondToPrompt
  <1> QED BY <1>1, <1>2, <1>3, <1>4, <1>5

-----------------------------------------------------------------------------
(* The steps of a turn loop, one part of the state at a time.              *)

LoopStep(r) == RunTurn(r) \/ LoopEnd(r)

\* The definitions of a turn loop's actions are expanded together below.
LEMMA LoopCounter ==
  ASSUME TypeOK, NEW r \in Runs, LoopStep(r)
  PROVE  /\ loop' \in [Runs -> LoopStates] /\ loop[r] # "off"
         /\ \A s \in Runs \ {r} : loop'[s] = loop[s]
         /\ loop'[r] \in {"model", "final", "tools", "exec", "ask", "push"} =>
              \/ UNCHANGED iter /\ loop[r] \in {"model", "final", "tools", "exec", "ask", "push"}
              \/ UNCHANGED iter /\ iter[r] < MaxIter
  <1> USE DEF TypeOK, LoopTo, LoopStates, InTurn
  <1>1. CASE RunTurn(r)
    BY <1>1 DEF RunTurn, StartTurn, IterationTop, BudgetSpent, ModelStops, ModelEmpty,
                ModelText, ModelCalls, FinalAnswer, FinalCut, NextCall, ToolAborts,
                ToolReturns, PushResult
  <1>2. CASE LoopEnd(r)
    BY <1>2 DEF LoopEnd, TurnOk, TurnAborted, ReleaseSlot, SnapshotOrphans, FillOrphans,
                FreshCancel
  <1> QED BY <1>1, <1>2 DEF LoopStep

LEMMA LoopBudget ==
  ASSUME TypeInv, NEW r \in Runs, LoopStep(r)
  PROVE  /\ iter' \in [Runs -> 0..MaxIter]
         /\ \A s \in Runs \ {r} : iter'[s] = iter[s]
  <1>1. MaxIter \in Nat
    BY BoundsAssumption
  <1>2. CASE RunTurn(r)
    <2>1. \/ UNCHANGED iter
          \/ iter' = [iter EXCEPT ![r] = 0]
          \/ loop[r] \in {"model", "final", "push"} /\ iter' = [iter EXCEPT ![r] = @ + 1]
      BY <1>2 DEF LoopTo, RunTurn, StartTurn, IterationTop, BudgetSpent, ModelStops,
                  ModelEmpty, ModelText, ModelCalls, FinalAnswer, FinalCut, NextCall,
                  ToolAborts, ToolReturns, PushResult
    <2>2. /\ iter \in [Runs -> 0..MaxIter]
          /\ loop[r] \in {"model", "final", "push"} => iter[r] < MaxIter
      BY DEF TypeInv, TypeOK, Progress
    <2> QED BY <1>1, <2>1, <2>2
  <1>3. CASE LoopEnd(r)
    BY <1>3 DEF TypeInv, TypeOK, LoopEnd, TurnOk, TurnAborted, ReleaseSlot,
                SnapshotOrphans, FillOrphans, FreshCancel
  <1> QED BY <1>2, <1>3 DEF LoopStep

\* The calls of one assistant message are a non-empty listing of fresh ids.
LEMMA BatchType ==
  ASSUME TypeOK, NEW n \in 1..MaxBatch, minted + n <= MaxCalls
  PROVE  /\ [i \in 1..n |-> minted + i] \in Seq(CallIds) \ {<<>>}
         /\ (minted + 1)..(minted + n) \subseteq CallIds
         /\ minted + n \in 0..MaxCalls
  <1>1. minted \in Nat /\ n \in Nat /\ n > 0 /\ MaxCalls \in Nat
    BY BoundsAssumption DEF TypeOK
  <1>2. \A i \in 1..n : minted + i \in CallIds
    BY <1>1 DEF CallIds
  <1>3. (minted + 1)..(minted + n) \subseteq CallIds
    BY <1>1 DEF CallIds
  <1>4. [i \in 1..n |-> minted + i] \in Seq(CallIds)
    BY <1>1, <1>2
  <1>5. Len([i \in 1..n |-> minted + i]) = n
    BY <1>1, <1>4
  <1> QED BY <1>1, <1>3, <1>4, <1>5

LEMMA LoopTodo ==
  ASSUME TypeInv, NEW r \in Runs, LoopStep(r)
  PROVE  /\ todo' \in [Runs -> Seq(CallIds)]
         /\ \A s \in Runs \ {r} : todo'[s] = todo[s]
         /\ loop'[r] \in {"tools", "exec", "ask", "push"} => todo'[r] # <<>>
  <1> DEFINE Busy == {"tools", "exec", "ask", "push"}
  <1>1. /\ TypeOK /\ todo \in [Runs -> Seq(CallIds)] /\ loop \in [Runs -> LoopStates]
        /\ loop[r] \in Busy => todo[r] # <<>>
    BY DEF TypeInv, TypeOK, Progress
  <1>2. CASE RunTurn(r)
    <2>1. \/ UNCHANGED todo /\ (loop'[r] \in Busy => loop[r] \in Busy)
          \/ todo' = [todo EXCEPT ![r] = <<>>] /\ loop'[r] = "abort"
          \/ /\ todo' = [todo EXCEPT ![r] = Tail(@)] /\ loop[r] = "push"
             /\ loop'[r] # "top" => Tail(todo[r]) # <<>>
             /\ loop'[r] = "top" \/ loop'[r] = "tools"
          \/ \E n \in 1..MaxBatch : /\ minted + n <= MaxCalls
                                    /\ todo' = [todo EXCEPT ![r] = [i \in 1..n |-> minted + i]]
      BY <1>1, <1>2
         DEF LoopTo, RunTurn, StartTurn, IterationTop, BudgetSpent, ModelStops,
             ModelEmpty, ModelText, ModelCalls, FinalAnswer, FinalCut, NextCall,
             ToolAborts, ToolReturns, PushResult
    <2>2. CASE UNCHANGED todo /\ (loop'[r] \in Busy => loop[r] \in Busy)
      BY <1>1, <2>2
    <2>3. CASE todo' = [todo EXCEPT ![r] = <<>>] /\ loop'[r] = "abort"
      BY <1>1, <2>3
    <2>4. CASE /\ todo' = [todo EXCEPT ![r] = Tail(@)] /\ loop[r] = "push"
               /\ loop'[r] # "top" => Tail(todo[r]) # <<>>
               /\ loop'[r] = "top" \/ loop'[r] = "tools"
      <3>1. todo[r] \in Seq(CallIds) /\ todo[r] # <<>>
        BY <1>1, <2>4
      <3>2. Tail(todo[r]) \in Seq(CallIds)
        BY <3>1
      <3>3. todo'[r] = Tail(todo[r])
        BY <1>1, <2>4
      <3> QED BY <1>1, <2>4, <3>2, <3>3
    <2>5. ASSUME NEW n \in 1..MaxBatch, minted + n <= MaxCalls,
                 todo' = [todo EXCEPT ![r] = [i \in 1..n |-> minted + i]]
          PROVE  /\ todo' \in [Runs -> Seq(CallIds)] /\ todo'[r] # <<>>
                 /\ \A s \in Runs \ {r} : todo'[s] = todo[s]
      BY <1>1, <2>5, BatchType
    <2> QED BY <2>1, <2>2, <2>3, <2>4, <2>5
  <1>3. CASE LoopEnd(r)
    <2>1. loop'[r] \notin Busy
      BY <1>1, <1>3 DEF LoopTo, LoopEnd, TurnOk, TurnAborted, ReleaseSlot,
                        SnapshotOrphans, FillOrphans, FreshCancel
    <2>2. \/ UNCHANGED todo \/ todo' = [todo EXCEPT ![r] = <<>>]
          \/ \E q \in Listings(Orphans(messages)) : todo' = [todo EXCEPT ![r] = q]
      BY <1>3 DEF LoopEnd, TurnOk, TurnAborted, ReleaseSlot, SnapshotOrphans,
                  FillOrphans, FreshCancel
    <2>3. ASSUME NEW q \in Listings(Orphans(messages)), todo' = [todo EXCEPT ![r] = q]
          PROVE  /\ todo' \in [Runs -> Seq(CallIds)]
                 /\ \A s \in Runs \ {r} : todo'[s] = todo[s]
      <3>1. q \in Seq(CallIds)
        BY ListingsType DEF Orphans, Calls
      <3> QED BY <1>1, <2>3, <3>1
    <2>4. todo' = [todo EXCEPT ![r] = <<>>] =>
            /\ todo' \in [Runs -> Seq(CallIds)]
            /\ \A s \in Runs \ {r} : todo'[s] = todo[s]
      BY <1>1
    <2> QED BY <1>1, <2>1, <2>2, <2>3, <2>4
  <1> QED BY <1>2, <1>3 DEF LoopStep
\* What one step of a turn loop does to the queue, the history and the records.
LEMMA LoopEffect ==
  ASSUME TypeInv, NEW r \in Runs, LoopStep(r)
  PROVE  \/ UNCHANGED <<steers, rows, messages, unsaved, minted>>
         \/ Drain(r) /\ UNCHANGED minted
         \/ UNCHANGED <<steers, rows, minted>>
              /\ \E t \in {"text", "note"} : Push(r, <<t, r>>)
         \/ UNCHANGED <<steers, rows>>
              /\ \E n \in 1..MaxBatch : /\ minted + n <= MaxCalls /\ minted' = minted + n
                                       /\ Push(r, <<"calls", (minted + 1)..(minted + n)>>)
         \/ UNCHANGED <<steers, rows, messages, minted>> /\ todo[r] # <<>>
              /\ unsaved' = [unsaved EXCEPT ![r] = <<Result(Head(todo[r]))>>]
         \/ UNCHANGED <<steers, rows, unsaved, minted>> /\ todo[r] # <<>>
              /\ messages' = Append(messages, Result(Head(todo[r])))
         \/ UNCHANGED <<steers, rows, minted>>
              /\ messages' = messages \o ResultRows(todo[r])
              /\ unsaved' = [unsaved EXCEPT ![r] = ResultRows(todo[r])]
  <1>1. CASE RunTurn(r)
    BY <1>1 DEF TypeInv, Progress, session, LoopTo, RunTurn, StartTurn, IterationTop,
                BudgetSpent, ModelStops, ModelEmpty, ModelText, ModelCalls,
                FinalAnswer, FinalCut, NextCall, ToolAborts, ToolReturns, PushResult
  <1>2. CASE LoopEnd(r)
    BY <1>2 DEF session, LoopEnd, TurnOk, TurnAborted, ReleaseSlot, SnapshotOrphans,
                FillOrphans, FreshCancel
  <1> QED BY <1>1, <1>2 DEF LoopStep

LEMMA LoopHistory ==
  ASSUME TypeInv, NEW r \in Runs, LoopStep(r)
  PROVE  /\ steers' \in Seq(Messages) /\ rows' \subseteq Messages
         /\ messages' \in Seq(Entries) /\ unsaved' \in [Runs -> Seq(Entries)]
         /\ minted' \in 0..MaxCalls
  <1>1. /\ TypeOK
        /\ steers \in Seq(Messages) /\ rows \subseteq Messages /\ messages \in Seq(Entries)
        /\ unsaved \in [Runs -> Seq(Entries)] /\ todo[r] \in Seq(CallIds)
        /\ minted \in 0..MaxCalls
    BY DEF TypeInv, TypeOK
  <1>2. CASE UNCHANGED <<steers, rows, messages, unsaved, minted>>
    BY <1>1, <1>2
  <1>3. CASE Drain(r) /\ UNCHANGED minted
    BY <1>1, <1>3, DrainType
  <1>4. ASSUME NEW t \in {"text", "note"}, Push(r, <<t, r>>),
               UNCHANGED <<steers, rows, minted>>
        PROVE  messages' \in Seq(Entries) /\ unsaved' \in [Runs -> Seq(Entries)]
    BY <1>1, <1>4 DEF Push, Entries
  <1>5. ASSUME NEW n \in 1..MaxBatch, minted + n <= MaxCalls,
               Push(r, <<"calls", (minted + 1)..(minted + n)>>)
        PROVE  /\ messages' \in Seq(Entries) /\ unsaved' \in [Runs -> Seq(Entries)]
               /\ minted + n \in 0..MaxCalls
    <2>1. <<"calls", (minted + 1)..(minted + n)>> \in Entries
      BY <1>1, <1>5, BatchType DEF Entries
    <2> QED BY <1>1, <1>5, <2>1, BatchType DEF Push
  <1>6. ASSUME todo[r] # <<>>
        PROVE  Result(Head(todo[r])) \in Entries
    BY <1>1, <1>6 DEF Result, Entries
  <1>7. ResultRows(todo[r]) \in Seq(Entries)
    BY <1>1, ResultRowsType
  <1>8. CASE UNCHANGED <<steers, rows, messages, minted>> /\ todo[r] # <<>>
               /\ unsaved' = [unsaved EXCEPT ![r] = <<Result(Head(todo[r]))>>]
    BY <1>1, <1>6, <1>8
  <1>9. CASE UNCHANGED <<steers, rows, unsaved, minted>> /\ todo[r] # <<>>
               /\ messages' = Append(messages, Result(Head(todo[r])))
    BY <1>1, <1>6, <1>9
  <1>10. CASE UNCHANGED <<steers, rows, minted>>
               /\ messages' = messages \o ResultRows(todo[r])
               /\ unsaved' = [unsaved EXCEPT ![r] = ResultRows(todo[r])]
    BY <1>1, <1>7, <1>10
  <1>11. CASE UNCHANGED <<steers, rows, minted>>
               /\ \E t \in {"text", "note"} : Push(r, <<t, r>>)
    BY <1>1, <1>4, <1>11
  <1>12. CASE UNCHANGED <<steers, rows>>
               /\ \E n \in 1..MaxBatch : /\ minted + n <= MaxCalls /\ minted' = minted + n
                                        /\ Push(r, <<"calls", (minted + 1)..(minted + n)>>)
    BY <1>1, <1>5, <1>12
  <1> QED BY <1>2, <1>3, <1>8, <1>9, <1>10, <1>11, <1>12, LoopEffect

LEMMA LoopRest ==
  ASSUME TypeInv, NEW r \in Runs, LoopStep(r)
  PROVE  /\ slot' \in {slot, NoRun, r} /\ tripped' \subseteq tripped
         /\ parked' \subseteq CallIds
         /\ disk' = disk /\ UNCHANGED <<post, go, returned, escs>>
  <1>1. CASE RunTurn(r)
    BY <1>1 DEF TypeInv, TypeOK, Progress, session, LoopTo, RunTurn, StartTurn,
                IterationTop, Drain, BudgetSpent, ModelStops, ModelEmpty, ModelText,
                ModelCalls, Push, FinalAnswer, FinalCut, NextCall, ToolAborts,
                ToolReturns, PushResult
  <1>2. CASE LoopEnd(r)
    BY <1>2 DEF TypeInv, TypeOK, session, LoopEnd, TurnOk, Arm, TurnAborted, ReleaseSlot,
                SnapshotOrphans, FillOrphans, FreshCancel
  <1> QED BY <1>1, <1>2 DEF LoopStep

LEMMA LoopType ==
  ASSUME TypeInv, NEW r \in Runs, LoopStep(r)
  PROVE  TypeInv'
  <1>1. TypeOK /\ Progress
    BY DEF TypeInv
  <1>2. TypeOK'
    BY <1>1, LoopCounter, LoopBudget, LoopTodo, LoopHistory, LoopRest DEF TypeOK
  <1>3. \A s \in Runs \ {r} : loop'[s] = loop[s] /\ todo'[s] = todo[s] /\ iter'[s] = iter[s]
    BY <1>1, LoopCounter, LoopBudget, LoopTodo
  <1>4. /\ loop[r] # "off"
        /\ loop'[r] \in {"tools", "exec", "ask", "push"} => todo'[r] # <<>>
        /\ loop'[r] \in {"model", "final", "tools", "exec", "ask", "push"} => iter'[r] < MaxIter
    BY <1>1, LoopCounter, LoopTodo DEF Progress
  <1>5. Progress'
    BY <1>1, <1>3, <1>4, LoopRest DEF Progress, Runs
  <1> QED BY <1>2, <1>5 DEF TypeInv

LEMMA StepType == TypeInv /\ [Next]_vars => TypeInv'
  <1> SUFFICES ASSUME TypeInv, [Next]_vars PROVE TypeInv'
    OBVIOUS
  <1>1. CASE \E a \in Runs : Handler(a)
    BY <1>1, HandlerType
  <1>2. CASE \E r \in Runs : LoopStep(r)
    BY <1>2, LoopType
  <1>3. CASE UNCHANGED vars
    BY <1>3 DEF TypeInv, TypeOK, Progress, vars
  <1> QED BY <1>1, <1>2, <1>3, ClientType DEF Next, LoopStep

\* The state of a session is well typed for ever: a loop never dispatches from
\* an empty list of calls, and never runs past the iteration budget.
THEOREM TypeCorrect == Spec => []TypeOK
  <1>1. Init => TypeInv
    BY InitType
  <1>2. TypeInv /\ [Next]_vars => TypeInv'
    BY StepType
  <1>3. TypeInv => TypeOK
    BY DEF TypeInv
  <1> QED BY <1>1, <1>2, <1>3, PTL DEF Spec
-----------------------------------------------------------------------------
(* The turn slot is never left to a loop that no longer exists.            *)

LEMMA LoopSlot ==
  ASSUME TypeInv, NEW r \in Runs, LoopStep(r)
  PROVE  \/ slot' = NoRun
         \/ slot' = r /\ loop'[r] \in Holding
         \/ slot' = slot /\ (loop[r] \in Holding => loop'[r] \in Holding)
  <1> USE DEF TypeInv, TypeOK, LoopTo, Holding, LoopStates, InTurn
  <1>1. CASE RunTurn(r)
    BY <1>1 DEF RunTurn, StartTurn, IterationTop, BudgetSpent, ModelStops, ModelEmpty,
                ModelText, ModelCalls, FinalAnswer, FinalCut, NextCall, ToolAborts,
                ToolReturns, PushResult
  <1>2. CASE LoopEnd(r)
    BY <1>2 DEF LoopEnd, TurnOk, Arm, TurnAborted, ReleaseSlot, SnapshotOrphans,
                FillOrphans, FreshCancel
  <1> QED BY <1>1, <1>2 DEF LoopStep

\* What one step of a handler does to the slot.
LEMMA HandlerSlot ==
  ASSUME TypeInv, NEW a \in Runs, Handler(a)
  PROVE  /\ \A r \in Runs \ {a} : post'[r] = post[r] /\ loop'[r] = loop[r]
         /\ \/ slot' = a /\ post'[a] \in {"drain", "spawn"}
            \/ slot' = slot
         /\ post[a] \in {"drain", "own", "spawn"} =>
              post'[a] \in {"own", "spawn"} \/ loop'[a] \in Holding
         /\ loop'[a] = loop[a] \/ loop'[a] \in Holding
  <1> USE DEF TypeInv, TypeOK, PostTo
  <1>1. CASE a \in Users /\ Send(a)
    BY <1>1 DEF Send, Probe, SkipPrompt, QueueSteer, Claim, DrainOlder, PushOwn, Arm
  <1>2. CASE a \in Notices /\ ParkNotice(a)
    BY <1>2 DEF ParkNotice
  <1>3. CASE a \in Messages /\ Announce(a)
    BY <1>3 DEF Announce
  <1>4. CASE a \in Retries /\ Retry(a)
    BY <1>4 DEF Retry, RetryProbe, RetrySnapshot, RetryFill, RetryClaim, Arm
  <1>5. CASE SpawnTurnLoop(a)
    BY <1>5 DEF SpawnTurnLoop, Holding, LoopStates, InTurn
  <1> QED BY <1>1, <1>2, <1>3, <1>4, <1>5 DEF Handler

LEMMA StepSlot == TypeInv /\ SlotOwned /\ [Next]_vars => SlotOwned'
  <1> SUFFICES ASSUME TypeInv, SlotOwned, [Next]_vars PROVE SlotOwned'
    OBVIOUS
  <1>0. /\ slot \in Runs \cup {NoRun} /\ loop \in [Runs -> LoopStates]
        /\ NoRun \notin Runs
    BY RunsAssumption DEF TypeInv, TypeOK
  <1>1. ASSUME NEW a \in Runs, Handler(a) PROVE SlotOwned'
    BY <1>0, <1>1, HandlerSlot DEF SlotOwned
  <1>2. ASSUME NEW r \in Runs, LoopStep(r) PROVE SlotOwned'
    BY <1>0, <1>2, LoopSlot, LoopCounter, LoopRest DEF SlotOwned, TypeInv
  <1>3. CASE \E m \in GoNows : GoNow(m)
    <2> USE DEF SlotOwned
    <2>1. PICK m \in GoNows : GoNow(m)
      BY <1>3
    <2>2. m \in Runs
      BY RunsAssumption DEF Runs
    <2>3. CASE GoNowWake(m)
      BY <1>0, <2>2, <2>3 DEF GoNowWake, Arm, Holding, LoopStates, InTurn
    <2> QED BY <2>1, <2>3 DEF GoNow, GoNowCheck, GoNowBusy, GoNowSkip, GoNowCancel
  <1>4. CASE \/ \E a \in Runs : AppendRecord(a)
             \/ \E m \in Messages : Unqueue(m)
             \/ Abort
             \/ \E c \in CallIds : RespondToPrompt(c)
             \/ UNCHANGED vars
    BY <1>4 DEF SlotOwned, AppendRecord, Unqueue, Abort, RespondToPrompt, vars
  <1> QED BY <1>1, <1>2, <1>3, <1>4 DEF Next, LoopStep

\* The busy flag of a session never sticks on a loop that is gone: the token in
\* the slot is that of a loop about to be spawned or one that has yet to release
\* it.  A session can therefore always be sent to, or wakes up by itself.
THEOREM SlotNeverSticks == Spec => []SlotOwned
  <1>1. Init => TypeInv /\ SlotOwned
    BY InitType DEF Init, SlotOwned
  <1>2. TypeInv /\ SlotOwned /\ [Next]_vars => TypeInv' /\ SlotOwned'
    BY StepType, StepSlot
  <1> QED BY <1>1, <1>2, PTL DEF Spec
-----------------------------------------------------------------------------
(* No message is lost or duplicated.  The argument counts the positions at *)
(* which a message stands in the queue and in the history.                 *)

InQueue(m)  == {i \in DOMAIN steers : steers[i] = m}
InTranscript(m) == {i \in DOMAIN messages : messages[i] = User(m)}

AtMostOne(S) == \A i, j \in S : i = j

Placed(m) ==
  /\ AtMostOne(InQueue(m)) /\ AtMostOne(InTranscript(m))
  /\ post[m] \in Unplaced =>
       InQueue(m) = {} /\ InTranscript(m) = {} /\ m \notin returned
  /\ post[m] \notin Unplaced =>
       /\ InQueue(m) # {} \/ InTranscript(m) # {} \/ m \in returned
       /\ InQueue(m) = {} \/ InTranscript(m) = {}
       /\ m \in returned => InQueue(m) = {} /\ InTranscript(m) = {}

LEMMA ConservedByPlace == Conserved <=> \A m \in Messages : Placed(m)
  BY DEF Conserved, Placed, AtMostOne, InQueue, InTranscript, Queued, InHistory, ToSet

\* Appending rows that are no user's changes nobody's place.
LEMMA NoUserAppended ==
  ASSUME NEW m \in Messages, messages \in Seq(Entries), NEW t \in Seq(Entries),
         \A i \in DOMAIN t : t[i] # User(m), messages' = messages \o t
  PROVE  InTranscript(m)' = InTranscript(m)
  BY DEF InTranscript

\* A drain moves a message's places from the queue to the end of the history.
LEMMA DrainMoves ==
  ASSUME TypeOK, NEW a \in Runs, Drain(a), NEW m \in Messages
  PROVE  /\ InQueue(m)' = {}
         /\ InTranscript(m)' = InTranscript(m) \cup {Len(messages) + i : i \in InQueue(m)}
  <1>1. /\ messages \in Seq(Entries) /\ steers \in Seq(Messages)
        /\ UserRows(steers) \in Seq(Entries) /\ Len(UserRows(steers)) = Len(steers)
        /\ \A i \in DOMAIN steers : UserRows(steers)[i] = User(steers[i])
        /\ steers' = <<>> /\ messages' = messages \o UserRows(steers)
    BY UserRowsType DEF TypeOK, Drain, UserRows
  <1>2. \A i \in Messages : User(i) = User(m) <=> i = m
    BY DEF User
  <1>3. DOMAIN messages' = 1..(Len(messages) + Len(steers))
    BY <1>1
  <1>4. \A i \in 1..Len(messages) : messages'[i] = messages[i]
    BY <1>1
  <1>5. \A i \in 1..Len(steers) : messages'[Len(messages) + i] = User(steers[i])
    BY <1>1
  <1>6. InQueue(m)' = {}
    BY <1>1 DEF InQueue
  <1>7. ASSUME NEW k \in InTranscript(m)'
        PROVE  k \in InTranscript(m) \cup {Len(messages) + i : i \in InQueue(m)}
    <2>1. k \in 1..(Len(messages) + Len(steers)) /\ messages'[k] = User(m)
      BY <1>3, <1>7 DEF InTranscript
    <2>2. CASE k <= Len(messages)
      BY <1>1, <1>4, <2>1, <2>2 DEF InTranscript
    <2>3. CASE k > Len(messages)
      <3>1. k - Len(messages) \in 1..Len(steers) /\ k = Len(messages) + (k - Len(messages))
        BY <1>1, <2>1, <2>3
      <3>2. steers[k - Len(messages)] = m
        BY <1>1, <1>2, <1>5, <2>1, <3>1
      <3>3. k - Len(messages) \in InQueue(m)
        BY <1>1, <3>1, <3>2 DEF InQueue
      <3> QED BY <3>1, <3>3
    <2> QED BY <1>1, <2>1, <2>2, <2>3
  <1>8. InTranscript(m) \subseteq InTranscript(m)'
    BY <1>1, <1>3, <1>4 DEF InTranscript
  <1>9. ASSUME NEW i \in InQueue(m)
        PROVE  Len(messages) + i \in InTranscript(m)'
    BY <1>1, <1>3, <1>5 DEF InTranscript, InQueue
  <1> QED BY <1>6, <1>7, <1>8, <1>9
\* One message appended to the queue, or to the history.
LEMMA QueueAppend ==
  ASSUME TypeOK, NEW a \in Messages, NEW m \in Messages, steers' = Append(steers, a)
  PROVE  InQueue(m)' = IF m = a THEN InQueue(m) \cup {Len(steers) + 1} ELSE InQueue(m)
  BY DEF TypeOK, InQueue

LEMMA OwnAppend ==
  ASSUME TypeOK, NEW a \in Messages, NEW m \in Messages,
         messages' = Append(messages, User(a))
  PROVE  InTranscript(m)' =
           IF m = a THEN InTranscript(m) \cup {Len(messages) + 1} ELSE InTranscript(m)
  BY DEF TypeOK, InTranscript, User, Entries

\* Un-queueing takes one place out of the queue and keeps the others' number.
LEMMA QueueRemove ==
  ASSUME TypeOK, NEW i \in DOMAIN steers, steers' = RemoveAt(steers, i), NEW m \in Messages
  PROVE  InQueue(m)' = {k \in InQueue(m) : k < i} \cup {k - 1 : k \in {j \in InQueue(m) : j > i}}
  <1>1. steers \in Seq(Messages) /\ i \in 1..Len(steers)
    BY DEF TypeOK
  <1> DEFINE before == SubSeq(steers, 1, i - 1)
             after  == SubSeq(steers, i + 1, Len(steers))
  <1>a. /\ before \in Seq(Messages) /\ Len(before) = i - 1
        /\ \A k \in 1..(i - 1) : before[k] = steers[k]
    BY <1>1
  <1>b. /\ after \in Seq(Messages) /\ Len(after) = Len(steers) - i
        /\ \A k \in 1..(Len(steers) - i) : after[k] = steers[i + k]
    BY <1>1
  <1>c. steers' = before \o after
    BY DEF RemoveAt
  <1> HIDE DEF before, after
  <1>2. DOMAIN steers' = 1..(Len(steers) - 1)
    BY <1>1, <1>a, <1>b, <1>c
  <1>3. ASSUME NEW k \in 1..(Len(steers) - 1)
        PROVE  steers'[k] = IF k < i THEN steers[k] ELSE steers[k + 1]
    <2>1. CASE k < i
      BY <1>1, <1>a, <1>b, <1>c, <2>1
    <2>2. CASE k >= i
      <3>1. /\ k - Len(before) \in 1..(Len(steers) - i) /\ i + (k - Len(before)) = k + 1
            /\ k > Len(before) /\ k \in 1..(Len(before) + Len(after))
        BY <1>1, <1>a, <1>b, <2>2
      <3>2. steers'[k] = IF k <= Len(before) THEN before[k] ELSE after[k - Len(before)]
        <4>1. \A n \in 1..(Len(before) + Len(after)) :
                (before \o after)[n] =
                  IF n <= Len(before) THEN before[n] ELSE after[n - Len(before)]
          BY <1>a, <1>b, ConcatProperties, Zenon
        <4> QED BY <1>c, <3>1, <4>1
      <3>3. ~(k <= Len(before))
        BY <1>1, <1>a, <2>2
      <3>4. after[k - Len(before)] = steers[k + 1]
        BY <1>b, <3>1
      <3> QED BY <1>1, <2>2, <3>2, <3>3, <3>4
    <2> QED BY <1>1, <2>1, <2>2
  <1>4. ASSUME NEW k \in InQueue(m)'
        PROVE  \/ k \in InQueue(m) /\ k < i
               \/ k + 1 \in InQueue(m) /\ k + 1 > i /\ k = (k + 1) - 1
    BY <1>1, <1>2, <1>3 DEF InQueue
  <1>5. ASSUME NEW k \in InQueue(m), k < i PROVE k \in InQueue(m)'
    BY <1>1, <1>2, <1>3, <1>5 DEF InQueue
  <1>6. ASSUME NEW k \in InQueue(m), k > i PROVE k - 1 \in InQueue(m)'
    BY <1>1, <1>2, <1>3, <1>6 DEF InQueue
  <1> QED BY <1>4, <1>5, <1>6
\* A message whose places and handler's position are unchanged stays placed.
LEMMA Untouched ==
  ASSUME NEW m \in Messages, Placed(m),
         InQueue(m)' = InQueue(m), InTranscript(m)' = InTranscript(m),
         m \in returned' <=> m \in returned,
         post'[m] \in Unplaced <=> post[m] \in Unplaced
  PROVE  Placed(m)'
  BY DEF Placed, AtMostOne

LEMMA DrainPlaces ==
  ASSUME TypeOK, NEW a \in Runs, Drain(a), NEW m \in Messages, Placed(m),
         m \in returned' <=> m \in returned,
         post'[m] \in Unplaced <=> post[m] \in Unplaced
  PROVE  Placed(m)'
  <1>1. /\ InQueue(m)' = {}
        /\ InTranscript(m)' = InTranscript(m) \cup {Len(messages) + i : i \in InQueue(m)}
    BY DrainMoves
  <1>2. CASE InQueue(m) = {}
    BY <1>1, <1>2 DEF Placed, AtMostOne
  <1>3. CASE InQueue(m) # {}
    <2>1. InTranscript(m) = {} /\ post[m] \notin Unplaced /\ m \notin returned
      BY <1>3 DEF Placed
    <2>2. InTranscript(m)' # {} /\ AtMostOne(InTranscript(m)')
      BY <1>1, <1>3, <2>1 DEF Placed, AtMostOne
    <2> QED BY <1>1, <2>1, <2>2 DEF Placed, AtMostOne
  <1> QED BY <1>2, <1>3

LEMMA LoopPlaces ==
  ASSUME TypeInv, NEW r \in Runs, LoopStep(r), NEW m \in Messages, Placed(m)
  PROVE  Placed(m)'
  <1>1. TypeOK /\ UNCHANGED <<post, returned>>
    BY LoopRest DEF TypeInv
  <1>2. CASE Drain(r)
    BY <1>1, <1>2, DrainPlaces
  <1>3. CASE UNCHANGED <<steers, messages>>
    BY <1>1, <1>3, Untouched DEF InQueue, InTranscript
  <1>4. ASSUME UNCHANGED steers, NEW e \in Entries, e[1] # "user",
               messages' = Append(messages, e)
        PROVE  Placed(m)'
    <2>1. InTranscript(m)' = InTranscript(m)
      BY <1>1, <1>4 DEF InTranscript, TypeOK, User
    <2> QED BY <1>1, <1>4, <2>1, Untouched DEF InQueue
  <1>5. ASSUME UNCHANGED steers, messages' = messages \o ResultRows(todo[r])
        PROVE  Placed(m)'
    <2>1. messages \in Seq(Entries) /\ ResultRows(todo[r]) \in Seq(Entries)
      BY <1>1, ResultRowsType DEF TypeOK
    <2>2. \A i \in DOMAIN ResultRows(todo[r]) : ResultRows(todo[r])[i] # User(m)
      BY DEF ResultRows, Result, User
    <2>3. InTranscript(m)' = InTranscript(m)
      BY <1>5, <2>1, <2>2, NoUserAppended
    <2> QED BY <1>1, <1>5, <2>3, Untouched DEF InQueue
  <1>6. ASSUME NEW t \in {"text", "note"} PROVE <<t, r>> \in Entries /\ <<t, r>>[1] # "user"
    BY <1>6 DEF Entries
  <1>7. ASSUME NEW n \in 1..MaxBatch, minted + n <= MaxCalls
        PROVE  /\ <<"calls", (minted + 1)..(minted + n)>> \in Entries
               /\ <<"calls", (minted + 1)..(minted + n)>>[1] # "user"
    BY <1>1, <1>7, BatchType DEF Entries
  <1>8. todo[r] # <<>> => Result(Head(todo[r])) \in Entries /\ Result(Head(todo[r]))[1] # "user"
    BY <1>1 DEF TypeOK, Result, Entries
  <1>9. \/ Drain(r) \/ UNCHANGED <<steers, messages>>
        \/ UNCHANGED steers /\ \E e \in Entries : e[1] # "user" /\ messages' = Append(messages, e)
        \/ UNCHANGED steers /\ messages' = messages \o ResultRows(todo[r])
    <2>1. ASSUME NEW t \in {"text", "note"}, Push(r, <<t, r>>)
          PROVE  \E e \in Entries : e[1] # "user" /\ messages' = Append(messages, e)
      BY <1>6, <2>1 DEF Push
    <2>2. ASSUME NEW n \in 1..MaxBatch, minted + n <= MaxCalls,
                 Push(r, <<"calls", (minted + 1)..(minted + n)>>)
          PROVE  \E e \in Entries : e[1] # "user" /\ messages' = Append(messages, e)
      BY <1>7, <2>2 DEF Push
    <2> QED BY <1>8, <2>1, <2>2, LoopEffect
  <1> QED BY <1>2, <1>3, <1>4, <1>5, <1>9

LEMMA HandlerPlaces ==
  ASSUME TypeInv, NEW a \in Runs, Handler(a), NEW m \in Messages, Placed(m)
  PROVE  Placed(m)'
  <1>1. TypeOK /\ post \in [Runs -> PostStates] /\ Users \subseteq Messages
        /\ Notices \subseteq Messages /\ Messages \subseteq Runs /\ m \notin Retries
    BY RunsAssumption DEF TypeInv, TypeOK, Messages, Runs
  <1> USE DEF PostTo, Unplaced
  <1>2. CASE \/ a \in Users /\ (Probe(a) \/ SkipPrompt(a) \/ Claim(a))
             \/ a \in Messages /\ Announce(a)
             \/ a \in Retries /\ (RetryProbe(a) \/ RetrySnapshot(a) \/ RetryClaim(a))
             \/ SpawnTurnLoop(a)
    <2>1. UNCHANGED <<steers, messages, returned>>
          /\ (post'[m] \in Unplaced <=> post[m] \in Unplaced)
      BY <1>1, <1>2 DEF session, Probe, SkipPrompt, Claim, Announce, RetryProbe,
                        RetrySnapshot, RetryClaim, SpawnTurnLoop
    <2> QED BY <2>1, Untouched DEF InQueue, InTranscript
  <1>3. CASE \/ a \in Users /\ QueueSteer(a)
             \/ a \in Notices /\ ParkNotice(a)
    <2>1. /\ steers' = Append(steers, a) /\ UNCHANGED <<messages, returned>>
          /\ a \in Messages /\ post[a] \in Unplaced /\ post'[a] \notin Unplaced
          /\ m # a => post'[m] = post[m]
      BY <1>1, <1>3 DEF QueueSteer, ParkNotice
    <2>2. InTranscript(m)' = InTranscript(m)
      BY <2>1 DEF InTranscript
    <2>3. InQueue(m)' = IF m = a THEN InQueue(m) \cup {Len(steers) + 1} ELSE InQueue(m)
      BY <1>1, <2>1, QueueAppend
    <2>4. CASE m = a
      BY <2>1, <2>2, <2>3, <2>4 DEF Placed, AtMostOne
    <2>5. CASE m # a
      BY <2>1, <2>2, <2>3, <2>5, Untouched
    <2> QED BY <2>4, <2>5
  <1>4. CASE a \in Users /\ DrainOlder(a)
    <2>1. Drain(a) /\ UNCHANGED returned /\ (post'[m] \in Unplaced <=> post[m] \in Unplaced)
      BY <1>1, <1>4 DEF DrainOlder
    <2> QED BY <1>1, <2>1, DrainPlaces
  <1>5. CASE a \in Users /\ PushOwn(a)
    <2>1. /\ messages' = Append(messages, User(a)) /\ UNCHANGED <<steers, returned>>
          /\ a \in Messages /\ post[a] \in Unplaced /\ post'[a] \notin Unplaced
          /\ m # a => post'[m] = post[m]
      BY <1>1, <1>5 DEF PushOwn, Push
    <2>2. InQueue(m)' = InQueue(m)
      BY <2>1 DEF InQueue
    <2>3. InTranscript(m)' =
            IF m = a THEN InTranscript(m) \cup {Len(messages) + 1} ELSE InTranscript(m)
      BY <1>1, <2>1, OwnAppend
    <2>4. CASE m = a
      BY <2>1, <2>2, <2>3, <2>4 DEF Placed, AtMostOne
    <2>5. CASE m # a
      BY <2>1, <2>2, <2>3, <2>5, Untouched
    <2> QED BY <2>4, <2>5
  <1>6. CASE a \in Retries /\ RetryFill(a)
    <2>1. /\ messages' = messages \o ResultRows(todo[a]) /\ UNCHANGED <<steers, returned>>
          /\ post'[m] = post[m]
      BY <1>1, <1>6 DEF RetryFill
    <2>2. messages \in Seq(Entries) /\ ResultRows(todo[a]) \in Seq(Entries)
      BY <1>1, ResultRowsType DEF TypeOK
    <2>3. \A i \in DOMAIN ResultRows(todo[a]) : ResultRows(todo[a])[i] # User(m)
      BY DEF ResultRows, Result, User
    <2>4. InTranscript(m)' = InTranscript(m)
      BY <2>1, <2>2, <2>3, NoUserAppended
    <2> QED BY <2>1, <2>4, Untouched DEF InQueue
  <1>7. CASE a \in Users /\ Send(a)
    BY <1>2, <1>3, <1>4, <1>5, <1>7 DEF Send
  <1>8. CASE a \in Retries /\ Retry(a)
    BY <1>2, <1>6, <1>8 DEF Retry
  <1> QED BY <1>2, <1>3, <1>7, <1>8 DEF Handler

LEMMA UnqueuePlaces ==
  ASSUME TypeOK, NEW u \in Messages, Unqueue(u), Placed(u), NEW m \in Messages, Placed(m)
  PROVE  Placed(m)'
  <1>1. PICK i \in DOMAIN steers : steers[i] = u /\ steers' = RemoveAt(steers, i)
    BY DEF Unqueue
  <1>2. /\ UNCHANGED <<messages, post>> /\ returned' = returned \cup {u}
        /\ InTranscript(m)' = InTranscript(m)
    BY DEF Unqueue, InTranscript
  <1>3. InQueue(m)' = {k \in InQueue(m) : k < i}
                        \cup {k - 1 : k \in {j \in InQueue(m) : j > i}}
    BY <1>1, QueueRemove
  <1>4. i \in InQueue(u) /\ InQueue(m) \subseteq Nat /\ i \in Nat
    BY <1>1 DEF InQueue, TypeOK
  <1>5. CASE m = u
    <2>1. InQueue(m)' = {}
      BY <1>3, <1>4, <1>5 DEF Placed, AtMostOne
    <2>2. InTranscript(m) = {} /\ post[m] \notin Unplaced
      BY <1>4, <1>5 DEF Placed
    <2> QED BY <1>2, <1>5, <2>1, <2>2 DEF Placed, AtMostOne
  <1>6. CASE m # u
    <2>1. i \notin InQueue(m)
      BY <1>1, <1>6 DEF InQueue
    <2>2. AtMostOne(InQueue(m)') /\ (InQueue(m)' = {} <=> InQueue(m) = {})
      BY <1>3, <1>4, <2>1 DEF Placed, AtMostOne
    <2> QED BY <1>2, <1>6, <2>2 DEF Placed, AtMostOne
  <1> QED BY <1>5, <1>6

LEMMA StepConserved == TypeInv /\ Conserved /\ [Next]_vars => Conserved'
  <1> SUFFICES ASSUME TypeInv, Conserved, [Next]_vars, NEW m \in Messages
               PROVE  Placed(m)'
    BY ConservedByPlace DEF Conserved, Placed, AtMostOne, InQueue, InTranscript, Queued,
                            InHistory, ToSet
  <1>1. TypeOK /\ \A n \in Messages : Placed(n)
    BY ConservedByPlace DEF TypeInv
  <1>2. ASSUME NEW a \in Runs, Handler(a) PROVE Placed(m)'
    BY <1>1, <1>2, HandlerPlaces
  <1>3. ASSUME NEW r \in Runs, LoopStep(r) PROVE Placed(m)'
    BY <1>1, <1>3, LoopPlaces
  <1>4. ASSUME NEW u \in Messages, Unqueue(u) PROVE Placed(m)'
    BY <1>1, <1>4, UnqueuePlaces
  <1>5. CASE \/ \E a \in Runs : AppendRecord(a)
             \/ \E g \in GoNows : GoNow(g)
             \/ Abort
             \/ \E c \in CallIds : RespondToPrompt(c)
             \/ UNCHANGED vars
    <2>1. UNCHANGED <<steers, messages, returned, post>>
      BY <1>5 DEF AppendRecord, GoNow, GoNowCheck, GoNowWake, GoNowBusy, GoNowSkip,
                  GoNowCancel, Abort, RespondToPrompt, vars, session
    <2> QED BY <1>1, <2>1, Untouched DEF InQueue, InTranscript
  <1> QED BY <1>2, <1>3, <1>4, <1>5 DEF Next, LoopStep

\* Whatever sends, drains, un-queues, aborts, retries and "go now" clicks race,
\* a message that has been accepted is in exactly one of the queue, the history
\* and the composer, and it is there once.
THEOREM MessagesConserved == Spec => []Conserved
  <1>1. Init => TypeInv /\ Conserved
    BY InitType DEF Init, Conserved, Queued, InHistory, ToSet, Unplaced, Runs
  <1>2. TypeInv /\ Conserved /\ [Next]_vars => TypeInv' /\ Conserved'
    BY StepType, StepConserved
  <1> QED BY <1>1, <1>2, PTL DEF Spec

-----------------------------------------------------------------------------
(***************************************************************************)
(* What TurnLoop guarantees when a client awaits one operation before it   *)
(* issues the next, and what more when no turn is stopped as well.         *)
(***************************************************************************)

(* One operation at a time.                                                *)

Acting == {a \in Users \cup Retries : post[a] \notin {"idle", "done"}}
Going  == {m \in Messages : go[m] \notin {"idle", "done"}}

OneOp ==
  /\ \A a, b \in Acting : a = b
  /\ \A m, n \in Going : m = n
  /\ Acting = {} \/ Going = {}
  /\ \A n \in Notices : post[n] \in {"idle", "announce", "done"}
  /\ \A m \in Users : post[m] \notin {"snap", "fill"}
  /\ \A x \in Retries : post[x] \in {"idle", "snap", "fill", "claim", "spawn", "done"}

\* The slot is the loop's that holds it, or the handler's that is about to spawn
\* one; a handler that has found it empty finds it empty still.
Owners ==
  /\ \A r \in Runs : loop[r] \in Holding => slot = r
  /\ \A a \in Runs : post[a] \in {"drain", "own", "spawn"} => slot = a /\ loop[a] \notin Holding
  /\ \A a \in Runs : post[a] \in {"claim", "snap", "fill"} => slot = NoRun

Prompted == \A c \in parked : \E r \in Runs : loop[r] = "ask" /\ Head(todo[r]) = c

SerialInv == TypeInv /\ OneOp /\ Owners /\ Prompted

LEMMA NamesApart ==
  /\ \A m \in Users : m \in Runs /\ m \in Messages /\ m \notin Retries /\ m \notin Notices
  /\ \A n \in Notices : n \in Runs /\ n \in Messages /\ n \notin Retries /\ n \notin Users
  /\ \A x \in Retries : x \in Runs /\ x \notin Messages /\ x \notin Users /\ x \notin Notices
  /\ NoRun \notin Runs
  BY RunsAssumption DEF Runs, Messages

\* A client that begins an operation has none under way.
LEMMA BeginsAlone ==
  ASSUME MaxOps = 1, OneOp, Ops < MaxOps
  PROVE  Acting = {} /\ Going = {}
  <1>1. Ops = Cardinality(Acting) + Cardinality(Going)
    BY DEF Ops, Acting, Going
  <1>2. ASSUME NEW S, \A a, b \in S : a = b, S # {} PROVE Cardinality(S) = 1
    <2>1. PICK a \in S : TRUE
      BY <1>2
    <2>2. S = {a}
      BY <1>2, <2>1
    <2> QED BY <2>2, FS_Singleton
  <1>3. Cardinality({}) = 0
    BY FS_EmptySet
  <1>4. Acting # {} => Cardinality(Acting) = 1
    BY <1>2 DEF OneOp
  <1>5. Going # {} => Cardinality(Going) = 1
    BY <1>2 DEF OneOp
  <1> QED BY <1>1, <1>3, <1>4, <1>5

\* What a step of a loop does to the slot and to the prompts.
LEMMA LoopTurns ==
  ASSUME TypeInv, NEW r \in Runs, LoopStep(r)
  PROVE  \/ loop[r] \notin Holding /\ loop'[r] \notin Holding /\ slot' = slot
         \/ loop[r] \in Holding /\ loop'[r] \in Holding /\ slot' \in {slot, r}
         \/ loop[r] \in Holding /\ loop'[r] \notin Holding /\ slot' = NoRun
  <1> USE DEF TypeInv, TypeOK, LoopTo, Holding, LoopStates, InTurn
  <1>1. CASE RunTurn(r)
    BY <1>1 DEF RunTurn, StartTurn, IterationTop, BudgetSpent, ModelStops, ModelEmpty,
                ModelText, ModelCalls, FinalAnswer, FinalCut, NextCall, ToolAborts,
                ToolReturns, PushResult
  <1>2. CASE LoopEnd(r)
    BY <1>2 DEF LoopEnd, TurnOk, Arm, TurnAborted, ReleaseSlot, SnapshotOrphans,
                FillOrphans, FreshCancel
  <1> QED BY <1>1, <1>2 DEF LoopStep

LEMMA LoopPrompts ==
  ASSUME TypeInv, NEW r \in Runs, LoopStep(r)
  PROVE  \/ parked' = parked /\ loop[r] # "ask" /\ loop'[r] # "ask"
         \/ /\ loop[r] = "tools" /\ loop'[r] = "ask" /\ todo' = todo
            /\ parked' = parked \cup {Head(todo[r])}
         \/ loop[r] \in {"exec", "ask"} /\ loop'[r] # "ask" /\ parked' = parked \ {Head(todo[r])}
  <1> USE DEF TypeInv, TypeOK, LoopTo
  <1>1. CASE RunTurn(r)
    BY <1>1 DEF RunTurn, StartTurn, IterationTop, BudgetSpent, ModelStops, ModelEmpty,
                ModelText, ModelCalls, FinalAnswer, FinalCut, NextCall, ToolAborts,
                ToolReturns, PushResult
  <1>2. CASE LoopEnd(r)
    BY <1>2 DEF LoopEnd, TurnOk, Arm, TurnAborted, ReleaseSlot, SnapshotOrphans,
                FillOrphans, FreshCancel
  <1> QED BY <1>1, <1>2 DEF LoopStep

LEMMA LoopSerial ==
  ASSUME SerialInv, NEW r \in Runs, LoopStep(r)
  PROVE  SerialInv'
  <1> USE DEF SerialInv
  <1>1. TypeInv'
    BY LoopType
  <1>2. /\ UNCHANGED <<post, go>> /\ \A s \in Runs \ {r} : loop'[s] = loop[s] /\ todo'[s] = todo[s]
    BY LoopRest, LoopCounter, LoopTodo DEF TypeInv
  <1>3. OneOp'
    BY <1>2 DEF OneOp, Acting, Going
  <1>4. Owners'
    <2>1. NoRun \notin Runs
      BY NamesApart
    <2>2. CASE loop[r] \notin Holding /\ loop'[r] \notin Holding /\ slot' = slot
      BY <1>2, <2>2 DEF Owners
    <2>3. CASE loop[r] \in Holding
      <3>1. slot = r /\ \A s \in Runs \ {r} : loop[s] \notin Holding
        BY <2>3 DEF Owners
      <3>2. \A a \in Runs : post[a] \notin {"drain", "own", "spawn", "claim", "snap", "fill"}
        BY <2>1, <2>3, <3>1 DEF Owners
      <3>3. loop'[r] \in Holding => slot' = r
        BY <3>1, LoopTurns
      <3> QED BY <1>2, <3>1, <3>2, <3>3 DEF Owners
    <2> QED BY <2>2, <2>3, LoopTurns
  <1>5. Prompted'
    <2>1. CASE parked' = parked /\ loop[r] # "ask" /\ loop'[r] # "ask"
      BY <1>2, <2>1 DEF Prompted
    <2>2. CASE /\ loop[r] = "tools" /\ loop'[r] = "ask" /\ todo' = todo
               /\ parked' = parked \cup {Head(todo[r])}
      BY <1>2, <2>2 DEF Prompted
    <2>3. CASE loop[r] \in {"exec", "ask"} /\ loop'[r] # "ask" /\ parked' = parked \ {Head(todo[r])}
      <3>1. ASSUME NEW c \in parked, c # Head(todo[r])
            PROVE  \E s \in Runs : loop'[s] = "ask" /\ Head(todo'[s]) = c
        <4>1. PICK s \in Runs : loop[s] = "ask" /\ Head(todo[s]) = c
          BY DEF Prompted
        <4>2. s \in Runs \ {r}
          BY <3>1, <4>1
        <4>3. loop'[s] = loop[s] /\ todo'[s] = todo[s]
          BY <1>2, <4>2
        <4> QED BY <4>1, <4>3
      <3> QED BY <2>3, <3>1 DEF Prompted
    <2> QED BY <2>1, <2>2, <2>3, LoopPrompts
  <1> QED BY <1>1, <1>3, <1>4, <1>5

LEMMA HandlerSerial ==
  ASSUME MaxOps = 1, SerialInv, NEW a \in Runs, Handler(a)
  PROVE  SerialInv'
  <1> USE DEF SerialInv
  <1>1. TypeInv'
    BY HandlerType
  <1>2. post \in [Runs -> PostStates] /\ loop \in [Runs -> LoopStates] /\ parked \subseteq CallIds
    BY DEF TypeInv, TypeOK
  <1>3. ASSUME a \in Users, Probe(a) PROVE OneOp' /\ Owners' /\ Prompted'
    <2>1. Acting = {} /\ Going = {}
      BY <1>3, BeginsAlone DEF Probe
    <2>2. /\ UNCHANGED <<slot, loop, parked, todo, go>> /\ post[a] = "idle"
          /\ post' = [post EXCEPT ![a] = IF slot = NoRun THEN "claim" ELSE "skip"]
      BY <1>3 DEF Probe, PostTo
    <2>3. OneOp'
      BY <1>2, <1>3, <2>1, <2>2, NamesApart DEF OneOp, Acting, Going
    <2> QED BY <1>2, <2>2, <2>3 DEF Owners, Prompted
  <1>4. ASSUME a \in Users, SkipPrompt(a) \/ QueueSteer(a) PROVE OneOp' /\ Owners' /\ Prompted'
    <2>1. /\ UNCHANGED <<slot, loop, todo, go>> /\ parked' \subseteq parked /\ post[a] \in {"skip", "queue"}
          /\ \E w \in {"queue", "announce"} : post' = [post EXCEPT ![a] = w]
      BY <1>4 DEF SkipPrompt, SkipAny, QueueSteer, PostTo
    <2>2. OneOp'
      BY <1>2, <1>4, <2>1, NamesApart DEF OneOp, Acting, Going
    <2> QED BY <1>2, <2>1, <2>2 DEF Owners, Prompted
  <1>5. ASSUME a \in Users, Claim(a) PROVE OneOp' /\ Owners' /\ Prompted'
    <2>1. /\ UNCHANGED <<loop, todo, go, parked>> /\ slot' = a /\ post[a] = "claim"
          /\ post' = [post EXCEPT ![a] = "drain"]
      BY <1>5 DEF Claim, Arm, PostTo
    <2>2. OneOp'
      BY <1>2, <1>5, <2>1, NamesApart DEF OneOp, Acting, Going
    <2>3. slot = NoRun /\ \A r \in Runs : loop[r] \notin Holding
      BY <2>1, NamesApart DEF Owners
    <2>4. \A b \in Runs : b # a => post[b] \notin {"drain", "own", "spawn", "claim", "snap", "fill"}
      <3>1. a \in Acting
        BY <1>5, <2>1 DEF Acting
      <3> QED BY <3>1 DEF OneOp, Acting, Runs, Messages
    <2> QED BY <1>2, <2>1, <2>2, <2>3, <2>4 DEF Owners, Prompted
  <1>6. ASSUME a \in Users, DrainOlder(a) \/ PushOwn(a) PROVE OneOp' /\ Owners' /\ Prompted'
    <2>1. /\ UNCHANGED <<slot, loop, todo, go, parked>> /\ post[a] \in {"drain", "own"}
          /\ \E w \in {"own", "spawn"} : post' = [post EXCEPT ![a] = w]
      BY <1>6 DEF DrainOlder, PushOwn, PostTo
    <2>2. OneOp'
      BY <1>2, <1>6, <2>1, NamesApart DEF OneOp, Acting, Going
    <2> QED BY <1>2, <2>1, <2>2 DEF Owners, Prompted
  <1>7. ASSUME a \in Notices, ParkNotice(a) PROVE OneOp' /\ Owners' /\ Prompted'
    <2>1. /\ UNCHANGED <<slot, loop, todo, go, parked>> /\ post' = [post EXCEPT ![a] = "announce"]
      BY <1>7 DEF ParkNotice, PostTo, session
    <2>2. OneOp'
      BY <1>2, <1>7, <2>1, NamesApart DEF OneOp, Acting, Going
    <2> QED BY <1>2, <2>1, <2>2 DEF Owners, Prompted
  <1>8. ASSUME Announce(a) \/ SpawnTurnLoop(a) PROVE OneOp'
    <2>1. /\ UNCHANGED go /\ post[a] \in {"announce", "spawn"} /\ post' = [post EXCEPT ![a] = "done"]
      BY <1>8 DEF Announce, SpawnTurnLoop, PostTo
    <2>2. Acting' \subseteq Acting /\ Going' = Going
      BY <1>2, <2>1 DEF Acting, Going
    <2> QED BY <1>2, <2>1, <2>2 DEF OneOp
  <1>9. ASSUME Announce(a) PROVE Owners' /\ Prompted'
    BY <1>2, <1>9 DEF Announce, PostTo, Owners, Prompted
  <1>10. ASSUME SpawnTurnLoop(a) PROVE Owners' /\ Prompted'
    <2>1. /\ UNCHANGED <<slot, todo, parked>> /\ post[a] = "spawn" /\ post' = [post EXCEPT ![a] = "done"]
          /\ loop' = [loop EXCEPT ![a] = "start"]
      BY <1>10 DEF SpawnTurnLoop, PostTo
    <2>2. slot = a /\ loop[a] \notin Holding
      BY <2>1 DEF Owners
    <2>3. loop[a] # "ask"
      BY <2>2 DEF Holding, LoopStates, InTurn
    <2>4. \A r \in Runs : r # a => loop[r] \notin Holding /\ post[r] \notin {"drain", "own", "spawn"}
      BY <2>2 DEF Owners
    <2> QED BY <1>2, <2>1, <2>2, <2>3, <2>4, NamesApart DEF Owners, Prompted
  <1>11. ASSUME a \in Retries, RetryProbe(a) PROVE OneOp' /\ Owners' /\ Prompted'
    <2>1. Acting = {} /\ Going = {}
      BY <1>11, BeginsAlone DEF RetryProbe
    <2>2. /\ UNCHANGED <<slot, loop, parked, todo, go>> /\ post[a] = "idle"
          /\ post' = [post EXCEPT ![a] = IF slot = NoRun /\ messages # <<>> THEN "snap" ELSE "done"]
      BY <1>11 DEF RetryProbe, PostTo
    <2>3. OneOp'
      BY <1>2, <1>11, <2>1, <2>2, NamesApart DEF OneOp, Acting, Going
    <2> QED BY <1>2, <2>2, <2>3 DEF Owners, Prompted
  <1>12. ASSUME a \in Retries, RetrySnapshot(a) \/ RetryFill(a) PROVE OneOp' /\ Owners' /\ Prompted'
    <2>1. /\ UNCHANGED <<slot, loop, parked, go>> /\ post[a] \in {"snap", "fill"}
          /\ \E w \in {"fill", "claim"} : post' = [post EXCEPT ![a] = w]
      BY <1>12 DEF RetrySnapshot, RetryFill, PostTo
    <2>2. \A r \in Runs : r # a => todo'[r] = todo[r]
      BY <1>12 DEF RetrySnapshot, RetryFill, TypeInv, TypeOK
    <2>3. loop[a] = "off"
      BY <1>12, <2>1 DEF TypeInv, Progress
    <2>4. OneOp'
      BY <1>2, <1>12, <2>1, NamesApart DEF OneOp, Acting, Going
    <2> QED BY <1>2, <2>1, <2>2, <2>3, <2>4 DEF Owners, Prompted
  <1>13. ASSUME a \in Retries, RetryClaim(a) PROVE OneOp' /\ Owners' /\ Prompted'
    <2>1. /\ UNCHANGED <<loop, todo, go, parked>> /\ slot' = a /\ post[a] = "claim"
          /\ post' = [post EXCEPT ![a] = "spawn"]
      BY <1>13 DEF RetryClaim, Arm, PostTo
    <2>2. OneOp'
      BY <1>2, <1>13, <2>1, NamesApart DEF OneOp, Acting, Going
    <2>3. slot = NoRun /\ \A r \in Runs : loop[r] \notin Holding
      BY <2>1, NamesApart DEF Owners
    <2>4. \A b \in Runs : b # a => post[b] \notin {"drain", "own", "spawn", "claim", "snap", "fill"}
      <3>1. a \in Acting
        BY <1>13, <2>1 DEF Acting
      <3> QED BY <3>1 DEF OneOp, Acting, Runs, Messages
    <2> QED BY <1>2, <2>1, <2>2, <2>3, <2>4 DEF Owners, Prompted
  <1> QED
    BY <1>1, <1>3, <1>4, <1>5, <1>6, <1>7, <1>8, <1>9, <1>10, <1>11, <1>12, <1>13
    DEF Handler, Send, Retry

LEMMA GoSerial ==
  ASSUME MaxOps = 1, SerialInv, NEW m \in GoNows, GoNow(m)
  PROVE  SerialInv'
  <1> USE DEF SerialInv
  <1>0. m \in Messages /\ m \in Runs /\ NoRun \notin Runs
    BY RunsAssumption DEF Runs
  <1>1. TypeInv'
    BY ClientType
  <1>2. go \in [Messages -> GoStates] /\ loop \in [Runs -> LoopStates] /\ parked \subseteq CallIds
    BY DEF TypeInv, TypeOK
  <1>3. ASSUME GoNowCheck(m) PROVE OneOp' /\ Owners' /\ Prompted'
    <2>1. Acting = {} /\ Going = {}
      BY <1>3, BeginsAlone DEF GoNowCheck
    <2>2. /\ UNCHANGED <<slot, loop, parked, todo, post>>
          /\ \E w \in {"checked", "done"} : go' = [go EXCEPT ![m] = w]
      BY <1>3 DEF GoNowCheck, GoTo
    <2>3. OneOp'
      BY <1>0, <1>2, <2>1, <2>2 DEF OneOp, Acting, Going
    <2> QED BY <2>2, <2>3 DEF Owners, Prompted
  <1>4. ASSUME GoNowWake(m) \/ GoNowBusy(m) \/ GoNowSkip(m) \/ GoNowCancel(m) PROVE OneOp'
    <2>1. /\ UNCHANGED post /\ go[m] \in {"checked", "skip", "cancel"}
          /\ \E w \in {"done", "skip", "cancel"} : go' = [go EXCEPT ![m] = w]
      BY <1>4 DEF GoNowWake, GoNowBusy, GoNowSkip, GoNowCancel, GoTo
    <2>2. Going' \subseteq Going /\ Acting' = Acting
      BY <1>0, <1>2, <2>1 DEF Acting, Going
    <2> QED BY <2>1, <2>2 DEF OneOp
  <1>5. ASSUME GoNowWake(m) PROVE Owners' /\ Prompted'
    <2>1. /\ slot = NoRun /\ slot' = m /\ UNCHANGED <<post, parked, todo>> /\ go[m] = "checked"
          /\ loop' = [loop EXCEPT ![m] = "start"]
      BY <1>5 DEF GoNowWake, GoTo, Arm
    <2>2. \A r \in Runs : loop[r] \notin Holding /\ post[r] \notin {"drain", "own", "spawn"}
      BY <1>0, <2>1 DEF Owners
    <2>3. Acting = {}
      BY <1>0, <2>1 DEF OneOp, Going
    <2>4. \A r \in Runs : post[r] \notin {"claim", "snap", "fill"}
      BY <2>3 DEF Acting, OneOp, Runs, Messages
    <2>5. loop[m] # "ask"
      BY <1>0, <2>2 DEF Holding, LoopStates, InTurn
    <2> QED BY <1>0, <1>2, <2>1, <2>2, <2>4, <2>5 DEF Owners, Prompted
  <1>6. ASSUME GoNowBusy(m) \/ GoNowSkip(m) \/ GoNowCancel(m) PROVE Owners' /\ Prompted'
    <2>1. UNCHANGED <<slot, post, loop, todo>> /\ parked' \subseteq parked
      BY <1>6 DEF GoNowBusy, GoNowSkip, GoNowCancel, SkipAny
    <2> QED BY <2>1 DEF Owners, Prompted
  <1> QED BY <1>1, <1>3, <1>4, <1>5, <1>6 DEF GoNow

LEMMA StepSerial == MaxOps = 1 /\ SerialInv /\ [Next]_vars => SerialInv'
  <1> SUFFICES ASSUME MaxOps = 1, SerialInv, [Next]_vars PROVE SerialInv'
    OBVIOUS
  <1>1. ASSUME NEW a \in Runs, Handler(a) PROVE SerialInv'
    BY <1>1, HandlerSerial
  <1>2. ASSUME NEW r \in Runs, LoopStep(r) PROVE SerialInv'
    BY <1>2, LoopSerial
  <1>3. ASSUME NEW m \in GoNows, GoNow(m) PROVE SerialInv'
    BY <1>3, GoSerial
  <1>4. CASE \/ \E a \in Runs : AppendRecord(a)
             \/ \E m \in Messages : Unqueue(m)
             \/ Abort
             \/ \E c \in CallIds : RespondToPrompt(c)
             \/ UNCHANGED vars
    <2>1. UNCHANGED <<slot, post, go, loop, todo>> /\ parked' \subseteq parked
      BY <1>4 DEF AppendRecord, Unqueue, Abort, RespondToPrompt, vars
    <2>2. TypeInv'
      BY StepType DEF SerialInv
    <2> QED BY <2>1, <2>2 DEF SerialInv, OneOp, Acting, Going, Owners, Prompted
  <1> QED BY <1>1, <1>2, <1>3, <1>4 DEF Next, LoopStep

LEMMA InitSerial == Init => SerialInv
  <1> SUFFICES ASSUME Init PROVE SerialInv
    OBVIOUS
  <1>1. TypeInv
    BY InitType
  <1>2. OneOp
    BY NamesApart DEF Init, OneOp, Acting, Going
  <1> QED BY <1>1, <1>2 DEF Init, SerialInv, Owners, Prompted, Holding

LEMMA PromptIsOne == ASSUME SerialInv PROVE LoopReachable
  <1> USE DEF SerialInv
  <1>1. Stoppable
    BY DEF Stoppable, Owners, Holding, LoopStates, InTurn
  <1>2. \A c, d \in parked : c = d
    <2>1. \A r, s \in Runs : loop[r] = "ask" /\ loop[s] = "ask" => r = s
      BY <1>1 DEF Stoppable, InTurn
    <2> QED BY <2>1 DEF Prompted
  <1>3. Cardinality(parked) <= 1
    <2>1. CASE parked = {}
      BY <2>1, FS_EmptySet
    <2>2. CASE parked # {}
      <3>1. PICK c \in parked : TRUE
        BY <2>2
      <3>2. parked = {c}
        BY <1>2, <3>1
      <3>3. Cardinality(parked) = 1
        BY <3>2, FS_Singleton
      <3> QED BY <3>3
    <2> QED BY <2>1, <2>2
  <1>4. OnePrompt
    BY <1>3 DEF OnePrompt, Prompted
  <1> QED BY <1>1, <1>4 DEF LoopReachable

\* A client that awaits one operation before the next can always stop a turn and
\* answer its prompt: the turn's token is in the slot, one turn runs, and one
\* prompt is parked at most, by the loop that waits for it.
THEOREM TurnsReachable == MaxOps = 1 => (Spec => []LoopReachable)
  <1> SUFFICES ASSUME MaxOps = 1 PROVE Spec => []LoopReachable
    OBVIOUS
  <1>1. Init => SerialInv
    BY InitSerial
  <1>2. SerialInv /\ [Next]_vars => SerialInv'
    BY StepSerial
  <1>3. SerialInv => LoopReachable
    BY PromptIsOne
  <1> QED BY <1>1, <1>2, <1>3, PTL DEF Spec

-----------------------------------------------------------------------------
(* Histories.                                                              *)

Once(q) == \A i, j \in DOMAIN q : q[i] = q[j] => i = j

AnsweredOnce(h) == \A i, j \in DOMAIN h : h[i][1] = "result" /\ h[i] = h[j] => i = j

CalledFirst(h) ==
  \A i, j \in DOMAIN h : \A c \in CallIds :
    h[i][1] = "calls" /\ c \in h[i][2] /\ h[j] = Result(c) => i < j

Known(h, n) == \A c \in Calls(h) \cup Answered(h) : c <= n

\* A history in which no id is used twice and no result comes before its call.
Sane(h, n) == AnsweredOnce(h) /\ CalledFirst(h) /\ Known(h, n)

\* Nothing but results comes between a call and its result.
Unsplit(h) ==
  \A i, j \in DOMAIN h :
    i < j /\ h[i][1] = "calls" /\ h[j][1] # "result"
      => \A c \in h[i][2] : \E k \in i..j : h[k] = Result(c)

\* Rows that are neither calls nor results.
Plain(k) == \A i \in DOMAIN k : k[i][1] \notin {"calls", "result"}

LEMMA EntryKinds ==
  ASSUME NEW e \in Entries
  PROVE  /\ e[1] = "calls" => e[2] \subseteq CallIds
         /\ e[1] = "result" => e[2] \in CallIds /\ e = Result(e[2])
  BY DEF Entries, Result

LEMMA Joined ==
  ASSUME NEW h \in Seq(Entries), NEW k \in Seq(Entries)
  PROVE  /\ h \o k \in Seq(Entries) /\ Len(h \o k) = Len(h) + Len(k)
         /\ DOMAIN h = 1..Len(h) /\ DOMAIN k = 1..Len(k) /\ DOMAIN (h \o k) = 1..(Len(h) + Len(k))
         /\ Len(h) \in Nat /\ Len(k) \in Nat
         /\ \A i \in 1..Len(h) : (h \o k)[i] = h[i]
         /\ \A i \in 1..Len(k) : (h \o k)[Len(h) + i] = k[i]
         /\ \A i \in 1..(Len(h) + Len(k)) : i \in 1..Len(h) \/ i - Len(h) \in 1..Len(k)
         /\ \A i \in 1..(Len(h) + Len(k)) : i \notin 1..Len(h) => (h \o k)[i] = k[i - Len(h)]
  OBVIOUS

LEMMA JoinedIds ==
  ASSUME NEW h \in Seq(Entries), NEW k \in Seq(Entries)
  PROVE  /\ Calls(h \o k) = Calls(h) \cup Calls(k)
         /\ Answered(h \o k) = Answered(h) \cup Answered(k)
  <1> DEFINE g == h \o k
  <1>1. \A c : (\E i \in DOMAIN g : g[i][1] = "calls" /\ c \in g[i][2])
            <=> \/ \E i \in DOMAIN h : h[i][1] = "calls" /\ c \in h[i][2]
                \/ \E i \in DOMAIN k : k[i][1] = "calls" /\ c \in k[i][2]
    <2>1. ASSUME NEW c, NEW i \in DOMAIN g, g[i][1] = "calls" /\ c \in g[i][2]
          PROVE  \/ \E x \in DOMAIN h : h[x][1] = "calls" /\ c \in h[x][2]
                 \/ \E x \in DOMAIN k : k[x][1] = "calls" /\ c \in k[x][2]
      <3>1. CASE i \in 1..Len(h)
        BY <2>1, <3>1, Joined
      <3>2. CASE i \notin 1..Len(h)
        <4>1. i - Len(h) \in 1..Len(k) /\ g[i] = k[i - Len(h)]
          BY <3>2, Joined
        <4> QED BY <2>1, <4>1, Joined
      <3> QED BY <3>1, <3>2
    <2>2. ASSUME NEW c, NEW i \in DOMAIN h, h[i][1] = "calls" /\ c \in h[i][2]
          PROVE  \E x \in DOMAIN g : g[x][1] = "calls" /\ c \in g[x][2]
      <3>1. i \in DOMAIN g /\ g[i] = h[i]
        BY Joined
      <3> QED BY <2>2, <3>1
    <2>3. ASSUME NEW c, NEW i \in DOMAIN k, k[i][1] = "calls" /\ c \in k[i][2]
          PROVE  \E x \in DOMAIN g : g[x][1] = "calls" /\ c \in g[x][2]
      <3>1. Len(h) + i \in DOMAIN g /\ g[Len(h) + i] = k[i]
        BY Joined
      <3> QED BY <2>3, <3>1
    <2> QED BY <2>1, <2>2, <2>3
  <1>2. Calls(g) = Calls(h) \cup Calls(k)
    BY <1>1 DEF Calls
  <1>3. ToSet(g) = ToSet(h) \cup ToSet(k)
    <2>1. ASSUME NEW e \in ToSet(g) PROVE e \in ToSet(h) \cup ToSet(k)
      <3>1. PICK i \in DOMAIN g : e = g[i]
        BY DEF ToSet
      <3> QED BY <3>1, Joined DEF ToSet
    <2>2. ToSet(h) \subseteq ToSet(g)
      <3>1. \A i \in DOMAIN h : i \in DOMAIN g /\ g[i] = h[i]
        BY Joined
      <3> QED BY <3>1 DEF ToSet
    <2>3. ToSet(k) \subseteq ToSet(g)
      <3>1. \A i \in DOMAIN k : Len(h) + i \in DOMAIN g /\ g[Len(h) + i] = k[i]
        BY Joined
      <3> QED BY <3>1 DEF ToSet
    <2> QED BY <2>1, <2>2, <2>3
  <1> QED BY <1>2, <1>3 DEF Answered

LEMMA PlainIds ==
  ASSUME NEW k \in Seq(Entries), Plain(k)
  PROVE  Calls(k) = {} /\ Answered(k) = {}
  BY DEF Plain, Calls, Answered, ToSet, Result

LEMMA ResultIds ==
  ASSUME NEW q \in Seq(CallIds)
  PROVE  /\ ResultRows(q) \in Seq(Entries) /\ Len(ResultRows(q)) = Len(q)
         /\ \A i \in DOMAIN ResultRows(q) : i \in DOMAIN q /\ ResultRows(q)[i] = Result(q[i])
         /\ Calls(ResultRows(q)) = {} /\ Answered(ResultRows(q)) = ToSet(q)
  <1>1. ResultRows(q) \in Seq(Entries) /\ DOMAIN ResultRows(q) = DOMAIN q
    BY ResultRowsType DEF ResultRows
  <1>2. \A i \in DOMAIN q : ResultRows(q)[i] = Result(q[i]) /\ q[i] \in CallIds
    BY DEF ResultRows
  <1>3. Calls(ResultRows(q)) = {}
    BY <1>1, <1>2 DEF Calls, Result
  <1>4. \A c, d \in CallIds : Result(c) = Result(d) => c = d
    BY DEF Result
  <1>5. Answered(ResultRows(q)) = ToSet(q)
    BY <1>1, <1>2, <1>4 DEF Answered, ToSet
  <1> QED BY <1>1, <1>2, <1>3, <1>5

LEMMA JoinsOne ==
  ASSUME NEW h \in Seq(Entries), NEW e \in Entries
  PROVE  Append(h, e) = h \o <<e>>
  OBVIOUS

LEMMA BatchIds ==
  ASSUME NEW S \in SUBSET CallIds
  PROVE  /\ <<<<"calls", S>>>> \in Seq(Entries) /\ Len(<<<<"calls", S>>>>) = 1
         /\ Calls(<<<<"calls", S>>>>) = S /\ Answered(<<<<"calls", S>>>>) = {}
  <1>1. <<"calls", S>> \in Entries
    BY DEF Entries
  <1> QED BY <1>1 DEF Calls, Answered, ToSet, Result

\* A message, an answer or a sentinel leaves the calls and their results alone.
LEMMA SaneSay ==
  ASSUME NEW h \in Seq(Entries), NEW k \in Seq(Entries), NEW n \in Nat, Sane(h, n), Plain(k)
  PROVE  Sane(h \o k, n) /\ Orphans(h \o k) = Orphans(h)
  <1> DEFINE g == h \o k
  <1>1. Calls(g) = Calls(h) /\ Answered(g) = Answered(h)
    <2>1. Calls(g) = Calls(h) \cup Calls(k) /\ Answered(g) = Answered(h) \cup Answered(k)
      BY JoinedIds
    <2> QED BY <2>1, PlainIds
  <1>2. \A i \in DOMAIN g : g[i][1] \in {"calls", "result"} => i \in DOMAIN h /\ g[i] = h[i]
    BY Joined DEF Plain
  <1>3. AnsweredOnce(g)
    <2> SUFFICES ASSUME NEW i \in DOMAIN g, NEW j \in DOMAIN g, g[i][1] = "result", g[i] = g[j]
                 PROVE  i = j
      BY DEF AnsweredOnce
    <2>1. i \in DOMAIN h /\ j \in DOMAIN h /\ g[i] = h[i] /\ g[j] = h[j]
      BY <1>2
    <2> QED BY <2>1 DEF Sane, AnsweredOnce
  <1>4. CalledFirst(g)
    <2> SUFFICES ASSUME NEW i \in DOMAIN g, NEW j \in DOMAIN g, NEW c \in CallIds,
                        g[i][1] = "calls", c \in g[i][2], g[j] = Result(c)
                 PROVE  i < j
      BY DEF CalledFirst
    <2>1. i \in DOMAIN h /\ j \in DOMAIN h /\ g[i] = h[i] /\ g[j] = h[j]
      BY <1>2 DEF Result
    <2> QED BY <2>1 DEF Sane, CalledFirst
  <1> QED BY <1>1, <1>3, <1>4 DEF Sane, Known, Orphans

\* The ids of a new message of calls are fresh.
LEMMA SaneCall ==
  ASSUME NEW h \in Seq(Entries), NEW n \in Nat, NEW m \in Nat, n + m <= MaxCalls, Sane(h, n)
  PROVE  LET ids == (n + 1)..(n + m) IN
         /\ Sane(h \o <<<<"calls", ids>>>>, n + m)
         /\ Orphans(h \o <<<<"calls", ids>>>>) = Orphans(h) \cup ids
         /\ ids \cap Calls(h) = {} /\ ids \subseteq CallIds
  <1> DEFINE ids == (n + 1)..(n + m)
             k == <<<<"calls", ids>>>>
             g == h \o k
  <1>1. MaxCalls \in Nat /\ ids \subseteq CallIds
    BY BoundsAssumption DEF CallIds
  <1>2. k \in Seq(Entries) /\ Len(k) = 1 /\ k[1] = <<"calls", ids>> /\ Calls(k) = ids /\ Answered(k) = {}
    BY <1>1, BatchIds
  <1>3. Calls(g) = Calls(h) \cup ids /\ Answered(g) = Answered(h)
    <2>1. Calls(g) = Calls(h) \cup Calls(k) /\ Answered(g) = Answered(h) \cup Answered(k)
      BY JoinedIds, <1>2
    <2> QED BY <2>1, <1>2
  <1>4. \A c \in Calls(h) \cup Answered(h) : c \in Nat /\ c <= n
    BY DEF Sane, Known, Calls, Answered, CallIds
  <1>5. ids \cap (Calls(h) \cup Answered(h)) = {}
    BY <1>4
  <1>6. Known(g, n + m)
    BY <1>3, <1>4 DEF Known
  <1>7. \A i \in DOMAIN g : g[i][1] = "result" => i \in DOMAIN h /\ g[i] = h[i]
    BY <1>2, Joined
  <1>8. \A i \in DOMAIN g : g[i][1] = "calls" => (i \in DOMAIN h /\ g[i] = h[i]) \/ g[i][2] = ids
    BY <1>2, Joined
  <1>9. AnsweredOnce(g)
    <2> SUFFICES ASSUME NEW i \in DOMAIN g, NEW j \in DOMAIN g, g[i][1] = "result", g[i] = g[j]
                 PROVE  i = j
      BY DEF AnsweredOnce
    <2>1. i \in DOMAIN h /\ j \in DOMAIN h /\ g[i] = h[i] /\ g[j] = h[j]
      BY <1>7
    <2> QED BY <2>1 DEF Sane, AnsweredOnce
  <1>10. CalledFirst(g)
    <2> SUFFICES ASSUME NEW i \in DOMAIN g, NEW j \in DOMAIN g, NEW c \in CallIds,
                        g[i][1] = "calls", c \in g[i][2], g[j] = Result(c)
                 PROVE  i < j
      BY DEF CalledFirst
    <2>1. j \in DOMAIN h /\ g[j] = h[j]
      BY <1>7 DEF Result
    <2>2. c \in Answered(h)
      BY <2>1 DEF Answered, ToSet
    <2>3. i \in DOMAIN h /\ g[i] = h[i]
      BY <1>5, <1>8, <2>2
    <2> QED BY <2>1, <2>3 DEF Sane, CalledFirst
  <1> QED BY <1>1, <1>3, <1>5, <1>6, <1>9, <1>10 DEF Sane, Orphans

\* The results of calls that have none: the calls are settled, once each.
LEMMA SaneAnswer ==
  ASSUME NEW h \in Seq(Entries), NEW n \in Nat, Sane(h, n),
         NEW q \in Seq(CallIds), Once(q), ToSet(q) \subseteq Orphans(h)
  PROVE  /\ Sane(h \o ResultRows(q), n)
         /\ Orphans(h \o ResultRows(q)) = Orphans(h) \ ToSet(q)
  <1> DEFINE k == ResultRows(q)
             g == h \o k
  <1>1. k \in Seq(Entries) /\ Len(k) = Len(q) /\ Calls(k) = {} /\ Answered(k) = ToSet(q)
    BY ResultIds
  <1>2. \A i \in 1..Len(q) : k[i] = Result(q[i]) /\ q[i] \in ToSet(q) /\ q[i] \in CallIds
    BY <1>1, ResultIds DEF ToSet
  <1>3. Calls(g) = Calls(h) /\ Answered(g) = Answered(h) \cup ToSet(q)
    <2>1. Calls(g) = Calls(h) \cup Calls(k) /\ Answered(g) = Answered(h) \cup Answered(k)
      BY JoinedIds, <1>1
    <2> QED BY <2>1, <1>1
  <1>4. Known(g, n)
    BY <1>3 DEF Known, Sane, Orphans
  <1>5. \A i \in DOMAIN g : \/ i \in DOMAIN h /\ g[i] = h[i]
                            \/ i > Len(h) /\ i - Len(h) \in 1..Len(q) /\ g[i] = Result(q[i - Len(h)])
    BY <1>1, <1>2, Joined
  <1>6. \A i \in DOMAIN h : \A c \in ToSet(q) : h[i] # Result(c)
    BY DEF Orphans, Answered, ToSet
  <1>7. \A c, d : Result(c) = Result(d) => c = d
    BY DEF Result
  <1>8. AnsweredOnce(g)
    <2> SUFFICES ASSUME NEW i \in DOMAIN g, NEW j \in DOMAIN g, g[i][1] = "result", g[i] = g[j]
                 PROVE  i = j
      BY DEF AnsweredOnce
    <2>1. CASE i \in DOMAIN h /\ g[i] = h[i] /\ j \in DOMAIN h /\ g[j] = h[j]
      BY <2>1 DEF Sane, AnsweredOnce
    <2>2. CASE /\ i > Len(h) /\ i - Len(h) \in 1..Len(q) /\ g[i] = Result(q[i - Len(h)])
               /\ j > Len(h) /\ j - Len(h) \in 1..Len(q) /\ g[j] = Result(q[j - Len(h)])
      <3>1. q[i - Len(h)] = q[j - Len(h)]
        BY <1>7, <2>2
      <3>2. i - Len(h) = j - Len(h)
        BY <2>2, <3>1 DEF Once
      <3> QED BY <1>1, <3>2, Joined
    <2> QED BY <1>2, <1>5, <1>6, <2>1, <2>2
  <1>9. CalledFirst(g)
    <2> SUFFICES ASSUME NEW i \in DOMAIN g, NEW j \in DOMAIN g, NEW c \in CallIds,
                        g[i][1] = "calls", c \in g[i][2], g[j] = Result(c)
                 PROVE  i < j
      BY DEF CalledFirst
    <2>1. i \in DOMAIN h /\ g[i] = h[i]
      BY <1>5 DEF Result
    <2>2. CASE j \in DOMAIN h /\ g[j] = h[j]
      BY <2>1, <2>2 DEF Sane, CalledFirst
    <2>3. CASE j > Len(h)
      BY <1>1, <2>1, <2>3, Joined
    <2> QED BY <1>5, <2>2, <2>3
  <1> QED BY <1>3, <1>4, <1>8, <1>9 DEF Sane, Orphans

\* No call is open when something else than a result is appended.
LEMMA UnsplitGrows ==
  ASSUME NEW h \in Seq(Entries), NEW k \in Seq(Entries), Unsplit(h), CalledFirst(h),
         \/ \A i \in DOMAIN k : k[i][1] = "result"
         \/ Orphans(h) = {} /\ (Plain(k) \/ Len(k) = 1)
  PROVE  Unsplit(h \o k)
  <1> DEFINE g == h \o k
  <1> SUFFICES ASSUME NEW i \in DOMAIN g, NEW j \in DOMAIN g, i < j,
                      g[i][1] = "calls", g[j][1] # "result", NEW c \in g[i][2]
               PROVE  \E x \in i..j : g[x] = Result(c)
    BY DEF Unsplit
  <1>1. CASE j \in DOMAIN h
    <2>1. i \in DOMAIN h /\ g[i] = h[i] /\ g[j] = h[j]
      BY <1>1, Joined
    <2>2. PICK x \in i..j : h[x] = Result(c)
      BY <1>1, <2>1 DEF Unsplit
    <2>3. g[x] = h[x]
      BY <1>1, <2>1, <2>2, Joined
    <2> QED BY <2>2, <2>3
  <1>2. CASE j \notin DOMAIN h
    <2>1. j > Len(h) /\ j - Len(h) \in DOMAIN k /\ g[j] = k[j - Len(h)]
      BY <1>2, Joined
    <2>2. Orphans(h) = {} /\ (Plain(k) \/ Len(k) = 1)
      BY <2>1
    <2>3. i \in DOMAIN h /\ g[i] = h[i]
      <3>1. CASE Plain(k)
        BY <3>1, Joined DEF Plain
      <3>2. CASE Len(k) = 1
        BY <2>1, <3>2, Joined
      <3> QED BY <2>2, <3>1, <3>2
    <2>4. c \in CallIds /\ c \in Calls(h)
      BY <2>3, EntryKinds DEF Calls
    <2>5. c \in Answered(h)
      BY <2>2, <2>4 DEF Orphans
    <2>6. PICK x \in DOMAIN h : h[x] = Result(c)
      BY <2>5 DEF Answered, ToSet
    <2>7. i < x
      BY <2>3, <2>4, <2>6 DEF CalledFirst
    <2>8. x \in i..j /\ g[x] = h[x]
      BY <2>1, <2>3, <2>6, <2>7, Joined
    <2> QED BY <2>6, <2>8
  <1> QED BY <1>1, <1>2

\* Lists of call ids.
LEMMA OnceTail ==
  ASSUME NEW q \in Seq(CallIds), q # <<>>, Once(q)
  PROVE  /\ Head(q) \in ToSet(q) /\ Head(q) \in CallIds
         /\ Tail(q) \in Seq(CallIds) /\ Once(Tail(q)) /\ ToSet(Tail(q)) = ToSet(q) \ {Head(q)}
  <1>1. /\ Len(q) \in Nat /\ Len(q) > 0 /\ DOMAIN q = 1..Len(q) /\ Head(q) = q[1]
        /\ Tail(q) \in Seq(CallIds) /\ DOMAIN Tail(q) = 1..(Len(q) - 1)
        /\ \A i \in 1..(Len(q) - 1) : Tail(q)[i] = q[i + 1]
    OBVIOUS
  <1>2. Once(Tail(q))
    <2> SUFFICES ASSUME NEW i \in DOMAIN Tail(q), NEW j \in DOMAIN Tail(q), Tail(q)[i] = Tail(q)[j]
                 PROVE  i = j
      BY DEF Once
    <2>1. i + 1 \in DOMAIN q /\ j + 1 \in DOMAIN q /\ q[i + 1] = q[j + 1]
      BY <1>1
    <2>2. i + 1 = j + 1
      BY <2>1 DEF Once
    <2> QED BY <1>1, <2>2
  <1>3. ToSet(Tail(q)) = ToSet(q) \ {Head(q)}
    <2>1. ASSUME NEW i \in DOMAIN Tail(q) PROVE Tail(q)[i] \in ToSet(q) \ {Head(q)}
      <3>1. i + 1 \in DOMAIN q /\ 1 \in DOMAIN q /\ Tail(q)[i] = q[i + 1]
        BY <1>1
      <3>2. i + 1 # 1
        BY <1>1
      <3>3. q[i + 1] # q[1]
        BY <3>1, <3>2 DEF Once
      <3> QED BY <1>1, <3>1, <3>3 DEF ToSet
    <2>2. ASSUME NEW j \in DOMAIN q, q[j] # Head(q) PROVE q[j] \in ToSet(Tail(q))
      <3>1. j - 1 \in DOMAIN Tail(q) /\ Tail(q)[j - 1] = q[j]
        BY <1>1, <2>2
      <3> QED BY <3>1 DEF ToSet
    <2> QED BY <2>1, <2>2 DEF ToSet
  <1>4. 1 \in DOMAIN q /\ Head(q) \in ToSet(q)
    BY <1>1 DEF ToSet
  <1> QED BY <1>1, <1>2, <1>3, <1>4

LEMMA OneResult ==
  ASSUME NEW h \in Seq(Entries), NEW c \in CallIds
  PROVE  /\ <<c>> \in Seq(CallIds) /\ Once(<<c>>) /\ ToSet(<<c>>) = {c}
         /\ Append(h, Result(c)) = h \o ResultRows(<<c>>)
  <1>1. ResultRows(<<c>>) = <<Result(c)>>
    BY DEF ResultRows
  <1>2. Result(c) \in Entries
    BY DEF Result, Entries
  <1>3. Append(h, Result(c)) = h \o <<Result(c)>>
    BY <1>2
  <1>4. DOMAIN <<c>> = {1} /\ <<c>>[1] = c /\ <<c>> \in Seq(CallIds)
    OBVIOUS
  <1>5. Once(<<c>>) /\ ToSet(<<c>>) = {c}
    BY <1>4 DEF Once, ToSet
  <1> QED BY <1>1, <1>3, <1>4, <1>5

LEMMA Listed ==
  ASSUME NEW S \in SUBSET CallIds, NEW q \in Listings(S)
  PROVE  q \in Seq(CallIds) /\ Once(q) /\ ToSet(q) = S
  <1>1. q \in Seq(CallIds)
    BY ListingsType
  <1>2. PICK n \in 0..MaxCalls : q \in [1..n -> S]
    BY DEF Listings
  <1>3. /\ \A i, j \in DOMAIN q : i < j => q[i] < q[j]
        /\ \A c \in S : \E i \in DOMAIN q : q[i] = c
    BY DEF Listings
  <1>4. Once(q)
    <2> SUFFICES ASSUME NEW i \in DOMAIN q, NEW j \in DOMAIN q, q[i] = q[j] PROVE i = j
      BY DEF Once
    <2>1. i \in Nat /\ j \in Nat /\ q[i] \in CallIds /\ q[j] \in CallIds
      BY <1>1
    <2>2. q[i] \in Nat /\ ~(q[i] < q[j]) /\ ~(q[j] < q[i])
      BY <2>1 DEF CallIds
    <2> QED BY <1>3, <2>1, <2>2
  <1> QED BY <1>1, <1>2, <1>3, <1>4 DEF ToSet

LEMMA BatchListed ==
  ASSUME TypeOK, NEW n \in 1..MaxBatch, minted + n <= MaxCalls
  PROVE  LET q == [i \in 1..n |-> minted + i] IN
         q \in Seq(CallIds) /\ Once(q) /\ ToSet(q) = (minted + 1)..(minted + n)
  <1> DEFINE q == [i \in 1..n |-> minted + i]
  <1>1. minted \in Nat /\ n \in Nat /\ q \in Seq(CallIds) /\ DOMAIN q = 1..n
    BY BoundsAssumption, BatchType DEF TypeOK
  <1>2. Once(q)
    BY <1>1 DEF Once
  <1>3. ASSUME NEW c \in (minted + 1)..(minted + n) PROVE c \in ToSet(q)
    <2>1. c - minted \in 1..n /\ q[c - minted] = c
      BY <1>1
    <2> QED BY <1>1, <2>1 DEF ToSet
  <1>4. ASSUME NEW c \in ToSet(q) PROVE c \in (minted + 1)..(minted + n)
    BY <1>1 DEF ToSet
  <1> QED BY <1>1, <1>2, <1>3, <1>4

LEMMA PlainRows ==
  ASSUME TypeOK, NEW m \in Messages, NEW r \in Runs
  PROVE  /\ UserRows(steers) \in Seq(Entries) /\ Plain(UserRows(steers))
         /\ <<User(m)>> \in Seq(Entries) /\ Plain(<<User(m)>>)
         /\ \A t \in {"text", "note"} : <<<<t, r>>>> \in Seq(Entries) /\ Plain(<<<<t, r>>>>)
  <1>1. UserRows(steers) \in Seq(Entries) /\ \A i \in DOMAIN UserRows(steers) : UserRows(steers)[i][1] = "user"
    BY UserRowsType DEF TypeOK, UserRows, User
  <1>2. User(m) \in Entries /\ \A t \in {"text", "note"} : <<t, r>> \in Entries
    BY DEF User, Entries
  <1> QED BY <1>1, <1>2 DEF Plain, User

-----------------------------------------------------------------------------
(* A client that awaits each operation and stops no turn.                  *)

Calm == MaxOps = 1 /\ MaxEsc = 0 /\ GoNows = {}

Settled == {"start", "top", "model", "final", "wrap", "ok"}
Batch   == {"tools", "exec", "ask", "push"}

Untripped == tripped = {} /\ \A r \in Runs : loop[r] \in Settled \cup Batch \cup {"off", "err"}

\* One step of a loop in a calm session, and where it leads.
MovesTo(r, t) == loop' = [loop EXCEPT ![r] = t]

Passes(r, t) ==
  /\ UNCHANGED <<messages, unsaved, todo, minted>>
  /\ \/ loop[r] = "tools" /\ t \in {"exec", "ask"} /\ Saved(r)
     \/ loop[r] \in Settled /\ t \in Settled
     \/ loop[r] \in Settled /\ t = "err" /\ "provider" \in Faults
     \/ loop[r] \in {"ok", "err"} /\ t = "off" /\ Saved(r)

Drains(r, t) ==
  loop[r] = "top" /\ t = "model" /\ Saved(r) /\ Drain(r) /\ UNCHANGED <<todo, minted>>

Says(r, t) ==
  /\ loop[r] \in Settled /\ t \in Settled /\ Saved(r) /\ UNCHANGED <<todo, minted>>
  /\ \E w \in {"text", "note"} : Push(r, <<w, r>>)

CallsOut(r, t) ==
  /\ loop[r] = "model" /\ Saved(r)
  /\ \E n \in 1..MaxBatch :
       /\ minted + n <= MaxCalls /\ minted' = minted + n
       /\ Push(r, <<"calls", (minted + 1)..(minted + n)>>)
       /\ \/ t = "tools" /\ todo' = [todo EXCEPT ![r] = [i \in 1..n |-> minted + i]]
          \/ t = "err" /\ "provider" \in Faults /\ UNCHANGED todo

Returns(r, t) ==
  /\ loop[r] \in {"exec", "ask"} /\ t = "push" /\ UNCHANGED <<messages, todo, minted>>
  /\ unsaved' = [unsaved EXCEPT ![r] = <<Result(Head(todo[r]))>>]

Settles(r, t) ==
  /\ loop[r] = "push" /\ Saved(r) /\ UNCHANGED <<unsaved, minted>>
  /\ messages' = Append(messages, Result(Head(todo[r])))
  /\ todo' = [todo EXCEPT ![r] = Tail(@)]
  /\ t = IF Tail(todo[r]) = <<>> THEN "top" ELSE "tools"

CalmMove(r, t) == Passes(r, t) \/ Drains(r, t) \/ Says(r, t) \/ CallsOut(r, t)
                    \/ Returns(r, t) \/ Settles(r, t)

LEMMA LoopCalm ==
  ASSUME TypeInv, Untripped, NEW r \in Runs, LoopStep(r)
  PROVE  \E t \in Settled \cup Batch \cup {"off", "err"} : MovesTo(r, t) /\ CalmMove(r, t)
  <1> USE DEF TypeInv, TypeOK, LoopTo, MovesTo, CalmMove, Settled, Batch, session
  <1>1. loop[r] \in Settled \cup Batch \cup {"off", "err"} /\ r \notin tripped
    BY DEF Untripped
  <1>2. CASE StartTurn(r) \/ ModelStops(r, "model") \/ ModelStops(r, "wrap") \/ ModelEmpty(r)
               \/ FinalAnswer(r)
    BY <1>1, <1>2 DEF StartTurn, ModelStops, ModelEmpty, FinalAnswer, Passes
  <1>3. CASE IterationTop(r)
    BY <1>1, <1>3 DEF IterationTop, Drains
  <1>4. CASE BudgetSpent(r) \/ FinalCut(r)
    BY <1>1, <1>4 DEF BudgetSpent, FinalCut, Says
  <1>5. CASE ModelText(r)
    BY <1>1, <1>5 DEF ModelText, Says
  <1>6. CASE ModelCalls(r)
    BY <1>1, <1>6 DEF ModelCalls, CallsOut
  <1>7. CASE NextCall(r)
    BY <1>1, <1>7 DEF NextCall, Passes
  <1>8. CASE ToolReturns(r)
    BY <1>1, <1>8 DEF ToolReturns, Returns
  <1>9. CASE PushResult(r)
    BY <1>1, <1>9 DEF PushResult, Settles
  <1>10. CASE ToolAborts(r)
    BY <1>1, <1>10 DEF ToolAborts
  <1>11. CASE LoopEnd(r)
    BY <1>1, <1>11 DEF LoopEnd, TurnOk, TurnAborted, ReleaseSlot, SnapshotOrphans,
                      FillOrphans, FreshCancel, Passes
  <1> QED BY <1>2, <1>3, <1>4, <1>5, <1>6, <1>7, <1>8, <1>9, <1>10, <1>11 DEF LoopStep, RunTurn

\* A loop whose history is whole before it asks the model.
Sound(r) == r \in Retries \/ "provider" \notin Faults

\* What is left of the batch under way is what the history lacks.
LoopKept(r) ==
  /\ loop[r] \in Batch => Once(todo[r]) /\ ToSet(todo[r]) \subseteq Orphans(messages)
  /\ loop[r] \in Batch /\ Sound(r) => Orphans(messages) \subseteq ToSet(todo[r])
  /\ loop[r] \in Settled /\ Sound(r) => Orphans(messages) = {}

RetryKept(x) ==
  /\ post[x] = "fill" => Once(todo[x]) /\ ToSet(todo[x]) = Orphans(messages)
  /\ post[x] \in {"claim", "spawn"} => Orphans(messages) = {}

RestKept ==
  /\ \A r \in Runs : loop[r] # "err"
  /\ (\A r \in Runs : loop[r] = "off") => Orphans(messages) = {}

ChatInv ==
  /\ SerialInv /\ Untripped
  /\ Sane(messages, minted)
  /\ \A r \in Runs : LoopKept(r)
  /\ \A x \in Retries : RetryKept(x)
  /\ "provider" \notin Faults => Unsplit(messages) /\ RestKept

LEMMA Typed ==
  ASSUME TypeInv
  PROVE  /\ TypeOK /\ messages \in Seq(Entries) /\ minted \in Nat
         /\ loop \in [Runs -> LoopStates] /\ post \in [Runs -> PostStates]
         /\ todo \in [Runs -> Seq(CallIds)] /\ unsaved \in [Runs -> Seq(Entries)]
         /\ \A r \in Runs : loop[r] \in Batch => todo[r] # <<>>
  <1>1. minted \in 0..MaxCalls /\ MaxCalls \in Nat
    BY BoundsAssumption DEF TypeInv, TypeOK
  <1> QED BY <1>1 DEF TypeInv, TypeOK, Progress, Batch

\* What a loop's step makes of the history, and of its own batch.
LEMMA LoopChat ==
  ASSUME ChatInv, NEW r \in Runs, NEW t, MovesTo(r, t), CalmMove(r, t)
  PROVE  /\ Sane(messages, minted)' /\ LoopKept(r)'
         /\ "provider" \notin Faults =>
              Unsplit(messages)' /\ t # "err" /\ (t = "off" => Orphans(messages)' = {})
  <1>1. /\ TypeInv /\ TypeOK /\ messages \in Seq(Entries) /\ minted \in Nat
        /\ todo \in [Runs -> Seq(CallIds)] /\ loop \in [Runs -> LoopStates]
        /\ loop[r] \in Batch => todo[r] # <<>>
    BY Typed DEF ChatInv, SerialInv
  <1>2. /\ Sane(messages, minted) /\ LoopKept(r)
        /\ "provider" \notin Faults => Unsplit(messages) /\ loop[r] # "err"
    BY DEF ChatInv, RestKept
  <1>3. loop'[r] = t
    BY <1>1 DEF MovesTo
  <1>4. \A s \in Settled : s \notin Batch /\ s \notin {"off", "err"}
    BY DEF Settled, Batch
  <1> USE DEF LoopKept
  <1>5. CASE Passes(r, t)
    <2>1. UNCHANGED <<messages, todo, minted>>
      BY <1>5 DEF Passes
    <2>2. CASE loop[r] = "tools" /\ t \in {"exec", "ask"}
      BY <1>2, <1>3, <2>1, <2>2 DEF Batch, Settled, Sound
    <2>3. CASE loop[r] \in Settled /\ t \in Settled
      BY <1>2, <1>3, <1>4, <2>1, <2>3 DEF Sound
    <2>4. CASE loop[r] \in Settled /\ t = "err" /\ "provider" \in Faults
      BY <1>2, <1>3, <2>1, <2>4 DEF Batch, Settled, Sound
    <2>5. CASE loop[r] \in {"ok", "err"} /\ t = "off"
      BY <1>2, <1>3, <2>1, <2>5 DEF Batch, Settled, Sound
    <2> QED BY <1>5, <2>2, <2>3, <2>4, <2>5 DEF Passes
  <1>6. CASE Drains(r, t) \/ Says(r, t)
    <2>1. loop[r] \in Settled /\ t \in Settled /\ UNCHANGED <<todo, minted>>
      BY <1>6 DEF Drains, Says, Settled
    <2>2. PICK k \in Seq(Entries) : Plain(k) /\ messages' = messages \o k
      <3>1. PICK w \in {"text", "note"} : messages' \in {messages \o UserRows(steers), Append(messages, <<w, r>>)}
        BY <1>6 DEF Drains, Drain, Says, Push
      <3>2. UserRows(steers) \in Seq(Entries) /\ Plain(UserRows(steers))
        <4>1. UserRows(steers) \in Seq(Entries) /\ \A i \in DOMAIN UserRows(steers) : UserRows(steers)[i][1] = "user"
          BY <1>1, UserRowsType DEF TypeOK, UserRows, User
        <4> QED BY <4>1 DEF Plain
      <3>3. <<<<w, r>>>> \in Seq(Entries) /\ Plain(<<<<w, r>>>>)
        <4>1. <<w, r>> \in Entries
          BY DEF Entries
        <4> QED BY <4>1 DEF Plain
      <3>4. Append(messages, <<w, r>>) = messages \o <<<<w, r>>>>
        <4>1. <<w, r>> \in Entries
          BY DEF Entries
        <4> QED BY <1>1, <4>1, JoinsOne
      <3> QED BY <3>1, <3>2, <3>3, <3>4
    <2>3. Sane(messages \o k, minted) /\ Orphans(messages \o k) = Orphans(messages)
      BY <1>1, <1>2, <2>2, SaneSay
    <2>4. "provider" \notin Faults => Orphans(messages) = {}
      BY <1>2, <2>1 DEF Sound
    <2>5. "provider" \notin Faults => Unsplit(messages \o k)
      BY <1>1, <1>2, <2>2, <2>4, UnsplitGrows DEF Sane
    <2> QED BY <1>2, <1>3, <1>4, <2>1, <2>2, <2>3, <2>5 DEF Sound
  <1>7. CASE CallsOut(r, t)
    <2>1. PICK n \in 1..MaxBatch :
            /\ minted + n <= MaxCalls /\ minted' = minted + n
            /\ Push(r, <<"calls", (minted + 1)..(minted + n)>>)
            /\ \/ t = "tools" /\ todo' = [todo EXCEPT ![r] = [i \in 1..n |-> minted + i]]
               \/ t = "err" /\ "provider" \in Faults /\ UNCHANGED todo
      BY <1>7 DEF CallsOut
    <2> DEFINE ids == (minted + 1)..(minted + n)
               q == [i \in 1..n |-> minted + i]
    <2>2. n \in Nat /\ ids \subseteq CallIds
      BY <1>1, <2>1, BoundsAssumption, BatchType
    <2>3. <<<<"calls", ids>>>> \in Seq(Entries) /\ Len(<<<<"calls", ids>>>>) = 1
      BY <2>2, BatchIds
    <2>4. messages' = messages \o <<<<"calls", ids>>>>
      <3>1. <<"calls", ids>> \in Entries
        BY <2>2 DEF Entries
      <3> QED BY <1>1, <2>1, <3>1 DEF Push
    <2>5. /\ Sane(messages \o <<<<"calls", ids>>>>, minted + n)
          /\ Orphans(messages \o <<<<"calls", ids>>>>) = Orphans(messages) \cup ids
      BY <1>1, <1>2, <2>1, <2>2, SaneCall
    <2>6. Sane(messages, minted)' /\ Orphans(messages)' = Orphans(messages) \cup ids
      BY <2>1, <2>4, <2>5
    <2>7. Sound(r) => Orphans(messages) = {}
      BY <1>2, <1>7 DEF CallsOut, Settled
    <2>8. "provider" \notin Faults => Unsplit(messages)'
      <3>1. "provider" \notin Faults => Unsplit(messages \o <<<<"calls", ids>>>>)
        BY <1>1, <1>2, <2>3, <2>7, UnsplitGrows DEF Sane, Sound
      <3> QED BY <2>4, <3>1
    <2>9. CASE t = "tools" /\ todo' = [todo EXCEPT ![r] = q]
      <3>1. Once(q) /\ ToSet(q) = ids
        BY <1>1, <2>1, BatchListed
      <3>2. todo'[r] = q
        BY <1>1, <2>9
      <3>3. Sound(r)' <=> Sound(r)
        BY DEF Sound
      <3> QED BY <1>3, <2>6, <2>7, <2>8, <2>9, <3>1, <3>2, <3>3 DEF Settled
    <2>10. CASE t = "err" /\ "provider" \in Faults
      BY <1>3, <2>6, <2>10 DEF Settled, Batch
    <2> QED BY <2>1, <2>9, <2>10
  <1>8. CASE Returns(r, t)
    BY <1>2, <1>3, <1>8 DEF Returns, Batch, Settled, Sound
  <1>9. CASE Settles(r, t)
    <2> DEFINE c == Head(todo[r])
               q == Tail(todo[r])
    <2>1. /\ loop[r] \in Batch /\ todo[r] \in Seq(CallIds) /\ todo[r] # <<>> /\ Once(todo[r])
          /\ ToSet(todo[r]) \subseteq Orphans(messages)
      BY <1>1, <1>2, <1>9 DEF Settles, Batch
    <2>2. /\ c \in ToSet(todo[r]) /\ c \in CallIds /\ Once(q) /\ q \in Seq(CallIds)
          /\ ToSet(q) = ToSet(todo[r]) \ {c}
      BY <2>1, OnceTail
    <2>3. /\ <<c>> \in Seq(CallIds) /\ Once(<<c>>) /\ ToSet(<<c>>) = {c}
          /\ Append(messages, Result(c)) = messages \o ResultRows(<<c>>)
      BY <1>1, <2>2, OneResult
    <2>4. messages' = messages \o ResultRows(<<c>>) /\ minted' = minted
      BY <1>9, <2>3 DEF Settles
    <2>5. /\ Sane(messages \o ResultRows(<<c>>), minted)
          /\ Orphans(messages \o ResultRows(<<c>>)) = Orphans(messages) \ {c}
      BY <1>1, <1>2, <2>1, <2>2, <2>3, SaneAnswer
    <2>6. Sane(messages, minted)' /\ Orphans(messages)' = Orphans(messages) \ {c}
      BY <2>4, <2>5
    <2>7. "provider" \notin Faults => Unsplit(messages)'
      <3>1. ResultRows(<<c>>) \in Seq(Entries) /\ \A i \in DOMAIN ResultRows(<<c>>) : ResultRows(<<c>>)[i][1] = "result"
        <4>1. \A d : Result(d)[1] = "result"
          BY DEF Result
        <4>2. /\ ResultRows(<<c>>) \in Seq(Entries)
              /\ \A i \in DOMAIN ResultRows(<<c>>) : ResultRows(<<c>>)[i] = Result(<<c>>[i])
          BY <2>3, ResultIds
        <4> QED BY <4>1, <4>2
      <3>2. "provider" \notin Faults => Unsplit(messages \o ResultRows(<<c>>))
        BY <1>1, <1>2, <3>1, UnsplitGrows DEF Sane
      <3> QED BY <2>4, <3>2
    <2>8. todo'[r] = q /\ t = IF q = <<>> THEN "top" ELSE "tools"
      BY <1>1, <1>9 DEF Settles
    <2>9. Sound(r) => Orphans(messages) = ToSet(todo[r])
      BY <1>2, <2>1
    <2>10. q = <<>> => ToSet(q) = {}
      BY DEF ToSet
    <2>11. Sound(r)' <=> Sound(r)
      BY DEF Sound
    <2>12. t \in {"top", "tools"} /\ t # "err" /\ t # "off"
      BY <2>8
    <2>13. ToSet(q) \subseteq Orphans(messages)' /\ (Sound(r) => Orphans(messages)' = ToSet(q))
      BY <2>1, <2>2, <2>6, <2>9
    <2>14. LoopKept(r)'
      BY <1>3, <2>2, <2>8, <2>10, <2>11, <2>13 DEF Settled, Batch
    <2> QED BY <2>6, <2>7, <2>12, <2>14
  <1> QED BY <1>5, <1>6, <1>7, <1>8, <1>9 DEF CalmMove

LEMMA LoopChatInv ==
  ASSUME ChatInv, NEW r \in Runs, LoopStep(r)
  PROVE  ChatInv'
  <1>1. TypeInv /\ SerialInv /\ Untripped /\ OneOp /\ Owners
    BY DEF ChatInv, SerialInv
  <1>2. SerialInv'
    BY <1>1, LoopSerial
  <1>3. PICK t \in Settled \cup Batch \cup {"off", "err"} : MovesTo(r, t) /\ CalmMove(r, t)
    BY <1>1, LoopCalm
  <1>4. loop \in [Runs -> LoopStates] /\ loop'[r] = t /\ \A s \in Runs : s # r => loop'[s] = loop[s]
    BY <1>1, <1>3, Typed DEF MovesTo
  <1>5. Untripped'
    BY <1>1, <1>3, <1>4, LoopRest DEF Untripped
  <1>6. loop[r] \in Holding
    <2>1. loop[r] # "off"
      BY <1>1, LoopCounter DEF TypeInv
    <2> QED BY <1>1, <2>1 DEF Untripped, Holding, LoopStates, InTurn, Settled, Batch
  <1>7. slot = r /\ \A s \in Runs : s # r => loop[s] = "off"
    <2>1. \A s \in Runs : s # r => loop[s] \notin Holding
      BY <1>1, <1>6 DEF Owners
    <2> QED BY <1>1, <1>6, <2>1 DEF Owners, Untripped, Holding, LoopStates, InTurn, Settled, Batch
  <1>8. \A s \in Runs : s # r => LoopKept(s)'
    BY <1>4, <1>7 DEF LoopKept, Settled, Batch
  <1>9. \A x \in Retries : RetryKept(x)'
    <2>1. UNCHANGED post
      BY <1>1, LoopRest
    <2>2. \A x \in Retries : post[x] \notin {"fill", "claim", "spawn"}
      BY <1>1, <1>6, <1>7, NamesApart DEF Owners
    <2> QED BY <2>1, <2>2 DEF RetryKept
  <1>10. /\ Sane(messages, minted)' /\ LoopKept(r)'
         /\ "provider" \notin Faults =>
              Unsplit(messages)' /\ t # "err" /\ (t = "off" => Orphans(messages)' = {})
    BY <1>3, LoopChat
  <1>11. "provider" \notin Faults => RestKept'
    BY <1>4, <1>7, <1>10 DEF RestKept
  <1> QED BY <1>2, <1>5, <1>8, <1>9, <1>10, <1>11 DEF ChatInv

\* No loop runs before its handler has spawned it, or while the slot is empty.
LEMMA NoneRuns ==
  ASSUME ChatInv
  PROVE  /\ slot = NoRun => \A r \in Runs : loop[r] \in {"off", "err"}
         /\ \A a \in Runs : post[a] \in {"drain", "own", "spawn"} =>
              \A r \in Runs : loop[r] = "off"
         /\ \A a \in Runs : post[a] \in {"claim", "snap", "fill"} =>
              slot = NoRun /\ \A r \in Runs : loop[r] = "off"
  <1>1. \A r \in Runs : loop[r] \notin Holding => loop[r] = "off"
    BY DEF ChatInv, Untripped, Holding, LoopStates, InTurn, Settled, Batch
  <1>2. Owners /\ \A r \in Runs : r # NoRun
    BY NamesApart DEF ChatInv, SerialInv
  <1>3. slot = NoRun => \A r \in Runs : loop[r] \notin Holding
    BY <1>2 DEF Owners
  <1>4. ASSUME NEW a \in Runs, post[a] \in {"drain", "own", "spawn"}
        PROVE  \A r \in Runs : loop[r] \notin Holding
    BY <1>2, <1>4 DEF Owners
  <1>5. \A a \in Runs : post[a] \in {"claim", "snap", "fill"} => slot = NoRun
    BY <1>2 DEF Owners
  <1> QED BY <1>1, <1>3, <1>4, <1>5

\* What a handler puts into the history.
LEMMA HandlerChat ==
  ASSUME TypeInv, NEW a \in Runs, Handler(a)
  PROVE  /\ minted' = minted /\ tripped' \subseteq tripped
         /\ \/ /\ UNCHANGED <<messages, todo, loop>>
               /\ \E w \in PostStates : post' = [post EXCEPT ![a] = w] /\ w # "fill"
                    /\ (a \in Retries /\ w \in {"claim", "spawn"} => post[a] = "claim")
            \/ /\ post[a] = "spawn" /\ UNCHANGED <<messages, todo>>
               /\ loop' = [loop EXCEPT ![a] = "start"] /\ post' = [post EXCEPT ![a] = "done"]
            \/ /\ a \in Users /\ post[a] \in {"drain", "own"} /\ UNCHANGED <<todo, loop>>
               /\ messages' \in {messages \o UserRows(steers), Append(messages, User(a))}
               /\ \E w \in {"own", "spawn"} : post' = [post EXCEPT ![a] = w]
            \/ /\ a \in Retries /\ post[a] = "snap" /\ UNCHANGED <<messages, loop>>
               /\ \E q \in Listings(Orphans(messages)) : todo' = [todo EXCEPT ![a] = q]
               /\ post' = [post EXCEPT ![a] = "fill"]
            \/ /\ a \in Retries /\ post[a] = "fill" /\ UNCHANGED loop
               /\ messages' = messages \o ResultRows(todo[a])
               /\ todo' = [todo EXCEPT ![a] = <<>>] /\ post' = [post EXCEPT ![a] = "claim"]
  <1> USE DEF PostTo, PostStates, session, Arm
  <1>1. CASE a \in Users /\ Send(a)
    BY <1>1, NamesApart DEF Send, Probe, SkipPrompt, QueueSteer, Claim, DrainOlder, Drain, PushOwn, Push
  <1>2. CASE a \in Notices /\ ParkNotice(a)
    BY <1>2, NamesApart DEF ParkNotice
  <1>3. CASE a \in Messages /\ Announce(a)
    BY <1>3, NamesApart DEF Announce
  <1>4. CASE a \in Retries /\ Retry(a)
    BY <1>4 DEF Retry, RetryProbe, RetrySnapshot, RetryFill, RetryClaim
  <1>5. CASE SpawnTurnLoop(a)
    BY <1>5 DEF SpawnTurnLoop
  <1> QED BY <1>1, <1>2, <1>3, <1>4, <1>5 DEF Handler

LEMMA HandlerChatInv ==
  ASSUME MaxOps = 1, ChatInv, NEW a \in Runs, Handler(a)
  PROVE  ChatInv'
  <1>1. /\ TypeInv /\ SerialInv /\ Untripped /\ OneOp /\ Sane(messages, minted)
        /\ "provider" \notin Faults => Unsplit(messages) /\ RestKept
        /\ \A r \in Runs : LoopKept(r)
        /\ \A x \in Retries : RetryKept(x) /\ x \in Runs
    BY NamesApart DEF ChatInv, SerialInv
  <1>2. /\ TypeOK /\ messages \in Seq(Entries) /\ minted \in Nat
        /\ loop \in [Runs -> LoopStates] /\ post \in [Runs -> PostStates]
        /\ todo \in [Runs -> Seq(CallIds)]
    BY <1>1, Typed
  <1>3. SerialInv' /\ minted' = minted /\ tripped' = {}
    BY <1>1, HandlerSerial, HandlerChat DEF Untripped
  <1> USE DEF ChatInv
  <1>4. CASE /\ UNCHANGED <<messages, todo, loop>>
             /\ \E w \in PostStates : post' = [post EXCEPT ![a] = w] /\ w # "fill"
                    /\ (a \in Retries /\ w \in {"claim", "spawn"} => post[a] = "claim")
    <2>1. \A x \in Retries : RetryKept(x)'
      BY <1>1, <1>2, <1>4 DEF RetryKept
    <2> QED BY <1>1, <1>3, <1>4, <2>1 DEF Untripped, LoopKept, RestKept, Sound
  <1>5. CASE /\ post[a] = "spawn" /\ UNCHANGED <<messages, todo>>
             /\ loop' = [loop EXCEPT ![a] = "start"] /\ post' = [post EXCEPT ![a] = "done"]
    <2>1. \A r \in Runs : loop[r] = "off"
      BY <1>5, NoneRuns
    <2>2. \A x \in Retries : RetryKept(x)'
      BY <1>1, <1>2, <1>5 DEF RetryKept
    <2>3. Sound(a) => Orphans(messages) = {}
      BY <1>1, <1>5, <2>1 DEF RetryKept, RestKept, Sound
    <2>4. \A r \in Runs : LoopKept(r)'
      BY <1>2, <1>5, <2>1, <2>3 DEF LoopKept, Batch, Settled, Sound
    <2>5. Untripped'
      BY <1>1, <1>2, <1>3, <1>5 DEF Untripped, Settled
    <2>6. RestKept => RestKept'
      BY <1>2, <1>5 DEF RestKept
    <2> QED BY <1>1, <1>3, <1>5, <2>2, <2>4, <2>5, <2>6
  <1>6. CASE /\ a \in Users /\ post[a] \in {"drain", "own"} /\ UNCHANGED <<todo, loop>>
             /\ messages' \in {messages \o UserRows(steers), Append(messages, User(a))}
             /\ \E w \in {"own", "spawn"} : post' = [post EXCEPT ![a] = w]
    <2>1. \A r \in Runs : loop[r] = "off"
      BY <1>6, NoneRuns
    <2>2. PICK k \in Seq(Entries) : Plain(k) /\ messages' = messages \o k
      <3>1. /\ UserRows(steers) \in Seq(Entries) /\ Plain(UserRows(steers))
            /\ <<User(a)>> \in Seq(Entries) /\ Plain(<<User(a)>>)
        BY <1>2, <1>6, PlainRows DEF Messages
      <3>2. Append(messages, User(a)) = messages \o <<User(a)>>
        <4>1. User(a) \in Entries
          BY <1>6 DEF User, Entries, Messages
        <4> QED BY <1>2, <4>1, JoinsOne
      <3> QED BY <1>6, <3>1, <3>2
    <2>3. Sane(messages \o k, minted) /\ Orphans(messages \o k) = Orphans(messages)
      BY <1>1, <1>2, <2>2, SaneSay
    <2>4. Sane(messages, minted)' /\ Orphans(messages)' = Orphans(messages)
      BY <1>3, <2>2, <2>3
    <2>5. "provider" \notin Faults => Unsplit(messages)'
      <3>1. "provider" \notin Faults => Unsplit(messages \o k)
        BY <1>1, <1>2, <2>1, <2>2, UnsplitGrows DEF Sane, RestKept
      <3> QED BY <2>2, <3>1
    <2>6. \A x \in Retries : post'[x] = post[x] /\ todo'[x] = todo[x]
      BY <1>1, <1>2, <1>6, NamesApart
    <2>7. \A x \in Retries : RetryKept(x)'
      BY <1>1, <2>4, <2>6 DEF RetryKept
    <2>8. \A r \in Runs : LoopKept(r)'
      BY <1>6, <2>1 DEF LoopKept, Batch, Settled
    <2>9. RestKept => RestKept'
      BY <1>6, <2>4 DEF RestKept
    <2>10. Untripped'
      BY <1>1, <1>3, <1>6 DEF Untripped
    <2> QED BY <1>1, <1>3, <2>4, <2>5, <2>7, <2>8, <2>9, <2>10
  <1>7. CASE /\ a \in Retries /\ post[a] = "snap" /\ UNCHANGED <<messages, loop>>
             /\ \E q \in Listings(Orphans(messages)) : todo' = [todo EXCEPT ![a] = q]
             /\ post' = [post EXCEPT ![a] = "fill"]
    <2>1. PICK q \in Listings(Orphans(messages)) : todo' = [todo EXCEPT ![a] = q]
      BY <1>7
    <2>2. Orphans(messages) \in SUBSET CallIds
      BY DEF Orphans, Calls
    <2>3. Once(q) /\ ToSet(q) = Orphans(messages)
      BY <2>1, <2>2, Listed
    <2>4. \A r \in Runs : loop[r] = "off"
      BY <1>7, NoneRuns
    <2>5. \A x \in Retries : RetryKept(x)'
      BY <1>1, <1>2, <1>7, <2>1, <2>3 DEF RetryKept
    <2>6. \A r \in Runs : LoopKept(r)'
      BY <1>7, <2>4 DEF LoopKept, Batch, Settled
    <2> QED BY <1>1, <1>3, <1>7, <2>5, <2>6 DEF Untripped, RestKept
  <1>8. CASE /\ a \in Retries /\ post[a] = "fill" /\ UNCHANGED loop
             /\ messages' = messages \o ResultRows(todo[a])
             /\ todo' = [todo EXCEPT ![a] = <<>>] /\ post' = [post EXCEPT ![a] = "claim"]
    <2> DEFINE q == todo[a]
    <2>1. q \in Seq(CallIds) /\ Once(q) /\ ToSet(q) = Orphans(messages)
      BY <1>1, <1>2, <1>8 DEF RetryKept
    <2>2. /\ Sane(messages \o ResultRows(q), minted)
          /\ Orphans(messages \o ResultRows(q)) = {}
      BY <1>1, <1>2, <2>1, SaneAnswer
    <2>3. Sane(messages, minted)' /\ Orphans(messages)' = {}
      BY <1>3, <1>8, <2>2
    <2>4. "provider" \notin Faults => Unsplit(messages)'
      <3>1. ResultRows(q) \in Seq(Entries) /\ \A i \in DOMAIN ResultRows(q) : ResultRows(q)[i] = Result(q[i])
        BY <2>1, ResultIds
      <3>2. \A d : Result(d)[1] = "result"
        BY DEF Result
      <3>3. "provider" \notin Faults => Unsplit(messages \o ResultRows(q))
        <4>1. \A i \in DOMAIN ResultRows(q) : ResultRows(q)[i][1] = "result"
          BY <3>1, <3>2
        <4> QED BY <1>1, <1>2, <3>1, <4>1, UnsplitGrows DEF Sane
      <3> QED BY <1>8, <3>3
    <2>5. \A r \in Runs : loop[r] = "off"
      BY <1>8, NoneRuns
    <2>6. \A x \in Retries : post'[x] # "fill"
      <3>1. a \in Acting
        BY <1>8 DEF Acting
      <3>2. \A x \in Retries : x # a => post[x] # "fill"
        BY <1>1, <3>1 DEF OneOp, Acting
      <3> QED BY <1>1, <1>2, <1>8, <3>2
    <2>7. \A x \in Retries : RetryKept(x)'
      BY <2>3, <2>6 DEF RetryKept
    <2>8. \A r \in Runs : LoopKept(r)'
      BY <1>8, <2>5 DEF LoopKept, Batch, Settled
    <2> QED BY <1>1, <1>3, <1>8, <2>3, <2>4, <2>7, <2>8 DEF Untripped, RestKept
  <1> HIDE DEF ChatInv
  <1> QED BY <1>1, <1>4, <1>5, <1>6, <1>7, <1>8, HandlerChat

LEMMA StepChat == Calm /\ ChatInv /\ [Next]_vars => ChatInv'
  <1> SUFFICES ASSUME Calm, ChatInv, [Next]_vars PROVE ChatInv'
    OBVIOUS
  <1>1. ASSUME NEW a \in Runs, Handler(a) PROVE ChatInv'
    BY <1>1, HandlerChatInv DEF Calm
  <1>2. ASSUME NEW r \in Runs, LoopStep(r) PROVE ChatInv'
    BY <1>2, LoopChatInv
  <1>3. ~Abort /\ GoNows = {}
    BY DEF Calm, Abort, ChatInv, SerialInv, TypeInv, TypeOK
  <1>4. CASE \/ \E a \in Runs : AppendRecord(a)
             \/ \E m \in Messages : Unqueue(m)
             \/ \E c \in CallIds : RespondToPrompt(c)
             \/ UNCHANGED vars
    <2>1. UNCHANGED <<tripped, messages, minted, post, loop, todo>>
      BY <1>4 DEF AppendRecord, Unqueue, RespondToPrompt, vars, session
    <2>2. SerialInv'
      BY StepSerial DEF Calm, ChatInv
    <2> QED BY <2>1, <2>2 DEF ChatInv, Untripped, LoopKept, RetryKept, RestKept, Sound
  <1> QED BY <1>1, <1>2, <1>3, <1>4 DEF Next, LoopStep

LEMMA InitChat == Init => ChatInv
  <1> SUFFICES ASSUME Init PROVE ChatInv
    OBVIOUS
  <1>1. SerialInv /\ Untripped
    BY InitSerial DEF Init, Untripped
  <1>2. messages = <<>> /\ Calls(messages) = {} /\ Answered(messages) = {}
    BY DEF Init, Calls, Answered, ToSet
  <1>3. Sane(messages, minted) /\ Unsplit(messages)
    BY <1>2 DEF Sane, AnsweredOnce, CalledFirst, Known, Unsplit
  <1>4. Orphans(messages) = {}
    BY <1>2 DEF Orphans
  <1>5. \A r \in Runs : LoopKept(r)
    BY DEF Init, LoopKept, Batch, Settled
  <1>6. \A x \in Retries : RetryKept(x)
    BY NamesApart DEF Init, RetryKept
  <1>7. RestKept
    BY <1>4 DEF Init, RestKept
  <1> QED BY <1>1, <1>3, <1>5, <1>6, <1>7 DEF ChatInv

\* In a session whose client stops nothing, a loop that a retry started asks the
\* model with a history whose calls all have one result, whatever the provider did.
THEOREM RetriesRepair == Calm => (Spec => []RetryRepairs)
  <1> SUFFICES ASSUME Calm PROVE Spec => []RetryRepairs
    OBVIOUS
  <1>1. Init => ChatInv
    BY InitChat
  <1>2. ChatInv /\ [Next]_vars => ChatInv'
    BY StepChat
  <1>3. ChatInv => RetryRepairs
    BY NamesApart DEF ChatInv, Sane, AnsweredOnce, LoopKept, Sound, Settled, RetryRepairs
  <1> QED BY <1>1, <1>2, <1>3, PTL DEF Spec

\* While the provider answers, the chat of such a session never splits a call from
\* its results, and every call is answered once before the model is asked again.
THEOREM ChatKeepsShape == Calm /\ "provider" \notin Faults => (Spec => []ChatWellFormed)
  <1> SUFFICES ASSUME Calm, "provider" \notin Faults PROVE Spec => []ChatWellFormed
    OBVIOUS
  <1>1. Init => ChatInv
    BY InitChat
  <1>2. ChatInv /\ [Next]_vars => ChatInv'
    BY StepChat
  <1>3. ChatInv => ChatWellFormed
    <2> SUFFICES ASSUME ChatInv PROVE ChatWellFormed
      OBVIOUS
    <2>1. ShapeOK
      BY DEF ChatInv, Unsplit, ShapeOK
    <2>2. AnsweredBeforeModel
      BY DEF ChatInv, Sane, AnsweredOnce, LoopKept, Sound, Settled, AnsweredBeforeModel
    <2> QED BY <2>1, <2>2 DEF ChatWellFormed
  <1> QED BY <1>1, <1>2, <1>3, PTL DEF Spec

-----------------------------------------------------------------------------
(* The session's file.                                                     *)

\* An actor that may have built records it has not appended yet.
Writer(a) ==
  \/ loop[a] \in Settled \cup Batch \cup {"err"}
  \/ post[a] \in {"own", "spawn"}
  \/ a \in Retries /\ post[a] = "claim"

\* The file and the records in flight are the history, and the result of a tool
\* call that is persisted before it is pushed.
Owed(a) ==
  disk \o unsaved[a] =
    IF loop[a] = "push" THEN Append(messages, Result(Head(todo[a]))) ELSE messages

DiskInv ==
  /\ ChatInv
  /\ \A a \in Runs : ~Writer(a) => Saved(a)
  /\ \A a \in Runs : Writer(a) => Owed(a)
  /\ (\A a \in Runs : ~Writer(a)) => disk = messages
  /\ \A r \in Runs : loop[r] \in {"exec", "ask"} => Saved(r)

LEMMA Sequences ==
  ASSUME DiskInv
  PROVE  /\ TypeInv /\ TypeOK /\ SerialInv /\ Untripped /\ OneOp
         /\ messages \in Seq(Entries) /\ disk \in Seq(Entries)
         /\ loop \in [Runs -> LoopStates] /\ post \in [Runs -> PostStates]
         /\ unsaved \in [Runs -> Seq(Entries)] /\ todo \in [Runs -> Seq(CallIds)]
         /\ \A r \in Runs : loop[r] \in Batch => todo[r] # <<>> /\ Result(Head(todo[r])) \in Entries
  <1>1. TypeInv /\ SerialInv /\ Untripped /\ OneOp
    BY DEF DiskInv, ChatInv, SerialInv
  <1>2. /\ TypeOK /\ messages \in Seq(Entries) /\ disk \in Seq(Entries)
        /\ loop \in [Runs -> LoopStates] /\ post \in [Runs -> PostStates]
        /\ unsaved \in [Runs -> Seq(Entries)] /\ todo \in [Runs -> Seq(CallIds)]
        /\ \A r \in Runs : loop[r] \in Batch => todo[r] # <<>>
    BY <1>1, Typed DEF TypeInv, TypeOK
  <1>3. ASSUME NEW r \in Runs, loop[r] \in Batch PROVE Result(Head(todo[r])) \in Entries
    <2>1. todo[r] \in Seq(CallIds) /\ todo[r] # <<>>
      BY <1>2, <1>3
    <2>2. Head(todo[r]) \in CallIds
      BY <2>1
    <2> QED BY <2>2 DEF Result, Entries
  <1> QED BY <1>1, <1>2, <1>3

\* One actor writes at a time.
LEMMA OneWriter ==
  ASSUME DiskInv
  PROVE  /\ \A a, b \in Runs : Writer(a) /\ Writer(b) => a = b
         /\ \A a \in Runs : post[a] = "drain" \/ (a \in Retries /\ post[a] = "fill") =>
              \A b \in Runs : ~Writer(b)
  <1>1. Owners /\ OneOp /\ \A r \in Runs : r # NoRun
    BY NamesApart DEF DiskInv, ChatInv, SerialInv
  <1>2. \A a \in Runs : Writer(a) => slot = a \/ (slot = NoRun /\ a \in Acting)
    <2>1. \A a \in Runs : loop[a] \in Settled \cup Batch \cup {"err"} => slot = a
      BY <1>1 DEF Owners, Holding, LoopStates, InTurn, Settled, Batch
    <2>2. \A a \in Runs : post[a] \in {"own", "spawn"} => slot = a
      BY <1>1 DEF Owners
    <2>3. \A a \in Runs : a \in Retries /\ post[a] = "claim" => slot = NoRun /\ a \in Acting
      BY <1>1 DEF Owners, Acting
    <2> QED BY <2>1, <2>2, <2>3 DEF Writer
  <1>3. \A a, b \in Runs : Writer(a) /\ Writer(b) => a = b
    BY <1>1, <1>2 DEF OneOp
  <1>4. ASSUME NEW a \in Runs, post[a] = "drain", NEW b \in Runs PROVE ~Writer(b)
    <2>1. slot = a /\ loop[a] \notin Holding
      BY <1>1, <1>4 DEF Owners
    <2>2. ~Writer(a)
      BY <1>4, <2>1 DEF Writer, Holding, LoopStates, InTurn, Settled, Batch
    <2> QED BY <1>1, <1>2, <2>1, <2>2
  <1>5. ASSUME NEW a \in Runs, a \in Retries, post[a] = "fill", NEW b \in Runs PROVE ~Writer(b)
    <2>1. slot = NoRun /\ \A r \in Runs : loop[r] = "off"
      BY <1>5, NoneRuns DEF DiskInv
    <2>2. \A c \in Acting : c = a
      BY <1>1, <1>5 DEF OneOp, Acting
    <2>3. ~Writer(a)
      BY <1>5, <2>1 DEF Writer, Settled, Batch
    <2> QED BY <1>1, <1>2, <2>1, <2>2, <2>3
  <1> QED BY <1>3, <1>4, <1>5

\* Writing rests with r, before a step and after it.
LEMMA StaysWriter ==
  ASSUME DiskInv, ChatInv', NEW r \in Runs, Writer(r),
         \A a \in Runs \ {r} : (Writer(a)' <=> Writer(a)) /\ unsaved'[a] = unsaved[a] /\ loop'[a] = loop[a],
         IF Writer(r)' THEN Owed(r)' ELSE unsaved'[r] = <<>> /\ disk' = messages',
         loop'[r] \in {"exec", "ask"} => unsaved'[r] = <<>>
  PROVE  DiskInv'
  <1>1. \A a \in Runs \ {r} : ~Writer(a) /\ ~Writer(a)' /\ unsaved'[a] = <<>>
    BY OneWriter DEF DiskInv, Saved
  <1>2. \A a \in Runs \ {r} : loop'[a] \in {"exec", "ask"} => unsaved'[a] = <<>>
    BY <1>1
  <1>3. \A a \in Runs : Writer(a)' => Owed(a)'
    BY <1>1
  <1>4. \A a \in Runs : ~Writer(a)' => Saved(a)'
    BY <1>1 DEF Saved
  <1>5. (\A a \in Runs : ~Writer(a)') => disk' = messages'
    OBVIOUS
  <1>6. \A a \in Runs : loop'[a] \in {"exec", "ask"} => Saved(a)'
    BY <1>2 DEF Saved
  <1> QED BY <1>3, <1>4, <1>5, <1>6 DEF DiskInv

\* A saved writer's file is the history.
LEMMA SavedIs ==
  ASSUME DiskInv, NEW a \in Runs, Writer(a), Saved(a)
  PROVE  disk = IF loop[a] = "push" THEN Append(messages, Result(Head(todo[a]))) ELSE messages
  <1>1. disk \o <<>> = disk
    BY Sequences
  <1> QED BY <1>1 DEF DiskInv, Owed, Saved

LEMMA LoopDisk ==
  ASSUME DiskInv, ChatInv', NEW r \in Runs, LoopStep(r)
  PROVE  DiskInv'
  <1>1. /\ TypeInv /\ Untripped /\ messages \in Seq(Entries) /\ disk \in Seq(Entries)
        /\ loop \in [Runs -> LoopStates] /\ unsaved \in [Runs -> Seq(Entries)]
        /\ todo \in [Runs -> Seq(CallIds)]
        /\ \A s \in Runs : loop[s] \in Batch => todo[s] # <<>> /\ Result(Head(todo[s])) \in Entries
    BY Sequences
  <1>2. PICK t \in Settled \cup Batch \cup {"off", "err"} : MovesTo(r, t) /\ CalmMove(r, t)
    BY <1>1, LoopCalm
  <1>3. disk' = disk /\ UNCHANGED post
    BY <1>1, LoopRest
  <1>4. loop'[r] = t /\ \A s \in Runs : s # r => loop'[s] = loop[s]
    BY <1>1, <1>2 DEF MovesTo
  <1>5. loop[r] # "off" /\ loop[r] \in Holding
    <2>1. loop[r] # "off"
      BY <1>1, LoopCounter DEF TypeInv
    <2> QED BY <1>1, <2>1 DEF Untripped, Holding, LoopStates, InTurn, Settled, Batch
  <1>6. Writer(r)
    BY <1>1, <1>5 DEF Writer, Untripped
  <1>7. post[r] \notin {"own", "spawn", "claim"}
    <2>1. Owners
      BY DEF DiskInv, ChatInv, SerialInv
    <2> QED BY <1>5, <2>1, NamesApart DEF Owners
  <1>8. Writer(r)' <=> t # "off"
    BY <1>2, <1>3, <1>4, <1>7 DEF Writer, Settled, Batch
  <1>9. \A s \in Runs : s # r => (Writer(s)' <=> Writer(s))
    BY <1>3, <1>4 DEF Writer
  <1>10. /\ \A s \in Runs : s # r => unsaved'[s] = unsaved[s]
         /\ IF t # "off" THEN Owed(r)' ELSE unsaved'[r] = <<>> /\ disk' = messages'
         /\ t \in {"exec", "ask"} => unsaved'[r] = <<>>
    <2>1. CASE Passes(r, t)
      <3>1. UNCHANGED <<messages, unsaved, todo>> /\ loop[r] # "push" /\ t # "push"
        BY <2>1 DEF Passes, Settled
      <3>2. t = "off" => Saved(r)
        BY <2>1 DEF Passes, Settled
      <3>3. t = "off" => disk' = messages'
        BY <1>3, <1>6, <3>1, <3>2, SavedIs
      <3>4. Owed(r)'
        BY <1>3, <1>4, <1>6, <3>1 DEF Owed, DiskInv
      <3>5. t \in {"exec", "ask"} => Saved(r)
        BY <2>1 DEF Passes, Settled
      <3> QED BY <3>1, <3>2, <3>3, <3>4, <3>5 DEF Saved
    <2>2. CASE Drains(r, t) \/ Says(r, t) \/ CallsOut(r, t)
      <3>1. Saved(r) /\ loop[r] # "push" /\ t \notin {"push", "exec", "ask", "off"}
        BY <2>2 DEF Drains, Says, CallsOut, Settled
      <3>2. disk' = messages
        BY <1>3, <1>6, <3>1, SavedIs
      <3>3. PICK k : messages' = messages \o k /\ unsaved' = [unsaved EXCEPT ![r] = k]
        <4>1. CASE Drains(r, t)
          BY <4>1 DEF Drains, Drain
        <4>2. ASSUME NEW e \in Entries, Push(r, e)
              PROVE  messages' = messages \o <<e>> /\ unsaved' = [unsaved EXCEPT ![r] = <<e>>]
          BY <1>1, <4>2, JoinsOne DEF Push
        <4>3. CASE Says(r, t)
          <5>1. PICK w \in {"text", "note"} : Push(r, <<w, r>>)
            BY <4>3 DEF Says
          <5>2. <<w, r>> \in Entries
            BY DEF Entries
          <5> QED BY <4>2, <5>1, <5>2
        <4>4. CASE CallsOut(r, t)
          <5>1. PICK n \in 1..MaxBatch : minted + n <= MaxCalls /\ Push(r, <<"calls", (minted + 1)..(minted + n)>>)
            BY <4>4 DEF CallsOut
          <5>2. <<"calls", (minted + 1)..(minted + n)>> \in Entries
            BY <1>1, <5>1, BatchType DEF Entries, TypeInv
          <5> QED BY <4>2, <5>1, <5>2
        <4> QED BY <2>2, <4>1, <4>3, <4>4
      <3>4. unsaved'[r] = k
        BY <1>1, <3>3
      <3>5. Owed(r)'
        BY <1>4, <3>1, <3>2, <3>3, <3>4 DEF Owed
      <3> QED BY <1>1, <3>1, <3>3, <3>5
    <2>3. CASE Returns(r, t)
      <3>1. Saved(r) /\ loop[r] # "push" /\ t = "push" /\ UNCHANGED <<messages, todo>>
        BY <2>3 DEF Returns, DiskInv
      <3>2. unsaved'[r] = <<Result(Head(todo[r]))>>
        BY <1>1, <2>3 DEF Returns
      <3>3. disk' = messages
        BY <1>3, <1>6, <3>1, SavedIs
      <3>4. Append(messages, Result(Head(todo[r]))) = messages \o <<Result(Head(todo[r]))>>
        BY <1>1, <2>3, JoinsOne DEF Returns, Batch
      <3>5. Owed(r)'
        BY <1>4, <3>1, <3>2, <3>3, <3>4 DEF Owed
      <3> QED BY <1>1, <2>3, <3>1, <3>5 DEF Returns
    <2>4. CASE Settles(r, t)
      <3>1. Saved(r) /\ loop[r] = "push" /\ t \in {"top", "tools"} /\ UNCHANGED unsaved
        BY <2>4 DEF Settles
      <3>2. disk' = messages'
        BY <1>3, <1>6, <2>4, <3>1, SavedIs DEF Settles
      <3>3. disk' \o <<>> = disk'
        BY <1>1, <1>3
      <3>4. Owed(r)'
        BY <1>4, <3>1, <3>2, <3>3 DEF Owed, Saved
      <3> QED BY <3>1, <3>4
    <2> QED BY <1>2, <2>1, <2>2, <2>3, <2>4 DEF CalmMove
  <1> QED BY <1>4, <1>6, <1>8, <1>9, <1>10, StaysWriter

\* What a handler does to its records and to its right to write.
LEMMA HandlerDisk ==
  ASSUME TypeInv, NEW a \in Runs, Handler(a)
  PROVE  /\ disk' = disk /\ \A b \in Runs : b # a => post'[b] = post[b]
         /\ \/ /\ UNCHANGED <<messages, todo, loop, unsaved>>
               /\ (post'[a] \in {"own", "spawn"} \/ (a \in Retries /\ post'[a] = "claim"))
                    <=> (post[a] \in {"own", "spawn"} \/ (a \in Retries /\ post[a] = "claim"))
            \/ /\ post[a] = "spawn" /\ Saved(a) /\ UNCHANGED <<messages, todo, unsaved>>
               /\ loop' = [loop EXCEPT ![a] = "start"]
            \/ /\ post[a] = "drain" /\ post'[a] = "own" /\ UNCHANGED <<todo, loop>>
               /\ messages' = messages \o UserRows(steers)
               /\ unsaved' = [unsaved EXCEPT ![a] = UserRows(steers)]
            \/ /\ a \in Users /\ post[a] = "own" /\ post'[a] = "spawn" /\ UNCHANGED <<todo, loop>>
               /\ Saved(a) /\ Push(a, User(a))
            \/ /\ a \in Retries /\ post[a] = "snap" /\ post'[a] = "fill"
               /\ UNCHANGED <<messages, loop, unsaved>>
            \/ /\ a \in Retries /\ post[a] = "fill" /\ post'[a] = "claim" /\ UNCHANGED loop
               /\ messages' = messages \o ResultRows(todo[a])
               /\ unsaved' = [unsaved EXCEPT ![a] = ResultRows(todo[a])]
  <1>1. post \in [Runs -> PostStates]
    BY DEF TypeInv, TypeOK
  <1> USE DEF PostTo, PostStates, session, Arm
  <1>2. CASE a \in Users /\ (Probe(a) \/ SkipPrompt(a) \/ QueueSteer(a) \/ Claim(a))
    BY <1>1, <1>2, NamesApart DEF Probe, SkipPrompt, QueueSteer, Claim
  <1>3. CASE a \in Users /\ DrainOlder(a)
    BY <1>1, <1>3, NamesApart DEF DrainOlder, Drain
  <1>4. CASE a \in Users /\ PushOwn(a)
    BY <1>1, <1>4, NamesApart DEF PushOwn
  <1>5. CASE a \in Notices /\ ParkNotice(a)
    BY <1>1, <1>5, NamesApart DEF ParkNotice
  <1>6. CASE a \in Messages /\ Announce(a)
    BY <1>1, <1>6, NamesApart DEF Announce
  <1>7. CASE a \in Retries /\ Retry(a)
    BY <1>1, <1>7 DEF Retry, RetryProbe, RetrySnapshot, RetryFill, RetryClaim
  <1>8. CASE SpawnTurnLoop(a)
    BY <1>1, <1>8 DEF SpawnTurnLoop
  <1> QED BY <1>2, <1>3, <1>4, <1>5, <1>6, <1>7, <1>8 DEF Handler, Send

\* An actor that takes over writing finds the file complete.
LEMMA BecomesWriter ==
  ASSUME DiskInv, ChatInv', NEW a \in Runs, \A b \in Runs : ~Writer(b),
         \A b \in Runs : b # a => ~Writer(b)',
         UNCHANGED loop, loop[a] \notin Batch, disk' = disk,
         NEW k \in Seq(Entries), messages' = messages \o k,
         unsaved' = [unsaved EXCEPT ![a] = k], Writer(a)'
  PROVE  DiskInv'
  <1>1. disk' = messages /\ \A b \in Runs : unsaved[b] = <<>>
    BY DEF DiskInv, Saved
  <1>2. unsaved'[a] = k /\ \A b \in Runs : b # a => unsaved'[b] = <<>>
    BY <1>1, Sequences
  <1>3. Owed(a)'
    BY <1>1, <1>2 DEF Owed, Batch
  <1>4. \A b \in Runs : loop'[b] \in {"exec", "ask"} => b # a
    BY DEF Batch
  <1> QED BY <1>2, <1>3, <1>4 DEF DiskInv, Saved

LEMMA HandlerDiskInv ==
  ASSUME DiskInv, ChatInv', NEW a \in Runs, Handler(a)
  PROVE  DiskInv'
  <1>1. /\ TypeInv /\ TypeOK /\ messages \in Seq(Entries) /\ disk \in Seq(Entries)
        /\ loop \in [Runs -> LoopStates] /\ post \in [Runs -> PostStates]
        /\ unsaved \in [Runs -> Seq(Entries)] /\ todo \in [Runs -> Seq(CallIds)]
        /\ steers \in Seq(Messages)
    BY Sequences DEF TypeOK
  <1>2. disk' = disk /\ \A b \in Runs : b # a => post'[b] = post[b]
    BY <1>1, HandlerDisk
  <1>3. CASE /\ UNCHANGED <<messages, todo, loop, unsaved>>
             /\ (post'[a] \in {"own", "spawn"} \/ (a \in Retries /\ post'[a] = "claim"))
                  <=> (post[a] \in {"own", "spawn"} \/ (a \in Retries /\ post[a] = "claim"))
    <2>1. \A b \in Runs : Writer(b)' <=> Writer(b)
      BY <1>2, <1>3 DEF Writer
    <2>2. \A b \in Runs : (Owed(b)' <=> Owed(b)) /\ (Saved(b)' <=> Saved(b))
      BY <1>2, <1>3 DEF Owed, Saved
    <2> QED BY <1>2, <1>3, <2>1, <2>2 DEF DiskInv
  <1>4. CASE /\ post[a] = "spawn" /\ Saved(a) /\ UNCHANGED <<messages, todo, unsaved>>
             /\ loop' = [loop EXCEPT ![a] = "start"]
    <2>1. Writer(a) /\ loop[a] = "off"
      BY <1>4, NoneRuns DEF Writer, DiskInv
    <2>2. disk = messages
      BY <1>4, <2>1, SavedIs
    <2>3. loop'[a] = "start" /\ \A b \in Runs : b # a => loop'[b] = loop[b]
      BY <1>1, <1>4
    <2>4. \A b \in Runs : b # a => (Writer(b)' <=> Writer(b))
      BY <1>2, <2>3 DEF Writer
    <2>5. Owed(a)'
      BY <1>1, <1>2, <1>4, <2>2, <2>3 DEF Owed, Saved
    <2>6. Writer(a)'
      BY <2>3 DEF Writer, Settled
    <2> QED BY <1>4, <2>1, <2>3, <2>4, <2>5, <2>6, StaysWriter
  <1>5. ASSUME \/ post[a] = "drain" /\ post'[a] = "own"
               \/ a \in Retries /\ post[a] = "fill" /\ post'[a] = "claim",
               UNCHANGED loop
        PROVE  /\ \A b \in Runs : ~Writer(b)
               /\ \A b \in Runs : b # a => ~Writer(b)'
               /\ Writer(a)' /\ loop[a] \notin Batch
    <2>1. \A b \in Runs : ~Writer(b)
      BY <1>5, OneWriter
    <2>2. \A b \in Runs : b # a => (Writer(b)' <=> Writer(b))
      BY <1>2, <1>5 DEF Writer
    <2> QED BY <1>5, <2>1, <2>2 DEF Writer
  <1>6. CASE /\ post[a] = "drain" /\ post'[a] = "own" /\ UNCHANGED <<todo, loop>>
             /\ messages' = messages \o UserRows(steers)
             /\ unsaved' = [unsaved EXCEPT ![a] = UserRows(steers)]
    <2>1. UserRows(steers) \in Seq(Entries)
      BY <1>1, UserRowsType
    <2> QED BY <1>2, <1>5, <1>6, <2>1, BecomesWriter
  <1>7. CASE /\ a \in Users /\ post[a] = "own" /\ post'[a] = "spawn" /\ UNCHANGED <<todo, loop>>
             /\ Saved(a) /\ Push(a, User(a))
    <2>1. Writer(a) /\ Writer(a)' /\ loop[a] = "off"
      <3>1. \A r \in Runs : loop[r] = "off"
        BY <1>7, NoneRuns DEF DiskInv
      <3> QED BY <1>7, <3>1 DEF Writer
    <2>2. disk = messages
      BY <1>7, <2>1, SavedIs
    <2>3. User(a) \in Entries
      BY <1>7 DEF User, Entries, Messages
    <2>4. messages' = messages \o <<User(a)>> /\ unsaved' = [unsaved EXCEPT ![a] = <<User(a)>>]
      BY <1>1, <1>7, <2>3, JoinsOne DEF Push
    <2>5. unsaved'[a] = <<User(a)>> /\ \A b \in Runs : b # a => unsaved'[b] = unsaved[b]
      BY <1>1, <2>4
    <2>6. Owed(a)'
      <3>1. disk' = messages /\ messages' = messages \o <<User(a)>> /\ loop'[a] # "push"
        BY <1>2, <1>7, <2>1, <2>2, <2>4
      <3> HIDE <1>7
      <3> QED BY <2>5, <3>1 DEF Owed
    <2>7. \A b \in Runs : b # a => (Writer(b)' <=> Writer(b))
      BY <1>2, <1>7 DEF Writer
    <2> QED BY <1>7, <2>1, <2>5, <2>6, <2>7, StaysWriter
  <1>8. CASE /\ a \in Retries /\ post[a] = "snap" /\ post'[a] = "fill"
             /\ UNCHANGED <<messages, loop, unsaved>>
    <2>1. \A b \in Runs : loop[b] = "off"
      BY <1>8, NoneRuns DEF DiskInv
    <2>2. \A b \in Runs : Writer(b)' <=> Writer(b)
      BY <1>2, <1>8 DEF Writer
    <2>3. \A b \in Runs : Owed(b)' <=> Owed(b)
      BY <1>2, <1>8, <2>1 DEF Owed
    <2> QED BY <1>2, <1>8, <2>2, <2>3 DEF DiskInv, Saved
  <1>9. CASE /\ a \in Retries /\ post[a] = "fill" /\ post'[a] = "claim" /\ UNCHANGED loop
             /\ messages' = messages \o ResultRows(todo[a])
             /\ unsaved' = [unsaved EXCEPT ![a] = ResultRows(todo[a])]
    <2>1. ResultRows(todo[a]) \in Seq(Entries)
      BY <1>1, ResultRowsType
    <2> QED BY <1>2, <1>5, <1>9, <2>1, BecomesWriter
  <1> QED BY <1>1, <1>3, <1>4, <1>6, <1>7, <1>8, <1>9, HandlerDisk

\* The head of the records in flight goes to the file.
LEMMA AppendDiskInv ==
  ASSUME DiskInv, ChatInv', "disk" \notin Faults, NEW a \in Runs, AppendRecord(a)
  PROVE  DiskInv'
  <1>1. /\ messages \in Seq(Entries) /\ disk \in Seq(Entries) /\ unsaved \in [Runs -> Seq(Entries)]
    BY Sequences
  <1>2. /\ unsaved[a] # <<>> /\ unsaved' = [unsaved EXCEPT ![a] = Tail(@)]
        /\ disk' = Append(disk, Head(unsaved[a]))
        /\ UNCHANGED <<messages, post, loop, todo>>
    BY DEF AppendRecord, session
  <1>3. Writer(a) /\ loop[a] \notin {"exec", "ask"}
    BY <1>2 DEF DiskInv, Saved
  <1>4. \A b \in Runs : Writer(b)' <=> Writer(b)
    BY <1>2 DEF Writer
  <1>5. unsaved'[a] = Tail(unsaved[a]) /\ \A b \in Runs : b # a => unsaved'[b] = unsaved[b]
    BY <1>1, <1>2
  <1>6. disk' \o unsaved'[a] = disk \o unsaved[a]
    <2> DEFINE u == unsaved[a]
    <2>1. /\ u \in Seq(Entries) /\ u # <<>> /\ Head(u) \in Entries /\ Tail(u) \in Seq(Entries)
          /\ <<Head(u)>> \in Seq(Entries)
      BY <1>1, <1>2, HeadTailProperties
    <2>2. u = <<Head(u)>> \o Tail(u)
      BY <2>1
    <2>3. (disk \o <<Head(u)>>) \o Tail(u) = disk \o (<<Head(u)>> \o Tail(u))
      BY <1>1, <2>1, ConcatAssociative
    <2>4. disk' = disk \o <<Head(u)>>
      BY <1>1, <1>2, <2>1, JoinsOne
    <2> QED BY <1>5, <2>2, <2>3, <2>4
  <1>7. Owed(a)'
    BY <1>2, <1>3, <1>6 DEF Owed, DiskInv
  <1> QED BY <1>2, <1>3, <1>4, <1>5, <1>7, StaysWriter

LEMMA StepDisk == Calm /\ "disk" \notin Faults /\ DiskInv /\ [Next]_vars => DiskInv'
  <1> SUFFICES ASSUME Calm, "disk" \notin Faults, DiskInv, [Next]_vars PROVE DiskInv'
    OBVIOUS
  <1>1. ChatInv'
    BY StepChat DEF DiskInv
  <1>2. ASSUME NEW a \in Runs, Handler(a) PROVE DiskInv'
    BY <1>1, <1>2, HandlerDiskInv
  <1>3. ASSUME NEW r \in Runs, LoopStep(r) PROVE DiskInv'
    BY <1>1, <1>3, LoopDisk
  <1>4. ASSUME NEW a \in Runs, AppendRecord(a) PROVE DiskInv'
    BY <1>1, <1>4, AppendDiskInv
  <1>5. ~Abort /\ GoNows = {}
    BY Sequences DEF Calm, Abort, TypeOK
  <1>6. CASE \/ \E m \in Messages : Unqueue(m)
             \/ \E c \in CallIds : RespondToPrompt(c)
             \/ UNCHANGED vars
    <2>1. UNCHANGED <<messages, disk, unsaved, post, loop, todo>>
      BY <1>6 DEF Unqueue, RespondToPrompt, vars, session
    <2> QED BY <1>1, <2>1 DEF DiskInv, Writer, Owed, Saved
  <1> QED BY <1>2, <1>3, <1>4, <1>5, <1>6 DEF Next, LoopStep

LEMMA InitDisk == Init => DiskInv
  <1> SUFFICES ASSUME Init PROVE DiskInv
    OBVIOUS
  <1>1. ChatInv
    BY InitChat
  <1> QED BY <1>1 DEF Init, DiskInv, Writer, Saved, Settled, Batch

LEMMA PrefixOf ==
  ASSUME NEW d \in Seq(Entries), NEW u \in Seq(Entries), NEW m \in Seq(Entries), d \o u = m
  PROVE  IsPrefix(d, m)
  BY DEF IsPrefix

LEMMA FileIsHistory == ASSUME DiskInv PROVE DiskFollows
  <1>1. /\ messages \in Seq(Entries) /\ disk \in Seq(Entries) /\ unsaved \in [Runs -> Seq(Entries)]
        /\ \A r \in Runs : loop[r] \in Batch => Result(Head(todo[r])) \in Entries
    BY Sequences
  <1>2. CASE \A a \in Runs : ~Writer(a)
    <2>1. disk = messages /\ disk \o <<>> = messages
      BY <1>1, <1>2 DEF DiskInv
    <2>2. <<>> \in Seq(Entries)
      OBVIOUS
    <2>3. IsPrefix(disk, messages)
      BY <1>1, <2>1, <2>2, PrefixOf
    <2> QED BY <2>3 DEF DiskFollows
  <1>3. ASSUME NEW a \in Runs, Writer(a) PROVE DiskFollows
    <2>1. Owed(a) /\ unsaved[a] \in Seq(Entries)
      BY <1>1, <1>3 DEF DiskInv
    <2>2. CASE loop[a] # "push"
      <3>1. disk \o unsaved[a] = messages
        BY <2>1, <2>2 DEF Owed
      <3> QED BY <1>1, <2>1, <3>1, PrefixOf DEF DiskFollows
    <2>3. CASE loop[a] = "push"
      <3> DEFINE e == Result(Head(todo[a]))
      <3>1. e \in Entries /\ disk \o unsaved[a] = messages \o <<e>>
        <4>1. e \in Entries
          BY <1>1, <2>3 DEF Batch
        <4> QED BY <1>1, <2>1, <2>3, <4>1, JoinsOne DEF Owed
      <3>2. CASE unsaved[a] = <<>>
        <4>1. messages \o <<e>> = disk
          BY <1>1, <3>1, <3>2
        <4>2. <<e>> \in Seq(Entries)
          BY <3>1
        <4>3. IsPrefix(messages, disk)
          BY <1>1, <4>1, <4>2, PrefixOf
        <4> QED BY <4>3 DEF DiskFollows
      <3>3. CASE unsaved[a] # <<>>
        <4>1. PICK u \in Seq(Entries), x \in Entries : unsaved[a] = Append(u, x)
          BY <2>1, <3>3, SequenceEmptyOrAppend
        <4>2. disk \o u \in Seq(Entries) /\ <<x>> \in Seq(Entries)
          BY <1>1, <4>1
        <4>3. disk \o (u \o <<x>>) = (disk \o u) \o <<x>>
          BY <1>1, <4>1, <4>2, ConcatAssociative
        <4>4. Append(disk \o u, x) = Append(messages, e)
          BY <1>1, <3>1, <4>1, <4>2, <4>3, JoinsOne
        <4>5. disk \o u = messages
          <5>1. ASSUME NEW s \in Seq(Entries), NEW v \in Seq(Entries), NEW y \in Entries,
                       NEW z \in Entries, Append(s, y) = Append(v, z)
                PROVE  s = v
            BY <5>1, AppendInjective
          <5> HIDE DEF e
          <5> QED BY <1>1, <3>1, <4>1, <4>2, <4>4, <5>1
        <4>6. IsPrefix(disk, messages)
          BY <1>1, <4>1, <4>5, PrefixOf
        <4> QED BY <4>6 DEF DiskFollows
      <3> QED BY <3>2, <3>3
    <2> QED BY <2>2, <2>3
  <1> QED BY <1>2, <1>3

\* While appends succeed, the file of a session whose client stops nothing is its
\* history up to the records in flight, in the same order.
THEOREM FileFollows == Calm /\ "disk" \notin Faults => (Spec => []DiskFollows)
  <1> SUFFICES ASSUME Calm, "disk" \notin Faults PROVE Spec => []DiskFollows
    OBVIOUS
  <1>1. Init => DiskInv
    BY InitDisk
  <1>2. DiskInv /\ [Next]_vars => DiskInv'
    BY StepDisk
  <1>3. DiskInv => DiskFollows
    BY FileIsHistory
  <1> QED BY <1>1, <1>2, <1>3, PTL DEF Spec
==============================================================================
