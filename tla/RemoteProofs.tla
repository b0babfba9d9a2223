---------------------------- MODULE RemoteProofs ----------------------------
(* What the modules about remote access guarantee, for any connections,    *)
(* desktops, phones, calls, sessions and sizes: Bridge, ReplayWindow,      *)
(* Attach and Companion.                                                   *)
EXTENDS Bridge, ReplayWindow, Attach, Companion, Integers, SequenceTheorems, TLAPS

-----------------------------------------------------------------------------
(***************************************************************************)
(* What Bridge guarantees for any connections, calls and streams.          *)
(***************************************************************************)
Messages == {"result", "event", "none", "timeout", "swept", "lost"}
OnlyEvents(s) == \A i \in DOMAIN s : s[i] = "event"

\* What the phone of a forward has been told, by where its handler is and what
\* the maps hold of it.
Stage(f) ==
  /\ at[f] \in {"idle", "found"} => got[f] = <<>> /\ f \notin pend
  /\ at[f] \in {"listed", "failed", "reaped"} => got[f] \in {<<>>, <<"swept">>}
  /\ at[f] = "done" => f \notin pend
  /\ f \in begun => at[f] \in {"sent", "done"} /\ f \in Streams

\* An entry is of a forward that nobody has answered; what was answered got one
\* message, except for a stream and for a call that was swept before it was sent.
Told(f) ==
  /\ f \in pend => IF f \in begun THEN OnlyEvents(got[f]) ELSE got[f] = <<>>
  /\ f \in Calls => Len(got[f]) <= 1 \/ got[f] = <<"swept", "lost">>
  /\ f \notin begun => \A i \in DOMAIN got[f] : got[f][i] # "event"
  /\ (\E i \in DOMAIN got[f] : got[f][i] = "timeout") => got[f] = <<"timeout">>

ForwardInv == BridgeTypeOK /\ \A f \in Forwards : Stage(f) /\ Told(f)

-----------------------------------------------------------------------------
(* Messages.                                                               *)

LEMMA OneMore ==
  ASSUME NEW s \in Seq(Messages), NEW m \in Messages
  PROVE  /\ Append(s, m) \in Seq(Messages) /\ Len(Append(s, m)) = Len(s) + 1
         /\ \A i \in DOMAIN Append(s, m) : Append(s, m)[i] = m \/ (i \in DOMAIN s /\ Append(s, m)[i] = s[i])
         /\ s = <<>> => Append(s, m) = <<m>>
         /\ s = <<"swept">> /\ m = "lost" => Append(s, m) = <<"swept", "lost">>
  <1>1. /\ Append(s, m) \in Seq(Messages) /\ Len(Append(s, m)) = Len(s) + 1
        /\ \A i \in 1..Len(s) : Append(s, m)[i] = s[i]
        /\ Append(s, m)[Len(s) + 1] = m
    BY AppendProperties
  <1>2. DOMAIN Append(s, m) = 1..(Len(s) + 1) /\ DOMAIN s = 1..Len(s) /\ Len(s) \in Nat
    BY <1>1, LenProperties
  <1>3. s = <<>> => Append(s, m) = <<m>>
    OBVIOUS
  <1>4. ASSUME s = <<"swept">>, m = "lost"
        PROVE  Append(s, m) = <<"swept", "lost">>
    <2> DEFINE both == <<"swept", "lost">>
    <2>1. both \in Seq(Messages) /\ Len(both) = 2 /\ both[1] = "swept" /\ both[2] = "lost"
      BY DEF Messages
    <2>2. Len(s) = 1 /\ s[1] = "swept"
      BY <1>4
    <2> HIDE DEF both
    <2>3. Append(s, m) = both
      BY <1>1, <1>4, <2>1, <2>2, SeqEqual
    <2> QED BY <2>3 DEF both
  <1> QED BY <1>1, <1>2, <1>3, <1>4

LEMMA Tells ==
  ASSUME BridgeTypeOK, NEW fs, NEW m \in Messages, Tell(fs, m)
  PROVE  \A f \in Forwards : /\ got'[f] \in Seq(Messages)
                             /\ got'[f] = IF f \in fs THEN Append(got[f], m) ELSE got[f]
  BY OneMore DEF Tell, BridgeTypeOK, Messages

\* A forward that a step leaves alone.
LEMMA Untouched ==
  ASSUME NEW f \in Forwards, Stage(f), Told(f),
         at'[f] = at[f], got'[f] = got[f], f \in pend' <=> f \in pend, f \in begun' <=> f \in begun
  PROVE  Stage(f)' /\ Told(f)'
  BY DEF Stage, Told, OnlyEvents

\* A forward that leaves the maps without a message, or only moves on.
LEMMA MovesOn ==
  ASSUME NEW f \in Forwards, Told(f),
         got'[f] = got[f], f \in pend' => f \in pend, f \in begun' <=> f \in begun
  PROVE  Told(f)'
  BY DEF Told, OnlyEvents

\* The first message of a forward, which leaves the maps.
LEMMA FirstMessage ==
  ASSUME NEW f \in Forwards, NEW m \in Messages \ {"event"}, BridgeTypeOK, got[f] = <<>>,
         got'[f] = Append(got[f], m), f \notin pend'
  PROVE  Told(f)' /\ got'[f] = <<m>>
  <1>1. got'[f] = <<m>>
    BY OneMore DEF BridgeTypeOK, Messages
  <1> QED BY <1>1 DEF Told

-----------------------------------------------------------------------------
(* The steps.                                                              *)

\* Connections come and go, and are swept.
LEMMA SweepKept ==
  ASSUME ForwardInv, NEW c \in Conns, Sweep(c)
  PROVE  ForwardInv'
  <1> DEFINE swept == pend \cap AtConn(c)
  <1>1. Tell(swept, "swept") /\ "swept" \in Messages
    BY DEF Sweep, Messages
  <1>2. \A f \in Forwards : /\ got'[f] \in Seq(Messages)
                            /\ got'[f] = IF f \in swept THEN Append(got[f], "swept") ELSE got[f]
    BY <1>1, Tells DEF ForwardInv
  <1>3. BridgeTypeOK'
    BY <1>2 DEF ForwardInv, BridgeTypeOK, Sweep, Messages
  <1>4. ASSUME NEW f \in Forwards
        PROVE  Stage(f)' /\ Told(f)'
    <2>1. UNCHANGED <<at, begun>> /\ (f \in pend' <=> f \in pend /\ f \notin swept)
      BY DEF Sweep, AtConn
    <2>2. Stage(f) /\ Told(f) /\ got[f] \in Seq(Messages)
      BY DEF ForwardInv, BridgeTypeOK, Messages
    <2>3. CASE f \notin swept
      BY <1>2, <2>1, <2>2, <2>3, Untouched
    <2>4. CASE f \in swept /\ f \notin begun
      <3>1. got[f] = <<>>
        BY <2>2, <2>4 DEF Told
      <3>2. Told(f)' /\ got'[f] = <<"swept">>
        BY <1>1, <1>2, <2>1, <2>4, <3>1, FirstMessage DEF ForwardInv, Messages
      <3> QED BY <2>1, <2>2, <2>4, <3>2 DEF Stage
    <2>5. CASE f \in swept /\ f \in begun
      <3>1. f \notin Calls /\ at[f] = "sent"
        BY <2>2, <2>5, BridgeAssumption DEF Stage, ForwardInv
      <3>2. got'[f] = Append(got[f], "swept") /\ OnlyEvents(got[f])
        BY <1>2, <2>2, <2>5 DEF Told
      <3>3. \A i \in DOMAIN got'[f] : got'[f][i] \in {"event", "swept"}
        BY <1>1, <2>2, <3>2, OneMore DEF OnlyEvents
      <3> QED BY <2>1, <2>2, <2>5, <3>1, <3>3 DEF Stage, Told
    <2> QED BY <2>3, <2>4, <2>5
  <1> QED BY <1>3, <1>4 DEF ForwardInv

\* The steps that neither tell nor list anything.
ConnStep(c) ==
  Register(c) \/ PeerGoes(c) \/ ReaderEnds(c) \/ WriteFails(c) \/ WriterDrains(c) \/ Unlist(c)

LEMMA ConnsKept ==
  ASSUME ForwardInv, Revoke \/ (\E c \in Conns : ConnStep(c)) \/ UNCHANGED bridgeVars
  PROVE  ForwardInv'
  <1>1. UNCHANGED <<at, via, pend, begun, fired, got>>
    BY DEF ConnStep, Register, PeerGoes, ReaderEnds, WriteFails, WriterDrains, Unlist, Revoke, bridgeVars
  <1>2. BridgeTypeOK'
    BY DEF ForwardInv, BridgeTypeOK, ConnStep, Register, PeerGoes, ReaderEnds, WriteFails,
           WriterDrains, Unlist, Revoke, bridgeVars
  <1> QED BY <1>1, <1>2, Untouched DEF ForwardInv

\* A handler finds a connection, lists its forward and sends it, and cleans up
\* when it cannot.
LEMMA HandlerKept ==
  ASSUME ForwardInv, NEW f \in Forwards, Find(f) \/ List(f) \/ Send(f) \/ ReapConn(f) \/ End(f)
  PROVE  ForwardInv'
  <1> USE DEF ForwardInv
  <1>1. Stage(f) /\ Told(f) /\ "none" \in Messages \ {"event"}
    BY DEF Messages
  <1>2. BridgeTypeOK' /\ Stage(f)' /\ Told(f)'
    <2>1. CASE Find(f)
      <3>1. CASE live = {}
        <4>1. at' = [at EXCEPT ![f] = "done"] /\ Tell({f}, "none")
              /\ UNCHANGED <<peer, writer, reader, live, enrolled, via, pend, begun, fired>>
          BY <2>1, <3>1 DEF Find
        <4>2. at[f] = "idle"
          BY <2>1 DEF Find
        <4>3. \A g \in Forwards : got'[g] \in Seq(Messages)
          BY <1>1, <4>1, Tells
        <4>4. BridgeTypeOK'
          BY <4>1, <4>3 DEF BridgeTypeOK, Messages
        <4>5. got'[f] = Append(got[f], "none")
          BY <1>1, <4>1, Tells
        <4>6. Told(f)'
          BY <1>1, <4>1, <4>2, <4>5, FirstMessage DEF Stage
        <4> QED BY <1>1, <4>1, <4>2, <4>4, <4>6 DEF Stage, BridgeTypeOK
      <3>2. CASE live # {}
        <4>1. PICK c \in live : via' = [via EXCEPT ![f] = c]
          BY <2>1, <3>2 DEF Find
        <4>2. at[f] = "idle" /\ at' = [at EXCEPT ![f] = "found"]
              /\ UNCHANGED <<peer, writer, reader, live, enrolled, pend, begun, fired, got>>
          BY <2>1, <3>2 DEF Find
        <4>3. BridgeTypeOK'
          BY <4>1, <4>2 DEF BridgeTypeOK
        <4> QED BY <1>1, <4>2, <4>3, MovesOn DEF Stage, BridgeTypeOK
      <3> QED BY <3>1, <3>2
    <2>2. CASE List(f)
      <3>1. at[f] = "found" /\ at' = [at EXCEPT ![f] = "listed"] /\ pend' = pend \cup {f}
            /\ UNCHANGED <<peer, writer, reader, live, enrolled, via, begun, fired, got>>
        BY <2>2 DEF List, connVars
      <3>2. BridgeTypeOK'
        BY <3>1 DEF BridgeTypeOK
      <3>3. got'[f] = <<>> /\ f \notin begun' /\ at'[f] = "listed"
        BY <1>1, <3>1 DEF Stage, BridgeTypeOK
      <3> QED BY <3>2, <3>3 DEF Stage, Told
    <2>3. CASE Send(f)
      <3> DEFINE to == CASE writer[via[f]] = "dead" -> "failed"
                         [] peer[via[f]] = "gone"   -> "void"
                         [] OTHER                   -> "sent"
      <3>0. to \in {"failed", "void", "sent"}
        OBVIOUS
      <3>1. /\ at[f] = "listed"
            /\ at' = [at EXCEPT ![f] = to]
            /\ UNCHANGED <<peer, writer, reader, live, enrolled, via, pend, begun, fired, got>>
        BY <2>3 DEF Send, connVars
      <3> HIDE DEF to
      <3>2. BridgeTypeOK'
        BY <3>0, <3>1 DEF BridgeTypeOK
      <3>3. at'[f] \in {"failed", "void", "sent"}
        BY <3>0, <3>1 DEF BridgeTypeOK
      <3> QED BY <1>1, <3>1, <3>2, <3>3, MovesOn DEF Stage
    <2>4. CASE ReapConn(f)
      <3>1. BridgeTypeOK'
        BY <2>4 DEF ReapConn, BridgeTypeOK
      <3> QED BY <1>1, <2>4, <3>1, MovesOn DEF ReapConn, Stage, BridgeTypeOK
    <2>5. CASE End(f)
      <3>1. BridgeTypeOK'
        BY <2>5 DEF End, connVars, BridgeTypeOK
      <3> QED BY <1>1, <2>5, <3>1, MovesOn DEF End, connVars, Stage, BridgeTypeOK
    <2> QED BY <2>1, <2>2, <2>3, <2>4, <2>5
  <1>3. ASSUME NEW g \in Forwards, g # f
        PROVE  Stage(g)' /\ Told(g)'
    <2>1. at'[g] = at[g] /\ (g \in pend' <=> g \in pend) /\ begun' = begun
      BY <1>3 DEF Find, List, Send, ReapConn, End, connVars, BridgeTypeOK
    <2>2. got'[g] = got[g]
      <3>1. CASE Find(f) /\ live = {}
        BY <1>1, <1>3, <3>1, Tells DEF Find
      <3> QED BY <3>1 DEF Find, List, Send, ReapConn, End
    <2> QED BY <2>1, <2>2, Untouched
  <1> QED BY <1>2, <1>3

\* The steps that may tell the phone of one forward.
LEMMA TellerKept ==
  ASSUME ForwardInv, NEW f \in Forwards, Drop(f) \/ Timeout(f) \/ Reply(f) \/ Event(f)
  PROVE  ForwardInv'
  <1> USE DEF ForwardInv
  <1>1. Stage(f) /\ Told(f) /\ got[f] \in Seq(Messages)
    BY DEF BridgeTypeOK, Messages
  <1>2. PICK m \in Messages, fs \in SUBSET {f} : Tell(fs, m)
    <2>1. {"lost", "timeout", "result", "event"} \subseteq Messages
      BY DEF Messages
    <2>2. {f} \subseteq {f} /\ pend \cap {f} \subseteq {f} /\ pend \cap ({f} \ begun) \subseteq {f}
      OBVIOUS
    <2> QED BY <2>1, <2>2 DEF Drop, Timeout, Reply, Event
  <1>3. \A g \in Forwards : /\ got'[g] \in Seq(Messages)
                            /\ g # f => got'[g] = got[g]
    BY <1>2, Tells
  <1>4. /\ \A g \in Forwards \ {f} : at'[g] = at[g] /\ (g \in pend' <=> g \in pend) /\ (g \in begun' <=> g \in begun)
        /\ f \in pend' => f \in pend
        /\ at' \in [Forwards -> {"idle", "found", "listed", "sent", "void", "failed", "reaped", "done"}]
        /\ begun' \subseteq Streams /\ fired' \subseteq Forwards /\ pend' \subseteq Forwards
        /\ UNCHANGED <<peer, writer, reader, live, enrolled, via>>
    BY DEF Drop, Timeout, Reply, Event, connVars, BridgeTypeOK
  <1>5. BridgeTypeOK'
    BY <1>3, <1>4 DEF BridgeTypeOK, Messages
  <1>6. ASSUME NEW g \in Forwards, g # f
        PROVE  Stage(g)' /\ Told(g)'
    BY <1>3, <1>4, <1>6, Untouched
  <1>7. Stage(f)' /\ Told(f)'
    <2>1. CASE Drop(f)
      <3>1. /\ at[f] = "reaped" /\ at'[f] = "done" /\ f \notin pend' /\ begun' = begun /\ Tell({f}, "lost")
        BY <2>1 DEF Drop, BridgeTypeOK
      <3>2. f \notin begun /\ got[f] \in {<<>>, <<"swept">>} /\ "lost" \in Messages
        BY <1>1, <3>1 DEF Stage, Messages
      <3>3. got'[f] = Append(got[f], "lost")
        BY <3>1, <3>2, Tells
      <3>4. got'[f] = <<"lost">> \/ got'[f] = <<"swept", "lost">>
        BY <1>1, <3>2, <3>3, OneMore
      <3>5. CASE got'[f] = <<"lost">>
        BY <3>1, <3>2, <3>5 DEF Stage, Told
      <3>6. CASE got'[f] = <<"swept", "lost">>
        BY <3>1, <3>2, <3>6 DEF Stage, Told
      <3> QED BY <3>4, <3>5, <3>6
    <2>2. CASE Timeout(f)
      <3>1. /\ at' = at /\ begun' = begun /\ at[f] \in {"sent", "void"}
            /\ Tell(pend \cap ({f} \ begun), "timeout") /\ "timeout" \in Messages \ {"event"}
            /\ pend' = pend \ ({f} \ begun)
        BY <2>2 DEF Timeout, Messages
      <3>2. got'[f] = IF f \in pend /\ f \notin begun THEN Append(got[f], "timeout") ELSE got[f]
        BY <3>1, Tells
      <3>3. CASE f \in pend /\ f \notin begun
        <4>1. Told(f)'
          BY <1>1, <3>1, <3>2, <3>3, FirstMessage DEF Told
        <4> QED BY <1>1, <3>1, <3>3, <4>1 DEF Stage
      <3>4. CASE ~(f \in pend /\ f \notin begun)
        BY <1>1, <3>1, <3>2, <3>4, Untouched
      <3> QED BY <3>3, <3>4
    <2>3. CASE Reply(f)
      <3>1. /\ at[f] = "sent" /\ at'[f] = "done" /\ f \notin pend' /\ begun' = begun /\ f \in Calls
            /\ Tell(pend \cap {f}, "result") /\ "result" \in Messages \ {"event"}
        BY <2>3 DEF Reply, Messages, BridgeTypeOK
      <3>2. got'[f] = IF f \in pend THEN Append(got[f], "result") ELSE got[f]
        BY <3>1, Tells
      <3>3. f \notin begun
        BY <1>1, <3>1, BridgeAssumption DEF Stage
      <3>4. Told(f)'
        <4>1. CASE f \in pend
          BY <1>1, <3>1, <3>2, <3>3, <4>1, FirstMessage DEF Told
        <4>2. CASE f \notin pend
          BY <1>1, <3>1, <3>2, <4>2, MovesOn
        <4> QED BY <4>1, <4>2
      <3> QED BY <1>1, <3>1, <3>3, <3>4 DEF Stage
    <2>4. CASE Event(f)
      <3>1. /\ at' = at /\ at[f] = "sent" /\ pend' = pend /\ f \in pend /\ f \in begun' /\ f \in Streams
            /\ Tell({f}, "event") /\ "event" \in Messages
        BY <2>4 DEF Event, Messages
      <3>2. got'[f] = Append(got[f], "event")
        BY <3>1, Tells
      <3>3. OnlyEvents(got[f])
        BY <1>1, <3>1 DEF Told, OnlyEvents
      <3>4. \A i \in DOMAIN got'[f] : got'[f][i] = "event"
        BY <1>1, <3>1, <3>2, <3>3, OneMore DEF OnlyEvents
      <3>5. f \notin Calls
        BY <3>1, BridgeAssumption
      <3> QED BY <1>1, <3>1, <3>4, <3>5 DEF Stage, Told, OnlyEvents
    <2> QED BY <2>1, <2>2, <2>3, <2>4
  <1> QED BY <1>5, <1>6, <1>7

-----------------------------------------------------------------------------

\* Whatever overtakes what among replies, timeouts, sweeps, failed sends and
\* revocations: a call is answered once (or told "swept" and "lost" if it was
\* swept before it was sent), the maps keep no forward that was answered, and a
\* stream that has delivered is never ended by its startup timeout.
THEOREM AnsweredOnceAtMost == BridgeSpec => []BridgeOK
  <1>1. BridgeInit => ForwardInv
    BY DEF BridgeInit, ForwardInv, BridgeTypeOK, Stage, Told, OnlyEvents
  <1>2. ForwardInv /\ [BridgeNext]_bridgeVars => ForwardInv'
    <2> SUFFICES ASSUME ForwardInv, [BridgeNext]_bridgeVars PROVE ForwardInv'
      OBVIOUS
    <2> QED BY SweepKept, ConnsKept, HandlerKept, TellerKept DEF BridgeNext, Handler, ConnStep
  <1>3. ForwardInv => BridgeOK
    BY DEF ForwardInv, BridgeOK, OneAnswer, PendingIsOpen, LiveStreamKept, Told, OnlyEvents,
           BridgeTypeOK, Forwards
  <1> QED BY <1>1, <1>2, <1>3, PTL DEF BridgeSpec

-----------------------------------------------------------------------------
(* At-most-once delivery through the replay window, for every width.       *)
\* What is handed on is below the window's end, and inside the window the ring
\* is the set of what was handed on.
RingInv ==
  /\ \A n \in taken : n < top
  /\ \A n \in Numbers : (n < top /\ top - n <= Window) => (Slot(n) \in bits <=> n \in taken)

WindowInv == WindowOK /\ RingInv

-----------------------------------------------------------------------------

\* Two numbers that are less than the width apart have slots of their own.
LEMMA SlotsDiffer ==
  ASSUME NEW a \in Nat, NEW b \in Nat, a < b, b < a + Window
  PROVE  Slot(a) # Slot(b)
  <1> USE WindowAssumption
  <1> DEFINE p == a \div Window
             q == b \div Window
  <1>1. /\ p \in Int /\ q \in Int
        /\ a = Window * p + (a % Window)
        /\ b = Window * q + (b % Window)
    OBVIOUS
  <1>2. ASSUME a % Window = b % Window PROVE FALSE
    <2> HIDE DEF p, q
    <2>1. b - a = Window * q - Window * p
      BY <1>1, <1>2
    <2>2. Window * q - Window * p = Window * (q - p)
      BY <1>1
    <2>3. CASE q <= p
      <3>1. Window * q <= Window * p
        BY <1>1, <2>3
      <3> QED BY <2>1, <3>1, <1>1
    <2>4. CASE q > p
      <3>1. q - p >= 1
        BY <2>4, <1>1
      <3>2. Window * (q - p) >= Window
        BY <3>1, <1>1
      <3> QED BY <3>2, <2>1, <2>2, <1>1
    <2> QED BY <2>3, <2>4, <1>1
  <1> QED BY <1>2 DEF Slot

LEMMA SlotInRing == ASSUME NEW n \in Nat PROVE Slot(n) \in 0 .. Window - 1
  BY WindowAssumption DEF Slot

\* The numbers are naturals below the bound.
LEMMA NumbersAreNat == ASSUME NEW n \in Numbers PROVE n \in Nat /\ n < MaxNumber
  BY WindowAssumption DEF Numbers

\* A number that may be new was not handed on, and one that may not was handed
\* on or is older than the window.
LEMMA FreshIsNew ==
  ASSUME WindowInv, NEW n \in Numbers
  PROVE  /\ Unseen(n) => n \notin taken
         /\ ~Unseen(n) => n \in taken \/ n + Window < top
  <1>1. top \in Nat /\ n \in Nat
    BY NumbersAreNat DEF WindowInv, WindowOK, WindowTypeOK
  <1> QED BY <1>1, WindowAssumption DEF WindowInv, RingInv, Unseen

\* After the window's end has moved to n, the ring has no slot of a number that
\* came into the window, and the slots of those that stayed are as before.
LEMMA ClearedRing ==
  ASSUME WindowInv, NEW n \in Numbers, n >= top, NEW m \in Numbers, m < n, n + 1 - m <= Window
  PROVE  Slot(m) \in Cleared(n) <=> m \in taken
  <1>1. top \in Nat /\ n \in Nat /\ m \in Nat /\ Window \in Nat \ {0}
    BY NumbersAreNat, WindowAssumption DEF WindowInv, WindowOK, WindowTypeOK
  <1>2. CASE m >= top
    <2>1. m \notin taken
      BY <1>1, <1>2 DEF WindowInv, RingInv
    <2>2. m \in top .. n
      BY <1>1, <1>2
    <2>3. Slot(m) \notin Cleared(n)
      BY <2>2 DEF Cleared
    <2> QED BY <2>1, <2>3
  <1>3. CASE m < top
    <2>1. n + 1 - top < Window /\ top - m <= Window
      BY <1>1, <1>3
    <2>2. Slot(m) \in bits <=> m \in taken
      BY <1>1, <1>3, <2>1 DEF WindowInv, RingInv
    <2>3. ASSUME NEW k \in top .. n PROVE Slot(k) # Slot(m)
      <3>1. k \in Nat /\ m < k /\ k < m + Window
        BY <1>1, <1>3
      <3> QED BY <3>1, <1>1, SlotsDiffer
    <2>4. Slot(m) \in Cleared(n) <=> Slot(m) \in bits
      BY <2>1, <2>3, <1>1 DEF Cleared
    <2> QED BY <2>2, <2>4
  <1> QED BY <1>1, <1>2, <1>3

\* To mark and hand on a number that may be new keeps the ring right.
LEMMA MarkKeeps ==
  ASSUME WindowInv, NEW n \in Numbers, Unseen(n), Mark(n), HandOn(n), refused' = refused,
         sent' = sent, checking' \in [Receivers -> Numbers \cup {NoNumber}]
  PROVE  WindowInv'
  <1>1. /\ top \in 0 .. MaxNumber /\ n \in Nat /\ n < MaxNumber /\ Window \in Nat \ {0}
        /\ bits \subseteq 0 .. Window - 1 /\ MaxNumber \in Nat
    BY NumbersAreNat, WindowAssumption DEF WindowInv, WindowOK, WindowTypeOK
  <1>2. n \notin taken
    BY FreshIsNew
  <1>3. taken' = taken \cup {n} /\ twice' = {}
    BY <1>2 DEF HandOn, WindowInv, WindowOK, TakenOnce
  <1>4. top' \in 0 .. MaxNumber /\ top' >= top /\ n < top'
    BY <1>1 DEF Mark
  <1>5. bits' \subseteq 0 .. Window - 1
    <2>1. Slot(n) \in 0 .. Window - 1
      BY <1>1, SlotInRing
    <2>2. Cleared(n) \subseteq bits
      BY DEF Cleared
    <2> QED BY <1>1, <2>1, <2>2 DEF Mark
  <1>6. WindowTypeOK'
    BY <1>3, <1>4, <1>5 DEF WindowInv, WindowOK, WindowTypeOK
  <1>7. RefusedRight'
    <2>1. ASSUME NEW k \in refused PROVE k \in taken' \/ k + Window < top'
      <3>1. k \in Nat
        BY NumbersAreNat DEF WindowInv, WindowOK, WindowTypeOK
      <3> QED BY <2>1, <3>1, <1>1, <1>3, <1>4 DEF WindowInv, WindowOK, RefusedRight
    <2> QED BY <2>1 DEF RefusedRight
  <1>8. \A k \in taken' : k < top'
    <2>1. ASSUME NEW k \in taken PROVE k < top'
      <3>1. k \in Nat
        BY NumbersAreNat DEF WindowInv, WindowOK, WindowTypeOK
      <3> QED BY <3>1, <1>1, <1>4 DEF WindowInv, RingInv
    <2> QED BY <2>1, <1>3, <1>4
  <1>9. ASSUME NEW m \in Numbers, m < top', top' - m <= Window
        PROVE  Slot(m) \in bits' <=> m \in taken'
    <2>1. m \in Nat
      BY NumbersAreNat
    <2>2. CASE m = n
      <3>1. Slot(n) \in bits'
        BY DEF Mark
      <3> QED BY <2>2, <3>1, <1>3
    <2>3. CASE m # n
      <3>1. CASE n >= top
        <4>1. m < n /\ n + 1 - m <= Window /\ n < m + Window
          BY <3>1, <2>1, <2>3, <1>1, <1>9 DEF Mark
        <4>2. Slot(m) # Slot(n)
          BY <4>1, <2>1, <1>1, SlotsDiffer
        <4>3. Slot(m) \in Cleared(n) <=> m \in taken
          BY <4>1, <3>1, ClearedRing
        <4> QED BY <4>2, <4>3, <3>1, <2>3, <1>3 DEF Mark
      <3>2. CASE ~(n >= top)
        <4>1. top' = top /\ bits' = bits \cup {Slot(n)}
          BY <3>2 DEF Mark
        <4>2. top - n <= Window
          BY <3>2 DEF Unseen
        <4>3. Slot(m) # Slot(n)
          <5>1. CASE m < n
            <6>1. n < m + Window
              BY <4>1, <3>2, <2>1, <1>1, <1>9
            <6> QED BY <6>1, <5>1, <2>1, <1>1, SlotsDiffer
          <5>2. CASE n < m
            <6>1. m < n + Window
              BY <4>1, <4>2, <2>1, <1>1, <1>9
            <6> QED BY <6>1, <5>2, <2>1, <1>1, SlotsDiffer
          <5> QED BY <5>1, <5>2, <2>1, <2>3, <1>1
        <4>4. Slot(m) \in bits <=> m \in taken
          BY <4>1, <1>9 DEF WindowInv, RingInv
        <4> QED BY <4>1, <4>3, <4>4, <2>3, <1>3
      <3> QED BY <3>1, <3>2
    <2> QED BY <2>2, <2>3
  <1> QED BY <1>3, <1>6, <1>7, <1>8, <1>9 DEF WindowInv, WindowOK, TakenOnce, RingInv

\* A receiver that is checking has a number, as soon as it has one at all.
LEMMA CheckedNumber ==
  ASSUME WindowInv, NEW r \in Receivers, checking[r] # NoNumber
  PROVE  checking[r] \in Numbers
  BY DEF WindowInv, WindowOK, WindowTypeOK

\* The steps of a receiver.
LEMMA ReceiverKeeps ==
  ASSUME WindowInv, NEW r \in Receivers,
         \/ \E n \in Numbers : PreCheck(r, n) \/ Refuse(r, n)
         \/ Garbled(r) \/ TakeMessage(r) \/ RefuseLate(r)
  PROVE  WindowInv'
  <1>0. checking \in [Receivers -> Numbers \cup {NoNumber}]
    BY DEF WindowInv, WindowOK, WindowTypeOK
  <1>1. ASSUME NEW n \in Numbers, PreCheck(r, n) PROVE WindowInv'
    BY <1>0, <1>1 DEF PreCheck, WindowInv, WindowOK, WindowTypeOK, TakenOnce, RefusedRight, RingInv, Slot
  <1>2. ASSUME NEW n \in Numbers, Refuse(r, n) PROVE WindowInv'
    <2>1. n \in taken \/ n + Window < top
      BY <1>2, FreshIsNew DEF Refuse
    <2> QED BY <1>2, <2>1 DEF Refuse, WindowInv, WindowOK, WindowTypeOK, TakenOnce, RefusedRight, RingInv, Slot
  <1>3. CASE Garbled(r)
    BY <1>0, <1>3 DEF Garbled, WindowInv, WindowOK, WindowTypeOK, TakenOnce, RefusedRight, RingInv, Slot
  <1>4. CASE TakeMessage(r)
    <2>1. checking[r] \in Numbers
      BY <1>4, CheckedNumber DEF TakeMessage
    <2>2. checking' \in [Receivers -> Numbers \cup {NoNumber}]
      BY <1>0, <1>4 DEF TakeMessage
    <2> QED BY <1>4, <2>1, <2>2, MarkKeeps DEF TakeMessage
  <1>5. CASE RefuseLate(r)
    <2>1. checking[r] \in Numbers
      BY <1>5, CheckedNumber DEF RefuseLate
    <2>2. checking[r] \in taken \/ checking[r] + Window < top
      BY <1>5, <2>1, FreshIsNew DEF RefuseLate
    <2> QED BY <1>0, <1>5, <2>1, <2>2
            DEF RefuseLate, WindowInv, WindowOK, WindowTypeOK, TakenOnce, RefusedRight, RingInv, Slot
  <1> QED BY <1>1, <1>2, <1>3, <1>4, <1>5

-----------------------------------------------------------------------------

\* However copies arrive and receivers overlap, a message is handed on once at
\* most, and an intact one is refused only if it was handed on or fell out of
\* the window: for every width and any number of receivers.
THEOREM AtMostOnce == WindowSpec => []WindowOK
  <1>1. WindowInit => WindowInv
    BY WindowAssumption
       DEF WindowInit, WindowInv, WindowOK, WindowTypeOK, TakenOnce, RefusedRight, RingInv, NoNumber
  <1>2. WindowInv /\ [WindowNext]_windowVars => WindowInv'
    <2> SUFFICES ASSUME WindowInv, [WindowNext]_windowVars PROVE WindowInv'
      OBVIOUS
    <2>1. CASE Seal
      BY <2>1, WindowAssumption
         DEF Seal, WindowInv, WindowOK, WindowTypeOK, TakenOnce, RefusedRight, RingInv, Slot
    <2>2. CASE \E r \in Receivers :
                 \/ \E n \in Numbers : PreCheck(r, n) \/ Refuse(r, n)
                 \/ Garbled(r) \/ TakeMessage(r) \/ RefuseLate(r)
      BY <2>2, ReceiverKeeps
    <2>3. CASE UNCHANGED windowVars
      BY <2>3 DEF windowVars, WindowInv, WindowOK, WindowTypeOK, TakenOnce, RefusedRight, RingInv, Slot
    <2> QED BY <2>1, <2>2, <2>3 DEF WindowNext
  <1>3. WindowInv => WindowOK
    BY DEF WindowInv
  <1> QED BY <1>1, <1>2, <1>3, PTL DEF WindowSpec

-----------------------------------------------------------------------------
(* Attach: one desktop at a time, and no call without its waiter.          *)
\* Links are numbered as they are made.
LinksMade == \A c \in Links : link[c] # "none" => c <= made

SessionsLinked == \A d \in Desktops : desk[d] = "session" => on[d] \in Links

\* One click per card: a card that can still be clicked on is that of a loop which
\* waits, or is about to; a permit is the click on it.
ClicksRight ==
  /\ \A d \in card : d \in clicked \/ desk[d] \in {"waiting", "detached"}
  /\ \A d \in permit : d \in clicked /\ desk[d] = "waiting"

AttachInv ==
  /\ AttachTypeOK /\ OneAttached /\ WaitersKept /\ LinksMade /\ SessionsLinked
  /\ "double" \notin trouble => TakenBackAsked /\ ClicksRight

LEMMA AttachInitHolds == ASSUME AttachInit PROVE AttachInv
  BY AttachAssumption
     DEF AttachInit, AttachInv, AttachTypeOK, OneAttached, WaitersKept, LinksMade, SessionsLinked,
         TakenBackAsked, ClicksRight, Links, NoLink

LEMMA HubKeeps ==
  ASSUME AttachInv, NEW c \in Links,
         AttachLink(c) \/ ServerEnds(c) \/ LinkCut(c) \/ \E d \in Calling : ReadCall(c, d) \/ Dispatched(c, d)
  PROVE  AttachInv'
  <1> USE AttachAssumption DEF AttachInv, deskSide, callSide
  <1>1. CASE AttachLink(c)
    <2> USE <1>1 DEF AttachLink
    <2>1. AttachTypeOK'
      BY DEF AttachTypeOK
    <2>2. OneAttached'
      BY DEF OneAttached, AttachTypeOK
    <2>3. LinksMade'
      BY DEF LinksMade, AttachTypeOK
    <2> QED BY <2>1, <2>2, <2>3 DEF WaitersKept, SessionsLinked, TakenBackAsked, ClicksRight
  <1>2. CASE ServerEnds(c)
    <2> USE <1>2 DEF ServerEnds
    <2>1. AttachTypeOK'
      BY DEF AttachTypeOK
    <2>2. OneAttached'
      BY DEF OneAttached, AttachTypeOK, Links, NoLink
    <2>3. LinksMade'
      BY DEF LinksMade, AttachTypeOK
    <2> QED BY <2>1, <2>2, <2>3 DEF WaitersKept, SessionsLinked, TakenBackAsked, ClicksRight
  <1>3. CASE LinkCut(c)
    <2> USE <1>3 DEF LinkCut
    <2>1. AttachTypeOK'
      BY DEF AttachTypeOK
    <2> QED BY <2>1 DEF OneAttached, LinksMade, WaitersKept, SessionsLinked, TakenBackAsked, ClicksRight
  <1>4. ASSUME NEW d \in Calling, ReadCall(c, d) PROVE AttachInv'
    <2> USE <1>4 DEF ReadCall
    <2>1. AttachTypeOK'
      BY DEF AttachTypeOK
    <2> QED BY <2>1 DEF OneAttached, LinksMade, WaitersKept, SessionsLinked, TakenBackAsked, ClicksRight
  <1>5. ASSUME NEW d \in Calling, Dispatched(c, d) PROVE AttachInv'
    <2> USE <1>5 DEF Dispatched
    <2>1. AttachTypeOK'
      BY DEF AttachTypeOK
    <2> QED BY <2>1 DEF OneAttached, LinksMade, WaitersKept, SessionsLinked, TakenBackAsked, ClicksRight
  <1> QED BY <1>1, <1>2, <1>3, <1>4, <1>5

LEMMA DeskKeeps ==
  ASSUME AttachInv, NEW d \in Desktops,
         \/ ConnectDesktop(d) \/ EndSession(d) \/ FailPending(d)
         \/ TellDetached(d) \/ Wait(d) \/ Reattach(d) \/ CardGoes(d)
  PROVE  AttachInv'
  <1> USE AttachAssumption DEF AttachInv, hubSide, callSide
  <1>1. CASE ConnectDesktop(d)
    <2> USE <1>1 DEF ConnectDesktop
    <2>1. made' \in Links /\ made' = made + 1 /\ made \in Nat
      BY DEF AttachTypeOK, Links
    <2>2. AttachTypeOK'
      BY <2>1 DEF AttachTypeOK, Links
    <2>3. OneAttached'
      BY <2>1 DEF OneAttached, LinksMade, AttachTypeOK, Links
    <2>4. LinksMade' /\ SessionsLinked'
      BY <2>1 DEF LinksMade, SessionsLinked, AttachTypeOK, Links
    <2> QED BY <2>2, <2>3, <2>4 DEF WaitersKept, TakenBackAsked, ClicksRight, AttachTypeOK
  <1>2. CASE EndSession(d)
    <2> USE <1>2 DEF EndSession
    <2>1. AttachTypeOK'
      BY DEF AttachTypeOK
    <2> QED BY <2>1 DEF OneAttached, LinksMade, WaitersKept, SessionsLinked, TakenBackAsked, ClicksRight,
                        AttachTypeOK
  <1>3. CASE FailPending(d)
    <2> USE <1>3 DEF FailPending, AfterSession
    <2>1. AttachTypeOK'
      BY DEF AttachTypeOK
    <2> QED BY <2>1 DEF OneAttached, LinksMade, WaitersKept, SessionsLinked, TakenBackAsked, ClicksRight,
                        AttachTypeOK
  <1>4. CASE TellDetached(d)
    <2> USE <1>4 DEF TellDetached
    <2>1. AttachTypeOK'
      BY DEF AttachTypeOK
    <2> QED BY <2>1 DEF OneAttached, LinksMade, WaitersKept, SessionsLinked, TakenBackAsked, ClicksRight,
                        AttachTypeOK
  <1>5. CASE Wait(d)
    <2> USE <1>5 DEF Wait
    <2>1. AttachTypeOK'
      BY DEF AttachTypeOK
    <2> QED BY <2>1 DEF OneAttached, LinksMade, WaitersKept, SessionsLinked, TakenBackAsked, ClicksRight,
                        AttachTypeOK
  <1>6. CASE Reattach(d)
    <2> USE <1>6 DEF Reattach, Clicks
    <2>1. AttachTypeOK'
      BY DEF AttachTypeOK
    <2> QED BY <2>1 DEF OneAttached, LinksMade, WaitersKept, SessionsLinked, TakenBackAsked, ClicksRight,
                        AttachTypeOK
  <1>7. CASE CardGoes(d)
    <2> USE <1>7 DEF CardGoes
    <2>1. AttachTypeOK'
      BY DEF AttachTypeOK
    <2> QED BY <2>1 DEF OneAttached, LinksMade, WaitersKept, SessionsLinked, TakenBackAsked, ClicksRight
  <1> QED BY <1>1, <1>2, <1>3, <1>4, <1>5, <1>6, <1>7

LEMMA CallKeeps ==
  ASSUME AttachInv, NEW d \in Calling,
         ListCall(d) \/ SendCall(d) \/ SendCallRefused(d) \/ ReadResult(d)
  PROVE  AttachInv'
  <1> USE AttachAssumption DEF AttachInv, hubSide, deskSide
  <1>1. CASE ListCall(d)
    <2> USE <1>1 DEF ListCall
    <2>1. AttachTypeOK'
      BY DEF AttachTypeOK
    <2> QED BY <2>1 DEF OneAttached, LinksMade, WaitersKept, SessionsLinked, TakenBackAsked, ClicksRight,
                        AttachTypeOK
  <1>2. CASE SendCall(d)
    <2> USE <1>2 DEF SendCall
    <2>1. AttachTypeOK'
      BY DEF AttachTypeOK, SessionsLinked
    <2> QED BY <2>1 DEF OneAttached, LinksMade, WaitersKept, SessionsLinked, TakenBackAsked, ClicksRight,
                        AttachTypeOK
  <1>3. CASE SendCallRefused(d)
    <2> USE <1>3 DEF SendCallRefused
    <2>1. AttachTypeOK'
      BY DEF AttachTypeOK
    <2> QED BY <2>1 DEF OneAttached, LinksMade, WaitersKept, SessionsLinked, TakenBackAsked, ClicksRight,
                        AttachTypeOK
  <1>4. CASE ReadResult(d)
    <2> USE <1>4 DEF ReadResult
    <2>1. AttachTypeOK'
      BY DEF AttachTypeOK
    <2> QED BY <2>1 DEF OneAttached, LinksMade, WaitersKept, SessionsLinked, TakenBackAsked, ClicksRight,
                        AttachTypeOK
  <1> QED BY <1>1, <1>2, <1>3, <1>4

LEMMA AttachNextKeeps == ASSUME AttachInv, [AttachNext]_attachVars PROVE AttachInv'
  <1>1. CASE UNCHANGED attachVars
    BY <1>1 DEF attachVars, hubSide, deskSide, callSide, AttachInv, AttachTypeOK, OneAttached, WaitersKept,
                LinksMade, SessionsLinked, TakenBackAsked, ClicksRight
  <1> QED BY <1>1, HubKeeps, DeskKeeps, CallKeeps DEF AttachNext

\* One desktop is attached at a time, a call that waits has its waiter and its
\* session, and without a double click nobody takes the workspace back unasked.
THEOREM OneDesktop == AttachSpec => []AttachOK
  <1>1. AttachInit => AttachInv
    BY AttachInitHolds
  <1>2. AttachInv /\ [AttachNext]_attachVars => AttachInv'
    BY AttachNextKeeps
  <1>3. AttachInv => AttachOK
    BY DEF AttachInv, AttachOK
  <1> QED BY <1>1, <1>2, <1>3, PTL DEF AttachSpec

-----------------------------------------------------------------------------
(* Companion: the phone's calls are run once, its stream tells each event  *)
(* once.                                                                   *)
\* A call is run in the one step that takes it from "sent".
CallsRight ==
  /\ \A k \in Asks :
       /\ ran[k] <= 1
       /\ where[k] \in {"idle", "awaits", "sent", "unknown", "renews"} => ran[k] = 0
       /\ where[k] = "run" => ran[k] = 1
       /\ outcome[k] # "none" => where[k] = "over"
       /\ outcome[k] = "ok" => ran[k] = 1
  /\ \A o \in Ops : where[o] # "idle" => hold[o] # NoSid
  /\ \A s \in Sids : shake[s] = "none" <=> s > shakes

InAsking(s) == \E i \in 1 .. Len(asking) : asking[i] = s
Distinct == \A i, j \in 1 .. Len(asking) : asking[i] = asking[j] => i = j

Asked(s) == InAsking(s) \/ feeds[s] > 0

\* Without overlaps and evictions: the one operation that goes on uses the session
\* of the cache,
OneByOne ==
  /\ \A o, p \in Overlapping : o = p
  /\ \A o \in Overlapping : hold[o] = cached \/ shake[hold[o]] = "failed"
  /\ \A k \in Asks : where[k] \in {"sent", "run", "unknown"} => shake[hold[k]] = "open"
  /\ \A k \in Asks : where[k] = "unknown" => hold[k] \notin known

\* the stream is asked for first by subscribe, then on sessions that are new,
FirstAsked ==
  /\ where[Stream] \in {"idle", "awaits", "over"} /\ (wanted <=> where[Stream] # "idle")
  /\ where[Stream] # "over" => \A s \in Sids : ~Asked(s)
  /\ \A k \in Asks : where[k] = "renews" => ~Asked(hold[k])

\* and of the sessions it was asked for on only the one in the cache can be known.
OnesFed ==
  /\ \A s \in Sids : Asked(s) => shake[s] = "open" /\ (s \in known => s = cached)
  /\ \A s \in Sids : feeds[s] <= 1 /\ (feeds[s] = 1 => s \in known /\ ~InAsking(s))
  /\ Distinct

CompanionInv ==
  /\ CompanionTypeOK /\ CallsRight
  /\ MaxOverlap = 1 /\ "evict" \notin upset => OneByOne /\ FirstAsked /\ OnesFed

\* A session that is taken is the one in the cache or the next one to be made.
LEMMA Taken ==
  ASSUME CompanionTypeOK, CallsRight, NEW o \in Ops, NEW c \in 0 .. shakes, TakeSession(o, c)
  PROVE  /\ shakes' \in 0 .. MaxHandshakes /\ shakes <= shakes'
         /\ shake' \in [Sids -> {"none", "asked", "granted", "open", "failed"}]
         /\ cached' \in 1 .. shakes' /\ hold' \in [Ops -> 0 .. shakes'] /\ hold'[o] = cached'
         /\ \A p \in Ops : p # o => hold'[p] = hold[p]
         /\ \A s \in Sids : shake'[s] = "none" <=> s > shakes'
         /\ \A s \in Sids : shake[s] # "none" => shake'[s] = shake[s]
         /\ c # NoSid => cached' = c /\ shake' = shake
         /\ c = NoSid => cached' = shakes + 1 /\ shake'[cached'] = "asked" /\ cached' \in Sids
  <1> USE CompanionAssumption DEF TakeSession, Sids, NoSid
  <1>1. CASE c # NoSid
    <2>1. /\ hold' = [hold EXCEPT ![o] = c] /\ cached' = c /\ shakes' = shakes /\ shake' = shake
          /\ c \in 1 .. shakes /\ shakes \in Nat
      BY <1>1 DEF CompanionTypeOK
    <2>2. hold' \in [Ops -> 0 .. shakes']
      BY <2>1 DEF CompanionTypeOK
    <2> QED BY <1>1, <2>1, <2>2 DEF CompanionTypeOK, CallsRight
  <1>2. CASE c = NoSid
    <2>1. /\ shakes' = shakes + 1 /\ shakes' \in Sids /\ shakes \in Nat /\ MaxHandshakes \in Nat
          /\ shake' = [shake EXCEPT ![shakes'] = "asked"] /\ cached' = shakes'
          /\ hold' = [hold EXCEPT ![o] = shakes']
      BY <1>2 DEF CompanionTypeOK
    <2>2. hold' \in [Ops -> 0 .. shakes']
      BY <2>1 DEF CompanionTypeOK
    <2> QED BY <1>2, <2>1, <2>2 DEF CompanionTypeOK, CallsRight
  <1> QED BY <1>1, <1>2

LEMMA AskingKept ==
  ASSUME asking' = asking, feeds' = feeds
  PROVE  /\ \A s \in Sids : (InAsking(s)' <=> InAsking(s)) /\ (Asked(s)' <=> Asked(s))
         /\ Distinct' <=> Distinct
  BY DEF InAsking, Asked, Distinct

LEMMA Appended ==
  ASSUME asking \in Seq(Sids), NEW s \in Sids, asking' = Append(asking, s)
  PROVE  /\ asking' \in Seq(Sids)
         /\ \A t \in Sids : InAsking(t)' <=> InAsking(t) \/ t = s
         /\ Distinct /\ ~InAsking(s) => Distinct'
  <1>1. /\ asking' \in Seq(Sids) /\ Len(asking') = Len(asking) + 1 /\ Len(asking) \in Nat
        /\ \A i \in 1 .. Len(asking) : asking'[i] = asking[i]
        /\ asking'[Len(asking) + 1] = s
    OBVIOUS
  <1> QED BY <1>1 DEF InAsking, Distinct

LEMMA Shortened ==
  ASSUME asking \in Seq(Sids), asking # <<>>, asking' = Tail(asking), NEW h \in Sids, h = Head(asking)
  PROVE  /\ asking' \in Seq(Sids) /\ InAsking(h)
         /\ \A t \in Sids : InAsking(t)' => InAsking(t)
         /\ Distinct => Distinct' /\ ~InAsking(h)'
  <1>1. /\ asking' \in Seq(Sids) /\ Len(asking) \in Nat /\ Len(asking) > 0 /\ Len(asking') = Len(asking) - 1
        /\ \A i \in 1 .. Len(asking') : asking'[i] = asking[i + 1]
        /\ h = asking[1]
    OBVIOUS
  <1>3. InAsking(h) /\ \A t \in Sids : InAsking(t)' => InAsking(t)
    BY <1>1 DEF InAsking
  <1>5. Distinct => Distinct' /\ ~InAsking(h)'
    <2> SUFFICES ASSUME Distinct PROVE Distinct' /\ ~InAsking(h)'
      OBVIOUS
    <2>1. Distinct'
      <3> SUFFICES ASSUME NEW i \in 1 .. Len(asking'), NEW j \in 1 .. Len(asking'), asking'[i] = asking'[j]
                   PROVE  i = j
        BY DEF Distinct
      <3>1. i + 1 \in 1 .. Len(asking) /\ j + 1 \in 1 .. Len(asking) /\ asking[i + 1] = asking[j + 1]
        BY <1>1
      <3> QED BY <3>1 DEF Distinct
    <2>2. ASSUME NEW i \in 1 .. Len(asking'), asking'[i] = h PROVE FALSE
      <3>1. i + 1 \in 1 .. Len(asking) /\ 1 \in 1 .. Len(asking) /\ asking[i + 1] = asking[1]
        BY <1>1, <2>2
      <3> QED BY <3>1 DEF Distinct
    <2> QED BY <2>1, <2>2 DEF InAsking
  <1> QED BY <1>1, <1>3, <1>5

-----------------------------------------------------------------------------

LEMMA GrantKeeps ==
  ASSUME CompanionInv, NEW s \in Sids, Grant(s)
  PROVE  CompanionInv'
  <1> USE CompanionAssumption DEF CompanionInv, Grant,
            phoneSide, shakeSide, opSide, processSide, Ops, Sids, NoSid
  <1>1. CompanionTypeOK'
    BY DEF CompanionTypeOK, CallsRight
  <1>2. CallsRight'
    BY DEF CompanionTypeOK, CallsRight
  <1> SUFFICES ASSUME MaxOverlap = 1, "evict" \notin upset PROVE OneByOne' /\ FirstAsked' /\ OnesFed'
    BY <1>1, <1>2
  <1>3. OneByOne'
    <2>1. /\ shake' \in [Sids -> {"none", "asked", "granted", "open", "failed"}]
          /\ \A t \in Sids : t # s => shake'[t] = shake[t]
      BY DEF CompanionTypeOK
    <2>2. Overlapping' = Overlapping
      BY DEF Overlapping
    <2>3. \A o \in Ops : where[o] # "idle" => hold[o] \in Sids
      BY DEF CompanionTypeOK, CallsRight
    <2>4. \A o \in Overlapping : o \in Ops /\ where[o] # "idle"
      BY DEF Overlapping
    <2> QED BY <2>1, <2>2, <2>3, <2>4 DEF OneByOne
  <1>4. FirstAsked'
    BY DEF CompanionTypeOK, CallsRight, OneByOne, Overlapping, FirstAsked, Asked, InAsking, Distinct, Stream
  <1>5. OnesFed'
    <2>1. /\ \A t \in Sids : (InAsking(t)' <=> InAsking(t)) /\ (Asked(t)' <=> Asked(t))
          /\ Distinct' <=> Distinct
      BY AskingKept
    <2> QED BY <2>1 DEF CompanionTypeOK, CallsRight, OnesFed, FirstAsked, OneByOne, Overlapping
  <1> QED BY <1>3, <1>4, <1>5

LEMMA ShakeDoneKeeps ==
  ASSUME CompanionInv, NEW s \in Sids, ShakeDone(s)
  PROVE  CompanionInv'
  <1> USE CompanionAssumption DEF CompanionInv, ShakeDone,
            phoneSide, shakeSide, opSide, processSide, Ops, Sids, NoSid
  <1>1. CompanionTypeOK'
    BY DEF CompanionTypeOK, CallsRight
  <1>2. CallsRight'
    BY DEF CompanionTypeOK, CallsRight
  <1> SUFFICES ASSUME MaxOverlap = 1, "evict" \notin upset PROVE OneByOne' /\ FirstAsked' /\ OnesFed'
    BY <1>1, <1>2
  <1>3. OneByOne'
    BY DEF CompanionTypeOK, CallsRight, OneByOne, Overlapping
  <1>4. FirstAsked'
    BY DEF CompanionTypeOK, CallsRight, OneByOne, Overlapping, FirstAsked, Asked, InAsking, Distinct, Stream
  <1>5. OnesFed'
    BY DEF CompanionTypeOK, CallsRight, OnesFed, FirstAsked, OneByOne, Overlapping, Asked, InAsking, Distinct
  <1> QED BY <1>3, <1>4, <1>5

LEMMA OpenFailsKeeps ==
  ASSUME CompanionInv, NEW s \in Sids, OpenFails(s)
  PROVE  CompanionInv'
  <1> USE CompanionAssumption DEF CompanionInv, OpenFails,
            phoneSide, shakeSide, opSide, processSide, Ops, Sids, NoSid
  <1>1. CompanionTypeOK'
    BY DEF CompanionTypeOK, CallsRight
  <1>2. CallsRight'
    BY DEF CompanionTypeOK, CallsRight
  <1> SUFFICES ASSUME MaxOverlap = 1, "evict" \notin upset PROVE OneByOne' /\ FirstAsked' /\ OnesFed'
    BY <1>1, <1>2
  <1>3. OneByOne'
    BY DEF CompanionTypeOK, CallsRight, OneByOne, Overlapping
  <1>4. FirstAsked'
    BY DEF CompanionTypeOK, CallsRight, OneByOne, Overlapping, FirstAsked, Asked, InAsking, Distinct, Stream
  <1>5. OnesFed'
    BY DEF CompanionTypeOK, CallsRight, OnesFed, FirstAsked, OneByOne, Overlapping, Asked, InAsking, Distinct
  <1> QED BY <1>3, <1>4, <1>5

LEMMA EvictKeeps ==
  ASSUME CompanionInv, NEW s \in Sids, Evict(s)
  PROVE  CompanionInv'
  <1> USE CompanionAssumption DEF CompanionInv, Evict,
            phoneSide, shakeSide, opSide, processSide, Ops, Sids, NoSid
  <1>1. CompanionTypeOK'
    BY DEF CompanionTypeOK, CallsRight
  <1>2. CallsRight'
    BY DEF CompanionTypeOK, CallsRight
  <1> SUFFICES ASSUME MaxOverlap = 1, "evict" \notin upset PROVE OneByOne' /\ FirstAsked' /\ OnesFed'
    BY <1>1, <1>2
  <1>3. OneByOne'
    BY DEF CompanionTypeOK, CallsRight, OneByOne, Overlapping
  <1>4. FirstAsked'
    BY DEF CompanionTypeOK, CallsRight, OneByOne, Overlapping, FirstAsked, Asked, InAsking, Distinct, Stream
  <1>5. OnesFed'
    BY DEF CompanionTypeOK, CallsRight, OnesFed, FirstAsked, OneByOne, Overlapping, Asked, InAsking, Distinct
  <1> QED BY <1>3, <1>4, <1>5

LEMMA AskKeeps ==
  ASSUME CompanionInv, NEW k \in Asks, Ask(k)
  PROVE  CompanionInv'
  <1> USE CompanionAssumption DEF CompanionInv, Ask,
            phoneSide, shakeSide, opSide, processSide, Ops, Sids, NoSid
  <1>t. /\ shakes' \in 0 .. MaxHandshakes /\ shakes <= shakes'
        /\ shake' \in [Sids -> {"none", "asked", "granted", "open", "failed"}]
        /\ cached' \in 1 .. shakes' /\ hold' \in [Ops -> 0 .. shakes'] /\ hold'[k] = cached'
        /\ \A p \in Ops : p # k => hold'[p] = hold[p]
        /\ \A s \in Sids : shake'[s] = "none" <=> s > shakes'
        /\ \A s \in Sids : shake[s] # "none" => shake'[s] = shake[s]
        /\ cached # NoSid => cached' = cached /\ shake' = shake
        /\ cached = NoSid => cached' = shakes + 1 /\ shake'[cached'] = "asked" /\ cached' \in Sids
    BY Taken DEF CompanionTypeOK
  <1>1. CompanionTypeOK'
    BY <1>t DEF CompanionTypeOK, CallsRight
  <1>2. CallsRight'
    BY <1>t DEF CompanionTypeOK, CallsRight
  <1> SUFFICES ASSUME MaxOverlap = 1, "evict" \notin upset PROVE OneByOne' /\ FirstAsked' /\ OnesFed'
    BY <1>1, <1>2
  <1>3. OneByOne'
    BY <1>t DEF CompanionTypeOK, CallsRight, OneByOne, Overlapping
  <1>4. FirstAsked'
    BY SMTT(30), <1>t DEF CompanionTypeOK, CallsRight, OneByOne, Overlapping, FirstAsked, Asked, InAsking, Distinct, Stream
  <1>5. OnesFed'
    <2>1. /\ \A t \in Sids : (InAsking(t)' <=> InAsking(t)) /\ (Asked(t)' <=> Asked(t))
          /\ Distinct' <=> Distinct
      BY AskingKept
    <2> QED BY <1>t, <2>1 DEF CompanionTypeOK, CallsRight, OnesFed, FirstAsked, OneByOne, Overlapping
  <1> QED BY <1>3, <1>4, <1>5

LEMMA SendAskKeeps ==
  ASSUME CompanionInv, NEW k \in Asks, SendAsk(k)
  PROVE  CompanionInv'
  <1> USE CompanionAssumption DEF CompanionInv, SendAsk,
            phoneSide, shakeSide, opSide, processSide, Ops, Sids, NoSid
  <1>1. CompanionTypeOK'
    BY DEF CompanionTypeOK, CallsRight
  <1>2. CallsRight'
    BY DEF CompanionTypeOK, CallsRight
  <1> SUFFICES ASSUME MaxOverlap = 1, "evict" \notin upset PROVE OneByOne' /\ FirstAsked' /\ OnesFed'
    BY <1>1, <1>2
  <1>3. OneByOne'
    BY DEF CompanionTypeOK, CallsRight, OneByOne, Overlapping
  <1>4. FirstAsked'
    BY DEF CompanionTypeOK, CallsRight, OneByOne, Overlapping, FirstAsked, Asked, InAsking, Distinct, Stream
  <1>5. OnesFed'
    BY DEF CompanionTypeOK, CallsRight, OnesFed, FirstAsked, OneByOne, Overlapping, Asked, InAsking, Distinct
  <1> QED BY <1>3, <1>4, <1>5

LEMMA NoSessionKeeps ==
  ASSUME CompanionInv, NEW k \in Asks, NoSession(k)
  PROVE  CompanionInv'
  <1> USE CompanionAssumption DEF CompanionInv, NoSession, Fail,
            phoneSide, shakeSide, opSide, processSide, Ops, Sids, NoSid
  <1>1. CompanionTypeOK'
    BY DEF CompanionTypeOK, CallsRight
  <1>2. CallsRight'
    BY DEF CompanionTypeOK, CallsRight
  <1> SUFFICES ASSUME MaxOverlap = 1, "evict" \notin upset PROVE OneByOne' /\ FirstAsked' /\ OnesFed'
    BY <1>1, <1>2
  <1>3. OneByOne'
    BY DEF CompanionTypeOK, CallsRight, OneByOne, Overlapping
  <1>4. FirstAsked'
    BY DEF CompanionTypeOK, CallsRight, OneByOne, Overlapping, FirstAsked, Asked, InAsking, Distinct, Stream
  <1>5. OnesFed'
    BY DEF CompanionTypeOK, CallsRight, OnesFed, FirstAsked, OneByOne, Overlapping, Asked, InAsking, Distinct
  <1> QED BY <1>3, <1>4, <1>5

LEMMA RunsKeeps ==
  ASSUME CompanionInv, NEW k \in Asks, Runs(k)
  PROVE  CompanionInv'
  <1> USE CompanionAssumption DEF CompanionInv, Runs,
            phoneSide, shakeSide, opSide, processSide, Ops, Sids, NoSid
  <1>1. CompanionTypeOK'
    BY DEF CompanionTypeOK, CallsRight
  <1>2. CallsRight'
    BY DEF CompanionTypeOK, CallsRight
  <1> SUFFICES ASSUME MaxOverlap = 1, "evict" \notin upset PROVE OneByOne' /\ FirstAsked' /\ OnesFed'
    BY <1>1, <1>2
  <1>3. OneByOne'
    BY DEF CompanionTypeOK, CallsRight, OneByOne, Overlapping
  <1>4. FirstAsked'
    BY DEF CompanionTypeOK, CallsRight, OneByOne, Overlapping, FirstAsked, Asked, InAsking, Distinct, Stream
  <1>5. OnesFed'
    BY DEF CompanionTypeOK, CallsRight, OnesFed, FirstAsked, OneByOne, Overlapping, Asked, InAsking, Distinct
  <1> QED BY <1>3, <1>4, <1>5

LEMMA UnknownKeeps ==
  ASSUME CompanionInv, NEW k \in Asks, Unknown(k)
  PROVE  CompanionInv'
  <1> USE CompanionAssumption DEF CompanionInv, Unknown,
            phoneSide, shakeSide, opSide, processSide, Ops, Sids, NoSid
  <1>1. CompanionTypeOK'
    BY DEF CompanionTypeOK, CallsRight
  <1>2. CallsRight'
    BY DEF CompanionTypeOK, CallsRight
  <1> SUFFICES ASSUME MaxOverlap = 1, "evict" \notin upset PROVE OneByOne' /\ FirstAsked' /\ OnesFed'
    BY <1>1, <1>2
  <1>3. OneByOne'
    BY DEF CompanionTypeOK, CallsRight, OneByOne, Overlapping
  <1>4. FirstAsked'
    BY DEF CompanionTypeOK, CallsRight, OneByOne, Overlapping, FirstAsked, Asked, InAsking, Distinct, Stream
  <1>5. OnesFed'
    BY DEF CompanionTypeOK, CallsRight, OnesFed, FirstAsked, OneByOne, Overlapping, Asked, InAsking, Distinct
  <1> QED BY <1>3, <1>4, <1>5

LEMMA CallAnsweredKeeps ==
  ASSUME CompanionInv, NEW k \in Asks, CallAnswered(k)
  PROVE  CompanionInv'
  <1> USE CompanionAssumption DEF CompanionInv, CallAnswered,
            phoneSide, shakeSide, opSide, processSide, Ops, Sids, NoSid
  <1>1. CompanionTypeOK'
    BY DEF CompanionTypeOK, CallsRight
  <1>2. CallsRight'
    BY DEF CompanionTypeOK, CallsRight
  <1> SUFFICES ASSUME MaxOverlap = 1, "evict" \notin upset PROVE OneByOne' /\ FirstAsked' /\ OnesFed'
    BY <1>1, <1>2
  <1>3. OneByOne'
    BY DEF CompanionTypeOK, CallsRight, OneByOne, Overlapping
  <1>4. FirstAsked'
    BY DEF CompanionTypeOK, CallsRight, OneByOne, Overlapping, FirstAsked, Asked, InAsking, Distinct, Stream
  <1>5. OnesFed'
    BY DEF CompanionTypeOK, CallsRight, OnesFed, FirstAsked, OneByOne, Overlapping, Asked, InAsking, Distinct
  <1> QED BY <1>3, <1>4, <1>5

LEMMA LostKeeps ==
  ASSUME CompanionInv, NEW k \in Asks, Lost(k)
  PROVE  CompanionInv'
  <1> USE CompanionAssumption DEF CompanionInv, Lost, Fail,
            phoneSide, shakeSide, opSide, processSide, Ops, Sids, NoSid
  <1>1. CompanionTypeOK'
    BY DEF CompanionTypeOK, CallsRight
  <1>2. CallsRight'
    BY DEF CompanionTypeOK, CallsRight
  <1> SUFFICES ASSUME MaxOverlap = 1, "evict" \notin upset PROVE OneByOne' /\ FirstAsked' /\ OnesFed'
    BY <1>1, <1>2
  <1>3. OneByOne'
    BY DEF CompanionTypeOK, CallsRight, OneByOne, Overlapping
  <1>4. FirstAsked'
    BY DEF CompanionTypeOK, CallsRight, OneByOne, Overlapping, FirstAsked, Asked, InAsking, Distinct, Stream
  <1>5. OnesFed'
    BY DEF CompanionTypeOK, CallsRight, OnesFed, FirstAsked, OneByOne, Overlapping, Asked, InAsking, Distinct
  <1> QED BY <1>3, <1>4, <1>5

LEMMA RenewKeeps ==
  ASSUME CompanionInv, NEW k \in Asks, Renew(k)
  PROVE  CompanionInv'
  <1> USE CompanionAssumption DEF CompanionInv, Renew,
            phoneSide, shakeSide, opSide, processSide, Ops, Sids, NoSid
  <1> DEFINE c == IF cached = hold[k] THEN NoSid ELSE cached
  <1>0. c \in 0 .. shakes /\ TakeSession(k, c)
    BY DEF CompanionTypeOK
  <1>t. /\ shakes' \in 0 .. MaxHandshakes /\ shakes <= shakes'
        /\ shake' \in [Sids -> {"none", "asked", "granted", "open", "failed"}]
        /\ cached' \in 1 .. shakes' /\ hold' \in [Ops -> 0 .. shakes'] /\ hold'[k] = cached'
        /\ \A p \in Ops : p # k => hold'[p] = hold[p]
        /\ \A s \in Sids : shake'[s] = "none" <=> s > shakes'
        /\ \A s \in Sids : shake[s] # "none" => shake'[s] = shake[s]
        /\ cached # hold[k] /\ cached # NoSid => cached' = cached /\ shake' = shake
        /\ cached = hold[k] => cached' = shakes + 1 /\ shake'[cached'] = "asked" /\ cached' \in Sids
    <2> HIDE DEF c
    <2>1. TakeSession(k, c) /\ c \in 0 .. shakes
      BY <1>0
    <2> QED BY <2>1, Taken DEF c
  <1>1. CompanionTypeOK'
    BY <1>t DEF CompanionTypeOK, CallsRight
  <1>2. CallsRight'
    BY <1>t DEF CompanionTypeOK, CallsRight
  <1> SUFFICES ASSUME MaxOverlap = 1, "evict" \notin upset PROVE OneByOne' /\ FirstAsked' /\ OnesFed'
    BY <1>1, <1>2
  <1>u. k \in Overlapping /\ cached = hold[k] /\ cached' = shakes + 1 /\ cached' \in Sids
    BY <1>t DEF OneByOne, Overlapping
  <1>v. shake[cached'] = "none" /\ shake'[cached'] = "asked" /\ ~Asked(cached')
    BY <1>t, <1>u DEF CallsRight, OnesFed, CompanionTypeOK
  <1>w. where'[k] = "renews" /\ \A o \in Ops : o # k => where'[o] = where[o]
    BY DEF CompanionTypeOK
  <1>x. /\ \A t \in Sids : (InAsking(t)' <=> InAsking(t)) /\ (Asked(t)' <=> Asked(t))
        /\ Distinct' <=> Distinct
    BY AskingKept
  <1>3. OneByOne'
    <2>1. \A o \in Overlapping' : o \in Overlapping
      BY <1>u, <1>w DEF Overlapping
    <2>2. \A o \in Overlapping' : o = k
      BY <2>1, <1>u DEF OneByOne
    <2>3. \A o \in Asks : where'[o] \in {"sent", "run", "unknown"} => o \in Overlapping'
      BY DEF Overlapping
    <2> QED BY <1>t, <1>w, <2>2, <2>3 DEF OneByOne
  <1>4. FirstAsked'
    <2>1. \A o \in Asks : where[o] = "renews" => o \in Overlapping
      BY DEF Overlapping
    <2>2. \A o \in Asks : where'[o] = "renews" => o = k
      BY <1>u, <1>w, <2>1 DEF OneByOne
    <2>3. hold'[k] = cached' /\ cached' \in Sids /\ ~Asked(cached')
      BY <1>t, <1>u, <1>v
    <2>4. k # Stream /\ Stream \in Ops
      BY DEF Stream
    <2> QED BY <1>w, <1>x, <2>2, <2>3, <2>4 DEF FirstAsked
  <1>5. OnesFed'
    <2>1. \A s \in Sids : Asked(s) => s # cached' /\ shake[s] = "open" /\ s \notin known
      BY <1>u, <1>v DEF OnesFed, OneByOne, Overlapping, CompanionTypeOK
    <2>2. \A s \in Sids : Asked(s)' => shake'[s] = "open" /\ s \notin known'
      BY <2>1, <1>t, <1>x
    <2> QED BY <1>x, <2>2 DEF OnesFed
  <1> QED BY <1>3, <1>4, <1>5

LEMMA GiveUpKeeps ==
  ASSUME CompanionInv, NEW k \in Asks, GiveUp(k)
  PROVE  CompanionInv'
  <1> USE CompanionAssumption DEF CompanionInv, GiveUp, Fail,
            phoneSide, shakeSide, opSide, processSide, Ops, Sids, NoSid
  <1>1. CompanionTypeOK'
    BY DEF CompanionTypeOK, CallsRight
  <1>2. CallsRight'
    BY DEF CompanionTypeOK, CallsRight
  <1> SUFFICES ASSUME MaxOverlap = 1, "evict" \notin upset PROVE OneByOne' /\ FirstAsked' /\ OnesFed'
    BY <1>1, <1>2
  <1>3. OneByOne'
    BY DEF CompanionTypeOK, CallsRight, OneByOne, Overlapping
  <1>4. FirstAsked'
    BY DEF CompanionTypeOK, CallsRight, OneByOne, Overlapping, FirstAsked, Asked, InAsking, Distinct, Stream
  <1>5. OnesFed'
    BY DEF CompanionTypeOK, CallsRight, OnesFed, FirstAsked, OneByOne, Overlapping, Asked, InAsking, Distinct
  <1> QED BY <1>3, <1>4, <1>5

LEMMA RenewedKeeps ==
  ASSUME CompanionInv, NEW k \in Asks, Renewed(k)
  PROVE  CompanionInv'
  <1> USE CompanionAssumption DEF CompanionInv, Renewed,
            phoneSide, shakeSide, opSide, processSide, Ops, Sids, NoSid
  <1>0. hold[k] \in Sids /\ k \in Ops
    BY DEF CompanionTypeOK, CallsRight
  <1>1. CompanionTypeOK'
    <2>1. asking' \in Seq(Sids)
      BY <1>0, Appended DEF CompanionTypeOK
    <2> QED BY <2>1 DEF CompanionTypeOK
  <1>2. CallsRight'
    BY DEF CompanionTypeOK, CallsRight
  <1> SUFFICES ASSUME MaxOverlap = 1, "evict" \notin upset PROVE OneByOne' /\ FirstAsked' /\ OnesFed'
    BY <1>1, <1>2
  <1>3. OneByOne'
    BY DEF CompanionTypeOK, CallsRight, OneByOne, Overlapping
  <1>4. FirstAsked'
    BY DEF CompanionTypeOK, CallsRight, OneByOne, Overlapping, FirstAsked, Asked, InAsking, Distinct, Stream
  <1>5. OnesFed'
    <2>1. ~Asked(hold[k]) /\ hold[k] = cached /\ shake[hold[k]] = "open"
      BY <1>0 DEF FirstAsked, OneByOne, Overlapping
    <2>2. CASE wanted
      <3>1. /\ \A t \in Sids : InAsking(t)' <=> InAsking(t) \/ t = hold[k]
            /\ Distinct'
        BY <1>0, <2>1, <2>2, Appended DEF CompanionTypeOK, OnesFed, Asked
      <3>2. ~(feeds[hold[k]] > 0) /\ feeds[hold[k]] # 1
        BY <2>1, <1>0 DEF Asked, CompanionTypeOK
      <3>3. \A t \in Sids : Asked(t)' <=> Asked(t) \/ t = hold[k]
        BY <3>1 DEF Asked
      <3> QED BY <2>1, <3>1, <3>2, <3>3 DEF OnesFed
    <2>3. CASE ~wanted
      <3>1. /\ \A t \in Sids : (InAsking(t)' <=> InAsking(t)) /\ (Asked(t)' <=> Asked(t))
            /\ Distinct' <=> Distinct
        BY <2>3, AskingKept
      <3> QED BY <3>1 DEF OnesFed
    <2> QED BY <2>2, <2>3
  <1> QED BY <1>3, <1>4, <1>5

LEMMA SubscribeKeeps ==
  ASSUME CompanionInv, Subscribe
  PROVE  CompanionInv'
  <1> USE CompanionAssumption DEF CompanionInv, Subscribe,
            phoneSide, shakeSide, opSide, processSide, Ops, Sids, NoSid
  <1>t. /\ shakes' \in 0 .. MaxHandshakes /\ shakes <= shakes'
        /\ shake' \in [Sids -> {"none", "asked", "granted", "open", "failed"}]
        /\ cached' \in 1 .. shakes' /\ hold' \in [Ops -> 0 .. shakes'] /\ hold'[Stream] = cached'
        /\ \A p \in Ops : p # Stream => hold'[p] = hold[p]
        /\ \A s \in Sids : shake'[s] = "none" <=> s > shakes'
        /\ \A s \in Sids : shake[s] # "none" => shake'[s] = shake[s]
        /\ cached # NoSid => cached' = cached /\ shake' = shake
        /\ cached = NoSid => cached' = shakes + 1 /\ shake'[cached'] = "asked" /\ cached' \in Sids
    BY Taken DEF CompanionTypeOK
  <1>1. CompanionTypeOK'
    BY <1>t DEF CompanionTypeOK, CallsRight
  <1>2. CallsRight'
    BY <1>t DEF CompanionTypeOK, CallsRight
  <1> SUFFICES ASSUME MaxOverlap = 1, "evict" \notin upset PROVE OneByOne' /\ FirstAsked' /\ OnesFed'
    BY <1>1, <1>2
  <1>3. OneByOne'
    <2>1. Overlapping = {}
      OBVIOUS
    <2>2. \A o \in Ops : o # Stream => where'[o] = where[o]
      BY DEF CompanionTypeOK
    <2>3. \A o \in Overlapping' : o = Stream
      BY <2>1, <2>2 DEF Overlapping
    <2>4. \A o \in Asks : where'[o] \in {"idle", "over"}
      BY <2>1, <2>2 DEF Overlapping, Stream
    <2> QED BY <1>t, <2>3, <2>4 DEF OneByOne
  <1>4. FirstAsked'
    BY <1>t DEF CompanionTypeOK, CallsRight, OneByOne, Overlapping, FirstAsked, Asked, InAsking, Distinct, Stream
  <1>5. OnesFed'
    <2>1. /\ \A t \in Sids : (InAsking(t)' <=> InAsking(t)) /\ (Asked(t)' <=> Asked(t))
          /\ Distinct' <=> Distinct
      BY AskingKept
    <2> QED BY <1>t, <2>1 DEF CompanionTypeOK, CallsRight, OnesFed, FirstAsked, OneByOne, Overlapping
  <1> QED BY <1>3, <1>4, <1>5

LEMMA SendSubscribeKeeps ==
  ASSUME CompanionInv, SendSubscribe
  PROVE  CompanionInv'
  <1> USE CompanionAssumption DEF CompanionInv, SendSubscribe,
            phoneSide, shakeSide, opSide, processSide, Ops, Sids, NoSid
  <1>0. hold[Stream] \in Sids /\ Stream \in Ops
    BY DEF CompanionTypeOK, CallsRight
  <1>1. CompanionTypeOK'
    <2>1. asking' \in Seq(Sids)
      BY <1>0, Appended DEF CompanionTypeOK
    <2> QED BY <2>1 DEF CompanionTypeOK
  <1>2. CallsRight'
    BY DEF CompanionTypeOK, CallsRight
  <1> SUFFICES ASSUME MaxOverlap = 1, "evict" \notin upset PROVE OneByOne' /\ FirstAsked' /\ OnesFed'
    BY <1>1, <1>2
  <1>3. OneByOne'
    BY DEF CompanionTypeOK, CallsRight, OneByOne, Overlapping
  <1>4. FirstAsked'
    BY DEF CompanionTypeOK, CallsRight, OneByOne, Overlapping, FirstAsked, Asked, InAsking, Distinct, Stream
  <1>5. OnesFed'
    <2>1. ~Asked(hold[Stream]) /\ (shake[hold[Stream]] = "open" => hold[Stream] = cached)
      BY <1>0 DEF FirstAsked, OneByOne, Overlapping
    <2>2. CASE shake[hold[Stream]] = "open"
      <3>1. /\ \A t \in Sids : InAsking(t)' <=> InAsking(t) \/ t = hold[Stream]
            /\ Distinct'
        BY <1>0, <2>1, <2>2, Appended DEF CompanionTypeOK, OnesFed, Asked
      <3>2. ~(feeds[hold[Stream]] > 0) /\ feeds[hold[Stream]] # 1
        BY <2>1, <1>0 DEF Asked, CompanionTypeOK
      <3>3. \A t \in Sids : Asked(t)' <=> Asked(t) \/ t = hold[Stream]
        BY <3>1 DEF Asked
      <3> QED BY <2>1, <2>2, <3>1, <3>2, <3>3 DEF OnesFed
    <2>3. CASE shake[hold[Stream]] # "open"
      <3>1. /\ \A t \in Sids : (InAsking(t)' <=> InAsking(t)) /\ (Asked(t)' <=> Asked(t))
            /\ Distinct' <=> Distinct
        BY <2>3, AskingKept
      <3> QED BY <3>1 DEF OnesFed
    <2> QED BY <2>2, <2>3
  <1> QED BY <1>3, <1>4, <1>5

LEMMA FeedKeeps ==
  ASSUME CompanionInv, Feed
  PROVE  CompanionInv'
  <1> USE CompanionAssumption DEF CompanionInv, Feed,
            phoneSide, shakeSide, opSide, processSide, Ops, Sids, NoSid
  <1>h. PICK h \in Sids : h = Head(asking)
    BY DEF CompanionTypeOK
  <1>0. /\ asking' \in Seq(Sids) /\ InAsking(h)
        /\ \A t \in Sids : InAsking(t)' => InAsking(t)
        /\ Distinct => Distinct' /\ ~InAsking(h)'
        /\ feeds' = IF h \in known THEN [feeds EXCEPT ![h] = @ + 1] ELSE feeds
    BY <1>h, Shortened DEF CompanionTypeOK
  <1>f. feeds' \in [Sids -> Nat] /\ \A s \in Sids : s # h \/ s \notin known => feeds'[s] = feeds[s]
    <2>1. feeds \in [Sids -> Nat]
      BY DEF CompanionTypeOK
    <2> QED BY <1>0, <2>1
  <1>1. CompanionTypeOK'
    BY <1>0, <1>f DEF CompanionTypeOK
  <1>2. CallsRight'
    BY DEF CompanionTypeOK, CallsRight
  <1> SUFFICES ASSUME MaxOverlap = 1, "evict" \notin upset PROVE OneByOne' /\ FirstAsked' /\ OnesFed'
    BY <1>1, <1>2
  <1>3. OneByOne'
    BY DEF CompanionTypeOK, CallsRight, OneByOne, Overlapping
  <1>4. FirstAsked'
    <2>1. \A s \in Sids : Asked(s)' => Asked(s)
      BY <1>0, <1>f DEF Asked
    <2>2. \A k \in Asks : where[k] = "renews" => hold[k] \in Sids
      BY DEF CompanionTypeOK, CallsRight
    <2> QED BY <2>1, <2>2 DEF FirstAsked
  <1>5. OnesFed'
    <2>1. \A s \in Sids : Asked(s)' => Asked(s)
      BY <1>0, <1>f DEF Asked
    <2>2. ~InAsking(h)' /\ Distinct'
      BY <1>0 DEF OnesFed
    <2>a. feeds[h] \in Nat /\ feeds[h] <= 1 /\ feeds[h] # 1
      BY <1>0 DEF OnesFed, CompanionTypeOK
    <2>b. feeds[h] = 0
      BY <2>a
    <2>3. feeds[h] = 0 /\ (h \in known => feeds'[h] = 1)
      BY <1>0, <2>b DEF CompanionTypeOK
    <2>4. ASSUME NEW s \in Sids PROVE feeds'[s] <= 1 /\ (feeds'[s] = 1 => s \in known /\ ~InAsking(s)')
      BY <1>0, <1>f, <2>2, <2>3 DEF OnesFed
    <2> QED BY <2>1, <2>2, <2>4 DEF OnesFed
  <1> QED BY <1>3, <1>4, <1>5

LEMMA RestartKeeps ==
  ASSUME CompanionInv, Restart
  PROVE  CompanionInv'
  <1> USE CompanionAssumption DEF CompanionInv, Restart,
            phoneSide, shakeSide, opSide, processSide, Ops, Sids, NoSid
  <1>1. CompanionTypeOK'
    BY DEF CompanionTypeOK, CallsRight
  <1>2. CallsRight'
    BY DEF CompanionTypeOK, CallsRight
  <1> SUFFICES ASSUME MaxOverlap = 1, "evict" \notin upset PROVE OneByOne' /\ FirstAsked' /\ OnesFed'
    BY <1>1, <1>2
  <1>3. OneByOne'
    BY DEF CompanionTypeOK, CallsRight, OneByOne, Overlapping
  <1>4. FirstAsked'
    BY DEF CompanionTypeOK, CallsRight, OneByOne, Overlapping, FirstAsked, Asked, InAsking, Distinct, Stream
  <1>5. OnesFed'
    BY DEF CompanionTypeOK, CallsRight, OnesFed, FirstAsked, OneByOne, Overlapping, Asked, InAsking, Distinct
  <1> QED BY <1>3, <1>4, <1>5

-----------------------------------------------------------------------------

LEMMA CompanionInitHolds == ASSUME CompanionInit PROVE CompanionInv
  <1> USE CompanionAssumption DEF CompanionInit
  <1>1. \A s \in Sids : ~Asked(s)
    BY DEF Asked, InAsking
  <1>2. CompanionTypeOK
    <2>1. asking \in Seq(Sids)
      OBVIOUS
    <2>2. 0 \in 0 .. MaxRestarts /\ 0 \in 0 .. MaxHandshakes /\ 0 \in 0 .. shakes /\ 0 \in Nat
      OBVIOUS
    <2> QED BY <2>1, <2>2 DEF CompanionTypeOK, NoSid
  <1>3. CallsRight
    BY DEF CallsRight, Sids, NoSid, Ops
  <1>4. Overlapping = {}
    BY DEF Overlapping, Ops
  <1>5. OneByOne
    BY <1>4 DEF OneByOne, Ops
  <1>6. FirstAsked
    BY <1>1 DEF FirstAsked, Ops
  <1>7. OnesFed
    BY <1>1 DEF OnesFed, Distinct
  <1> QED BY <1>2, <1>3, <1>5, <1>6, <1>7 DEF CompanionInv

LEMMA CompanionNextKeeps == ASSUME CompanionInv, [CompanionNext]_companionVars PROVE CompanionInv'
  <1>1. CASE UNCHANGED companionVars
    BY <1>1 DEF companionVars, phoneSide, shakeSide, opSide, processSide, CompanionInv, CompanionTypeOK,
                CallsRight, OneByOne, FirstAsked, OnesFed, Overlapping, Asked, InAsking, Distinct
  <1> QED
    BY <1>1, GrantKeeps, ShakeDoneKeeps, OpenFailsKeeps, EvictKeeps, AskKeeps, SendAskKeeps, NoSessionKeeps, RunsKeeps, UnknownKeeps, CallAnsweredKeeps, LostKeeps, RenewKeeps, GiveUpKeeps, RenewedKeeps, SubscribeKeeps, SendSubscribeKeeps, FeedKeeps, RestartKeeps
    DEF CompanionNext

\* Of the sessions that feed the stream at most one is known.
LEMMA FeedsAreOne == ASSUME CompanionTypeOK, OnesFed PROVE FedOnce
  <1>1. \A s \in Sids : feeds[s] \in Nat /\ feeds[s] <= 1
    BY DEF CompanionTypeOK, OnesFed
  <1>2. \A s \in Sids : feeds[s] = 1 => s = cached
    BY DEF OnesFed, Asked
  <1>3. ASSUME NEW s \in Sids, NEW t \in Sids, feeds[s] + feeds[t] = 2 PROVE s = t
    <2>1. feeds[s] = 1 /\ feeds[t] = 1
      BY <1>1, <1>3
    <2> QED BY <1>2, <2>1
  <1> QED BY <1>1, <1>3 DEF FedOnce

\* A call is run once at most, and as long as the phone's operations do not overlap
\* and no session is evicted no event reaches its stream twice.
THEOREM NothingTwice == CompanionSpec => []CompanionOK
  <1>1. CompanionInit => CompanionInv
    BY CompanionInitHolds
  <1>2. CompanionInv /\ [CompanionNext]_companionVars => CompanionInv'
    BY CompanionNextKeeps
  <1>3. CompanionInv => CompanionOK
    BY FeedsAreOne DEF CompanionInv, CallsRight, RunOnce, CompanionOK
  <1> QED BY <1>1, <1>2, <1>3, PTL DEF CompanionSpec
=============================================================================
