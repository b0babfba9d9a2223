------------------------------- MODULE Bridge -------------------------------
(***************************************************************************)
(* Forwarding from phones to the IDE processes of one enrolled host:       *)
(* handle_call, handle_subscribe, handle_register, the replies in          *)
(* handle_message and the end of handle_conn, all of                       *)
(* crates/moon-bridge/src/serve.rs.                                        *)
(*                                                                         *)
(* A connection is a reader loop and a writer task. The writer ends when a *)
(* write fails, or when every sender of its queue is gone - and the live   *)
(* table holds one of them. Every connection here has the workspace open.  *)
(***************************************************************************)
EXTENDS Naturals, Sequences

CONSTANTS Conns,    \* connection ids, in the order of their accept
          Calls,    \* forwarded calls, each from a phone of its own
          Streams,  \* forwarded subscriptions
          MaxEvents \* bound: messages of one stream that are told apart

ASSUME BridgeAssumption == Conns \subseteq Nat /\ Calls \cap Streams = {} /\ MaxEvents \in Nat

Forwards == Calls \cup Streams
NoConn == 0

VARIABLES peer,     \* the IDE process at the other end: "there" or "gone"
          writer,   \* the connection's writer task: "up" or "dead"
          reader,   \* its read loop: "open", "closed", "unlisted", "cleaned"
          live,     \* live_ides
          enrolled, \* the host's token is in the IdeStore
          at,       \* per forward: where its handler is
          via,      \* per forward: the connection it goes to
          pend,     \* pending_forwards and pending_streams
          begun,    \* streams whose entry is marked started
          fired,    \* forwards whose timeout task has run
          got       \* per forward: what the phone has been sent

bridgeVars == <<peer, writer, reader, live, enrolled, at, via, pend, begun, fired, got>>

BridgeTypeOK ==
  /\ peer \in [Conns -> {"there", "gone"}] /\ writer \in [Conns -> {"up", "dead"}]
  /\ reader \in [Conns -> {"open", "closed", "unlisted", "cleaned"}]
  /\ live \subseteq Conns /\ enrolled \in BOOLEAN
  /\ at \in [Forwards -> {"idle", "found", "listed", "sent", "void", "failed", "reaped", "done"}]
  /\ via \in [Forwards -> Conns \cup {NoConn}]
  /\ pend \subseteq Forwards /\ begun \subseteq Streams /\ fired \subseteq Forwards
  /\ \A f \in Forwards :
       got[f] \in Seq({"result", "event", "none", "timeout", "swept", "lost"})

BridgeInit ==
  /\ peer = [c \in Conns |-> "there"] /\ writer = [c \in Conns |-> "up"]
  /\ reader = [c \in Conns |-> "open"] /\ live = {} /\ enrolled = TRUE
  /\ at = [f \in Forwards |-> "idle"] /\ via = [f \in Forwards |-> NoConn]
  /\ pend = {} /\ begun = {} /\ fired = {} /\ got = [f \in Forwards |-> <<>>]

Tell(fs, what) == got' = [f \in Forwards |-> IF f \in fs THEN Append(got[f], what) ELSE got[f]]
AtConn(c) == {f \in Forwards : via[f] = c}
connVars == <<peer, writer, reader, live, enrolled>>

\* Nobody holds the lock of the live table: a connection's cleanup keeps it from
\* the removal to the end of the sweep.
TableFree == \A c \in Conns : reader[c] # "unlisted"

-----------------------------------------------------------------------------
(* The connections.                                                        *)

\* The IDE reports its workspaces, at first and whenever they change: the
\* connection is put (back) in the live table.
Register(c) ==
  /\ peer[c] = "there" /\ reader[c] = "open" /\ enrolled /\ c \notin live
  /\ TableFree
  /\ live' = live \cup {c}
  /\ UNCHANGED <<peer, writer, reader, enrolled, at, via, pend, begun, fired, got>>

\* The process ends, or the network loses it without a word.
PeerGoes(c) ==
  /\ peer[c] = "there"
  /\ peer' = [peer EXCEPT ![c] = "gone"]
  /\ UNCHANGED <<writer, reader, live, enrolled, at, via, pend, begun, fired, got>>

\* The read loop ends: a read error, a close frame, or READ_IDLE_TIMEOUT.
ReaderEnds(c) ==
  /\ peer[c] = "gone" /\ reader[c] = "open"
  /\ reader' = [reader EXCEPT ![c] = "closed"]
  /\ UNCHANGED <<peer, writer, live, enrolled, at, via, pend, begun, fired, got>>

HasSender(c) ==
  \/ reader[c] = "open" \/ c \in live
  \/ \E f \in AtConn(c) : at[f] \in {"found", "listed"}

\* A write or a ping fails, or takes longer than WRITE_WEDGE_TIMEOUT.
WriteFails(c) ==
  /\ writer[c] = "up" /\ peer[c] = "gone"
  /\ writer' = [writer EXCEPT ![c] = "dead"]
  /\ UNCHANGED <<peer, reader, live, enrolled, at, via, pend, begun, fired, got>>

\* recv() returns None: nobody can send any more.
WriterDrains(c) ==
  /\ writer[c] = "up" /\ ~HasSender(c)
  /\ writer' = [writer EXCEPT ![c] = "dead"]
  /\ UNCHANGED <<peer, reader, live, enrolled, at, via, pend, begun, fired, got>>

\* handle_conn has waited for the writer: it takes the connection out of the
\* live table. Somebody else may have done that, and then there is no sweep.
Unlist(c) ==
  /\ reader[c] = "closed" /\ writer[c] = "dead" /\ TableFree
  /\ reader' = [reader EXCEPT ![c] = IF c \in live THEN "unlisted" ELSE "cleaned"]
  /\ live' = live \ {c}
  /\ UNCHANGED <<peer, writer, enrolled, at, via, pend, begun, fired, got>>

\* Mutant of Sweep: the phones are told, the entries stay.
SweepKeeps(c) ==
  /\ reader[c] = "unlisted"
  /\ reader' = [reader EXCEPT ![c] = "cleaned"]
  /\ Tell(pend \cap AtConn(c), "swept")
  /\ UNCHANGED <<peer, writer, live, enrolled, at, via, pend, begun, fired>>

\* ... and fails what is in flight to it, with the table locked.
Sweep(c) ==
  /\ reader[c] = "unlisted"
  /\ reader' = [reader EXCEPT ![c] = "cleaned"]
  /\ pend' = pend \ AtConn(c)
  /\ Tell(pend \cap AtConn(c), "swept")
  /\ UNCHANGED <<peer, writer, live, enrolled, at, via, begun, fired>>

\* The desktop revokes the host: its connections leave the live table.
Revoke ==
  /\ enrolled /\ enrolled' = FALSE /\ TableFree /\ live' = {}
  /\ UNCHANGED <<peer, writer, reader, at, via, pend, begun, fired, got>>

-----------------------------------------------------------------------------
(* A forward: find a connection, list the forward, send it.                *)

\* find_ide_conn: the newest live connection; an error when there is none.
Find(f) ==
  /\ at[f] = "idle" /\ TableFree
  /\ \/ /\ live = {}
        /\ at' = [at EXCEPT ![f] = "done"] /\ Tell({f}, "none") /\ UNCHANGED via
     \/ /\ \E c \in live : /\ \A d \in live : d <= c
                          /\ via' = [via EXCEPT ![f] = c]
        /\ at' = [at EXCEPT ![f] = "found"] /\ UNCHANGED got
  /\ UNCHANGED <<peer, writer, reader, live, enrolled, pend, begun, fired>>

\* The entry is there before the request is sent.
List(f) ==
  /\ at[f] = "found"
  /\ at' = [at EXCEPT ![f] = "listed"]
  /\ pend' = pend \cup {f}
  /\ UNCHANGED <<connVars, via, begun, fired, got>>

\* The queue takes the request while the writer is up, whether or not there is
\* still an IDE to read it ("void").
Send(f) ==
  /\ at[f] = "listed"
  /\ at' = [at EXCEPT ![f] = CASE writer[via[f]] = "dead" -> "failed"
                               [] writer[via[f]] # "dead" /\ peer[via[f]] = "gone" -> "void"
                               [] OTHER -> "sent"]
  /\ UNCHANGED <<connVars, via, pend, begun, fired, got>>

\* The send failed: the connection is taken out of the live table ...
ReapConn(f) ==
  /\ at[f] = "failed" /\ TableFree
  /\ at' = [at EXCEPT ![f] = "reaped"]
  /\ live' = live \ {via[f]}
  /\ UNCHANGED <<peer, writer, reader, enrolled, via, pend, begun, fired, got>>

\* Mutant of Drop: the phone is told nothing when its request could not be sent.
DropSilently(f) ==
  /\ at[f] = "reaped"
  /\ at' = [at EXCEPT ![f] = "done"]
  /\ pend' = pend \ {f}
  /\ UNCHANGED <<connVars, via, begun, fired, got>>

\* ... the entry is removed and the phone told, whoever else has told it.
Drop(f) ==
  /\ at[f] = "reaped"
  /\ at' = [at EXCEPT ![f] = "done"]
  /\ pend' = pend \ {f}
  /\ Tell({f}, "lost")
  /\ UNCHANGED <<connVars, via, begun, fired>>

\* Mutant of Timeout: a stream that has begun is timed out like any other.
TimeoutAny(f) ==
  /\ at[f] \in {"sent", "void"} /\ f \notin fired
  /\ fired' = fired \cup {f}
  /\ pend' = pend \ {f}
  /\ Tell(pend \cap {f}, "timeout")
  /\ UNCHANGED <<connVars, at, via, begun>>

\* FORWARD_TIMEOUT is over: only an entry that is still there, and no stream
\* that has begun.
Timeout(f) ==
  /\ at[f] \in {"sent", "void"} /\ f \notin fired
  /\ fired' = fired \cup {f}
  /\ pend' = pend \ ({f} \ begun)
  /\ Tell(pend \cap ({f} \ begun), "timeout")
  /\ UNCHANGED <<connVars, at, via, begun>>

\* Mutant of Reply: the phone is answered whether or not the entry is there.
ReplyAlways(f) ==
  /\ f \in Calls /\ at[f] = "sent" /\ reader[via[f]] = "open"
  /\ at' = [at EXCEPT ![f] = "done"]
  /\ pend' = pend \ {f}
  /\ Tell({f}, "result")
  /\ UNCHANGED <<connVars, via, begun, fired>>

\* ForwardResult or ForwardError, while the entry is there.
Reply(f) ==
  /\ f \in Calls /\ at[f] = "sent" /\ reader[via[f]] = "open"
  /\ at' = [at EXCEPT ![f] = "done"]
  /\ pend' = pend \ {f}
  /\ Tell(pend \cap {f}, "result")
  /\ UNCHANGED <<connVars, via, begun, fired>>

\* ForwardEvent: the entry is marked started.
Event(f) ==
  /\ f \in Streams /\ at[f] = "sent" /\ reader[via[f]] = "open" /\ f \in pend
  /\ Len(got[f]) < MaxEvents
  /\ begun' = begun \cup {f}
  /\ Tell({f}, "event")
  /\ UNCHANGED <<connVars, at, via, pend, fired>>

\* ForwardEnd: the entry goes; the phone is not told.
End(f) ==
  /\ f \in Streams /\ at[f] = "sent" /\ reader[via[f]] = "open"
  /\ at' = [at EXCEPT ![f] = "done"]
  /\ pend' = pend \ {f}
  /\ UNCHANGED <<connVars, via, begun, fired, got>>

-----------------------------------------------------------------------------

Handler(f) == List(f) \/ Send(f) \/ ReapConn(f) \/ Drop(f) \/ Timeout(f)

BridgeNext ==
  \/ \E c \in Conns : \/ Register(c) \/ PeerGoes(c) \/ ReaderEnds(c)
                      \/ WriteFails(c) \/ WriterDrains(c) \/ Unlist(c) \/ Sweep(c)
  \/ Revoke
  \/ \E f \in Forwards : \/ Find(f) \/ Handler(f)
                         \/ Reply(f) \/ Event(f) \/ End(f)

\* The handlers, the timeout tasks and a sweep are tokio tasks that run; nothing is
\* assumed of the IDEs and the network.
BridgeFairness ==
  /\ \A f \in Forwards : WF_bridgeVars(Handler(f))
  /\ \A c \in Conns : WF_bridgeVars(Sweep(c))

\* ... but a reader that has ended has its idle deadline, not the network, to
\* thank for it.
CleanupFairness ==
  \A c \in Conns : WF_bridgeVars(WriterDrains(c)) /\ WF_bridgeVars(Unlist(c))

BridgeSpec == BridgeInit /\ [][BridgeNext]_bridgeVars /\ BridgeFairness
BridgeCleans == BridgeSpec /\ CleanupFairness

-----------------------------------------------------------------------------

\* A call is answered once, whatever overtakes what: the reply, the timeout, the
\* sweep. The exception the code has is a call whose connection was swept while
\* its handler stood between the entry and the send: it is told twice.
OneAnswer ==
  \A f \in Calls : Len(got[f]) <= 1 \/ got[f] = <<"swept", "lost">>

\* An entry is of a call that nobody has answered: the maps do not keep what is
\* over, and nothing answers out of them a second time.
PendingIsOpen ==
  \A f \in pend : got[f] = <<>> \/ (f \in begun /\ \A i \in DOMAIN got[f] : got[f][i] = "event")

\* A stream that has delivered is not ended by the startup timeout, however
\* long it is silent.
LiveStreamKept ==
  \A f \in Streams : "event" \in {got[f][i] : i \in DOMAIN got[f]}
                       => "timeout" \notin {got[f][i] : i \in DOMAIN got[f]}

\* Well typed; one answer, nothing kept that is over, and no live stream ended.
BridgeOK == BridgeTypeOK /\ OneAnswer /\ PendingIsOpen /\ LiveStreamKept

\* Whoever asks is told: no order of deaths, sweeps, timeouts and revocations
\* leaves a call, or a stream that has not begun, without an answer.
Answered ==
  \A f \in Forwards : (at[f] = "found") ~> (got[f] # <<>> \/ (f \in Streams /\ f \notin pend))

\* A call is answered exactly once (it is not: see OneAnswer).
AnsweredOnce == \A f \in Calls : Len(got[f]) <= 1

\* "sweep all in-flight forwards for it": when the connection's task is over,
\* nothing is in flight to it.
SweptAll == \A c \in Conns : reader[c] = "cleaned" => pend \cap AtConn(c) = {}

\* "Read-silence deadline ... the connection is torn down and any IDE
\* registration reaped": a read loop that has ended leads to that.
GhostReaped == \A c \in Conns : (reader[c] = "closed") ~> (c \notin live)
=============================================================================
