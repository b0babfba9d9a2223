------------------------------ MODULE Companion -----------------------------
(***************************************************************************)
(* A phone's sealed sessions with one workspace process: the session cache *)
(* and the calls, the stream and the renewal of                            *)
(* companion/src/lib/transport.ts (and e2e.ts), and E2eEndpoint of         *)
(* crates/moon-remote/src/e2e.rs. The bridge between them is Bridge; here  *)
(* it loses a call or hands it on.                                         *)
(*                                                                         *)
(* A session is named by the handshake that opens it. The code between two *)
(* awaits of the phone is one step.                                        *)
(***************************************************************************)
EXTENDS Naturals, Sequences

CONSTANTS Asks,          \* calls, each made once
          MaxHandshakes, \* bound: handshakes that are begun
          MaxRestarts,   \* bound: restarts of the workspace process
          MaxOverlap,    \* calls and subscribe of the phone that overlap
          PhoneTroubles  \* sets of "lost", "evict": what may go wrong in a behaviour

ASSUME CompanionAssumption ==
  /\ MaxHandshakes \in Nat /\ MaxRestarts \in Nat /\ MaxOverlap \in Nat
  /\ "stream" \notin Asks

Sids == 1 .. MaxHandshakes
NoSid == 0
Stream == "stream"        \* the phone's subscribe, an operation beside the calls
Ops == Asks \cup {Stream}

VARIABLES upset,    \* the profile of this behaviour
          restarts, \* restarts so far
          known,    \* the process's sessions
          shakes,   \* handshakes begun
          shake,    \* per handshake: "none", "asked", "granted", "open", "failed"
          cached,   \* the session cache: the handshake it holds
          where,    \* per operation: where it is
          hold,     \* per operation: the handshake it uses
          tries,    \* calls that have renewed once
          outcome,  \* per call: what the phone was told
          ran,      \* per call: how often the process has run it
          wanted,   \* the stream is in #streams
          asking,   \* subscribe frames on their way
          feeds     \* per session: event forwarders of the process

shakeSide == <<shakes, shake, cached>>
opSide == <<hold, tries, outcome>>
phoneSide == <<shakeSide, opSide, where, wanted>>
processSide == <<restarts, known, ran, feeds>>
companionVars == <<upset, phoneSide, processSide, asking>>

CompanionTypeOK ==
  /\ restarts \in 0 .. MaxRestarts /\ shakes \in 0 .. MaxHandshakes /\ known \subseteq 1 .. shakes
  /\ shake \in [Sids -> {"none", "asked", "granted", "open", "failed"}]
  /\ cached \in 0 .. shakes /\ hold \in [Ops -> 0 .. shakes]
  /\ where \in [Ops -> {"idle", "awaits", "sent", "run", "unknown", "renews", "over"}]
  /\ tries \subseteq Asks /\ outcome \in [Asks -> {"none", "ok", "failed"}]
  /\ ran \in [Asks -> Nat] /\ wanted \in BOOLEAN
  /\ asking \in Seq(Sids) /\ feeds \in [Sids -> Nat]

CompanionInit ==
  /\ upset \in PhoneTroubles /\ restarts = 0 /\ known = {} /\ shakes = 0
  /\ shake = [s \in Sids |-> "none"] /\ cached = NoSid
  /\ where = [o \in Ops |-> "idle"] /\ hold = [o \in Ops |-> NoSid] /\ tries = {}
  /\ outcome = [k \in Asks |-> "none"] /\ ran = [k \in Asks |-> 0]
  /\ wanted = FALSE /\ asking = <<>> /\ feeds = [s \in Sids |-> 0]

-----------------------------------------------------------------------------
(* The handshakes.                                                         *)

\* #session for operation o, with c in the cache: that session, or a handshake
\* that is put there at once, so that whoever comes next shares it.
TakeSession(o, c) ==
  IF c # NoSid
  THEN hold' = [hold EXCEPT ![o] = c] /\ cached' = c /\ UNCHANGED <<shakes, shake>>
  ELSE /\ shakes < MaxHandshakes /\ shakes' = shakes + 1
       /\ shake' = [shake EXCEPT ![shakes'] = "asked"]
       /\ cached' = shakes' /\ hold' = [hold EXCEPT ![o] = shakes']

\* handle_open: the process keeps the new session, the reply is on its way.
Grant(s) ==
  /\ shake[s] = "asked"
  /\ shake' = [shake EXCEPT ![s] = "granted"] /\ known' = known \cup {s}
  /\ UNCHANGED <<upset, restarts, shakes, cached, where, opSide, wanted, ran, asking, feeds>>

ShakeDone(s) ==
  /\ shake[s] = "granted"
  /\ shake' = [shake EXCEPT ![s] = "open"]
  /\ UNCHANGED <<upset, processSide, shakes, cached, where, opSide, wanted, asking>>

\* The handshake is lost on either way: it leaves the cache.
OpenFails(s) ==
  /\ "lost" \in upset /\ shake[s] \in {"asked", "granted"}
  /\ shake' = [shake EXCEPT ![s] = "failed"]
  /\ cached' = IF cached = s THEN NoSid ELSE cached
  /\ UNCHANGED <<upset, processSide, shakes, where, opSide, wanted, asking>>

-----------------------------------------------------------------------------
(* A call.                                                                 *)

Overlapping == {o \in Ops : where[o] \notin {"idle", "over"}}

Ask(k) ==
  /\ where[k] = "idle" /\ (Overlapping = {} \/ MaxOverlap > 1)
  /\ TakeSession(k, cached)
  /\ where' = [where EXCEPT ![k] = "awaits"]
  /\ UNCHANGED <<upset, processSide, tries, outcome, wanted, asking>>

\* Sealed for the session and sent.
SendAsk(k) ==
  /\ k # Stream /\ where[k] = "awaits" /\ shake[hold[k]] = "open"
  /\ where' = [where EXCEPT ![k] = "sent"]
  /\ UNCHANGED <<upset, processSide, shakeSide, opSide, wanted, asking>>

Fail(k) ==
  /\ where' = [where EXCEPT ![k] = "over"] /\ outcome' = [outcome EXCEPT ![k] = "failed"]

\* The handshake it waits for has failed, at first or after a renewal.
NoSession(k) ==
  /\ k # Stream /\ where[k] \in {"awaits", "renews"} /\ shake[hold[k]] = "failed"
  /\ Fail(k)
  /\ UNCHANGED <<upset, processSide, shakeSide, hold, tries, wanted, asking>>

\* handle_call: the process runs the call of a session it knows ...
Runs(k) ==
  /\ where[k] = "sent" /\ hold[k] \in known
  /\ ran' = [ran EXCEPT ![k] = @ + 1]
  /\ where' = [where EXCEPT ![k] = "run"]
  /\ UNCHANGED <<upset, restarts, known, shakeSide, opSide, wanted, asking, feeds>>

\* ... and refuses that of one it does not.
Unknown(k) ==
  /\ where[k] = "sent" /\ hold[k] \notin known
  /\ where' = [where EXCEPT ![k] = "unknown"]
  /\ UNCHANGED <<upset, processSide, shakeSide, opSide, wanted, asking>>

CallAnswered(k) ==
  /\ where[k] = "run"
  /\ where' = [where EXCEPT ![k] = "over"] /\ outcome' = [outcome EXCEPT ![k] = "ok"]
  /\ UNCHANGED <<upset, processSide, shakeSide, hold, tries, wanted, asking>>

\* Mutant of Lost: what may have been lost is tried again.
LostRetries(k) ==
  /\ "lost" \in upset /\ k \in Asks /\ where[k] \in {"sent", "run"} /\ k \notin tries
  /\ where' = [where EXCEPT ![k] = "renews"] /\ tries' = tries \cup {k}
  /\ UNCHANGED <<upset, processSide, shakeSide, hold, outcome, wanted, asking>>

\* The bridge loses the call or its answer, and says so.
Lost(k) ==
  /\ "lost" \in upset /\ k \in Asks /\ where[k] \in {"sent", "run"}
  /\ Fail(k)
  /\ UNCHANGED <<upset, processSide, shakeSide, hold, tries, wanted, asking>>

\* #renew, once per call: the cache forgets the session unless it has another
\* one by now, and the call takes what is in the cache or begins a handshake.
Renew(k) ==
  /\ where[k] = "unknown" /\ k \notin tries
  /\ tries' = tries \cup {k}
  /\ TakeSession(k, IF cached = hold[k] THEN NoSid ELSE cached)
  /\ where' = [where EXCEPT ![k] = "renews"]
  /\ UNCHANGED <<upset, processSide, outcome, wanted, asking>>

GiveUp(k) ==
  /\ where[k] = "unknown" /\ k \in tries
  /\ Fail(k)
  /\ UNCHANGED <<upset, processSide, shakeSide, hold, tries, wanted, asking>>

\* Mutant of Renewed: the stream stays on the session that is gone.
RenewedCallOnly(k) ==
  /\ where[k] = "renews" /\ shake[hold[k]] = "open"
  /\ where' = [where EXCEPT ![k] = "awaits"]
  /\ UNCHANGED <<upset, processSide, shakeSide, opSide, wanted, asking>>

\* The renewed session is there: the stream is moved onto it, and the call is
\* made again.
Renewed(k) ==
  /\ where[k] = "renews" /\ shake[hold[k]] = "open"
  /\ asking' = IF wanted THEN Append(asking, hold[k]) ELSE asking
  /\ where' = [where EXCEPT ![k] = "awaits"]
  /\ UNCHANGED <<upset, processSide, shakeSide, opSide, wanted>>

-----------------------------------------------------------------------------
(* The stream, and the workspace process.                                  *)

Subscribe ==
  /\ where[Stream] = "idle" /\ (Overlapping = {} \/ MaxOverlap > 1)
  /\ wanted' = TRUE
  /\ TakeSession(Stream, cached)
  /\ where' = [where EXCEPT ![Stream] = "awaits"]
  /\ UNCHANGED <<upset, processSide, tries, outcome, asking>>

\* The subscribe frame is sent, or nothing at all if the handshake has failed.
SendSubscribe ==
  /\ where[Stream] = "awaits" /\ shake[hold[Stream]] \in {"open", "failed"}
  /\ asking' = IF shake[hold[Stream]] = "open" THEN Append(asking, hold[Stream]) ELSE asking
  /\ where' = [where EXCEPT ![Stream] = "over"]
  /\ UNCHANGED <<upset, processSide, shakeSide, opSide, wanted>>

\* E2eEndpoint::subscribe: a forwarder for a session that is known; otherwise an
\* error that no waiter of the phone hears.
Feed ==
  /\ asking # <<>> /\ asking' = Tail(asking)
  /\ feeds' = IF Head(asking) \in known THEN [feeds EXCEPT ![Head(asking)] = @ + 1] ELSE feeds
  /\ UNCHANGED <<upset, restarts, known, phoneSide, ran>>

\* The process restarts: its sessions and forwarders are gone.
Restart ==
  /\ restarts < MaxRestarts /\ restarts' = restarts + 1
  /\ known' = {} /\ feeds' = [s \in Sids |-> 0]
  /\ UNCHANGED <<upset, phoneSide, ran, asking>>

\* A session falls out of the map, as the one that was used longest ago; its
\* forwarders hold it and go on.
Evict(s) ==
  /\ "evict" \in upset /\ s \in known
  /\ known' = known \ {s}
  /\ UNCHANGED <<upset, restarts, phoneSide, ran, asking, feeds>>

-----------------------------------------------------------------------------
CompanionNext ==
  \/ \E s \in Sids : Grant(s) \/ ShakeDone(s) \/ OpenFails(s) \/ Evict(s)
  \/ \E k \in Asks :
       \/ Ask(k) \/ SendAsk(k) \/ NoSession(k) \/ Runs(k) \/ Unknown(k) \/ CallAnswered(k)
       \/ Lost(k) \/ Renew(k) \/ GiveUp(k) \/ Renewed(k)
  \/ Subscribe \/ SendSubscribe \/ Feed \/ Restart

\* What has begun goes on: the phone's promises, the bridge and the process.
CompanionFairness ==
  /\ \A s \in Sids : WF_companionVars(Grant(s) \/ ShakeDone(s))
  /\ \A k \in Asks :
       WF_companionVars(SendAsk(k) \/ NoSession(k) \/ Runs(k) \/ Unknown(k) \/ CallAnswered(k)
                          \/ Renew(k) \/ GiveUp(k) \/ Renewed(k))
  /\ WF_companionVars(SendSubscribe) /\ WF_companionVars(Feed)

CompanionSpec == CompanionInit /\ [][CompanionNext]_companionVars /\ CompanionFairness

-----------------------------------------------------------------------------
(* Properties                                                              *)

\* A call is run once at most: only one that was refused is made again.
RunOnce == \A k \in Asks : ran[k] <= 1 /\ (outcome[k] = "ok" => ran[k] = 1)

\* The phone's stream is fed by one forwarder at most, so that no event (and no
\* piece of a streamed text) reaches it twice.
FedOnce ==
  \A s \in Sids : feeds[s] <= 1 /\ \A t \in Sids : feeds[s] + feeds[t] = 2 => s = t

\* Well typed; calls at most once, and so events unless operations of the phone
\* overlap or sessions are evicted.
CompanionOK ==
  /\ CompanionTypeOK /\ RunOnce
  /\ (MaxOverlap = 1 /\ "evict" \notin upset) => FedOnce

\* The session a call was made on feeds the stream, or is gone.
Fed(k) == hold[k] # NoSid /\ (hold[k] \in known => feeds[hold[k]] >= 1)

\* A call comes back, and one that was made again on a new session has moved the
\* stream there, unless that session is gone as well.
CompanionSettles ==
  \A k \in Asks :
    /\ where[k] = "awaits" ~> where[k] = "over"
    /\ (wanted /\ k \in tries /\ outcome[k] = "ok") ~> Fed(k)

\* A subscription that fails is "surfaced by the next call on this workspace":
\* a call that is answered finds the stream on its session.
StreamHeard == \A k \in Asks : (wanted /\ outcome[k] = "ok") ~> Fed(k)
=============================================================================
