------------------------------- MODULE Attach -------------------------------
(***************************************************************************)
(* Desktops attached to a remote workspace process, one at a time:         *)
(* AttachHub, serve_connection and AttachClient of                         *)
(* crates/moon-app/src/attach.rs, and the card of                          *)
(* RemoteStatusOverlay.svelte that takes the workspace back.               *)
(*                                                                         *)
(* A caller makes one call; calls share nothing but the maps, so more of   *)
(* them would add no step of another kind. The bytes of a link that is cut *)
(* may still be read by the other end, or not.                             *)
(***************************************************************************)
EXTENDS Naturals, Sequences

CONSTANTS Desktops,
          Calling,     \* the desktops whose windows make a call
          MaxLinks,    \* bound: connections that are made
          LinkTroubles \* sets of "cut", "double": what may go wrong in a behaviour

ASSUME AttachAssumption == Calling \subseteq Desktops /\ MaxLinks \in Nat

Links == 1 .. MaxLinks
NoLink == 0
Detached == {}         \* a frame is the set of callers it answers

VARIABLES trouble,    \* the profile of this behaviour
          made,       \* connections made so far
          current,    \* AttachHub.current
          link,       \* per link: "none", "new", "open", "told" (Detached sent), "over"
          intact,     \* links whose byte stream works
          up,         \* per link: calls on their way
          down,       \* per link: frames on their way
          dispatches, \* dispatches that run: link and caller
          desk,       \* per desktop: where the connection loop is
          on,         \* per desktop: the link of its latest session
          left,       \* per desktop: how its latest session ended
          permit,     \* per desktop: the Notify's permit
          card,       \* desktops whose window shows the "detached" card
          clicked,    \* desktops whose user has clicked on that card
          waiters,    \* desktops whose call has its waiter in the map
          calls,      \* per desktop: "idle", "listed", "waits", "over"
          told        \* per desktop: what the caller was told

hubSide == <<made, current, link, intact, up, down, dispatches>>
deskSide == <<desk, on, left, permit, card, clicked>>
callSide == <<waiters, calls, told>>
attachVars == <<trouble, hubSide, deskSide, callSide>>

AttachTypeOK ==
  /\ made \in 0 .. MaxLinks /\ current \in Links \cup {NoLink}
  /\ link \in [Links -> {"none", "new", "open", "told", "over"}] /\ intact \subseteq Links
  /\ up \in [Links -> SUBSET Calling] /\ dispatches \subseteq Links \X Calling
  /\ desk \in [Desktops -> {"connect", "session", "failing", "telling", "waiting", "detached"}]
  /\ on \in [Desktops -> Links \cup {NoLink}]
  /\ left \in [Desktops -> {"none", "closed", "detached"}]
  /\ permit \cup card \cup clicked \subseteq Desktops /\ waiters \subseteq Calling
  /\ calls \in [Calling -> {"idle", "listed", "waits", "over"}]
  /\ told \in [Calling -> {"nothing", "answer", "refused", "lost"}]

AttachInit ==
  /\ trouble \in LinkTroubles /\ made = 0 /\ current = NoLink
  /\ link = [c \in Links |-> "none"] /\ intact = {}
  /\ up = [c \in Links |-> {}] /\ down = [c \in Links |-> <<>>] /\ dispatches = {}
  /\ desk = [d \in Desktops |-> "connect"] /\ on = [d \in Desktops |-> NoLink]
  /\ left = [d \in Desktops |-> "none"] /\ permit = {} /\ card = {} /\ clicked = {}
  /\ waiters = {} /\ calls = [d \in Calling |-> "idle"] /\ told = [d \in Calling |-> "nothing"]

-----------------------------------------------------------------------------
(* The workspace process.                                                  *)

\* Mutant of AttachLink: the desktop before it is not told.
AttachSilently(c) ==
  /\ link[c] = "new"
  /\ link' = [link EXCEPT ![c] = "open"] /\ current' = c
  /\ UNCHANGED <<trouble, made, intact, up, down, dispatches, deskSide, callSide>>

\* serve_connection attaches: the link replaces the current one, which is sent
\* Detached behind whatever it is still to be sent.
AttachLink(c) ==
  /\ link[c] = "new"
  /\ current' = c
  /\ LET old == {o \in Links : o = current /\ link[o] = "open"} IN
       /\ link' = [o \in Links |-> IF o = c THEN "open" ELSE IF o \in old THEN "told" ELSE link[o]]
       /\ down' = [o \in Links |-> IF o \in old THEN Append(down[o], Detached) ELSE down[o]]
  /\ UNCHANGED <<trouble, made, intact, up, dispatches, deskSide, callSide>>

\* A call is read and its dispatch spawned.
ReadCall(c, d) ==
  /\ link[c] \in {"open", "told"} /\ d \in up[c]
  /\ up' = [up EXCEPT ![c] = @ \ {d}]
  /\ dispatches' = dispatches \cup {<<c, d>>}
  /\ UNCHANGED <<trouble, made, current, link, intact, down, deskSide, callSide>>

\* The dispatch ends. Nothing is written behind Detached or to a closed link.
Dispatched(c, d) ==
  /\ <<c, d>> \in dispatches
  /\ dispatches' = dispatches \ {<<c, d>>}
  /\ down' = IF link[c] = "open" THEN [down EXCEPT ![c] = Append(@, {d})] ELSE down
  /\ UNCHANGED <<trouble, made, current, link, intact, up, deskSide, callSide>>

\* Mutant of ServerEnds: it takes away whatever link is current.
ServerEndsAny(c) ==
  /\ link[c] = "told" \/ (link[c] = "open" /\ c \notin intact)
  /\ link' = [link EXCEPT ![c] = "over"]
  /\ current' = NoLink
  /\ UNCHANGED <<trouble, made, intact, up, down, dispatches, deskSide, callSide>>

\* serve_connection ends: the writer has written Detached, or one of the two
\* loops has found the stream broken. It detaches if it still is the current one.
ServerEnds(c) ==
  /\ link[c] = "told" \/ (link[c] = "open" /\ c \notin intact)
  /\ link' = [link EXCEPT ![c] = "over"]
  /\ current' = IF current = c THEN NoLink ELSE current
  /\ UNCHANGED <<trouble, made, intact, up, down, dispatches, deskSide, callSide>>

\* The network, or the ssh that carries the link.
LinkCut(c) ==
  /\ "cut" \in trouble /\ c \in intact
  /\ intact' = intact \ {c}
  /\ UNCHANGED <<trouble, made, current, link, up, down, dispatches, deskSide, callSide>>

-----------------------------------------------------------------------------
(* The desktop's connection loop.                                          *)

\* connect() succeeds (a failed one is tried again after a pause), and session
\* sets outbound.
ConnectDesktop(d) ==
  /\ desk[d] = "connect" /\ made < MaxLinks
  /\ made' = made + 1
  /\ link' = [link EXCEPT ![made'] = "new"] /\ intact' = intact \cup {made'}
  /\ desk' = [desk EXCEPT ![d] = "session"] /\ on' = [on EXCEPT ![d] = made']
  /\ UNCHANGED <<trouble, current, up, down, dispatches, left, permit, card, clicked, callSide>>

\* A result reaches its waiter, if that is still there.
ReadResult(d) ==
  /\ desk[d] = "session" /\ down[on[d]] # <<>> /\ Head(down[on[d]]) = {d}
  /\ down' = [down EXCEPT ![on[d]] = Tail(@)]
  /\ waiters' = waiters \ {d}
  /\ calls' = IF d \in waiters THEN [calls EXCEPT ![d] = "over"] ELSE calls
  /\ told' = IF d \in waiters THEN [told EXCEPT ![d] = "answer"] ELSE told
  /\ UNCHANGED <<trouble, made, current, link, intact, up, dispatches, deskSide>>

\* The session's loop ends, by Detached or by the end of the stream; outbound is
\* cleared, the writer aborted and the guard dropped.
EndSession(d) ==
  /\ desk[d] = "session"
  /\ \/ /\ down[on[d]] # <<>> /\ Head(down[on[d]]) = Detached
        /\ left' = [left EXCEPT ![d] = "detached"]
     \/ /\ on[d] \notin intact \/ (link[on[d]] = "over" /\ down[on[d]] = <<>>)
        /\ left' = [left EXCEPT ![d] = "closed"]
  /\ desk' = [desk EXCEPT ![d] = "failing"]
  /\ intact' = intact \ {on[d]} /\ down' = [down EXCEPT ![on[d]] = <<>>]
  /\ UNCHANGED <<trouble, made, current, link, up, dispatches, on, permit, card, clicked, callSide>>

AfterSession(d) == IF left[d] = "detached" THEN "telling" ELSE "connect"

\* Mutant of FailPending: a session that ends by a takeover fails nobody.
FailPendingIfClosed(d) ==
  /\ desk[d] = "failing"
  /\ desk' = [desk EXCEPT ![d] = AfterSession(d)]
  /\ IF left[d] = "closed" /\ d \in waiters
     THEN /\ waiters' = waiters \ {d} /\ told' = [told EXCEPT ![d] = "lost"]
          /\ calls' = [calls EXCEPT ![d] = IF @ = "waits" THEN "over" ELSE @]
     ELSE UNCHANGED callSide
  /\ UNCHANGED <<trouble, hubSide, on, left, permit, card, clicked>>

\* fail_pending: every waiter in the map is told.
FailPending(d) ==
  /\ desk[d] = "failing"
  /\ desk' = [desk EXCEPT ![d] = AfterSession(d)]
  /\ waiters' = waiters \ {d}
  /\ told' = IF d \in waiters THEN [told EXCEPT ![d] = "lost"] ELSE told
  /\ calls' = IF d \in waiters /\ calls[d] = "waits" THEN [calls EXCEPT ![d] = "over"] ELSE calls
  /\ UNCHANGED <<trouble, hubSide, on, left, permit, card, clicked>>

\* The window is told that another desktop has the workspace ...
TellDetached(d) ==
  /\ desk[d] = "telling"
  /\ desk' = [desk EXCEPT ![d] = "waiting"]
  /\ card' = card \cup {d} /\ clicked' = clicked \ {d}
  /\ UNCHANGED <<trouble, hubSide, on, left, permit, callSide>>

\* Mutant of Wait: the permit stays.
WaitKeeps(d) ==
  /\ desk[d] = "waiting"
  /\ desk' = [desk EXCEPT ![d] = IF d \in permit THEN "connect" ELSE "detached"]
  /\ UNCHANGED <<trouble, hubSide, on, left, permit, card, clicked, callSide>>

\* ... and reattach.notified() is awaited: a stored permit is taken at once.
Wait(d) ==
  /\ desk[d] = "waiting"
  /\ desk' = [desk EXCEPT ![d] = IF d \in permit THEN "connect" ELSE "detached"]
  /\ permit' = permit \ {d}
  /\ UNCHANGED <<trouble, hubSide, on, left, card, clicked, callSide>>

\* The user sees the card and clicks "Use it here", once per card unless the
\* behaviour has double clicks.
Clicks(d) ==
  /\ d \in card /\ (d \in clicked => "double" \in trouble)
  /\ clicked' = clicked \cup {d}

\* Mutant of Reattach: only a loop that waits already is woken.
ReattachWaiting(d) ==
  /\ Clicks(d)
  /\ desk' = IF desk[d] = "detached" THEN [desk EXCEPT ![d] = "connect"] ELSE desk
  /\ UNCHANGED <<trouble, hubSide, on, left, permit, card, callSide>>

\* reattach: notify_one wakes the loop that waits, or leaves it a permit.
Reattach(d) ==
  /\ Clicks(d)
  /\ IF desk[d] = "detached"
     THEN desk' = [desk EXCEPT ![d] = "connect"] /\ permit' = permit
     ELSE desk' = desk /\ permit' = permit \cup {d}
  /\ UNCHANGED <<trouble, hubSide, on, left, card, callSide>>

\* The window learns that the loop is connecting again.
CardGoes(d) ==
  /\ d \in card /\ desk[d] \in {"connect", "session", "failing"}
  /\ card' = card \ {d}
  /\ UNCHANGED <<trouble, hubSide, desk, on, left, permit, clicked, callSide>>

-----------------------------------------------------------------------------
(* A call: its waiter is listed, then the frame is sent.                   *)

ListCall(d) ==
  /\ calls[d] = "idle"
  /\ calls' = [calls EXCEPT ![d] = "listed"] /\ waiters' = waiters \cup {d}
  /\ UNCHANGED <<trouble, hubSide, deskSide, told>>

\* The frame goes to the session that is there, perhaps not the one that was
\* there when the waiter was listed: then the caller has been told already.
SendCall(d) ==
  /\ calls[d] = "listed" /\ desk[d] = "session"
  /\ up' = [up EXCEPT ![on[d]] = @ \cup {d}]
  /\ calls' = [calls EXCEPT ![d] = IF d \in waiters THEN "waits" ELSE "over"]
  /\ UNCHANGED <<trouble, made, current, link, intact, down, dispatches, deskSide, waiters, told>>

\* No session, or its writer has met a broken stream.
SendCallRefused(d) ==
  /\ calls[d] = "listed" /\ (desk[d] = "session" => on[d] \notin intact)
  /\ waiters' = waiters \ {d}
  /\ calls' = [calls EXCEPT ![d] = "over"] /\ told' = [told EXCEPT ![d] = "refused"]
  /\ UNCHANGED <<trouble, hubSide, deskSide>>

-----------------------------------------------------------------------------
AttachNext ==
  \/ \E c \in Links :
       \/ AttachLink(c) \/ ServerEnds(c) \/ LinkCut(c)
       \/ \E d \in Calling : ReadCall(c, d) \/ Dispatched(c, d)
  \/ \E d \in Desktops :
       \/ ConnectDesktop(d) \/ EndSession(d) \/ FailPending(d)
       \/ TellDetached(d) \/ Wait(d) \/ Reattach(d) \/ CardGoes(d)
  \/ \E d \in Calling : ListCall(d) \/ SendCall(d) \/ SendCallRefused(d) \/ ReadResult(d)

\* Both processes' tasks run, and a dispatch comes back; nobody has to click, to
\* call, or to attach.
AttachFairness ==
  /\ \A c \in Links :
       /\ WF_attachVars(AttachLink(c)) /\ WF_attachVars(ServerEnds(c))
       /\ \A d \in Calling : WF_attachVars(ReadCall(c, d)) /\ WF_attachVars(Dispatched(c, d))
  /\ \A d \in Desktops :
       /\ WF_attachVars(EndSession(d)) /\ WF_attachVars(FailPending(d))
       /\ WF_attachVars(TellDetached(d)) /\ WF_attachVars(Wait(d))
  /\ \A d \in Calling : WF_attachVars(ReadResult(d)) /\ WF_attachVars(SendCall(d) \/ SendCallRefused(d))

AttachSpec == AttachInit /\ [][AttachNext]_attachVars /\ AttachFairness

-----------------------------------------------------------------------------
(* Properties                                                              *)

\* One desktop at a time, and it is the one that events go to: "a new attachment
\* detaches the previous one", whatever ends late.
OneAttached == \A c \in Links : link[c] = "open" <=> current = c

\* A call waits only while its session is there to answer or to fail it, and its
\* waiter is in the map.
WaitersKept ==
  \A d \in Calling : calls[d] = "waits" => d \in waiters /\ desk[d] \in {"session", "failing"}

\* A desktop that lost the workspace takes it back only when its user asks.
TakenBackAsked ==
  \A d \in Desktops :
    desk[d] \in {"connect", "session"} /\ left[d] = "detached" => d \in clicked

\* Well typed; one desktop, no call without its session, no fight over the
\* workspace unless somebody clicks twice.
AttachOK ==
  /\ AttachTypeOK /\ OneAttached /\ WaitersKept
  /\ "double" \notin trouble => TakenBackAsked

\* Every call comes back, and a click on the card is never lost.
AttachSettles ==
  /\ \A d \in Calling : calls[d] = "listed" ~> calls[d] = "over"
  /\ \A d \in Desktops :
       (d \in clicked /\ desk[d] \in {"waiting", "detached"}) ~> desk[d] = "connect"
=============================================================================
