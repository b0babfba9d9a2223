-------------------------------- MODULE Mcp --------------------------------
(* The connections to one MCP server: an instance per session, spawned by  *)
(* the first call, kept across turns, dropped when the server is disabled, *)
(* the session deleted or the bash target flipped, and reaped when the     *)
(* session has been idle.  Bounds: MaxTurns turns per session with one     *)
(* call each, MaxConns spawns; Grace counts ticks.                         *)
EXTENDS Naturals

CONSTANTS
  Sessions, MaxTurns, MaxConns, Grace,
  McpEvents       \* sets of what may happen, among "dies", "late" (a reply
                  \* comes too late or Esc), "disable", "delete" and "flip"

NoHandshake == "free"

ASSUME McpAssumption ==
  /\ MaxTurns \in Nat /\ MaxConns \in Nat /\ Grace \in Nat
  /\ NoHandshake \notin Sessions

VARIABLES
  mcpEvent,
  turns,          \* how many turns each session has begun
  running,        \* sessions with a turn
  idle,           \* ticks since the last turn ended, Grace at most
  reaper,         \* per turn that has ended: ticks its reaper still sleeps
  reaping,        \* the reapers that have woken and wait for the map's lock
  conns,          \* the map: the connection of each session, 0 without one
  spawned,        \* how many connections there have been
  living,          \* those whose process runs
  call,           \* where the call of each session's turn is
  used,           \* the connection it uses
  mapLock,        \* the session whose handshake holds the map's lock
  moved,          \* connections spawned for the target after a flip
  asked,          \* how far the flip was when each session's call resolved its target
  flip,           \* "no", "set", "done"
  deleting        \* sessions that are being deleted: "no", "dropped", "done"

mcpVars == <<mcpEvent, turns, running, idle, reaper, reaping, conns, spawned, living,
             call, used, mapLock, moved, asked, flip, deleting>>

Instances == 1 .. MaxConns
Off == Grace + 1

McpInit ==
  /\ mcpEvent \in McpEvents
  /\ turns = [s \in Sessions |-> 0] /\ running = {}
  /\ idle = [s \in Sessions |-> 0]
  /\ reaper = [s \in Sessions |-> [k \in 1 .. MaxTurns |-> Off]] /\ reaping = {}
  /\ conns = [s \in Sessions |-> 0] /\ spawned = 0 /\ living = {}
  /\ call = [s \in Sessions |-> "none"] /\ used = [s \in Sessions |-> 0]
  /\ mapLock = NoHandshake
  /\ moved = {} /\ asked = [s \in Sessions |-> "no"] /\ flip = "no"
  /\ deleting = [s \in Sessions |-> "no"]

\* A connection that neither the map nor a call refers to is dropped, and its
\* process killed.
HeldIn(map, use) == {c \in Instances : \E s \in Sessions : map[s] = c \/ use[s] = c}
Refer(map, use, procs) ==
  conns' = map /\ used' = use /\ living' = procs \cap HeldIn(map, use)

Without(ss) == [s \in Sessions |-> IF s \in ss THEN 0 ELSE conns[s]]
KeepTime == UNCHANGED <<turns, idle, reaper, reaping>>
KeepUser == UNCHANGED <<mcpEvent, asked, flip, deleting>>
KeepConns == UNCHANGED <<conns, spawned, living, used, mapLock, moved>>

-----------------------------------------------------------------------------
(* Turns *)

BeginTurn(s) ==
  /\ s \notin running /\ turns[s] < MaxTurns /\ deleting[s] = "no"
  /\ running' = running \cup {s} /\ turns' = [turns EXCEPT ![s] = @ + 1]
  /\ call' = [call EXCEPT ![s] = "ready"]
  /\ UNCHANGED <<idle, reaper, reaping>> /\ KeepConns /\ KeepUser

\* The end of a turn, whichever way it ends, starts a reaper.
\* Mutant of EndTurn: only a turn with a call does.
EndTurnSparing(s) ==
  /\ s \in running /\ call[s] \in {"none", "ready"}
  /\ running' = running \ {s} /\ call' = [call EXCEPT ![s] = "none"]
  /\ idle' = [idle EXCEPT ![s] = 0]
  /\ reaper' = IF call[s] = "none" /\ deleting[s] = "no"
               THEN [reaper EXCEPT ![s][turns[s]] = Grace] ELSE reaper
  /\ asked' = [asked EXCEPT ![s] = "no"]
  /\ UNCHANGED <<turns, reaping, mcpEvent, flip, deleting>> /\ KeepConns

EndTurn(s) ==
  /\ s \in running /\ call[s] \in {"none", "ready"}
  /\ running' = running \ {s} /\ call' = [call EXCEPT ![s] = "none"]
  /\ idle' = [idle EXCEPT ![s] = 0]
  /\ reaper' = [reaper EXCEPT ![s][turns[s]] = Grace]
  /\ asked' = [asked EXCEPT ![s] = "no"]
  /\ UNCHANGED <<turns, reaping, mcpEvent, flip, deleting>> /\ KeepConns

-----------------------------------------------------------------------------
(* A call: connection, request *)

\* mcp_spawn_target is resolved, then the map's lock is waited for.
WantCall(s) ==
  /\ s \in running /\ call[s] = "ready"
  /\ call' = [call EXCEPT ![s] = "want"]
  /\ asked' = [asked EXCEPT ![s] = flip]
  /\ UNCHANGED <<mcpEvent, running, flip, deleting>> /\ KeepTime /\ KeepConns

\* A live connection is taken...
Reuse(s) ==
  /\ call[s] = "want" /\ mapLock = NoHandshake /\ conns[s] \in living
  /\ call' = [call EXCEPT ![s] = "ask"]
  /\ used' = [used EXCEPT ![s] = conns[s]]
  /\ UNCHANGED <<running, conns, spawned, living, mapLock, moved>> /\ KeepTime /\ KeepUser

\* ...or one is spawned, and greeted with the lock held.
\* Mutant of Connect: a connection whose process has died is taken, too.
ConnectOnce(s) ==
  /\ call[s] = "want" /\ mapLock = NoHandshake /\ conns[s] = 0 /\ spawned < MaxConns
  /\ spawned' = spawned + 1 /\ mapLock' = s
  /\ call' = [call EXCEPT ![s] = "greet"]
  /\ moved' = IF asked[s] = "no" THEN moved ELSE moved \cup {spawned + 1}
  /\ Refer(Without({s}), [used EXCEPT ![s] = spawned + 1], living \cup {spawned + 1})
  /\ UNCHANGED running /\ KeepTime /\ KeepUser

Connect(s) ==
  /\ call[s] = "want" /\ mapLock = NoHandshake /\ conns[s] \notin living /\ spawned < MaxConns
  /\ spawned' = spawned + 1 /\ mapLock' = s
  /\ call' = [call EXCEPT ![s] = "greet"]
  /\ moved' = IF asked[s] = "no" THEN moved ELSE moved \cup {spawned + 1}
  /\ Refer(Without({s}), [used EXCEPT ![s] = spawned + 1], living \cup {spawned + 1})
  /\ UNCHANGED running /\ KeepTime /\ KeepUser

\* The bound on spawns: the command cannot be started.
SpawnFails(s) ==
  /\ call[s] = "want" /\ mapLock = NoHandshake /\ conns[s] \notin living /\ spawned = MaxConns
  /\ call' = [call EXCEPT ![s] = "none"]
  /\ Refer(Without({s}), used, living)
  /\ UNCHANGED <<running, spawned, mapLock, moved>> /\ KeepTime /\ KeepUser

\* Mutant of Greeted: the map's key leaves out the session.
GreetedForAll(s) ==
  /\ call[s] = "greet" /\ used[s] \in living
  /\ mapLock' = NoHandshake
  /\ call' = [call EXCEPT ![s] = "ask"]
  /\ conns' = [t \in Sessions |-> used[s]]
  /\ UNCHANGED <<running, spawned, living, used, moved>> /\ KeepTime /\ KeepUser

\* The handshake is over: the connection is in the map.
Greeted(s) ==
  /\ call[s] = "greet" /\ used[s] \in living
  /\ mapLock' = NoHandshake
  /\ call' = [call EXCEPT ![s] = "ask"]
  /\ conns' = [conns EXCEPT ![s] = used[s]]
  /\ UNCHANGED <<running, spawned, living, used, moved>> /\ KeepTime /\ KeepUser

\* No greeting in time, Esc, or the process died: nothing is kept.
GreetFails(s) ==
  /\ call[s] = "greet" /\ (used[s] \notin living \/ "late" \in mcpEvent)
  /\ mapLock' = NoHandshake
  /\ call' = [call EXCEPT ![s] = "none"]
  /\ Refer(conns, [used EXCEPT ![s] = 0], living)
  /\ UNCHANGED <<running, spawned, moved>> /\ KeepTime /\ KeepUser

Replied(s) ==
  /\ call[s] = "ask" /\ used[s] \in living
  /\ call' = [call EXCEPT ![s] = "none"]
  /\ Refer(conns, [used EXCEPT ![s] = 0], living)
  /\ UNCHANGED <<running, spawned, mapLock, moved>> /\ KeepTime /\ KeepUser

\* The request fails: Esc, a timeout, or the reader's "exited"; when the
\* process is dead, every session's instance is dropped.
RequestFails(s) ==
  /\ call[s] = "ask" /\ (used[s] \notin living \/ "late" \in mcpEvent)
  /\ call' = [call EXCEPT ![s] = IF used[s] \in living THEN "none" ELSE "drop"]
  /\ Refer(conns, [used EXCEPT ![s] = 0], living)
  /\ UNCHANGED <<running, spawned, mapLock, moved>> /\ KeepTime /\ KeepUser

DropServer(s) ==
  /\ call[s] = "drop" /\ mapLock = NoHandshake
  /\ call' = [call EXCEPT ![s] = "none"]
  /\ Refer(Without(Sessions), used, living)
  /\ UNCHANGED <<running, spawned, mapLock, moved>> /\ KeepTime /\ KeepUser

InstanceDies(c) ==
  /\ "dies" \in mcpEvent /\ c \in living
  /\ living' = living \ {c}
  /\ UNCHANGED <<running, call, conns, spawned, used, mapLock, moved>> /\ KeepTime /\ KeepUser

-----------------------------------------------------------------------------
(* What drops connections *)

Disable ==
  /\ "disable" \in mcpEvent /\ mapLock = NoHandshake /\ Without(Sessions) # conns
  /\ Refer(Without(Sessions), used, living)
  /\ UNCHANGED <<running, call, spawned, mapLock, moved>> /\ KeepTime /\ KeepUser

\* set_force_host_bash: the flag, then the connections.
FlipTarget ==
  /\ "flip" \in mcpEvent /\ flip = "no"
  /\ flip' = "set"
  /\ UNCHANGED <<mcpEvent, running, call, asked, deleting>> /\ KeepTime /\ KeepConns

FlipDrop ==
  /\ flip = "set" /\ mapLock = NoHandshake
  /\ flip' = "done"
  /\ Refer(Without(Sessions), used, living)
  /\ UNCHANGED <<mcpEvent, running, call, spawned, mapLock, moved, asked, deleting>> /\ KeepTime

\* delete_session_in: the connections are dropped before the turn is cancelled.
DeleteDrop(s) ==
  /\ "delete" \in mcpEvent /\ deleting[s] = "no" /\ mapLock = NoHandshake
  /\ deleting' = [deleting EXCEPT ![s] = "dropped"]
  /\ Refer(Without({s}), used, living)
  /\ UNCHANGED <<mcpEvent, running, call, spawned, mapLock, moved, asked, flip>> /\ KeepTime

-----------------------------------------------------------------------------
(* The idle-grace reaper *)

Due == \E s \in Sessions, k \in 1 .. MaxTurns : reaper[s][k] = 0

\* Time passes; a reaper that is due wakes first.
TimePasses ==
  /\ ~Due
  /\ \E s \in Sessions, k \in 1 .. MaxTurns : reaper[s][k] # Off
  /\ reaper' = [s \in Sessions |-> [k \in 1 .. MaxTurns |->
                  IF reaper[s][k] = Off THEN Off ELSE reaper[s][k] - 1]]
  /\ idle' = [s \in Sessions |-> IF idle[s] < Grace THEN idle[s] + 1 ELSE Grace]
  /\ UNCHANGED <<turns, running, reaping, call>> /\ KeepConns /\ KeepUser

\* It looks whether a turn runs now.
ReaperWakes(s) ==
  \E k \in 1 .. MaxTurns :
    /\ reaper[s][k] = 0
    /\ reaper' = [reaper EXCEPT ![s][k] = Off]
    /\ reaping' = IF s \in running THEN reaping ELSE reaping \cup {s}
    /\ UNCHANGED <<turns, running, idle, call>> /\ KeepConns /\ KeepUser

ReapIdle(s) ==
  /\ s \in reaping /\ mapLock = NoHandshake
  /\ reaping' = reaping \ {s}
  /\ Refer(Without({s}), used, living)
  /\ UNCHANGED <<turns, running, idle, reaper, call, spawned, mapLock, moved>> /\ KeepUser

-----------------------------------------------------------------------------
CallStep(s) ==
  \/ Reuse(s) \/ Connect(s) \/ SpawnFails(s) \/ Greeted(s) \/ GreetFails(s)
  \/ Replied(s) \/ RequestFails(s) \/ DropServer(s)

McpNext ==
  \/ \E s \in Sessions :
       \/ BeginTurn(s) \/ EndTurn(s) \/ WantCall(s) \/ CallStep(s)
       \/ DeleteDrop(s) \/ ReaperWakes(s) \/ ReapIdle(s)
  \/ \E c \in Instances : InstanceDies(c)
  \/ Disable \/ FlipTarget \/ FlipDrop \/ TimePasses

McpSpec == McpInit /\ [][McpNext]_mcpVars

\* Requests end by a reply, an exit or a timeout; turns end (TurnLoop); time
\* passes.  The lock is granted in turn.
McpFairness ==
  /\ \A s \in Sessions :
       /\ WF_mcpVars(EndTurn(s)) /\ SF_mcpVars(CallStep(s))
       /\ WF_mcpVars(ReaperWakes(s)) /\ SF_mcpVars(ReapIdle(s))
  /\ WF_mcpVars(TimePasses) /\ SF_mcpVars(FlipDrop)
McpFairSpec == McpSpec /\ McpFairness

-----------------------------------------------------------------------------
(* Properties *)

McpTypeOK ==
  /\ conns \in [Sessions -> 0 .. spawned] /\ used \in [Sessions -> 0 .. spawned]
  /\ living \subseteq HeldIn(conns, used)
  /\ mapLock \in Sessions \cup {NoHandshake}
  /\ \A s \in Sessions : mapLock = s <=> call[s] = "greet"

\* A session has one instance of the server at most, and no two share one.
OwnInstance ==
  \A s, t \in Sessions : s # t =>
    /\ conns[s] # 0 => conns[s] \notin {conns[t], used[t]}
    /\ used[s] # 0 => used[s] # used[t]

\* Every call comes back, whatever dies, is dropped or waits for the lock.
CallsEnd == \A s \in Sessions : call[s] = "want" ~> call[s] = "none"

\* A session that stays idle, deleted ones included, gives up its server.
IdleReaped ==
  \A s \in Sessions : (s \notin running /\ conns[s] # 0) ~> (s \in running \/ conns[s] = 0)

\* "If no new turn starts within the grace window": the reaper takes the server
\* of a session only when its last turn is that long ago.
GraceKept ==
  [][\A s \in Sessions : ReapIdle(s) /\ conns[s] # 0 => idle[s] >= Grace]_mcpVars

\* Well typed, and an instance of their own for every session.
McpOK == McpTypeOK /\ OwnInstance

\* A call that begins after a flip is not served from the environment before it.
TargetRight ==
  \A s \in Sessions : call[s] = "ask" /\ asked[s] = "done" => used[s] \in moved
=============================================================================
