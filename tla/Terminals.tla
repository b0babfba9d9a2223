----------------------------- MODULE Terminals -----------------------------
(* One terminal that an agent has opened: its shells, one after the other, *)
(* the supervisor of each, the two maps that know the terminal (stream     *)
(* handles; the registry the coder reads), the agents' restarts and        *)
(* closes, and the tab, which the window closes when it hears that a shell *)
(* has ended.  Bound: every agent opens, restarts or closes it once.       *)
EXTENDS Naturals, Sequences, FiniteSets

CONSTANTS
  Agents,
  Bustles         \* sets of complications, among "closes" (closes overlap each
                  \* other and a shell's own end), "overlap" (so do restarts),
                  \* "fails" (a shell cannot be spawned), "stale" (a shell ends
                  \* by itself while it is restarted, or is restarted before its
                  \* tab has closed) and "quick" (a shell ends before its tab is made)

ASSUME TerminalsAssumption == IsFiniteSet(Agents) /\ "window" \notin Agents

VARIABLES
  bustle,
  shell,          \* of each: "none", "runs", "ended" by itself, "killed"
  pump,           \* its supervisor: "none", "serves", "reaps", "unlists", "marks", "gone"
  unheld,         \* shells whose handle was dropped
  aborted,        \* and whose supervisor was aborted
  handle,         \* terminal_streams: the shell whose handle it holds, 0 if none
  listing,        \* TerminalRegistry: "none", "live", "exited"
  mail,           \* events on their way to the window
  tab,            \* "none", "open", "shut"
  doing,          \* operations of the agents and the window
  unwanted        \* shells that somebody wanted to be rid of

termVars == <<bustle, shell, pump, unheld, aborted, handle, listing, mail, tab, doing, unwanted>>

Shells == 1 .. Cardinality(Agents)
Actors == Agents \cup {"window"}
NoOp == [at |-> "idle", shell |-> 0]

TermInit ==
  /\ bustle \in Bustles
  /\ shell = [n \in Shells |-> "none"] /\ pump = [n \in Shells |-> "none"]
  /\ unheld = {} /\ aborted = {} /\ handle = 0 /\ listing = "none"
  /\ mail = <<>> /\ tab = "none"
  /\ doing = [a \in Actors |-> NoOp] /\ unwanted = {}

Latest == Cardinality({n \in Shells : shell[n] # "none"})
StepTo(a, where) == doing' = [doing EXCEPT ![a].at = where]
UnderWay(a) == doing[a].at \notin {"idle", "done"}
NoneUnderWay == \A a \in Actors : ~UnderWay(a)
OnlyCloses == \A a \in Actors : UnderWay(a) => doing[a].at \in {"close", "forget"}
Serving(n) == pump[n] = "serves" /\ shell[n] = "runs"
\* No end of a shell is still to be told.
AllTold ==
  /\ \A n \in Shells : pump[n] \in {"none", "gone"} \/ Serving(n)
  /\ \A i \in DOMAIN mail : mail[i] # "closed"
MayAct == ("overlap" \in bustle \/ NoneUnderWay) /\ ("stale" \in bustle \/ AllTold)
MayClose == MayAct \/ ("closes" \in bustle /\ OnlyCloses)
Emit(e) == mail' = Append(mail, e)

\* A supervisor that is dropped drops its PtySession, which kills the shell.
Dropped(n) == [shell EXCEPT ![n] = IF @ = "runs" THEN "killed" ELSE @]

-----------------------------------------------------------------------------
(* start_stream: the shell is spawned and the terminal registered before   *)
(* its supervisor starts; the handle comes after.                          *)

Started(a, registered) ==
  /\ shell' = [shell EXCEPT ![Latest + 1] = "runs"]
  /\ pump' = [pump EXCEPT ![Latest + 1] = "serves"]
  /\ listing' = registered
  /\ doing' = [doing EXCEPT ![a] = [at |-> "insert", shell |-> Latest + 1]]

\* The handle that is replaced is dropped.
InsertHandle(a, event) ==
  /\ unheld' = IF handle = 0 THEN unheld ELSE unheld \cup {handle}
  /\ handle' = doing[a].shell
  /\ StepTo(a, "done") /\ Emit(event)

\* AgentTerminalSpawner::open.
OpenTerminal(a) ==
  /\ doing[a].at = "idle" /\ Latest = 0 /\ NoneUnderWay
  /\ Started(a, "live")
  /\ UNCHANGED <<bustle, unheld, aborted, handle, mail, tab, unwanted>>

OpenDone(a) ==
  /\ doing[a].at = "insert" /\ doing[a].shell = 1
  /\ InsertHandle(a, "opened")
  /\ UNCHANGED <<bustle, shell, pump, aborted, listing, tab, unwanted>>

-----------------------------------------------------------------------------
(* restart: the old supervisor is aborted and awaited, then a new shell    *)

RestartBegins(a) ==
  /\ doing[a].at = "idle" /\ listing # "none" /\ MayAct
  /\ doing' = [doing EXCEPT ![a] = [at |-> "unlist", shell |-> Latest]]
  /\ unwanted' = unwanted \cup {Latest}
  /\ UNCHANGED <<bustle, shell, pump, unheld, aborted, handle, listing, mail, tab>>

RestartUnlists(a) ==
  /\ doing[a].at = "unlist"
  /\ handle' = 0
  /\ IF handle = 0
     THEN StepTo(a, "spawn") /\ UNCHANGED <<unheld, aborted>>
     ELSE /\ doing' = [doing EXCEPT ![a] = [at |-> "await", shell |-> handle]]
          /\ aborted' = aborted \cup {handle} /\ unheld' = unheld \cup {handle}
  /\ UNCHANGED <<bustle, shell, pump, listing, mail, tab, unwanted>>

\* Mutant of RestartAwaits: the restart goes on while the old supervisor ends.
RestartRushes(a) ==
  /\ doing[a].at = "await"
  /\ StepTo(a, "spawn")
  /\ UNCHANGED <<bustle, shell, pump, unheld, aborted, handle, listing, mail, tab, unwanted>>

RestartAwaits(a) ==
  /\ doing[a].at = "await" /\ pump[doing[a].shell] = "gone"
  /\ StepTo(a, "spawn")
  /\ UNCHANGED <<bustle, shell, pump, unheld, aborted, handle, listing, mail, tab, unwanted>>

\* reset changes an entry that is still there.
RestartSpawns(a) ==
  /\ doing[a].at = "spawn"
  /\ Started(a, IF listing = "none" THEN "none" ELSE "live")
  /\ UNCHANGED <<bustle, unheld, aborted, handle, mail, tab, unwanted>>

RestartFails(a) ==
  /\ doing[a].at = "spawn" /\ "fails" \in bustle
  /\ StepTo(a, "done")
  /\ UNCHANGED <<bustle, shell, pump, unheld, aborted, handle, listing, mail, tab, unwanted>>

RestartDone(a) ==
  /\ doing[a].at = "insert" /\ doing[a].shell # 1
  /\ InsertHandle(a, "respawned")
  /\ UNCHANGED <<bustle, shell, pump, aborted, listing, tab, unwanted>>

-----------------------------------------------------------------------------
(* close_stream, for an agent and for the window *)

CloseBegins(a) ==
  /\ doing[a].at = "idle" /\ listing # "none" /\ MayClose
  /\ StepTo(a, "close")
  /\ unwanted' = unwanted \cup {Latest}
  /\ UNCHANGED <<bustle, shell, pump, unheld, aborted, handle, listing, mail, tab>>

CloseAborts(a) ==
  /\ doing[a].at = "close"
  /\ StepTo(a, "forget")
  /\ handle' = 0
  /\ IF handle = 0
     THEN UNCHANGED <<unheld, aborted>>
     ELSE aborted' = aborted \cup {handle} /\ unheld' = unheld \cup {handle}
  /\ UNCHANGED <<bustle, shell, pump, listing, mail, tab, unwanted>>

\* Mutant of CloseForgets: the entry is left to the supervisor.
CloseKeepsEntry(a) ==
  /\ doing[a].at = "forget"
  /\ doing' = [doing EXCEPT ![a] = [NoOp EXCEPT !.at = IF a = "window" THEN "idle" ELSE "done"]]
  /\ IF a = "window"
     THEN tab' = "shut" /\ UNCHANGED mail
     ELSE Emit("removed") /\ UNCHANGED tab
  /\ UNCHANGED <<bustle, shell, pump, unheld, aborted, handle, listing, unwanted>>

CloseForgets(a) ==
  /\ doing[a].at = "forget"
  /\ doing' = [doing EXCEPT ![a] = [NoOp EXCEPT !.at = IF a = "window" THEN "idle" ELSE "done"]]
  /\ listing' = "none"
  /\ IF a = "window"
     THEN tab' = "shut" /\ UNCHANGED mail
     ELSE Emit("removed") /\ UNCHANGED tab
  /\ UNCHANGED <<bustle, shell, pump, unheld, aborted, handle, unwanted>>

-----------------------------------------------------------------------------
(* The window *)

\* The user closes the tab.
TabClick ==
  /\ doing["window"].at = "idle" /\ tab = "open" /\ MayClose
  /\ StepTo("window", "close")
  /\ unwanted' = unwanted \cup {Latest}
  /\ UNCHANGED <<bustle, shell, pump, unheld, aborted, handle, listing, mail, tab>>

\* An event arrives: "closed" closes the tab, and with it whatever runs in it.
Hears ==
  /\ mail # <<>>
  /\ mail' = Tail(mail)
  /\ LET e == Head(mail) IN
       /\ tab' = CASE e = "opened" /\ tab = "none" -> "open"
                   [] e = "removed" -> "shut"
                   [] OTHER -> tab
       /\ IF e = "closed" /\ tab = "open" /\ doing["window"].at = "idle"
          THEN StepTo("window", "close") ELSE UNCHANGED doing
  /\ UNCHANGED <<bustle, shell, pump, unheld, aborted, handle, listing, unwanted>>

-----------------------------------------------------------------------------
(* supervise *)

ShellEnds(n) ==
  /\ shell[n] = "runs"
  /\ \/ "stale" \in bustle
     \/ NoneUnderWay /\ tab # "none"
     \/ "closes" \in bustle /\ OnlyCloses /\ tab # "none"
     \/ "quick" \in bustle /\ n = 1 /\ tab = "none"
  /\ shell' = [shell EXCEPT ![n] = "ended"]
  /\ UNCHANGED <<bustle, pump, unheld, aborted, handle, listing, mail, tab, doing, unwanted>>

\* An aborted supervisor is dropped where it waits; one that is running goes on
\* until it has to wait, perhaps to its end.
Abort(n) ==
  /\ n \in aborted /\ pump[n] \notin {"none", "gone"}
  /\ pump' = [pump EXCEPT ![n] = "gone"]
  /\ shell' = Dropped(n)
  /\ UNCHANGED <<bustle, unheld, aborted, handle, listing, mail, tab, doing, unwanted>>

\* The loop ends with the output, or with the last sender of its commands.
Breaks(n) ==
  /\ pump[n] = "serves" /\ (shell[n] # "runs" \/ n \in unheld)
  /\ pump' = [pump EXCEPT ![n] = "reaps"]
  /\ UNCHANGED <<bustle, shell, unheld, aborted, handle, listing, mail, tab, doing, unwanted>>

\* The exit code is awaited; the session is dropped.
Reaps(n) ==
  /\ pump[n] = "reaps" /\ shell[n] # "runs"
  /\ pump' = [pump EXCEPT ![n] = "unlists"]
  /\ UNCHANGED <<bustle, shell, unheld, aborted, handle, listing, mail, tab, doing, unwanted>>

\* Whatever handle the terminal has is removed, and dropped.
Unlists(n) ==
  /\ pump[n] = "unlists"
  /\ pump' = [pump EXCEPT ![n] = "marks"]
  /\ handle' = 0 /\ unheld' = IF handle = 0 THEN unheld ELSE unheld \cup {handle}
  /\ UNCHANGED <<bustle, shell, aborted, listing, mail, tab, doing, unwanted>>

\* mark_exited, and the event.
Marks(n) ==
  /\ pump[n] = "marks"
  /\ pump' = [pump EXCEPT ![n] = "gone"]
  /\ listing' = IF listing = "none" THEN "none" ELSE "exited"
  /\ Emit("closed")
  /\ UNCHANGED <<bustle, shell, unheld, aborted, handle, tab, doing, unwanted>>

OpStep(a) ==
  \/ OpenDone(a) \/ RestartUnlists(a) \/ RestartAwaits(a) \/ RestartSpawns(a)
  \/ RestartFails(a) \/ RestartDone(a) \/ CloseAborts(a) \/ CloseForgets(a)
PumpStep(n) == Abort(n) \/ Breaks(n) \/ Reaps(n) \/ Unlists(n) \/ Marks(n)

TermNext ==
  \/ \E a \in Agents : OpenTerminal(a) \/ RestartBegins(a) \/ CloseBegins(a)
  \/ \E a \in Actors : OpStep(a)
  \/ \E n \in Shells : ShellEnds(n) \/ PumpStep(n)
  \/ TabClick \/ Hears

TermSpec == TermInit /\ [][TermNext]_termVars

\* Tasks that have begun make progress, events arrive.
TermFairness ==
  /\ \A a \in Actors : WF_termVars(OpStep(a))
  /\ \A n \in Shells : WF_termVars(PumpStep(n))
  /\ WF_termVars(Hears)
TermFairSpec == TermSpec /\ TermFairness

-----------------------------------------------------------------------------
(* Properties *)

TermTypeOK ==
  /\ handle \in 0 .. Latest /\ unheld \subseteq Shells /\ aborted \subseteq unheld
  /\ \A n \in Shells : pump[n] = "none" <=> shell[n] = "none"
  /\ \A n \in Shells : pump[n] = "gone" => shell[n] # "runs"

\* A terminal has one shell at a time.
OneShell == \A m, n \in Shells : shell[m] = "runs" /\ shell[n] = "runs" => m = n

\* The exit bookkeeping of an old supervisor does not land on a new shell: one
\* that ends takes its own handle and marks its own end.
EndsOwn ==
  \A n \in Shells : pump[n] \in {"unlists", "marks"} => \A m \in Shells : m > n => shell[m] = "none"

\* When nothing is under way, what the coder is told of the terminal is so, and a
\* shell that runs has a tab and a handle, by which it can be closed.
AtRest ==
  /\ NoneUnderWay /\ mail = <<>>
  /\ \A n \in Shells : pump[n] \in {"none", "gone"} \/ (Serving(n) /\ n \notin unheld)
ListedTruthful ==
  AtRest => (listing = "live" <=> \E n \in Shells : shell[n] = "runs")
Reachable ==
  AtRest => \A n \in Shells : shell[n] = "runs" => handle = n /\ tab = "open" /\ listing = "live"

\* A shell is killed only if somebody wanted to be rid of it.
KilledAsked == \A n \in Shells : shell[n] = "killed" => n \in unwanted

\* The tab of a shell that has ended goes, unless the terminal is restarted.
TabGoes ==
  \A n \in Shells : (shell[n] = "ended") ~> (tab # "open" \/ \E m \in Shells : shell[m] = "runs")

TerminalsOK ==
  /\ TermTypeOK
  /\ bustle \subseteq {"closes", "fails"} => OneShell /\ EndsOwn /\ Reachable /\ KilledAsked
  /\ bustle \subseteq {"closes"} => ListedTruthful
=============================================================================
