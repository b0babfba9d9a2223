----------------------------- MODULE LspClient -----------------------------
(***************************************************************************)
(* The JSON-RPC client of one language server process:                     *)
(* crates/moon-core/src/lsp/client.rs. A request is put into the pending   *)
(* map and then into the writer's queue; the writer loop and the reader    *)
(* loop end on their own; who waits is woken by an answer or by the reader *)
(* that sees the end of the process. LspServer::shutdown is a caller, too:  *)
(* it gives its request up after two seconds. The death watcher is that of *)
(* LspServer::spawn. The queue's capacity (256) is not reached.            *)
(***************************************************************************)
EXTENDS Naturals, Sequences, SequencesExt

CONSTANTS Requests, \* requests of the broker and of the pulls of diagnostics
          Rpc       \* the races to look at: a set of sets, of which one is chosen:
              \* "late" (a request is listed after the look at is_alive), "mute" (the
              \* server asks while the writer ends, or after it), "unarmed" (a loop ends
              \* between the watcher's look at the flag and its wait), "garbled" (there
              \* are parameters that cannot be serialised)

ASSUME RpcAssumption ==
  /\ Rpc \subseteq SUBSET {"late", "mute", "unarmed", "garbled"}
  /\ {"shutdown", "exit", "stop", "reply"} \cap Requests = {}

VARIABLES rpcRace, \* the chosen member of Rpc
          req,     \* per request: where its caller is
          pending, \* the map of responders
          queue,   \* the writer's channel: requests, answers "reply", "exit", "stop"
          wloop,   \* the writer loop runs
          rloop,   \* the reader loop: "up", "replying", "down"
          served,  \* requests the process has read and not answered
          process, \* the child: "up", "dead"
          alive,   \* the liveness flag
          deathWatch, \* the death watcher: "looking", "looked", "waiting", "told"
          asks,    \* requests of the server to the client: 0, 1
          ending   \* where LspServer::shutdown is: "no", "asked", "exit", "stop", "over"

rpcVars == <<rpcRace, req, pending, queue, wloop, rloop, served, process, alive, deathWatch, asks, ending>>

\* All requests: "shutdown" is that of LspServer::shutdown.
AllRequests == Requests \cup {"shutdown"}

\* Those whose responder is listed and whose caller awaits the answer.
Awaited == {r \in AllRequests : req[r] \in {"listed", "waits"}}

RpcTypeOK ==
  /\ rpcRace \in Rpc
  /\ req \in [AllRequests -> {"idle", "begun", "listed", "waits", "answered", "failed",
                              "garbled", "gaveup"}]
  /\ pending \subseteq AllRequests /\ served \subseteq AllRequests
  /\ queue \in Seq(AllRequests \cup {"reply", "exit", "stop"})
  /\ wloop \in BOOLEAN /\ rloop \in {"up", "replying", "down"}
  /\ process \in {"up", "dead"} /\ alive \in BOOLEAN
  /\ deathWatch \in {"looking", "looked", "waiting", "told"} /\ asks \in 0..1
  /\ ending \in {"no", "asked", "exit", "stop", "over"}

RpcInit ==
  /\ rpcRace \in Rpc
  /\ req = [r \in AllRequests |-> "idle"] /\ pending = {} /\ queue = <<>>
  /\ wloop = TRUE /\ rloop = "up" /\ served = {} /\ process = "up"
  /\ alive = TRUE /\ deathWatch = "looking" /\ asks = 0 /\ ending = "no"

-----------------------------------------------------------------------------
(* The loops.                                                              *)

\* LivenessGuard: a loop that ends clears the flag and wakes who waits for it.
GuardDrops == alive' = FALSE /\ deathWatch' = IF deathWatch = "waiting" THEN "looking" ELSE deathWatch

\* The writer takes one command; a write to a dead process fails and ends it.
WriteOne ==
  /\ wloop /\ queue # <<>>
  /\ rloop # "replying" \/ "mute" \in rpcRace
  /\ queue' = Tail(queue)
  /\ IF Head(queue) = "stop" \/ process = "dead"
     THEN wloop' = FALSE /\ GuardDrops /\ UNCHANGED served
     ELSE /\ served' = served \cup ({Head(queue)} \cap AllRequests)
          /\ UNCHANGED <<wloop, alive, deathWatch>>
  /\ UNCHANGED <<rpcRace, req, pending, rloop, process, asks, ending>>

\* An answer of the server takes the responder out, and resolves the caller that is
\* still there.
ReadAnswer(r) ==
  /\ rloop = "up" /\ process = "up" /\ r \in served
  /\ served' = served \ {r}
  /\ pending' = pending \ {r}
  /\ req' = [req EXCEPT ![r] = IF r \in pending \cap Awaited THEN "answered" ELSE @]
  /\ UNCHANGED <<rpcRace, queue, wloop, rloop, process, alive, deathWatch, asks, ending>>

\* A request of the server: the reader answers it through the writer's queue ...
ReadAsk ==
  /\ rloop = "up" /\ process = "up" /\ asks = 0
  /\ wloop \/ "mute" \in rpcRace
  /\ rloop' = "replying" /\ asks' = 1
  /\ UNCHANGED <<rpcRace, req, pending, queue, wloop, served, process, alive, deathWatch, ending>>

\* ... and just returns when nobody takes the answer.
ReplyAsk ==
  /\ rloop = "replying"
  /\ IF wloop
     THEN rloop' = "up" /\ queue' = Append(queue, "reply") /\ UNCHANGED <<alive, deathWatch>>
     ELSE rloop' = "down" /\ GuardDrops /\ UNCHANGED queue
  /\ UNCHANGED <<rpcRace, req, pending, wloop, served, process, asks, ending>>

\* Mutant of ReadEnd: the reader ends without failing who waits.
ReadEndQuietly ==
  /\ rloop = "up" /\ process = "dead"
  /\ rloop' = "down" /\ GuardDrops
  /\ UNCHANGED <<rpcRace, req, pending, queue, wloop, served, process, asks, ending>>

\* The end of stdout: every pending request fails.
ReadEnd ==
  /\ rloop = "up" /\ process = "dead"
  /\ rloop' = "down" /\ GuardDrops
  /\ pending' = {}
  /\ req' = [r \in AllRequests |-> IF r \in pending \cap Awaited THEN "failed" ELSE req[r]]
  /\ UNCHANGED <<rpcRace, queue, wloop, served, process, asks, ending>>

Dies ==
  /\ process = "up"
  /\ process' = "dead" /\ served' = {}
  /\ UNCHANGED <<rpcRace, req, pending, queue, wloop, rloop, alive, deathWatch, asks, ending>>

-----------------------------------------------------------------------------
(* The callers.                                                            *)

\* ensure_server finds the server alive, perhaps for a pull that comes later.
BeginRequest(r) ==
  /\ req[r] = "idle" /\ alive
  /\ req' = [req EXCEPT ![r] = "begun"]
  /\ UNCHANGED <<rpcRace, pending, queue, wloop, rloop, served, process, alive, deathWatch, asks, ending>>

\* The shutdown looks at no flag.
ListRequest(r) ==
  /\ req[r] = "begun"
  /\ alive \/ "late" \in rpcRace \/ r = "shutdown"
  /\ req' = [req EXCEPT ![r] = "listed"]
  /\ pending' = pending \cup {r}
  /\ UNCHANGED <<rpcRace, queue, wloop, rloop, served, process, alive, deathWatch, asks, ending>>

\* Mutant of QueueRequest: a request that nobody takes fails, its responder stays.
QueueRequestLeaks(r) ==
  /\ req[r] = "listed"
  /\ req' = [req EXCEPT ![r] = IF wloop THEN "waits" ELSE "failed"]
  /\ queue' = IF wloop THEN Append(queue, r) ELSE queue
  /\ UNCHANGED <<rpcRace, pending, wloop, rloop, served, process, alive, deathWatch, asks, ending>>

QueueRequest(r) ==
  /\ req[r] = "listed"
  /\ IF wloop
     THEN /\ req' = [req EXCEPT ![r] = "waits"]
          /\ queue' = Append(queue, r) /\ UNCHANGED pending
     ELSE /\ req' = [req EXCEPT ![r] = "failed"]
          /\ pending' = pending \ {r} /\ UNCHANGED queue
  /\ UNCHANGED <<rpcRace, wloop, rloop, served, process, alive, deathWatch, asks, ending>>

\* Parameters that cannot be serialised: the early return leaves the responder.
GarbledRequest(r) ==
  /\ req[r] = "listed" /\ "garbled" \in rpcRace
  /\ req' = [req EXCEPT ![r] = "garbled"]
  /\ UNCHANGED <<rpcRace, pending, queue, wloop, rloop, served, process, alive, deathWatch, asks, ending>>

-----------------------------------------------------------------------------
(* LspServer::shutdown: one request, given up after two seconds, then      *)
(* "exit", the end of the writer, and the child's end.                     *)

Shutdown ==
  /\ ending = "no"
  /\ ending' = "asked"
  /\ req' = [req EXCEPT !["shutdown"] = "begun"]
  /\ UNCHANGED <<rpcRace, pending, queue, wloop, rloop, served, process, alive, deathWatch, asks>>

\* The timeout drops the caller wherever it is; its responder stays.
GiveUpShutdown ==
  /\ req["shutdown"] \in {"begun", "listed", "waits"}
  /\ req' = [req EXCEPT !["shutdown"] = "gaveup"]
  /\ UNCHANGED <<rpcRace, pending, queue, wloop, rloop, served, process, alive, deathWatch, asks, ending>>

\* A command for the writer, which nobody misses when the writer is gone.
Hand(command) == queue' = IF wloop THEN Append(queue, command) ELSE queue

SayExit ==
  /\ ending = "asked" /\ req["shutdown"] \in {"answered", "failed", "gaveup"}
  /\ ending' = "exit" /\ Hand("exit")
  /\ UNCHANGED <<rpcRace, req, pending, wloop, rloop, served, process, alive, deathWatch, asks>>

StopClient ==
  /\ ending = "exit"
  /\ ending' = "stop" /\ Hand("stop")
  /\ UNCHANGED <<rpcRace, req, pending, wloop, rloop, served, process, alive, deathWatch, asks>>

\* Mutant of EndChild: the child is awaited without a limit.
AwaitChild ==
  /\ ending = "stop" /\ process = "dead"
  /\ ending' = "over"
  /\ UNCHANGED <<rpcRace, req, pending, queue, wloop, rloop, served, process, alive, deathWatch, asks>>

\* The child ends within two seconds or is killed as it is dropped.
EndChild ==
  /\ ending = "stop"
  /\ ending' = "over"
  /\ process' = "dead" /\ served' = {}
  /\ UNCHANGED <<rpcRace, req, pending, queue, wloop, rloop, alive, deathWatch, asks>>

-----------------------------------------------------------------------------
(* The death watcher.                                                      *)

\* DeathSignal::wait looks at the flag and then begins to wait.
WaitForDeath ==
  /\ deathWatch = "looking"
  /\ deathWatch' = IF alive THEN IF "unarmed" \in rpcRace THEN "looked" ELSE "waiting" ELSE "told"
  /\ UNCHANGED <<rpcRace, req, pending, queue, wloop, rloop, served, process, alive, asks, ending>>

Arm ==
  /\ deathWatch = "looked"
  /\ deathWatch' = "waiting"
  /\ UNCHANGED <<rpcRace, req, pending, queue, wloop, rloop, served, process, alive, asks, ending>>

-----------------------------------------------------------------------------

RpcNext ==
  \/ WriteOne \/ ReadAsk \/ ReplyAsk \/ ReadEnd \/ Dies \/ WaitForDeath \/ Arm
  \/ Shutdown \/ GiveUpShutdown \/ SayExit \/ StopClient \/ EndChild
  \/ \E r \in Requests : BeginRequest(r) \/ GarbledRequest(r)
  \/ \E r \in AllRequests : ReadAnswer(r) \/ ListRequest(r) \/ QueueRequest(r)

\* The loops, the callers, the shutdown with its timeouts and the watcher run;
\* nothing is assumed of the process.
RpcFairness ==
  /\ WF_rpcVars(WriteOne) /\ WF_rpcVars(ReplyAsk \/ ReadEnd) /\ WF_rpcVars(WaitForDeath \/ Arm)
  /\ \A r \in AllRequests : WF_rpcVars(QueueRequest(r))
  /\ WF_rpcVars(GiveUpShutdown) /\ WF_rpcVars(SayExit \/ StopClient \/ EndChild)

RpcSpec == RpcInit /\ [][RpcNext]_rpcVars /\ RpcFairness

-----------------------------------------------------------------------------

\* No caller waits without its responder; a responder without a caller is that of
\* the shutdown that was given up, or of a request whose parameters could not be
\* serialised.
RespondersOwned ==
  /\ Awaited \subseteq pending
  /\ \A r \in pending \ Awaited : req[r] \in {"gaveup", "garbled"}

\* Unless a request is listed late or the reader cannot answer the server, nothing
\* outlives the reader in the map, and nobody waits for it: "Fail every pending
\* request so callers wake up".  Only the shutdown of a server that is dead already
\* is listed behind it, and has its timeout.
ReaderSettles ==
  rloop = "down" /\ rpcRace \cap {"late", "mute"} = {} => pending \subseteq {"shutdown"}

\* Well typed, every caller with its responder, and none that the reader leaves.
RpcOK == RpcTypeOK /\ RespondersOwned /\ ReaderSettles

\* Every request is over once the process is.
CallersWake ==
  (process = "dead") ~> (\A r \in AllRequests : req[r] \notin {"listed", "waits"})

\* A shutdown ends, and the process with it: "even a hung server can't outlive the
\* broker".
ShutdownEnds == (ending # "no") ~> (ending = "over" /\ process = "dead")

\* The death of the process is told (the pill turns to Crashed) without a further
\* request.
DeathTold == (process = "dead") ~> (deathWatch = "told")
=============================================================================
