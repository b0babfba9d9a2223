------------------------------ MODULE LspDocs ------------------------------
(***************************************************************************)
(* One buffer and its language server: open, update and close of           *)
(* crates/moon-core/src/lsp/broker.rs, open, close and pull_diagnostics of *)
(* server.rs, the panel that shows the last diagnostics it was sent, and a *)
(* server that dies and is replaced. A text is a number; the diagnostics   *)
(* of a text are that number. The server reads its messages in order and   *)
(* answers pulls in order.                                                 *)
(***************************************************************************)
EXTENDS LspBroker, Naturals, Sequences, SequencesExt

CONSTANTS MaxEdits,   \* bound: texts of the buffer, and closings
          MaxRespawns,\* bound: deaths of the server
          Overlaps    \* the races to look at: a set of sets, of which one is chosen:
              \* "overlap" (a request begins before the one before it has notified),
              \* "swap" (the tasks that pulled publish in another order),
              \* "late" (the buffer is closed while a pull is under way)

ASSUME DocsAssumption ==
  /\ MaxEdits \in Nat /\ MaxRespawns \in Nat
  /\ Overlaps \subseteq SUBSET {"overlap", "swap", "late"}

Shut == 0 \* the buffer is closed

VARIABLES lapse,    \* the chosen member of Overlaps
          buffer,   \* what the editor shows: a text, or Shut
          edits,    \* texts so far
          closings, \* how often it was closed
          op,       \* requests under way, oldest first: [kind, text, gen, version, done]
          docs,     \* the live LspServer's entry: its version, or Shut
          gen,      \* which process is the live one
          wire,     \* what the process is still to read
          doc,      \* the process's view of the buffer: a text, or Shut
          pulls,    \* answered pulls whose task has not published yet
          panel,    \* the diagnostics on screen: of a text, or Shut for none
          confused  \* the process was sent a change or a close of what is not open,
                    \* an open of what is, or a version that is not newer

docsVars == <<lapse, buffer, edits, closings, op, docs, gen, wire, doc, pulls, panel, confused>>

Message(k, t, v) == [kind |-> k, text |-> t, version |-> v]
Op(k, t) == [kind |-> k, text |-> t, version |-> 0, gen |-> gen, step |-> "begun"]

DocsTypeOK ==
  /\ lapse \in Overlaps
  /\ buffer \in 0..MaxEdits /\ edits \in 0..MaxEdits /\ closings \in 0..MaxEdits
  /\ \A i \in DOMAIN op : op[i].kind \in {"open", "change", "close"} /\ op[i].text \in 0..MaxEdits
  /\ docs \in 0..2 * MaxEdits + MaxRespawns /\ gen \in 0..MaxRespawns
  /\ \A i \in DOMAIN wire : wire[i].kind \in {"open", "change", "close", "pull"}
  /\ doc.text \in 0..MaxEdits
  /\ pulls \in Seq(0..MaxEdits) /\ panel \in 0..MaxEdits /\ confused \in BOOLEAN

DocsInit ==
  /\ lapse \in Overlaps
  /\ buffer = Shut /\ edits = 0 /\ closings = 0 /\ op = <<>> /\ docs = Shut /\ gen = 0
  /\ wire = <<>> /\ doc = [text |-> Shut, version |-> 0]
  /\ pulls = <<>> /\ panel = Shut /\ confused = FALSE

MayBegin == op = <<>> \/ "overlap" \in lapse
Pulling == pulls # <<>> \/ \E i \in DOMAIN wire : wire[i].kind = "pull"

-----------------------------------------------------------------------------
(* The editor.                                                             *)

\* A tab is opened, or the debounced update of a burst of typing is sent: both
\* come to LspServer::open with the buffer's text.
Edit ==
  /\ MayBegin /\ edits < MaxEdits
  /\ edits' = edits + 1 /\ buffer' = edits + 1
  /\ op' = Append(op, Op("open", edits + 1))
  /\ UNCHANGED <<lapse, closings, docs, gen, wire, doc, pulls, panel, confused>>

CloseTab ==
  /\ MayBegin /\ buffer # Shut /\ closings < MaxEdits
  /\ "late" \in lapse \/ ~Pulling
  /\ buffer' = Shut /\ closings' = closings + 1
  /\ op' = Append(op, Op("close", Shut))
  /\ panel' = Shut  \* the diagnostics of a closed buffer are dropped
  /\ UNCHANGED <<lapse, edits, docs, gen, wire, doc, pulls, confused>>

\* The pill turns to Crashed: the active buffer is opened again.
Reopen ==
  /\ MayBegin /\ buffer # Shut /\ docs = Shut
  /\ op' = Append(op, Op("open", buffer))
  /\ UNCHANGED <<lapse, buffer, edits, closings, docs, gen, wire, doc, pulls, panel, confused>>

-----------------------------------------------------------------------------
(* LspServer::open and close: the entry under the lock, the message after. *)

With(i, k, v) == [op EXCEPT ![i].kind = k, ![i].version = v, ![i].step = "locked"]

\* Mutant of Lock: an update goes to a server that never saw the file as a change.
LockChange(i) ==
  /\ op[i].step = "begun"
  /\ IF op[i].gen # gen THEN op' = RemoveAt(op, i) /\ UNCHANGED docs
     ELSE CASE op[i].kind = "open" -> docs' = docs + 1 /\ op' = With(i, "change", docs + 1)
            [] op[i].kind = "close" /\ docs # Shut -> docs' = Shut /\ op' = With(i, "close", 0)
            [] OTHER -> op' = RemoveAt(op, i) /\ UNCHANGED docs
  /\ UNCHANGED <<lapse, buffer, edits, closings, gen, wire, doc, pulls, panel, confused>>

\* A request to a server that has been replaced since fails.
Lock(i) ==
  /\ op[i].step = "begun"
  /\ IF op[i].gen # gen THEN op' = RemoveAt(op, i) /\ UNCHANGED docs
     ELSE CASE op[i].kind = "open" ->
                 /\ docs' = docs + 1
                 /\ op' = With(i, IF docs = Shut THEN "open" ELSE "change", docs + 1)
            [] op[i].kind = "close" /\ docs # Shut -> docs' = Shut /\ op' = With(i, "close", 0)
            [] OTHER -> op' = RemoveAt(op, i) /\ UNCHANGED docs
  /\ UNCHANGED <<lapse, buffer, edits, closings, gen, wire, doc, pulls, panel, confused>>

\* Mutant of Notify: diagnostics are only pulled when a buffer is opened.
NotifyNoPull(i) ==
  /\ op[i].step = "locked"
  /\ wire' = IF op[i].gen # gen THEN wire
             ELSE Append(wire, Message(op[i].kind, op[i].text, op[i].version))
                    \o IF op[i].kind = "open" THEN <<Message("pull", Shut, 0)>> ELSE <<>>
  /\ op' = RemoveAt(op, i)
  /\ UNCHANGED <<lapse, buffer, edits, closings, docs, gen, doc, pulls, panel, confused>>

\* The notification is queued, and behind it the pull of the diagnostics.
Notify(i) ==
  /\ op[i].step = "locked"
  /\ wire' = IF op[i].gen # gen THEN wire
             ELSE Append(wire, Message(op[i].kind, op[i].text, op[i].version))
                    \o IF op[i].kind = "close" THEN <<>> ELSE <<Message("pull", Shut, 0)>>
  /\ op' = RemoveAt(op, i)
  /\ UNCHANGED <<lapse, buffer, edits, closings, docs, gen, doc, pulls, panel, confused>>

-----------------------------------------------------------------------------
(* The process.                                                            *)

Bad(m) ==
  \/ m.kind = "open" /\ doc.text # Shut
  \/ m.kind = "close" /\ doc.text = Shut
  \/ m.kind = "change" /\ (doc.text = Shut \/ m.version <= doc.version)

ReadMessage ==
  /\ wire # <<>>
  /\ LET m == Head(wire) IN
       /\ confused' = (confused \/ Bad(m))
       /\ doc' = CASE m.kind \in {"open", "change"} -> [text |-> m.text, version |-> m.version]
                   [] m.kind = "close" -> [text |-> Shut, version |-> 0]
                   [] OTHER -> doc
       /\ pulls' = IF m.kind = "pull" THEN Append(pulls, doc.text) ELSE pulls
  /\ wire' = Tail(wire)
  /\ UNCHANGED <<lapse, buffer, edits, closings, op, docs, gen, panel>>

\* pull_diagnostics publishes the answer, whatever has happened since.
Publish(i) ==
  /\ i = 1 \/ "swap" \in lapse
  /\ panel' = pulls[i]
  /\ pulls' = RemoveAt(pulls, i)
  /\ UNCHANGED <<lapse, buffer, edits, closings, op, docs, gen, wire, doc, confused>>

\* The process dies; the next request is to a new LspServer with no documents.
Respawn ==
  /\ gen < MaxRespawns
  /\ gen' = gen + 1 /\ docs' = Shut /\ wire' = <<>>
  /\ doc' = [text |-> Shut, version |-> 0]
  /\ UNCHANGED <<lapse, buffer, edits, closings, op, pulls, panel, confused>>

-----------------------------------------------------------------------------

DocsNext ==
  \/ Edit \/ CloseTab \/ Reopen \/ ReadMessage \/ Respawn
  \/ \E i \in DOMAIN op : Lock(i) \/ Notify(i)
  \/ \E i \in DOMAIN pulls : Publish(i)

DocsSpec == DocsInit /\ [][DocsNext]_docsVars

-----------------------------------------------------------------------------

\* No server is sent a change of a buffer it has not opened, an open of one it has,
\* or versions that go backwards - through crashes, closings and openings.
ServerFollows == ~confused

\* Once everything is read and published, and the live server has the buffer, it has
\* the buffer's text and the panel shows that text's diagnostics.
PanelRight ==
  op = <<>> /\ wire = <<>> /\ pulls = <<>> /\ docs # Shut
    => doc.text = buffer /\ panel = buffer

\* Well typed; the server follows the buffer and the panel the server.
DocsOK == DocsTypeOK /\ ServerFollows /\ PanelRight

\* A closed buffer has no diagnostics on screen.
NoGhosts == buffer = Shut => panel = Shut

\* A language has one server at a time and a pill that tells the truth, the server
\* follows the buffer and the panel the server.
LspOK == SlotOK /\ DocsOK
=============================================================================
