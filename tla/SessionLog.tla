----------------------------- MODULE SessionLog -----------------------------
(***************************************************************************)
(* The JSONL file of one session as its writers share it                   *)
(* (crates/moon-coder/src/sessions.rs): appends, the usage block that is   *)
(* folded into the last assistant line, the SummaryState trailer of the    *)
(* sessions list and the rewritten header, which hold the file's append    *)
(* lock, and the truncation of a revert and the deletion, which do not.    *)
(*                                                                         *)
(* A writer is a task; its steps are the awaited calls between which other *)
(* tasks run.  A line is one unit of length: `bytes_len` counts lines.     *)
(***************************************************************************)
EXTENDS Naturals, FiniteSets, SequencesExt

CONSTANTS MaxLines,  \* bound: records numbered
          Races      \* what may happen: sets of
              \* "usage"  the provider reports usage, folded into the answer
              \* "revert" the user reverts to a message
              \* "crash"  the process dies between two steps
              \* "torn"   also between the truncation and the write of a rewrite
              \* "early"  a record is written while a trailer is on its way
              \* "sloppy" a record is written while a revert or a deletion is on its way
              \* "delete" the session is deleted

ASSUME SessionLogAssumption ==
  /\ MaxLines \in Nat
  /\ Races \subseteq SUBSET {"usage", "revert", "crash", "torn", "early", "sloppy", "delete"}

Writers == {"turn", "settle", "title", "child", "header", "revert"}
Nobody  == "nobody"

VARIABLES jsonl,    \* lines of the file, <<>> when it is empty or not there
          there,    \* the file exists
          held,     \* append_lock_for: who holds the lock
          step,     \* per writer: "idle", "load", "look", "cut", "patch", "write"
          line,     \* per writer: the record to write
          read,     \* per writer: the lines it has read to write them back
          had,      \* per writer: the file existed when it looked
          turnRuns, \* a turn runs
          turnAt,   \* the kind of record the turn wrote last
          count,    \* records numbered so far
          accepted, \* records whose append has returned and nobody dropped
          deleted,  \* the session was deleted
          race      \* what may happen in this behaviour

logVars == <<jsonl, there, held, step, line, read, had, turnRuns, turnAt, count, accepted,
             deleted, race>>

-----------------------------------------------------------------------------
(* Lines and what is read from them.                                       *)

Header == <<"header", 0, 0>>
Rec(kind, n) == <<kind, n, 0>>       \* third: the usage folded into the line
Trailer(flags, len) == <<"state", flags, len>>
Answers == {"calls", "text"}

\* load: a folded usage comes back as a record of its own.
Records(lines) ==
  FoldLeft(LAMBDA rs, l :
             CASE l[1] = "header" -> rs
               [] l[1] \in Answers /\ l[3] # 0 ->
                    rs \o <<Rec(l[1], l[2]), Rec("usage", l[3])>>
               [] OTHER -> Append(rs, l),
           <<>>, lines)

\* fold_summary_state, and the fold of append_summary_state: the title, whether
\* the last turn failed, whether it was cut short.
Flags(lines) ==
  FoldLeft(LAMBDA f, l :
             CASE l[1] = "title" -> <<l[2], f[2], f[3]>>
               [] l[1] \in {"user", "tool", "calls"} -> <<f[1], FALSE, TRUE>>
               [] l[1] = "text"  -> <<f[1], FALSE, FALSE>>
               [] l[1] = "error" -> <<f[1], TRUE, FALSE>>
               [] OTHER -> f,
           <<0, FALSE, FALSE>>, lines)

\* Mutant of Trusted: the anchor of a trailer is not compared.
TrustedAlways(lines) == {i \in DOMAIN lines : lines[i][1] = "state"}

\* load_summary: the newest trailer whose anchor is the file's length, else a fold.
Trusted(lines) == {i \in DOMAIN lines : lines[i][1] = "state" /\ lines[i][3] = Len(lines)}
Listed(lines) ==
  IF Trusted(lines) # {} THEN lines[Max(Trusted(lines))][2] ELSE Flags(lines)

-----------------------------------------------------------------------------

LogInit ==
  /\ jsonl = <<>> /\ there = FALSE /\ held = Nobody
  /\ step = [w \in Writers |-> "idle"] /\ line = [w \in Writers |-> Header]
  /\ read = [w \in Writers |-> <<>>]
  /\ had = [w \in Writers |-> FALSE]
  /\ turnRuns = FALSE /\ turnAt = "none" /\ count = 0
  /\ accepted = {} /\ deleted = FALSE
  /\ race \in Races

Busy(w) == step[w] # "idle"
MayWrite ==
  /\ Busy("settle") \/ Busy("title") => "early" \in race
  /\ Busy("revert") => "sloppy" \in race
At(w, where) == step' = [step EXCEPT ![w] = where]
LogKeeps == UNCHANGED <<turnRuns, turnAt, count, deleted, race>>

\* append_record is called with a new record of this kind.
Want(w, kind) ==
  /\ ~Busy(w) /\ MayWrite /\ count < MaxLines
  /\ count' = count + 1
  /\ line' = [line EXCEPT ![w] = Rec(kind, count + 1)]
  /\ At(w, "look")

-----------------------------------------------------------------------------
(* Who writes what.                                                        *)

BeginLogTurn ==
  /\ ~turnRuns /\ ~deleted
  /\ turnRuns' = TRUE /\ turnAt' = "user"
  /\ Want("turn", "user")
  /\ UNCHANGED <<jsonl, there, held, read, had, accepted, deleted, race>>

Follows(kind) ==
  CASE kind \in Answers -> turnAt \in {"user", "tool"}
    [] kind = "error"   -> turnAt \in {"user", "tool"}
    [] kind = "usage"   -> turnAt \in Answers /\ "usage" \in race
    [] kind = "tool"    -> turnAt \in {"calls", "called"}

TurnWrites ==
  /\ turnRuns
  /\ \E kind \in Answers \cup {"error", "usage", "tool"} :
        /\ Follows(kind)
        /\ Want("turn", kind)
        /\ turnAt' = IF kind # "usage" THEN kind
                     ELSE IF turnAt = "calls" THEN "called" ELSE "spoke"
  /\ UNCHANGED <<jsonl, there, held, read, had, turnRuns, accepted, deleted, race>>

\* The slot is free before append_summary_state is called.
TurnSettles ==
  /\ turnRuns /\ ~Busy("turn") /\ ~Busy("settle") /\ MayWrite
  /\ turnAt \in {"text", "spoke", "error", "tool"}
  /\ turnRuns' = FALSE /\ turnAt' = "none"
  /\ At("settle", "load")
  /\ UNCHANGED <<jsonl, there, held, line, read, had, count, accepted, deleted, race>>

\* spawn_auto_rename and rename_session: the title, then a trailer.
NewTitle ==
  /\ there /\ Want("title", "title")
  /\ UNCHANGED <<jsonl, there, held, read, had, turnRuns, turnAt, accepted, deleted, race>>

\* The spawn and finish records of sub-agents, from tasks of their own.
ChildWrites ==
  /\ there /\ Want("child", "child")
  /\ UNCHANGED <<jsonl, there, held, read, had, turnRuns, turnAt, accepted, deleted, race>>

NewHeader ==
  /\ ~Busy("header") /\ MayWrite /\ ~deleted
  /\ At("header", "look")
  /\ UNCHANGED <<jsonl, there, held, line, read, had, accepted>> /\ LogKeeps

-----------------------------------------------------------------------------
(* append_record, append_summary_state, rewrite_header.                    *)

\* append_summary_state folds the file before it takes the lock.
SummaryLoad(w) ==
  /\ step[w] = "load" /\ w # "revert"
  /\ "early" \in race \/ \A x \in {"turn", "title"} : line[x][1] \in {"header", "state"}
  /\ \/ /\ jsonl # <<>>
        /\ line' = [line EXCEPT ![w] = Trailer(Flags(jsonl), 0)]
        /\ At(w, "look")
     \/ /\ jsonl = <<>>
        /\ At(w, "idle") /\ UNCHANGED line
  /\ UNCHANGED <<jsonl, there, held, read, had, accepted>> /\ LogKeeps

Foldable(w) ==
  /\ line[w][1] = "usage" /\ jsonl # <<>>
  /\ Last(jsonl)[1] \in Answers /\ Last(jsonl)[3] = 0

\* Mutant of Look: the append lock is not waited for.
LookUnlocked(w) ==
  /\ step[w] = "look"
  /\ held' = w
  /\ had' = [had EXCEPT ![w] = there]
  /\ line' = [line EXCEPT ![w] =
       IF @[1] = "state" THEN Trailer(@[2], (IF there THEN Len(jsonl) ELSE 1) + 1) ELSE @]
  /\ read' = [read EXCEPT ![w] =
       IF Foldable(w) THEN [jsonl EXCEPT ![Len(jsonl)][3] = line[w][2]]
       ELSE IF w = "header" THEN jsonl ELSE <<>>]
  /\ At(w, IF Foldable(w) \/ (w = "header" /\ there) THEN "cut" ELSE "write")
  /\ UNCHANGED <<jsonl, there, accepted>> /\ LogKeeps

\* Take the lock, see whether the file is there.
Look(w) ==
  /\ step[w] = "look" /\ held = Nobody
  /\ held' = w
  /\ had' = [had EXCEPT ![w] = there]
  /\ line' = [line EXCEPT ![w] =
       IF @[1] = "state" THEN Trailer(@[2], (IF there THEN Len(jsonl) ELSE 1) + 1) ELSE @]
  /\ read' = [read EXCEPT ![w] =
       IF Foldable(w) THEN [jsonl EXCEPT ![Len(jsonl)][3] = line[w][2]]
       ELSE IF w = "header" THEN jsonl ELSE <<>>]
  /\ At(w, IF Foldable(w) \/ (w = "header" /\ there) THEN "cut" ELSE "write")
  /\ UNCHANGED <<jsonl, there, accepted>> /\ LogKeeps

Forget(w) ==
  /\ line' = [line EXCEPT ![w] = Header] /\ read' = [read EXCEPT ![w] = <<>>]
  /\ had' = [had EXCEPT ![w] = FALSE]

\* A title is followed by its trailer.
Release(w) ==
  /\ held' = Nobody
  /\ At(w, IF w = "title" /\ line[w][1] = "title" THEN "load" ELSE "idle")
  /\ Forget(w)

WriteLine(w) ==
  /\ step[w] = "write" /\ w \notin {"header", "revert"}
  /\ jsonl' = jsonl \o (IF had[w] THEN <<>> ELSE <<Header>>) \o <<line[w]>>
  /\ there' = TRUE
  /\ accepted' = IF line[w][1] = "state" THEN accepted ELSE accepted \cup {line[w]}
  /\ Release(w)
  /\ LogKeeps

\* A rewrite truncates first: try_fold_usage_into_last_assistant to the start of
\* the last line, a written header or a revert (tokio::fs::write) to nothing.
Truncate(w) ==
  /\ step[w] = "cut"
  /\ jsonl' = IF w \in {"header", "revert"} THEN <<>>
              ELSE SubSeq(jsonl, 1, Len(read[w]) - 1)
  /\ At(w, "patch")
  /\ UNCHANGED <<there, held, line, read, had, accepted>> /\ LogKeeps

\* Mutant of FoldWrite: a usage that was folded is appended as well.
FoldWriteTwice(w) ==
  /\ step[w] = "patch" /\ w \notin {"header", "revert"}
  /\ jsonl' = jsonl \o <<Last(read[w]), line[w]>>
  /\ accepted' = accepted \cup {line[w]}
  /\ Release(w)
  /\ UNCHANGED there /\ LogKeeps

FoldWrite(w) ==
  /\ step[w] = "patch" /\ w \notin {"header", "revert"}
  /\ jsonl' = Append(jsonl, Last(read[w]))
  /\ accepted' = accepted \cup {line[w]}
  /\ Release(w)
  /\ UNCHANGED there /\ LogKeeps

\* Without a file there is no header to rewrite.
WriteHeader ==
  /\ step["header"] \in {"patch", "write"}
  /\ jsonl' = IF step["header"] = "patch" THEN read["header"] ELSE jsonl
  /\ there' = (there \/ step["header"] = "patch")
  /\ Release("header")
  /\ UNCHANGED accepted /\ LogKeeps

-----------------------------------------------------------------------------
(* Revert, deletion, crash.                                                *)

\* The check for a running turn is over before the file is read.
RevertBegins ==
  /\ "revert" \in race
  /\ ~turnRuns /\ there /\ ~Busy("revert")
  /\ "sloppy" \in race \/ \A w \in Writers : ~Busy(w)
  /\ At("revert", "load")
  /\ UNCHANGED <<jsonl, there, held, line, read, had, accepted>> /\ LogKeeps

RevertLoad ==
  /\ step["revert"] = "load"
  /\ \/ \E i \in DOMAIN Records(jsonl) :
          /\ Records(jsonl)[i][1] = "user"
          /\ line' = [line EXCEPT !["revert"] = Records(jsonl)[i]]
          /\ read' = [read EXCEPT !["revert"] = Records(jsonl)]
          /\ At("revert", "cut")
     \/ /\ \A i \in DOMAIN jsonl : jsonl[i][1] # "user"
        /\ At("revert", "idle") /\ UNCHANGED <<line, read>>
  /\ UNCHANGED <<jsonl, there, held, had, accepted>> /\ LogKeeps

\* Mutant of RevertWrite: the record before the message goes, too.
RevertWriteShort ==
  /\ step["revert"] = "patch"
  /\ LET all == read["revert"]
         cut == CHOOSE i \in DOMAIN all : all[i] = line["revert"]
     IN /\ jsonl' = <<Header>> \o SubSeq(all, 1, cut - 2)
        /\ accepted' = accepted \ {all[i] : i \in cut..Len(all)}
  /\ there' = TRUE
  /\ At("revert", "idle") /\ Forget("revert")
  /\ UNCHANGED held /\ LogKeeps

RevertWrite ==
  /\ step["revert"] = "patch"
  /\ LET all == read["revert"]
         cut == CHOOSE i \in DOMAIN all : all[i] = line["revert"]
     IN /\ jsonl' = <<Header>> \o SubSeq(all, 1, cut - 1)
        /\ accepted' = accepted \ {all[i] : i \in cut..Len(all)}
  /\ there' = TRUE
  /\ At("revert", "idle") /\ Forget("revert")
  /\ UNCHANGED held /\ LogKeeps

\* Mutant of DeleteFile: the file is unlinked and its lines are still served.
DeleteFileCached ==
  /\ "delete" \in race /\ there /\ ~deleted
  /\ "sloppy" \in race \/ (~turnRuns /\ \A w \in Writers : ~Busy(w))
  /\ there' = FALSE /\ accepted' = {} /\ deleted' = TRUE
  /\ UNCHANGED <<jsonl, held, step, line, read, had, turnRuns, turnAt, count, race>>

\* sessions::delete
DeleteFile ==
  /\ "delete" \in race /\ there /\ ~deleted
  /\ "sloppy" \in race \/ (~turnRuns /\ \A w \in Writers : ~Busy(w))
  /\ jsonl' = <<>> /\ there' = FALSE /\ accepted' = {} /\ deleted' = TRUE
  /\ UNCHANGED <<held, step, line, read, had, turnRuns, turnAt, count, race>>

Crash ==
  /\ "crash" \in race /\ count < MaxLines
  /\ \E w \in Writers : Busy(w)
  /\ "torn" \in race \/ \A w \in Writers : step[w] # "patch"
  /\ held' = Nobody /\ turnRuns' = FALSE /\ turnAt' = "none"
  /\ step' = [w \in Writers |-> "idle"] /\ line' = [w \in Writers |-> Header]
  /\ read' = [w \in Writers |-> <<>>] /\ had' = [w \in Writers |-> FALSE]
  /\ UNCHANGED <<jsonl, there, count, accepted, deleted, race>>

-----------------------------------------------------------------------------

WriterStep(w) == SummaryLoad(w) \/ Look(w) \/ WriteLine(w) \/ Truncate(w) \/ FoldWrite(w)

LogNext ==
  \/ BeginLogTurn \/ TurnWrites \/ TurnSettles \/ NewTitle \/ ChildWrites \/ NewHeader
  \/ WriteHeader \/ RevertBegins \/ RevertLoad \/ RevertWrite \/ DeleteFile \/ Crash
  \/ \E w \in Writers : WriterStep(w)

LogSpec == LogInit /\ [][LogNext]_logVars

-----------------------------------------------------------------------------
(* Properties.                                                             *)

LogTypeOK ==
  /\ there \in BOOLEAN /\ turnRuns \in BOOLEAN /\ deleted \in BOOLEAN
  /\ held \in Writers \cup {Nobody}
  /\ step \in [Writers -> {"idle", "load", "look", "cut", "patch", "write"}]
  /\ had \in [Writers -> BOOLEAN]
  /\ turnAt \in {"none", "user", "calls", "called", "tool", "text", "spoke", "error"}
  /\ count \in 0..MaxLines /\ race \in Races
  /\ ~there => jsonl = <<>>

\* The file is between the truncation and the write of a rewrite.
Rewriting == \E w \in Writers : step[w] = "patch"

\* What the sessions list shows, fast path or not, is what the records say,
\* after any mix of turns, renames, sub-agents, reverts and crashes.
TrailerTruthful == Listed(jsonl) = Flags(jsonl)

\* A record that was written stays in the file until a revert or a deletion
\* drops it.
NothingVanishes == ~Rewriting => accepted \subseteq ToSet(Records(jsonl))

\* A usage is in the file at most once, folded or not.
UsageOnce ==
  \A i, j \in DOMAIN Records(jsonl) :
    Records(jsonl)[i][1] # "state" /\ Records(jsonl)[i] = Records(jsonl)[j] => i = j

\* A file that is there can be opened: its first line is the header, and it has
\* only one.
OneHeader ==
  there /\ ~Rewriting =>
    /\ jsonl # <<>> /\ jsonl[1] = Header
    /\ \A i \in 2..Len(jsonl) : jsonl[i] # Header

\* "The UI's delete then refresh flow": a deleted session is not listed again.
StaysDeleted == deleted => ~there

\* Well typed; one header, every record and every usage once, and a sessions list
\* that is right.
FileWhole ==
  LogTypeOK /\ OneHeader /\ NothingVanishes /\ UsageOnce /\ TrailerTruthful
=============================================================================
