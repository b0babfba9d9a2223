---------------------------- MODULE ReplayWindow ----------------------------
(***************************************************************************)
(* Receiving on a companion session: messages with explicit numbers come   *)
(* through the relay in any order, perhaps more than once, and are handled *)
(* concurrently. ReplayWindow, decrypt_in and seal_out of                  *)
(* crates/moon-remote/src/e2e.rs; the phone's window in                    *)
(* companion/src/lib/e2e.ts is the same algorithm with one handler.        *)
(***************************************************************************)
EXTENDS Naturals

CONSTANTS Window,    \* REPLAY_WINDOW: numbers the receiver can tell apart
          Receivers, \* handlers that receive at the same time
          MaxNumber  \* bound: messages sent

ASSUME WindowAssumption == Window \in Nat \ {0} /\ MaxNumber \in Nat

NoNumber == MaxNumber

VARIABLES sent,     \* send_n: the next number
          top,      \* highest number accepted so far, plus one
          bits,     \* the ring: slots whose bit is set
          checking, \* per receiver: the number that has passed the pre-check
          taken,    \* numbers whose message was handed on
          twice,    \* ... and those of them that were handed on again
          refused   \* numbers of intact messages that were refused

windowVars == <<sent, top, bits, checking, taken, twice, refused>>

Numbers == 0 .. MaxNumber - 1

WindowTypeOK ==
  /\ sent \in 0 .. MaxNumber /\ top \in 0 .. MaxNumber /\ bits \subseteq 0 .. Window - 1
  /\ checking \in [Receivers -> Numbers \cup {NoNumber}]
  /\ taken \subseteq Numbers /\ twice \subseteq taken /\ refused \subseteq Numbers

WindowInit ==
  /\ sent = 0 /\ top = 0 /\ bits = {}
  /\ checking = [r \in Receivers |-> NoNumber]
  /\ taken = {} /\ twice = {} /\ refused = {}

Slot(n) == n % Window

\* Mutant of Unseen: the oldest number of the window counts as gone.
UnseenShort(n) == n >= top \/ (top - n < Window /\ Slot(n) \notin bits)

\* Whether a message may still be new: beyond the window's end, or inside it and
\* its bit not set.
Unseen(n) == n >= top \/ (top - n <= Window /\ Slot(n) \notin bits)

\* Mutant of Cleared: the slot of the number that moves the window is enough.
ClearedOne(n) == IF n + 1 - top >= Window THEN {} ELSE bits \ {Slot(n)}

\* The ring after the window's end has moved to n: the slots of the numbers that
\* come into it are cleared, all of them when it moves by its width.
Cleared(n) ==
  IF n + 1 - top >= Window THEN {} ELSE bits \ {Slot(k) : k \in top .. n}

\* mark: n has been seen.
Mark(n) ==
  IF n >= top
  THEN /\ bits' = Cleared(n) \cup {Slot(n)}
       /\ top' = n + 1
  ELSE bits' = bits \cup {Slot(n)} /\ top' = top

-----------------------------------------------------------------------------
(* Steps.                                                                  *)

\* The other end seals a message: fetch_add gives it the next number.
Seal ==
  /\ sent < MaxNumber /\ sent' = sent + 1
  /\ UNCHANGED <<top, bits, checking, taken, twice, refused>>

\* A message, or a further copy of it, reaches a receiver and passes the
\* pre-check; the lock is released for the decryption.
PreCheck(r, n) ==
  /\ checking[r] = NoNumber /\ n < sent /\ Unseen(n)
  /\ checking' = [checking EXCEPT ![r] = n]
  /\ UNCHANGED <<sent, top, bits, taken, twice, refused>>

\* ... or does not.
Refuse(r, n) ==
  /\ checking[r] = NoNumber /\ n < sent /\ ~Unseen(n)
  /\ refused' = refused \cup {n}
  /\ UNCHANGED <<sent, top, bits, checking, taken, twice>>

\* Mutant of Garbled: the number is marked although the message was not intact.
GarbledMarks(r) ==
  /\ checking[r] # NoNumber /\ Mark(checking[r])
  /\ checking' = [checking EXCEPT ![r] = NoNumber]
  /\ UNCHANGED <<sent, taken, twice, refused>>

\* The copy was not intact: it is dropped and leaves no mark.
Garbled(r) ==
  /\ checking[r] # NoNumber
  /\ checking' = [checking EXCEPT ![r] = NoNumber]
  /\ UNCHANGED <<sent, top, bits, taken, twice, refused>>

HandOn(n) == taken' = taken \cup {n} /\ twice' = twice \cup (taken \cap {n})

\* Mutant of TakeMessage: no second check under the lock.
TakeUnchecked(r) ==
  /\ checking[r] # NoNumber
  /\ Mark(checking[r]) /\ HandOn(checking[r])
  /\ checking' = [checking EXCEPT ![r] = NoNumber]
  /\ UNCHANGED <<sent, refused>>

\* Decrypted: checked again under the lock, marked and handed on.
TakeMessage(r) ==
  /\ checking[r] # NoNumber /\ Unseen(checking[r])
  /\ Mark(checking[r]) /\ HandOn(checking[r])
  /\ checking' = [checking EXCEPT ![r] = NoNumber]
  /\ UNCHANGED <<sent, refused>>

\* Decrypted, and another copy of it, or too many later ones, came first.
RefuseLate(r) ==
  /\ checking[r] # NoNumber /\ ~Unseen(checking[r])
  /\ refused' = refused \cup {checking[r]}
  /\ checking' = [checking EXCEPT ![r] = NoNumber]
  /\ UNCHANGED <<sent, top, bits, taken, twice>>

WindowNext ==
  \/ Seal
  \/ \E r \in Receivers :
       \/ \E n \in Numbers : PreCheck(r, n) \/ Refuse(r, n)
       \/ Garbled(r) \/ TakeMessage(r) \/ RefuseLate(r)

WindowSpec == WindowInit /\ [][WindowNext]_windowVars

-----------------------------------------------------------------------------
(* Properties                                                              *)

\* No message is handed on twice, whatever copies come and however their
\* handlers overlap: "two copies of one message can race past the pre-check".
TakenOnce == twice = {}

\* An intact message is refused only if it was handed on before, or is older
\* than the window: what is merely late is taken.
RefusedRight == \A n \in refused : n \in taken \/ n + Window < top

\* Well typed; at most once, and nothing refused without a reason.
WindowOK == WindowTypeOK /\ TakenOnce /\ RefusedRight
=============================================================================
