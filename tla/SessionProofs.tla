--------------------------- MODULE SessionProofs ---------------------------
(***************************************************************************)
(* What the file of a session (SessionLog) guarantees for any number of    *)
(* records and any races of appends, folded usage, trailers, rewrites,     *)
(* reverts, deletion and crashes between two steps; and what the history   *)
(* of a session (Transcript) guarantees for any number of messages, calls  *)
(* in a batch and user messages that a compaction keeps.                   *)
(***************************************************************************)
EXTENDS SessionLog, Transcript, WellFoundedInduction, FiniteSetTheorems,
        SequenceTheorems, TLAPS

-----------------------------------------------------------------------------
(* Induction, and what a fold computes: FoldLeft is CHOSEN among the       *)
(* functions on sets of indices, so what it does to a sequence is proved   *)
(* from the existence of one that iterates its operator.                   *)

Below == {p \in Nat \X Nat : p[1] < p[2]}
LEMMA BelowWF == IsWellFoundedOn(Below, Nat)
  BY NatLessThanWellFounded DEF OpToRel, Below
\* Induction over the naturals, as a fact about a set of them.
LEMMA Induct ==
  ASSUME NEW S, S \subseteq Nat, 0 \in S, \A n \in S : n + 1 \in S
  PROVE S = Nat
  <1>2. SUFFICES ASSUME Nat \ S # {} PROVE FALSE
    OBVIOUS
  <1>3. PICK x \in Nat \ S : \A y \in Nat \ S : ~ (<<y, x>> \in Below)
    BY BelowWF, <1>2, WFMin
  <1>4. x # 0 /\ x - 1 \in Nat /\ (x - 1) + 1 = x
    BY <1>3
  <1>5. x - 1 \in Nat \ S
    BY <1>3, <1>4
  <1>6. <<x - 1, x>> \in Below
    BY <1>3, <1>4 DEF Below
  <1> QED BY <1>3, <1>5, <1>6

\* Every set of indices has a greatest.
LEMMA MaxOfIndices ==
  ASSUME NEW n \in Nat, NEW t \in SUBSET (1..n), t # {}
  PROVE Max(t) \in t /\ \A y \in t : y <= Max(t)
  <1> DEFINE Has(u) == \E x \in u : \A y \in u : x >= y
             S == {k \in Nat : \A u \in SUBSET (1..k) : u # {} => Has(u)}
  <1>0. 1..0 = {}
    OBVIOUS
  <1>1. 0 \in S
    BY <1>0
  <1>2. ASSUME NEW k \in S PROVE k + 1 \in S
    <2>1. SUFFICES ASSUME NEW u \in SUBSET (1..(k + 1)), u # {} PROVE Has(u)
      OBVIOUS
    <2>2. CASE k + 1 \in u
      BY <2>2
    <2>3. CASE k + 1 \notin u
      <3>1. u \in SUBSET (1..k)
        BY <2>3
      <3> QED BY <3>1, <2>1, <1>2
    <2> QED BY <2>2, <2>3
  <1>3. S = Nat
    <2> HIDE DEF S
    <2>1. S \subseteq Nat
      BY DEF S
    <2> QED BY <2>1, <1>1, <1>2, Induct
  <1>4. Has(t)
    BY <1>3
  <1> QED BY <1>4 DEF Max

LEMMA IndicesBelow ==
  ASSUME NEW k \in Nat, NEW t, t \in SUBSET (1..(k + 1)), k + 1 \notin t
  PROVE t \in SUBSET (1..k)
  <1>1. ASSUME NEW y \in t PROVE y \in 1..k
    <2>1. y \in 1..(k + 1) /\ y # k + 1
      OBVIOUS
    <2> QED BY <2>1
  <1> QED BY <1>1

LEMMA WithoutMax ==
  ASSUME NEW k \in Nat, NEW t \in SUBSET (1..(k + 1)), t # {}
  PROVE Max(t) \in t /\ t \ {Max(t)} \in SUBSET (1..k)
  <1>0. k + 1 \in Nat
    OBVIOUS
  <1>1. Max(t) \in t /\ \A y \in t : y <= Max(t)
    BY MaxOfIndices, <1>0
  <1>2. Max(t) \in 1..(k + 1)
    BY <1>1
  <1>3. k + 1 \notin t \ {Max(t)}
    <2>1. SUFFICES ASSUME k + 1 \in t PROVE Max(t) = k + 1
      OBVIOUS
    <2>2. k + 1 <= Max(t)
      BY <1>1, <2>1
    <2> QED BY <1>2, <2>2
  <1>4. t \ {Max(t)} \in SUBSET (1..(k + 1))
    OBVIOUS
  <1> QED BY <1>1, <1>3, <1>4, IndicesBelow

\* st is a step of a fold over lines from X, with results in A.
Folding(st, base, A, X) == st \in [A \X X -> A] /\ base \in A

\* The value a fold has for each set of indices of the sequence.
Iterates(st, base, A, s, g) ==
  /\ g[{}] = base
  /\ \A t \in SUBSET DOMAIN s :
       t # {} /\ g[t \ {Max(t)}] \in A => g[t] = st[<<g[t \ {Max(t)}], s[Max(t)]>>]

LEMMA IteratesTyped ==
  ASSUME NEW A, NEW X, NEW st, NEW base, Folding(st, base, A, X), NEW s \in Seq(X),
         NEW g, Iterates(st, base, A, s, g)
  PROVE \A t \in SUBSET DOMAIN s : g[t] \in A
  <1> DEFINE S == {k \in Nat : k > Len(s) \/ \A t \in SUBSET (1..k) : g[t] \in A}
  <1>0. 1..0 = {} /\ DOMAIN s = 1..Len(s) /\ Len(s) \in Nat
    OBVIOUS
  <1>1. 0 \in S
    BY <1>0 DEF Iterates, Folding
  <1>2. ASSUME NEW k \in S PROVE k + 1 \in S
    <2>0. k \in Nat /\ k + 1 \in Nat
      OBVIOUS
    <2>1. SUFFICES ASSUME k + 1 <= Len(s), NEW t \in SUBSET (1..(k + 1)) PROVE g[t] \in A
      OBVIOUS
    <2>2. CASE t = {}
      BY <2>2 DEF Iterates, Folding
    <2>3. CASE t # {}
      <3>1. Max(t) \in t /\ t \ {Max(t)} \in SUBSET (1..k)
        BY WithoutMax, <2>0, <2>3
      <3>2. t \ {Max(t)} \in SUBSET (1..k)
        BY <3>1
      <3>9. \A y \in t : y \in 1..(k + 1)
        OBVIOUS
      <3>3. g[t \ {Max(t)}] \in A
        BY <3>2, <2>1, <1>2
      <3>8. \A y \in t : y \in 1..Len(s)
        BY <1>0, <2>0, <2>1, <3>9
      <3>7. \A i \in 1..Len(s) : s[i] \in X
        BY <1>0
      <3>4. t \in SUBSET DOMAIN s /\ s[Max(t)] \in X
        BY <1>0, <3>1, <3>7, <3>8
      <3>5. g[t] = st[<<g[t \ {Max(t)}], s[Max(t)]>>]
        BY <3>3, <3>4, <2>3 DEF Iterates
      <3> QED BY <3>5, <3>3, <3>4 DEF Folding
    <2> QED BY <2>2, <2>3
  <1>3. S = Nat
    <2> HIDE DEF S
    <2>1. S \subseteq Nat
      BY DEF S
    <2> QED BY <2>1, <1>1, <1>2, Induct
  <1> QED BY <1>0, <1>3

Begins(s, u) == Len(s) <= Len(u) /\ \A i \in 1..Len(s) : s[i] = u[i]

LEMMA IteratesAgree ==
  ASSUME NEW A, NEW X, NEW st, NEW base, Folding(st, base, A, X),
         NEW s \in Seq(X), NEW u \in Seq(X), Begins(s, u),
         NEW g, Iterates(st, base, A, s, g), NEW h, Iterates(st, base, A, u, h)
  PROVE \A t \in SUBSET DOMAIN s : g[t] = h[t]
  <1> DEFINE S == {k \in Nat : k > Len(s) \/ \A t \in SUBSET (1..k) : g[t] = h[t]}
  <1>0. 1..0 = {} /\ DOMAIN s = 1..Len(s) /\ Len(s) \in Nat
    OBVIOUS
  <1>1. 0 \in S
    BY <1>0 DEF Iterates, Folding
  <1>2. ASSUME NEW k \in S PROVE k + 1 \in S
    <2>0. k \in Nat /\ k + 1 \in Nat
      OBVIOUS
    <2>1. SUFFICES ASSUME k + 1 <= Len(s), NEW t \in SUBSET (1..(k + 1)) PROVE g[t] = h[t]
      OBVIOUS
    <2>2. CASE t = {}
      BY <2>2 DEF Iterates, Folding
    <2>3. CASE t # {}
      <3>1. Max(t) \in t /\ t \ {Max(t)} \in SUBSET (1..k)
        BY WithoutMax, <2>0, <2>3
      <3>2. t \ {Max(t)} \in SUBSET (1..k)
        BY <3>1
      <3>9. \A y \in t : y \in 1..(k + 1)
        OBVIOUS
      <3>3. g[t \ {Max(t)}] = h[t \ {Max(t)}]
        BY <3>2, <2>1, <1>2
      <3>8. \A y \in t : y \in 1..Len(s) /\ y \in 1..Len(u)
        BY <1>0, <2>0, <2>1, <3>9 DEF Begins
      <3>7. DOMAIN u = 1..Len(u)
        OBVIOUS
      <3>6. t \in SUBSET DOMAIN s /\ t \in SUBSET DOMAIN u
        BY <1>0, <3>7, <3>8
      <3>4. t \in SUBSET DOMAIN s /\ t \in SUBSET DOMAIN u /\ s[Max(t)] = u[Max(t)]
        BY <3>1, <3>6, <3>8 DEF Begins
      <3>5. g[t \ {Max(t)}] \in A /\ t \ {Max(t)} \in SUBSET DOMAIN s
        BY <3>4, IteratesTyped
      <3>10. g[t] = st[<<g[t \ {Max(t)}], s[Max(t)]>>]
        BY <3>4, <3>5, <2>3 DEF Iterates
      <3>11. h[t] = st[<<h[t \ {Max(t)}], u[Max(t)]>>]
        BY <3>3, <3>4, <3>5, <2>3 DEF Iterates
      <3> QED BY <3>3, <3>4, <3>10, <3>11
    <2> QED BY <2>2, <2>3
  <1>3. S = Nat
    <2> HIDE DEF S
    <2>1. S \subseteq Nat
      BY DEF S
    <2> QED BY <2>1, <1>1, <1>2, Induct
  <1> QED BY <1>0, <1>3

Folds(st, base, A, s, g) ==
  /\ g \in [SUBSET DOMAIN s -> A]
  /\ g[{}] = base
  /\ \A t \in SUBSET DOMAIN s : t # {} => g[t] = st[<<g[t \ {Max(t)}], s[Max(t)]>>]

\* There is a function that takes these values.
LEMMA IteratesExists ==
  ASSUME NEW A, NEW X, NEW st, NEW base, Folding(st, base, A, X), NEW s \in Seq(X)
  PROVE \E g : Folds(st, base, A, s, g)
  <1> DEFINE Good(k, g) ==
        /\ g[{}] = base
        /\ \A t \in SUBSET (1..k) : t # {} => g[t] = st[<<g[t \ {Max(t)}], s[Max(t)]>>]
      Some(k) == \E g \in [SUBSET (1..k) -> A] : Good(k, g)
      S == {k \in Nat : k > Len(s) \/ Some(k)}
  <1>0. 1..0 = {} /\ DOMAIN s = 1..Len(s) /\ Len(s) \in Nat
    OBVIOUS
  <1>1. 0 \in S
    <2>1. [t \in SUBSET (1..0) |-> base] \in [SUBSET (1..0) -> A]
      BY DEF Folding
    <2>2. Good(0, [t \in SUBSET (1..0) |-> base])
      BY <1>0
    <2> QED BY <2>1, <2>2
  <1>2. ASSUME NEW k \in S PROVE k + 1 \in S
    <2>0. k \in Nat /\ k + 1 \in Nat
      OBVIOUS
    <2>1. SUFFICES ASSUME k + 1 <= Len(s)
                   PROVE Some(k + 1)
      <3> HIDE DEF Some
      <3> QED BY <2>0
    <2>2. PICK f \in [SUBSET (1..k) -> A] : Good(k, f)
      <3>1. Some(k)
        <4> HIDE DEF Some
        <4> QED BY <1>2, <2>0, <2>1
      <3> QED BY <3>1
    <2> DEFINE g == [t \in SUBSET (1..(k + 1)) |->
                       IF k + 1 \in t THEN st[<<f[t \ {k + 1}], s[k + 1]>>] ELSE f[t]]
    <2>3. s[k + 1] \in X
      BY <2>1
    <2>4. ASSUME NEW t \in SUBSET (1..(k + 1)) PROVE (t \ {k + 1}) \in SUBSET (1..k)
      OBVIOUS
    <2>5. g \in [SUBSET (1..(k + 1)) -> A]
      <3>1. SUFFICES ASSUME NEW t \in SUBSET (1..(k + 1)) PROVE g[t] \in A
        OBVIOUS
      <3>2. CASE k + 1 \in t
        BY <3>2, <2>3, <2>4, <2>2 DEF Folding
      <3>3. CASE k + 1 \notin t
        <4>1. t \in SUBSET (1..k)
          BY <3>3
        <4> QED BY <4>1, <3>3, <2>2
      <3> QED BY <3>2, <3>3
    <2>6. g[{}] = base
      BY <2>2
    <2>7. ASSUME NEW t \in SUBSET (1..(k + 1)), t # {}
          PROVE g[t] = st[<<g[t \ {Max(t)}], s[Max(t)]>>]
      <3>1. Max(t) \in t /\ \A y \in t : y <= Max(t)
        BY MaxOfIndices, <2>0, <2>7
      <3>2. CASE k + 1 \in t
        <4>1. Max(t) = k + 1
          <5>1. Max(t) \in 1..(k + 1) /\ k + 1 <= Max(t)
            BY <3>1, <3>2
          <5> QED BY <2>0, <5>1
        <4>2. g[t \ {k + 1}] = f[t \ {k + 1}]
          BY <2>4
        <4>3. g[t] = st[<<f[t \ {k + 1}], s[k + 1]>>]
          BY <3>2
        <4> QED BY <4>1, <4>2, <4>3
      <3>3. CASE k + 1 \notin t
        <4>0. t \in SUBSET (1..k)
          BY <2>0, <3>3, IndicesBelow
        <4>1. t \in SUBSET (1..k) /\ t \ {Max(t)} \in SUBSET (1..k)
          BY <4>0
        <4>2. g[t] = f[t] /\ g[t \ {Max(t)}] = f[t \ {Max(t)}]
          BY <4>1, <3>3
        <4>3. f[t] = st[<<f[t \ {Max(t)}], s[Max(t)]>>]
          BY <4>1, <2>2, <2>7
        <4> QED BY <4>2, <4>3
      <3> QED BY <3>2, <3>3
    <2> HIDE DEF g
    <2> QED BY <2>5, <2>6, <2>7
  <1>3. S = Nat
    <2> HIDE DEF S
    <2>1. S \subseteq Nat
      BY DEF S
    <2> QED BY <2>1, <1>1, <1>2, Induct
  <1>4. Some(Len(s))
    <2> HIDE DEF Some
    <2> QED BY <1>0, <1>3
  <1> QED BY <1>0, <1>4 DEF Folds

\* A fold takes one step for each line.
LEMMA IteratesAppend ==
  ASSUME NEW A, NEW X, NEW st, NEW base, Folding(st, base, A, X), NEW s \in Seq(X), NEW x \in X,
         NEW g, Iterates(st, base, A, s, g), NEW h, Iterates(st, base, A, Append(s, x), h)
  PROVE /\ h[DOMAIN Append(s, x)] = st[<<g[DOMAIN s], x>>]
        /\ g[DOMAIN s] \in A
  <1> DEFINE u == Append(s, x)
             d == 1..(Len(s) + 1)
  <1>1. u \in Seq(X) /\ Len(u) = Len(s) + 1 /\ DOMAIN u = d /\ DOMAIN s = 1..Len(s)
        /\ u[Len(s) + 1] = x /\ \A i \in 1..Len(s) : u[i] = s[i]
    OBVIOUS
  <1> HIDE DEF u
  <1>2. Max(d) = Len(s) + 1 /\ d # {}
    <2>0. Len(s) + 1 \in Nat /\ d \in SUBSET d /\ Len(s) + 1 \in d
      OBVIOUS
    <2>1. Max(d) \in d /\ \A y \in d : y <= Max(d)
      <3>1. d # {}
        BY <2>0
      <3> HIDE DEF d
      <3> QED BY <2>0, <3>1, MaxOfIndices DEF d
    <2>2. Max(d) \in Nat /\ Max(d) <= Len(s) + 1 /\ Len(s) + 1 <= Max(d)
      BY <2>0, <2>1
    <2> QED BY <2>0, <2>2
  <1>3. d \ {Max(d)} = DOMAIN s
    BY <1>1, <1>2
  <1>4. g[DOMAIN s] = h[DOMAIN s]
    <2>1. Iterates(st, base, A, u, h) /\ u \in Seq(X)
      BY <1>1 DEF u
    <2>3. Begins(s, u)
      BY <1>1 DEF Begins
    <2>2. \A t \in SUBSET DOMAIN s : g[t] = h[t]
      BY <2>1, <2>3, IteratesAgree
    <2> QED BY <2>2
  <1>5. g[DOMAIN s] \in A
    BY IteratesTyped
  <1>6. h[d] = st[<<h[DOMAIN s], u[Max(d)]>>]
    BY <1>1, <1>2, <1>3, <1>4, <1>5 DEF Iterates, u
  <1> QED BY <1>1, <1>2, <1>4, <1>5, <1>6 DEF u

Pos == Nat \ {0}
Kinds == {"user", "calls", "text", "tool", "error", "usage", "title", "child"}
FlagSet == Nat \X BOOLEAN \X BOOLEAN
Recs == Kinds \X Pos \X {0}
Folded == Answers \X Pos \X Pos
Trailers == {"state"} \X FlagSet \X Nat
Lines == {Header} \cup Recs \cup Folded \cup Trailers
Kept == Seq(Recs \cup Trailers)

AddRecord(rs, l) ==
  CASE l[1] = "header" -> rs
    [] l[1] \in Answers /\ l[3] # 0 -> rs \o <<Rec(l[1], l[2]), Rec("usage", l[3])>>
    [] OTHER -> Append(rs, l)
AddFlags(f, l) ==
  CASE l[1] = "title" -> <<l[2], f[2], f[3]>>
    [] l[1] \in {"user", "tool", "calls"} -> <<f[1], FALSE, TRUE>>
    [] l[1] = "text"  -> <<f[1], FALSE, FALSE>>
    [] l[1] = "error" -> <<f[1], TRUE, FALSE>>
    [] OTHER -> f
RecordsStep == [p \in Kept \X Lines |-> AddRecord(p[1], p[2])]
FlagsStep == [p \in FlagSet \X Lines |-> AddFlags(p[1], p[2])]
NoFlags == <<0, FALSE, FALSE>>

\* What a line can be.
LEMMA LineIs ==
  ASSUME NEW l \in Lines
  PROVE \/ l = Header
        \/ l \in Recs /\ l[1] \in Kinds /\ l[2] \in Pos /\ l[3] = 0
        \/ l \in Folded /\ l[1] \in Answers /\ l[2] \in Pos /\ l[3] \in Pos
        \/ l \in Trailers /\ l[1] = "state" /\ l[2] \in FlagSet /\ l[3] \in Nat
  <1>1. CASE l = Header
    BY <1>1
  <1>2. CASE l \in Recs
    BY <1>2 DEF Recs
  <1>3. CASE l \in Folded
    BY <1>3 DEF Folded
  <1>4. CASE l \in Trailers
    BY <1>4 DEF Trailers
  <1> QED BY <1>1, <1>2, <1>3, <1>4 DEF Lines

LEMMA AddRecordCases ==
  ASSUME NEW rs
  PROVE /\ AddRecord(rs, Header) = rs
        /\ \A l \in Recs \cup Trailers : AddRecord(rs, l) = Append(rs, l)
        /\ \A l \in Folded : /\ AddRecord(rs, l) = rs \o <<Rec(l[1], l[2]), Rec("usage", l[3])>>
                             /\ Rec(l[1], l[2]) \in Recs /\ Rec("usage", l[3]) \in Recs
  <1>1. AddRecord(rs, Header) = rs
    BY DEF AddRecord, Header
  <1>2. ASSUME NEW l \in Recs PROVE AddRecord(rs, l) = Append(rs, l)
    <2>1. l[1] # "header" /\ l[3] = 0
      BY DEF Recs, Kinds
    <2> QED BY <2>1 DEF AddRecord
  <1>3. ASSUME NEW l \in Trailers PROVE AddRecord(rs, l) = Append(rs, l)
    <2>1. l[1] # "header" /\ l[1] \notin Answers
      BY DEF Trailers, Answers
    <2> QED BY <2>1 DEF AddRecord
  <1>4. ASSUME NEW l \in Folded
        PROVE /\ AddRecord(rs, l) = rs \o <<Rec(l[1], l[2]), Rec("usage", l[3])>>
              /\ Rec(l[1], l[2]) \in Recs /\ Rec("usage", l[3]) \in Recs
    <2>1. l[1] # "header" /\ l[1] \in Answers /\ l[3] # 0 /\ l[2] \in Pos /\ l[3] \in Pos
      BY DEF Folded, Answers, Pos
    <2>2. Rec(l[1], l[2]) \in Recs
      BY <2>1 DEF Recs, Rec, Answers, Kinds
    <2>3. Rec("usage", l[3]) \in Recs
      BY <2>1 DEF Recs, Rec, Kinds
    <2> QED BY <2>1, <2>2, <2>3 DEF AddRecord
  <1> QED BY <1>1, <1>2, <1>3, <1>4

LEMMA RecordsStepFolds == Folding(RecordsStep, <<>>, Kept, Lines)
  <1>1. <<>> \in Kept
    BY DEF Kept
  <1>2. ASSUME NEW rs \in Kept, NEW l \in Lines PROVE AddRecord(rs, l) \in Kept
    <2>1. CASE l = Header
      BY <2>1, AddRecordCases
    <2>2. CASE l \in Recs \cup Trailers
      <3>1. Append(rs, l) \in Kept
        BY <2>2 DEF Kept
      <3> QED BY <3>1, <2>2, AddRecordCases
    <2>3. CASE l \in Folded
      <3>1. Rec(l[1], l[2]) \in Recs /\ Rec("usage", l[3]) \in Recs
        BY <2>3, AddRecordCases
      <3>2. rs \o <<Rec(l[1], l[2]), Rec("usage", l[3])>> \in Kept
        <4>1. ASSUME NEW x \in Recs, NEW y \in Recs PROVE rs \o <<x, y>> \in Kept
          BY DEF Kept
        <4> QED BY <4>1, <3>1
      <3> QED BY <3>2, <2>3, AddRecordCases
    <2> QED BY <2>1, <2>2, <2>3 DEF Lines
  <1> QED BY <1>1, <1>2 DEF Folding, RecordsStep

LEMMA FlagsStepFolds == Folding(FlagsStep, NoFlags, FlagSet, Lines)
  <1>1. NoFlags \in FlagSet
    BY DEF NoFlags, FlagSet
  <1>2. ASSUME NEW f \in FlagSet, NEW l \in Lines PROVE AddFlags(f, l) \in FlagSet
    <2>1. f[1] \in Nat /\ f[2] \in BOOLEAN /\ f[3] \in BOOLEAN
      BY DEF FlagSet
    <2>2. l[1] = "title" => l[2] \in Nat
      BY LineIs DEF Header, Answers, Pos
    <2> QED BY <2>1, <2>2 DEF AddFlags, FlagSet
  <1> QED BY <1>1, <1>2 DEF Folding, FlagsStep

LEMMA RecordsIterate ==
  ASSUME NEW s \in Seq(Lines)
  PROVE \E g : Iterates(RecordsStep, <<>>, Kept, s, g) /\ Records(s) = g[DOMAIN s]
  <1> DEFINE Sol(g) == g = [t \in SUBSET DOMAIN s |->
                              IF t = {} THEN <<>> ELSE AddRecord(g[t \ {Max(t)}], s[Max(t)])]
  <1>1. Records(s) = (CHOOSE g : Sol(g))[DOMAIN s]
    BY DEF Records, FoldLeft, MapThenFoldSet, AddRecord
  <1>2. PICK f : Folds(RecordsStep, <<>>, Kept, s, f)
    BY RecordsStepFolds, IteratesExists
  <1>3. \A i \in DOMAIN s : s[i] \in Lines
    OBVIOUS
  <1>4. \A t \in SUBSET DOMAIN s : t # {} => Max(t) \in DOMAIN s
    <2>1. DOMAIN s = 1..Len(s) /\ Len(s) \in Nat
      OBVIOUS
    <2> QED BY <2>1, MaxOfIndices
  <1>5. Sol(f)
    <2> DEFINE F == [t \in SUBSET DOMAIN s |->
                       IF t = {} THEN <<>> ELSE AddRecord(f[t \ {Max(t)}], s[Max(t)])]
    <2>1. ASSUME NEW t \in SUBSET DOMAIN s PROVE f[t] = F[t]
      <3>1. CASE t = {}
        BY <3>1, <1>2 DEF Folds
      <3>2. CASE t # {}
        <4>1. f[t \ {Max(t)}] \in Kept /\ s[Max(t)] \in Lines
          BY <1>2, <1>3, <1>4, <3>2 DEF Folds
        <4>2. f[t] = RecordsStep[<<f[t \ {Max(t)}], s[Max(t)]>>]
          BY <1>2, <3>2 DEF Folds
        <4>3. f[t] = AddRecord(f[t \ {Max(t)}], s[Max(t)])
          BY <4>1, <4>2 DEF RecordsStep
        <4> QED BY <4>3, <3>2
      <3> QED BY <3>1, <3>2
    <2>2. f \in [SUBSET DOMAIN s -> Kept]
      BY <1>2 DEF Folds
    <2> QED BY <2>1, <2>2
  <1> DEFINE g == CHOOSE g : Sol(g)
  <1>6. Sol(g)
    <2> HIDE DEF Sol
    <2> QED BY <1>5
  <1>7. g[{}] = <<>>
    BY <1>6
  <1>8. ASSUME NEW t \in SUBSET DOMAIN s, t # {}, g[t \ {Max(t)}] \in Kept
        PROVE g[t] = RecordsStep[<<g[t \ {Max(t)}], s[Max(t)]>>]
    <2>1. g[t] = AddRecord(g[t \ {Max(t)}], s[Max(t)])
      <3> HIDE DEF g
      <3> QED BY <1>6, <1>8
    <2>2. s[Max(t)] \in Lines
      BY <1>3, <1>4, <1>8
    <2> HIDE DEF g
    <2> QED BY <2>1, <2>2, <1>8 DEF RecordsStep
  <1> HIDE DEF g
  <1> QED BY <1>1, <1>7, <1>8 DEF Iterates, g

LEMMA FlagsIterate ==
  ASSUME NEW s \in Seq(Lines)
  PROVE \E g : Iterates(FlagsStep, NoFlags, FlagSet, s, g) /\ Flags(s) = g[DOMAIN s]
  <1> DEFINE Sol(g) == g = [t \in SUBSET DOMAIN s |->
                              IF t = {} THEN NoFlags ELSE AddFlags(g[t \ {Max(t)}], s[Max(t)])]
  <1>1. Flags(s) = (CHOOSE g : Sol(g))[DOMAIN s]
    BY DEF Flags, FoldLeft, MapThenFoldSet, AddFlags, NoFlags
  <1>2. PICK f : Folds(FlagsStep, NoFlags, FlagSet, s, f)
    BY FlagsStepFolds, IteratesExists
  <1>3. \A i \in DOMAIN s : s[i] \in Lines
    OBVIOUS
  <1>4. \A t \in SUBSET DOMAIN s : t # {} => Max(t) \in DOMAIN s
    <2>1. DOMAIN s = 1..Len(s) /\ Len(s) \in Nat
      OBVIOUS
    <2> QED BY <2>1, MaxOfIndices
  <1>5. Sol(f)
    <2> DEFINE F == [t \in SUBSET DOMAIN s |->
                       IF t = {} THEN NoFlags ELSE AddFlags(f[t \ {Max(t)}], s[Max(t)])]
    <2>1. ASSUME NEW t \in SUBSET DOMAIN s PROVE f[t] = F[t]
      <3>1. CASE t = {}
        BY <3>1, <1>2 DEF Folds
      <3>2. CASE t # {}
        <4>1. f[t \ {Max(t)}] \in FlagSet /\ s[Max(t)] \in Lines
          BY <1>2, <1>3, <1>4, <3>2 DEF Folds
        <4>2. f[t] = FlagsStep[<<f[t \ {Max(t)}], s[Max(t)]>>]
          BY <1>2, <3>2 DEF Folds
        <4>3. f[t] = AddFlags(f[t \ {Max(t)}], s[Max(t)])
          BY <4>1, <4>2 DEF FlagsStep
        <4> QED BY <4>3, <3>2
      <3> QED BY <3>1, <3>2
    <2>2. f \in [SUBSET DOMAIN s -> FlagSet]
      BY <1>2 DEF Folds
    <2> QED BY <2>1, <2>2
  <1> DEFINE g == CHOOSE g : Sol(g)
  <1>6. Sol(g)
    <2> HIDE DEF Sol
    <2> QED BY <1>5
  <1>7. g[{}] = NoFlags
    BY <1>6
  <1>8. ASSUME NEW t \in SUBSET DOMAIN s, t # {}, g[t \ {Max(t)}] \in FlagSet
        PROVE g[t] = FlagsStep[<<g[t \ {Max(t)}], s[Max(t)]>>]
    <2>1. g[t] = AddFlags(g[t \ {Max(t)}], s[Max(t)])
      <3> HIDE DEF g
      <3> QED BY <1>6, <1>8
    <2>2. s[Max(t)] \in Lines
      BY <1>3, <1>4, <1>8
    <2> HIDE DEF g
    <2> QED BY <2>1, <2>2, <1>8 DEF FlagsStep
  <1> HIDE DEF g
  <1> QED BY <1>1, <1>7, <1>8 DEF Iterates, g

\* The records and the flags line by line.
LEMMA RecordsGrow ==
  /\ Records(<<>>) = <<>>
  /\ \A s \in Seq(Lines) : Records(s) \in Kept
  /\ \A s \in Seq(Lines), l \in Lines : Records(Append(s, l)) = AddRecord(Records(s), l)
  <1>1. Records(<<>>) = <<>>
    <2>1. <<>> \in Seq(Lines) /\ DOMAIN <<>> = {}
      OBVIOUS
    <2>2. PICK g : Iterates(RecordsStep, <<>>, Kept, <<>>, g) /\ Records(<<>>) = g[DOMAIN <<>>]
      BY <2>1, RecordsIterate
    <2> QED BY <2>1, <2>2 DEF Iterates
  <1>2. ASSUME NEW s \in Seq(Lines) PROVE Records(s) \in Kept
    <2>1. PICK g : Iterates(RecordsStep, <<>>, Kept, s, g) /\ Records(s) = g[DOMAIN s]
      BY RecordsIterate
    <2>2. \A t \in SUBSET DOMAIN s : g[t] \in Kept
      BY <2>1, RecordsStepFolds, IteratesTyped
    <2> QED BY <2>1, <2>2
  <1>3. ASSUME NEW s \in Seq(Lines), NEW l \in Lines
        PROVE Records(Append(s, l)) = AddRecord(Records(s), l)
    <2>0. Append(s, l) \in Seq(Lines)
      OBVIOUS
    <2>1. PICK g : Iterates(RecordsStep, <<>>, Kept, s, g) /\ Records(s) = g[DOMAIN s]
      BY RecordsIterate
    <2>2. PICK h : Iterates(RecordsStep, <<>>, Kept, Append(s, l), h)
                   /\ Records(Append(s, l)) = h[DOMAIN Append(s, l)]
      BY <2>0, RecordsIterate
    <2>3. /\ h[DOMAIN Append(s, l)] = RecordsStep[<<g[DOMAIN s], l>>]
          /\ g[DOMAIN s] \in Kept
      BY <2>1, <2>2, RecordsStepFolds, IteratesAppend
    <2> QED BY <2>1, <2>2, <2>3 DEF RecordsStep
  <1> QED BY <1>1, <1>2, <1>3

LEMMA FlagsGrow ==
  /\ Flags(<<>>) = NoFlags
  /\ \A s \in Seq(Lines) : Flags(s) \in FlagSet
  /\ \A s \in Seq(Lines), l \in Lines : Flags(Append(s, l)) = AddFlags(Flags(s), l)
  <1>1. Flags(<<>>) = NoFlags
    <2>1. <<>> \in Seq(Lines) /\ DOMAIN <<>> = {}
      OBVIOUS
    <2>2. PICK g : Iterates(FlagsStep, NoFlags, FlagSet, <<>>, g) /\ Flags(<<>>) = g[DOMAIN <<>>]
      BY <2>1, FlagsIterate
    <2> QED BY <2>1, <2>2 DEF Iterates
  <1>2. ASSUME NEW s \in Seq(Lines) PROVE Flags(s) \in FlagSet
    <2>1. PICK g : Iterates(FlagsStep, NoFlags, FlagSet, s, g) /\ Flags(s) = g[DOMAIN s]
      BY FlagsIterate
    <2>2. \A t \in SUBSET DOMAIN s : g[t] \in FlagSet
      BY <2>1, FlagsStepFolds, IteratesTyped
    <2> QED BY <2>1, <2>2
  <1>3. ASSUME NEW s \in Seq(Lines), NEW l \in Lines
        PROVE Flags(Append(s, l)) = AddFlags(Flags(s), l)
    <2>0. Append(s, l) \in Seq(Lines)
      OBVIOUS
    <2>1. PICK g : Iterates(FlagsStep, NoFlags, FlagSet, s, g) /\ Flags(s) = g[DOMAIN s]
      BY FlagsIterate
    <2>2. PICK h : Iterates(FlagsStep, NoFlags, FlagSet, Append(s, l), h)
                   /\ Flags(Append(s, l)) = h[DOMAIN Append(s, l)]
      BY <2>0, FlagsIterate
    <2>3. /\ h[DOMAIN Append(s, l)] = FlagsStep[<<g[DOMAIN s], l>>]
          /\ g[DOMAIN s] \in FlagSet
      BY <2>1, <2>2, FlagsStepFolds, IteratesAppend
    <2> QED BY <2>1, <2>2, <2>3 DEF FlagsStep
  <1> QED BY <1>1, <1>2, <1>3

\* Induction over the lines of a file.
LEMMA SeqInduct ==
  ASSUME NEW X, NEW T, <<>> \in T, \A s \in Seq(X), x \in X : s \in T => Append(s, x) \in T
  PROVE Seq(X) \subseteq T
  <1> DEFINE S == {k \in Nat : \A s \in Seq(X) : Len(s) = k => s \in T}
  <1>1. 0 \in S
    OBVIOUS
  <1>2. ASSUME NEW k \in S PROVE k + 1 \in S
    <2>1. SUFFICES ASSUME NEW s \in Seq(X), Len(s) = k + 1 PROVE s \in T
      OBVIOUS
    <2> DEFINE r == SubSeq(s, 1, k)
    <2>2. k \in Nat /\ r \in Seq(X) /\ Len(r) = k /\ s[k + 1] \in X
      BY <2>1
    <2>3. s = Append(r, s[k + 1])
      BY <2>1, <2>2
    <2>4. r \in T
      BY <2>2, <1>2
    <2> QED BY <2>2, <2>3, <2>4
  <1>3. S = Nat
    <2> HIDE DEF S
    <2>1. S \subseteq Nat
      BY DEF S
    <2> QED BY <2>1, <1>1, <1>2, Induct
  <1> QED BY <1>3

-----------------------------------------------------------------------------
(* What a file is and shows.                                               *)

HeaderFirst(f) == f # <<>> /\ \A i \in DOMAIN f : f[i] = Header <=> i = 1
NumbersOnce(rs) ==
  \A i, j \in DOMAIN rs : rs[i][1] # "state" /\ rs[j][1] # "state" /\ rs[i][2] = rs[j][2] => i = j
\* A trailer is anchored at its own line or before, and says what the lines
\* before it fold to.
TrailersRight(f) ==
  \A i \in DOMAIN f : f[i][1] = "state" => f[i][3] <= i /\ f[i][2] = Flags(SubSeq(f, 1, i))
Free(n, rs) == \A i \in DOMAIN rs : rs[i][1] # "state" => rs[i][2] # n
Numbered(rs, n) == \A i \in DOMAIN rs : rs[i][1] # "state" => rs[i][2] <= n
\* What a file, with what was accepted and the number of records so far, is.
Whole(f, acc, n) ==
  /\ HeaderFirst(f) /\ NumbersOnce(Records(f)) /\ Numbered(Records(f), n) /\ TrailersRight(f)
  /\ acc \subseteq ToSet(Records(f))

LEMMA HeaderLine == Header \in Lines /\ Header \notin Recs \cup Trailers \cup Folded /\ Header[1] = "header"
  BY DEF Header, Lines, Recs, Trailers, Kinds, Folded, Answers

LEMMA KeptLines == Kept \subseteq Seq(Lines) /\ Recs \cup Trailers \subseteq Lines
  BY DEF Kept, Lines

\* What an append adds to the records and to the flags.
LEMMA RecordsAppend ==
  ASSUME NEW s \in Seq(Lines), NEW l \in Lines
  PROVE /\ Records(s) \in Kept
        /\ l = Header => Records(Append(s, l)) = Records(s)
        /\ l \in Recs \cup Trailers => Records(Append(s, l)) = Append(Records(s), l)
        /\ l \in Folded =>
             Records(Append(s, l)) = Append(Append(Records(s), Rec(l[1], l[2])), Rec("usage", l[3]))
  <1>1. Records(s) \in Kept /\ Records(Append(s, l)) = AddRecord(Records(s), l)
    BY RecordsGrow
  <1>2. ASSUME NEW x, NEW y PROVE Records(s) \o <<x, y>> = Append(Append(Records(s), x), y)
    <2>1. \E X : Records(s) \in Seq(X) /\ x \in X /\ y \in X
      <3>1. Records(s) \in Seq(Recs \cup Trailers \cup {x, y})
        BY <1>1 DEF Kept
      <3> QED BY <3>1
    <2> QED BY <2>1
  <1>3. /\ l = Header => Records(Append(s, l)) = Records(s)
        /\ l \in Recs \cup Trailers => Records(Append(s, l)) = Append(Records(s), l)
        /\ l \in Folded =>
             Records(Append(s, l)) = Records(s) \o <<Rec(l[1], l[2]), Rec("usage", l[3])>>
    <2> DEFINE R == Records(s)
    <2>1. Records(Append(s, l)) = AddRecord(R, l)
      BY <1>1
    <2> HIDE DEF R
    <2> QED BY <2>1, AddRecordCases DEF R
  <1> QED BY <1>1, <1>2, <1>3

LEMMA FlagsAppend ==
  ASSUME NEW s \in Seq(Lines), NEW l \in Lines
  PROVE /\ Flags(s) \in FlagSet
        /\ l[1] \in {"header", "state", "usage", "child"} => Flags(Append(s, l)) = Flags(s)
        /\ Flags(Append(s, l)) = AddFlags(Flags(s), l)
  <1>1. Flags(s) \in FlagSet /\ Flags(Append(s, l)) = AddFlags(Flags(s), l)
    BY FlagsGrow
  <1> QED BY <1>1 DEF AddFlags

LEMMA AppendPrefix ==
  ASSUME NEW X, NEW f \in Seq(X), NEW l \in X, NEW i \in 1..Len(f)
  PROVE SubSeq(Append(f, l), 1, i) = SubSeq(f, 1, i) /\ Append(f, l)[i] = f[i]
  OBVIOUS

LEMMA TrailersAppend ==
  ASSUME NEW f \in Seq(Lines), NEW l \in Lines
  PROVE TrailersRight(Append(f, l)) <=>
          /\ TrailersRight(f)
          /\ l[1] = "state" => l[3] <= Len(f) + 1 /\ l[2] = Flags(f)
  <1> DEFINE g == Append(f, l)
  <1>1. g \in Seq(Lines) /\ Len(g) = Len(f) + 1 /\ DOMAIN g = 1..(Len(f) + 1) /\ DOMAIN f = 1..Len(f)
        /\ g[Len(f) + 1] = l /\ Len(f) \in Nat
    OBVIOUS
  <1>2. \A i \in 1..Len(f) : SubSeq(g, 1, i) = SubSeq(f, 1, i) /\ g[i] = f[i]
    BY AppendPrefix
  <1>3. SubSeq(g, 1, Len(f) + 1) = g
    OBVIOUS
  <1>4. l[1] = "state" => Flags(g) = Flags(f)
    BY FlagsAppend
  <1> HIDE DEF g
  <1>5. ASSUME TrailersRight(g)
        PROVE TrailersRight(f) /\ (l[1] = "state" => l[3] <= Len(f) + 1 /\ l[2] = Flags(f))
    <2>1. Len(f) + 1 \in DOMAIN g /\ \A i \in DOMAIN f : i \in DOMAIN g
      BY <1>1
    <2> QED BY <2>1, <1>1, <1>2, <1>3, <1>4, <1>5 DEF TrailersRight
  <1>6. ASSUME TrailersRight(f), l[1] = "state" => l[3] <= Len(f) + 1 /\ l[2] = Flags(f)
        PROVE TrailersRight(g)
    <2>1. SUFFICES ASSUME NEW i \in DOMAIN g, g[i][1] = "state"
                   PROVE g[i][3] <= i /\ g[i][2] = Flags(SubSeq(g, 1, i))
      BY DEF TrailersRight
    <2>2. CASE i \in DOMAIN f
      BY <2>1, <2>2, <1>1, <1>2, <1>6 DEF TrailersRight
    <2>3. CASE i = Len(f) + 1
      BY <2>1, <2>3, <1>1, <1>3, <1>4, <1>6
    <2> QED BY <1>1, <2>2, <2>3
  <1> QED BY <1>5, <1>6 DEF g

LEMMA TrailersPrefix ==
  ASSUME NEW f \in Seq(Lines), TrailersRight(f), NEW k \in 0..Len(f)
  PROVE TrailersRight(SubSeq(f, 1, k))
  <1> DEFINE g == SubSeq(f, 1, k)
  <1>1. g \in Seq(Lines) /\ Len(g) = k /\ DOMAIN g = 1..k /\ DOMAIN f = 1..Len(f)
        /\ \A i \in 1..k : g[i] = f[i] /\ SubSeq(g, 1, i) = SubSeq(f, 1, i) /\ i \in 1..Len(f)
    OBVIOUS
  <1> HIDE DEF g
  <1> QED BY <1>1 DEF TrailersRight, g

\* A file whose records are what it holds: after its header, nothing is folded.
LEMMA RecordsOfRecords ==
  ASSUME NEW t \in Kept
  PROVE /\ Records(<<Header>> \o t) = t
        /\ <<Header>> \o t \in Seq(Lines)
  <1> DEFINE T == {s \in Kept : Records(<<Header>> \o s) = s}
  <1>1. \A s \in Kept : <<Header>> \o s \in Seq(Lines)
    <2>1. SUFFICES ASSUME NEW s \in Kept PROVE <<Header>> \o s \in Seq(Lines)
      OBVIOUS
    <2>2. s \in Seq(Lines) /\ <<Header>> \in Seq(Lines)
      BY KeptLines, HeaderLine
    <2> QED BY <2>2
  <1>2. <<>> \in T
    <2>1. Records(Append(<<>>, Header)) = Records(<<>>)
      <3>1. <<>> \in Seq(Lines)
        OBVIOUS
      <3> QED BY <3>1, RecordsAppend, HeaderLine
    <2>2. Append(<<>>, Header) = <<Header>> \o <<>>
      OBVIOUS
    <2> QED BY <2>1, <2>2, RecordsGrow DEF Kept
  <1>3. ASSUME NEW s \in Seq(Recs \cup Trailers), NEW x \in Recs \cup Trailers, s \in T
        PROVE Append(s, x) \in T
    <2>1. <<Header>> \o Append(s, x) = Append(<<Header>> \o s, x)
      OBVIOUS
    <2>2. <<Header>> \o s \in Seq(Lines) /\ x \in Lines
      BY <1>1, KeptLines DEF Kept
    <2>3. Records(Append(<<Header>> \o s, x)) = Append(s, x)
      BY <1>3, <2>2, RecordsAppend
    <2>4. Append(s, x) \in Kept
      BY DEF Kept
    <2> QED BY <2>1, <2>3, <2>4
  <1> HIDE DEF T
  <1>4. Seq(Recs \cup Trailers) \subseteq T
    BY <1>2, <1>3, SeqInduct
  <1> QED BY <1>1, <1>4 DEF T, Kept

\* What a revert writes back: the file with every folded usage unfolded.  A
\* trailer moves down, its anchor does not.
LEMMA TrailersUnfold ==
  ASSUME NEW f \in Seq(Lines), HeaderFirst(f), TrailersRight(f)
  PROVE TrailersRight(<<Header>> \o Records(f))
  <1> DEFINE Un(s) == <<Header>> \o Records(s)
             Good(s) == /\ TrailersRight(Un(s)) /\ Len(s) <= Len(Un(s))
                        /\ Flags(Un(s)) = Flags(s)
             Plain(s) == TrailersRight(s) /\ \A i \in 2..Len(s) : s[i] # Header
             T == {s \in Seq(Lines) : Plain(s) => Good(s)}
  <1>1. \A s \in Seq(Lines) : Records(s) \in Kept /\ Un(s) \in Seq(Lines)
    BY RecordsGrow, RecordsOfRecords
  <1>2. <<>> \in T
    <2>0. <<Header>> \o <<>> = <<Header>> /\ <<Header>> = Append(<<>>, Header) /\ Header \in Lines
      BY HeaderLine
    <2>5. Records(<<>>) = <<>>
      BY RecordsGrow
    <2>6. Un(<<>>) = <<Header>>
      <3>1. Un(<<>>) = <<Header>> \o <<>>
        BY <2>5, Zenon
      <3> QED BY <2>0, <3>1, Zenon
    <2>1. <<>> \in Seq(Lines) /\ Un(<<>>) = <<Header>>
      <3>1. <<>> \in Seq(Lines)
        OBVIOUS
      <3> QED BY <2>6, <3>1
    <2>2. Flags(Un(<<>>)) = Flags(<<>>)
      <3>1. Flags(Append(<<>>, Header)) = Flags(<<>>)
        BY <2>0, <2>1, HeaderLine, FlagsAppend
      <3> QED BY <2>0, <2>1, <3>1
    <2>3. TrailersRight(Un(<<>>))
      <3>1. \A i \in DOMAIN <<Header>> : <<Header>>[i][1] = "header"
        BY HeaderLine
      <3> QED BY <2>1, <3>1 DEF TrailersRight
    <2>4. Len(<<>>) <= Len(Un(<<>>))
      BY <2>1
    <2> QED BY <2>1, <2>2, <2>3, <2>4
  <1>3. ASSUME NEW s \in Seq(Lines), NEW l \in Lines, s \in T PROVE Append(s, l) \in T
    <2> DEFINE a == Append(s, l)
    <2>1. SUFFICES ASSUME Plain(a) PROVE Good(a)
      <3> a \in Seq(Lines)
        OBVIOUS
      <3> HIDE DEF Good, Plain
      <3> QED OBVIOUS
    <2>2. Plain(s)
      <3>1. \A i \in 2..Len(s) : i \in 2..Len(a) /\ a[i] = s[i]
        OBVIOUS
      <3>2. TrailersRight(s)
        BY <2>1, TrailersAppend
      <3> QED BY <3>1, <3>2, <2>1
    <2>3. Good(s)
      <3> HIDE DEF Good, Plain
      <3> QED BY <2>2, <1>3
    <2> DEFINE u == Un(s)
    <2>4. u \in Seq(Lines) /\ Len(s) <= Len(u) /\ Flags(u) = Flags(s) /\ TrailersRight(u)
      BY <2>3, <1>1
    <2>5. Len(a) = Len(s) + 1 /\ Len(s) \in Nat /\ Len(u) \in Nat
      BY <2>4
    <2>6. l[1] = "state" => l[3] <= Len(s) + 1 /\ l[2] = Flags(s)
      BY <2>1, TrailersAppend
    <2>7. Flags(a) = AddFlags(Flags(s), l)
      BY FlagsAppend
    <2>8. \A x \in Lines : <<Header>> \o Append(Records(s), x) = Append(u, x)
      <3>1. Records(s) \in Seq(Lines)
        BY <1>1, KeptLines
      <3> QED BY <3>1
    <2> HIDE DEF u, a
    <2>9. CASE l = Header
      <3>1. Len(s) = 0
        <4>1. a[Len(s) + 1] = l
          BY DEF a
        <4>2. \A i \in 2..(Len(s) + 1) : a[i] # Header
          BY <2>1, <2>5
        <4> QED BY <4>1, <4>2, <2>5, <2>9
      <3>2. Un(a) = u
        BY <2>9, RecordsAppend DEF a, u
      <3>3. Len(u) >= 1
        BY <1>1 DEF u, Kept
      <3>4. Flags(a) = Flags(s)
        BY <2>9, HeaderLine, FlagsAppend DEF a
      <3> HIDE DEF Un
      <3> QED BY <3>1, <3>2, <3>3, <3>4, <2>4, <2>5
    <2>10. CASE l \in Recs \cup Trailers
      <3>1. Un(a) = Append(u, l)
        BY <2>8, <2>10, RecordsAppend DEF a
      <3>2. Flags(Append(u, l)) = AddFlags(Flags(u), l)
        BY <2>4, FlagsAppend
      <3>3. l[1] = "state" => l[3] <= Len(u) + 1 /\ l[2] = Flags(u)
        <4>1. l[1] = "state" => l[3] \in Nat
          BY <2>10 DEF Recs, Kinds, Trailers
        <4> QED BY <4>1, <2>4, <2>5, <2>6
      <3>4. TrailersRight(Append(u, l))
        BY <2>4, <3>3, TrailersAppend
      <3>5. Len(Append(u, l)) = Len(u) + 1
        BY <2>4
      <3> HIDE DEF Un
      <3> QED BY <3>1, <3>2, <3>4, <3>5, <2>4, <2>5, <2>7
    <2>11. CASE l \in Folded
      <3> DEFINE x == Rec(l[1], l[2])
                 y == Rec("usage", l[3])
                 v == Append(u, x)
      <3>1. l[1] \in Answers /\ x \in Recs /\ y \in Recs /\ x \in Lines /\ y \in Lines
            /\ x[1] = l[1] /\ x[2] = l[2] /\ y[1] = "usage"
        BY <2>11, AddRecordCases, KeptLines DEF Rec, Folded
      <3>2. Un(a) = Append(v, y)
        <4>1. Records(a) = Append(Append(Records(s), x), y)
          BY <2>11, RecordsAppend DEF a
        <4>2. <<Header>> \o Append(Append(Records(s), x), y) = Append(Append(<<Header>> \o Records(s), x), y)
          <5>1. Records(s) \in Seq(Lines)
            BY <1>1, KeptLines
          <5> HIDE DEF x, y
          <5> QED BY <5>1, <3>1
        <4> QED BY <4>1, <4>2 DEF u
      <3>3. v \in Seq(Lines) /\ Len(v) = Len(u) + 1 /\ Len(Append(v, y)) = Len(u) + 2
        <4> HIDE DEF x, y
        <4> QED BY <3>1, <2>4
      <3>4. Flags(v) = AddFlags(Flags(u), x) /\ Flags(Append(v, y)) = Flags(v)
        <4> HIDE DEF x, y
        <4> QED BY <3>1, <3>3, <2>4, FlagsAppend
      <3>5. AddFlags(Flags(u), x) = AddFlags(Flags(u), l)
        <4> HIDE DEF x, y
        <4> QED BY <3>1 DEF AddFlags, Answers
      <3>6. TrailersRight(v)
        <4>1. x[1] # "state"
          BY <3>1 DEF Answers
        <4> HIDE DEF x, y
        <4> QED BY <4>1, <3>1, <2>4, TrailersAppend
      <3>7. TrailersRight(Append(v, y))
        <4> HIDE DEF x, y, v
        <4> QED BY <3>1, <3>3, <3>6, TrailersAppend
      <3> HIDE DEF Un, x, y, v
      <3> QED BY <3>2, <3>3, <3>4, <3>5, <3>7, <2>4, <2>5, <2>7
    <2> QED BY <2>9, <2>10, <2>11 DEF Lines
  <1> HIDE DEF T
  <1>4. Seq(Lines) \subseteq T
    BY <1>2, <1>3, SeqInduct
  <1>5. Plain(f)
    <2>1. \A i \in 2..Len(f) : i \in DOMAIN f /\ i # 1
      OBVIOUS
    <2> QED BY <2>1 DEF HeaderFirst
  <1> QED BY <1>4, <1>5 DEF T

\* Only a trailer that is the last line is trusted.
LEMMA ListedRight ==
  ASSUME NEW f \in Seq(Lines), TrailersRight(f)
  PROVE Listed(f) = Flags(f)
  <1>1. SUFFICES ASSUME Trusted(f) # {} PROVE f[Max(Trusted(f))][2] = Flags(f)
    BY DEF Listed
  <1>2. DOMAIN f = 1..Len(f) /\ Len(f) \in Nat /\ SubSeq(f, 1, Len(f)) = f
    OBVIOUS
  <1>3. ASSUME NEW i \in Trusted(f) PROVE i = Len(f) /\ f[i][2] = Flags(f)
    <2>1. i \in 1..Len(f) /\ f[i][1] = "state" /\ f[i][3] = Len(f) /\ f[i][3] <= i
      BY <1>2 DEF Trusted, TrailersRight
    <2>3. Len(f) <= i
      BY <2>1
    <2>4. ASSUME NEW n \in Nat, NEW k \in 1..n, n <= k PROVE k = n
      BY <2>4
    <2>2. i = Len(f)
      BY <1>2, <2>1, <2>3, <2>4
    <2> QED BY <1>2, <2>1, <2>2 DEF TrailersRight
  <1>4. Max(Trusted(f)) \in Trusted(f)
    <2>1. Trusted(f) \in SUBSET (1..Len(f))
      BY <1>2 DEF Trusted
    <2> QED BY <2>1, <1>1, <1>2, MaxOfIndices
  <1> QED BY <1>3, <1>4

LEMMA HeaderAppend ==
  ASSUME NEW f \in Seq(Lines), NEW l \in Lines
  PROVE /\ HeaderFirst(f) /\ l # Header => HeaderFirst(Append(f, l))
        /\ HeaderFirst(Append(f, l)) /\ f # <<>> => HeaderFirst(f)
        /\ HeaderFirst(<<Header>>)
  <1> DEFINE g == Append(f, l)
  <1>1. /\ DOMAIN g = 1..(Len(f) + 1) /\ DOMAIN f = 1..Len(f) /\ Len(f) \in Nat /\ g # <<>>
        /\ g[Len(f) + 1] = l /\ \A i \in 1..Len(f) : g[i] = f[i]
    OBVIOUS
  <1>2. f # <<>> => Len(f) + 1 # 1
    OBVIOUS
  <1>3. HeaderFirst(<<Header>>)
    BY DEF HeaderFirst
  <1> HIDE DEF g
  <1> QED BY <1>1, <1>2, <1>3 DEF HeaderFirst, g

\* A new record at the end of the records.
LEMMA RecordAdded ==
  ASSUME NEW rs \in Kept, NEW r \in Recs, NEW n \in Nat, r[2] <= n,
         NumbersOnce(rs), Numbered(rs, n), Free(r[2], rs)
  PROVE /\ NumbersOnce(Append(rs, r)) /\ Numbered(Append(rs, r), n)
        /\ ToSet(Append(rs, r)) = ToSet(rs) \cup {r}
        /\ \A m : m # r[2] /\ Free(m, rs) => Free(m, Append(rs, r))
  <1> DEFINE g == Append(rs, r)
  <1>1. /\ DOMAIN g = 1..(Len(rs) + 1) /\ DOMAIN rs = 1..Len(rs) /\ Len(rs) \in Nat
        /\ g[Len(rs) + 1] = r /\ \A i \in 1..Len(rs) : g[i] = rs[i]
    BY DEF Kept
  <1>2. \A i \in DOMAIN g : i = Len(rs) + 1 \/ i \in DOMAIN rs
    BY <1>1
  <1>5. \A i \in DOMAIN rs : i \in DOMAIN g /\ g[i] = rs[i]
    BY <1>1
  <1> HIDE DEF g
  <1>3. NumbersOnce(g)
    <2>1. SUFFICES ASSUME NEW i \in DOMAIN g, NEW j \in DOMAIN g,
                          g[i][1] # "state", g[j][1] # "state", g[i][2] = g[j][2]
                   PROVE i = j
      BY DEF NumbersOnce
    <2>2. CASE i \in DOMAIN rs /\ j \in DOMAIN rs
      BY <2>1, <2>2, <1>5 DEF NumbersOnce
    <2>3. CASE i \in DOMAIN rs /\ j = Len(rs) + 1
      BY <2>1, <2>3, <1>1, <1>5 DEF Free
    <2>4. CASE j \in DOMAIN rs /\ i = Len(rs) + 1
      BY <2>1, <2>4, <1>1, <1>5 DEF Free
    <2> QED BY <2>2, <2>3, <2>4, <1>2
  <1>4. Numbered(g, n)
    BY <1>1, <1>2, <1>5 DEF Numbered
  <1>6. ToSet(g) = ToSet(rs) \cup {r}
    <2>1. Len(rs) + 1 \in DOMAIN g
      BY <1>1
    <2> QED BY <2>1, <1>1, <1>2, <1>5 DEF ToSet
  <1>7. ASSUME NEW m, m # r[2], Free(m, rs) PROVE Free(m, g)
    BY <1>7, <1>1, <1>2, <1>5 DEF Free
  <1> QED BY <1>3, <1>4, <1>6, <1>7 DEF g

LEMMA TrailerAdded ==
  ASSUME NEW rs \in Kept, NEW r \in Trailers, NEW n \in Nat, NumbersOnce(rs), Numbered(rs, n)
  PROVE /\ NumbersOnce(Append(rs, r)) /\ Numbered(Append(rs, r), n)
        /\ ToSet(Append(rs, r)) = ToSet(rs) \cup {r}
        /\ \A m : Free(m, rs) => Free(m, Append(rs, r))
  <1> DEFINE g == Append(rs, r)
  <1>0. r[1] = "state"
    BY DEF Trailers
  <1>1. /\ DOMAIN g = 1..(Len(rs) + 1) /\ DOMAIN rs = 1..Len(rs) /\ Len(rs) \in Nat
        /\ g[Len(rs) + 1] = r /\ \A i \in 1..Len(rs) : g[i] = rs[i]
    BY DEF Kept
  <1>2. \A i \in DOMAIN g : i = Len(rs) + 1 \/ i \in DOMAIN rs
    BY <1>1
  <1>5. \A i \in DOMAIN rs : i \in DOMAIN g /\ g[i] = rs[i]
    BY <1>1
  <1> HIDE DEF g
  <1>3. NumbersOnce(g)
    BY <1>0, <1>1, <1>2, <1>5 DEF NumbersOnce
  <1>4. Numbered(g, n)
    BY <1>0, <1>1, <1>2, <1>5 DEF Numbered
  <1>6. ToSet(g) = ToSet(rs) \cup {r}
    <2>1. Len(rs) + 1 \in DOMAIN g
      BY <1>1
    <2> QED BY <2>1, <1>1, <1>2, <1>5 DEF ToSet
  <1>7. ASSUME NEW m, Free(m, rs) PROVE Free(m, g)
    BY <1>7, <1>0, <1>1, <1>2, <1>5 DEF Free
  <1> QED BY <1>3, <1>4, <1>6, <1>7 DEF g

\* An append keeps the file whole.
LEMMA WholeWithRecord ==
  ASSUME NEW f \in Seq(Lines), NEW acc, NEW n \in Nat, Whole(f, acc, n),
         NEW r \in Recs, r[2] <= n, Free(r[2], Records(f))
  PROVE /\ Whole(Append(f, r), acc \cup {r}, n)
        /\ \A m : m # r[2] /\ Free(m, Records(f)) => Free(m, Records(Append(f, r)))
  <1>1. Records(f) \in Kept /\ Records(Append(f, r)) = Append(Records(f), r) /\ r \in Lines
    BY RecordsAppend, KeptLines
  <1>2. r[1] # "state" /\ r # Header
    BY HeaderLine DEF Recs, Kinds
  <1>3. HeaderFirst(Append(f, r)) /\ TrailersRight(Append(f, r))
    BY <1>1, <1>2, HeaderAppend, TrailersAppend DEF Whole
  <1>4. /\ NumbersOnce(Append(Records(f), r)) /\ Numbered(Append(Records(f), r), n)
        /\ ToSet(Append(Records(f), r)) = ToSet(Records(f)) \cup {r}
        /\ \A m : m # r[2] /\ Free(m, Records(f)) => Free(m, Append(Records(f), r))
    BY <1>1, RecordAdded DEF Whole
  <1> QED BY <1>1, <1>3, <1>4 DEF Whole

LEMMA WholeWithTrailer ==
  ASSUME NEW f \in Seq(Lines), NEW acc, NEW n \in Nat, Whole(f, acc, n),
         NEW r \in Trailers, r[3] = Len(f) + 1, r[2] = Flags(f)
  PROVE /\ Whole(Append(f, r), acc, n)
        /\ \A m : Free(m, Records(f)) => Free(m, Records(Append(f, r)))
  <1>1. Records(f) \in Kept /\ Records(Append(f, r)) = Append(Records(f), r) /\ r \in Lines
    BY RecordsAppend, KeptLines
  <1>2. r # Header /\ r[3] <= Len(f) + 1
    BY HeaderLine
  <1>3. HeaderFirst(Append(f, r)) /\ TrailersRight(Append(f, r))
    BY <1>1, <1>2, HeaderAppend, TrailersAppend DEF Whole
  <1>4. /\ NumbersOnce(Append(Records(f), r)) /\ Numbered(Append(Records(f), r), n)
        /\ ToSet(Append(Records(f), r)) = ToSet(Records(f)) \cup {r}
        /\ \A m : Free(m, Records(f)) => Free(m, Append(Records(f), r))
    BY <1>1, TrailerAdded DEF Whole
  <1> QED BY <1>1, <1>3, <1>4 DEF Whole

\* The first record of a file brings its header.
LEMMA WholeWithFirst ==
  ASSUME NEW r \in Recs, NEW n \in Nat, r[2] <= n
  PROVE /\ Whole(<<Header>> \o <<r>>, {r}, n)
        /\ \A m : m # r[2] => Free(m, Records(<<Header>> \o <<r>>))
  <1>1. <<>> \in Kept /\ <<Header>> \o <<>> = <<Header>> /\ <<Header>> \o <<r>> = Append(<<Header>>, r)
    BY DEF Kept
  <1>2. Records(<<Header>>) = <<>> /\ <<Header>> \in Seq(Lines)
    BY <1>1, RecordsOfRecords
  <1>3. HeaderFirst(<<Header>>)
    BY DEF HeaderFirst
  <1>4. \A i \in DOMAIN <<Header>> : <<Header>>[i] = Header
    OBVIOUS
  <1>5. TrailersRight(<<Header>>)
    BY <1>4, HeaderLine DEF TrailersRight
  <1>6. NumbersOnce(<<>>) /\ Numbered(<<>>, n) /\ \A m : Free(m, <<>>)
    BY DEF NumbersOnce, Numbered, Free
  <1>7. Whole(<<Header>>, {}, n)
    BY <1>2, <1>3, <1>5, <1>6 DEF Whole
  <1>8. Free(r[2], Records(<<Header>>))
    BY <1>2, <1>6
  <1>9. /\ Whole(Append(<<Header>>, r), {} \cup {r}, n)
        /\ \A m : m # r[2] /\ Free(m, Records(<<Header>>)) => Free(m, Records(Append(<<Header>>, r)))
    BY <1>2, <1>7, <1>8, WholeWithRecord
  <1>10. \A m : Free(m, Records(<<Header>>))
    BY <1>2, <1>6
  <1> QED BY <1>1, <1>9, <1>10

LEMMA WholeLater ==
  ASSUME NEW f \in Seq(Lines), NEW acc, NEW n \in Nat, NEW m \in Nat, n <= m, Whole(f, acc, n)
  PROVE Whole(f, acc, m) /\ Free(m + 1, Records(f))
  <1>1. Records(f) \in Seq(Recs \cup Trailers)
    BY RecordsGrow DEF Kept
  <1>2. ASSUME NEW i \in DOMAIN Records(f), Records(f)[i][1] # "state"
        PROVE Records(f)[i][2] \in Nat /\ Records(f)[i][2] <= m
    <2>1. Records(f)[i] \in Recs
      BY <1>1, <1>2 DEF Trailers
    <2>2. Records(f)[i][2] \in Nat /\ Records(f)[i][2] <= n
      BY <2>1, <1>2 DEF Recs, Pos, Whole, Numbered
    <2> QED BY <2>2
  <1>3. Numbered(Records(f), m)
    BY <1>2 DEF Numbered
  <1>4. Free(m + 1, Records(f))
    BY <1>2 DEF Free
  <1> QED BY <1>3, <1>4 DEF Whole

\* A usage that is folded into the last line is a record like any other.
LEMMA WholeWithUsage ==
  ASSUME NEW p \in Seq(Lines), NEW acc, NEW n \in Nat, NEW k \in Answers, NEW a \in Pos, NEW u \in Pos,
         Whole(Append(p, Rec(k, a)), acc, n), u <= n, Free(u, Records(Append(p, Rec(k, a))))
  PROVE /\ <<k, a, u>> \in Folded /\ Rec(k, a) \in Recs /\ Rec("usage", u) \in Recs
        /\ Whole(Append(p, <<k, a, u>>), acc \cup {Rec("usage", u)}, n)
        /\ \A m : m # u /\ Free(m, Records(Append(p, Rec(k, a)))) =>
             Free(m, Records(Append(p, <<k, a, u>>)))
  <1> DEFINE x == Rec(k, a)
             y == Rec("usage", u)
             z == <<k, a, u>>
  <1>1. z \in Folded /\ x \in Recs /\ y \in Recs /\ z[1] = k /\ z[2] = a /\ z[3] = u /\ y[2] = u
    BY DEF Rec, Folded, Recs, Answers, Kinds
  <1>2. x \in Lines /\ y \in Lines /\ z \in Lines /\ x # Header /\ z # Header
        /\ z[1] # "state" /\ x[1] # "state"
    BY <1>1, HeaderLine DEF Lines, Answers, Rec
  <1>3. /\ Records(p) \in Kept /\ Records(Append(p, x)) = Append(Records(p), x)
        /\ Records(Append(p, z)) = Append(Append(Records(p), x), y)
    <2>1. Rec(z[1], z[2]) = x /\ Rec("usage", z[3]) = y
      BY <1>1
    <2> HIDE DEF x, y, z
    <2> QED BY <1>1, <1>2, <2>1, RecordsAppend
  <1>4. Whole(Append(p, x), acc, n) /\ Free(u, Records(Append(p, x)))
    OBVIOUS
  <1> DEFINE R == Append(Records(p), x)
  <1> HIDE DEF x, y, z
  <1>5. R \in Kept
    BY <1>1, <1>3 DEF Kept
  <1>6. /\ NumbersOnce(Append(R, y)) /\ Numbered(Append(R, y), n)
        /\ ToSet(Append(R, y)) = ToSet(R) \cup {y}
        /\ \A m : m # y[2] /\ Free(m, R) => Free(m, Append(R, y))
    <2>1. NumbersOnce(R) /\ Numbered(R, n) /\ Free(y[2], R) /\ y[2] <= n
      BY <1>1, <1>3, <1>4 DEF Whole
    <2> HIDE DEF R
    <2> QED BY <2>1, <1>1, <1>5, RecordAdded
  <1>7. HeaderFirst(Append(p, z))
    <2>1. CASE p = <<>>
      <3>1. DOMAIN Append(p, x) = {1} /\ Append(p, x)[1] = x
        BY <2>1
      <3> QED BY <3>1, <1>2, <1>4 DEF Whole, HeaderFirst
    <2>2. CASE p # <<>>
      BY <2>2, <1>2, <1>4, HeaderAppend DEF Whole
    <2> QED BY <2>1, <2>2
  <1>8. TrailersRight(Append(p, z))
    <2>1. TrailersRight(p)
      BY <1>2, <1>4, TrailersAppend DEF Whole
    <2> QED BY <2>1, <1>2, TrailersAppend
  <1>9. acc \cup {y} \subseteq ToSet(Append(R, y))
    BY <1>3, <1>4, <1>6 DEF Whole
  <1>10. Whole(Append(p, z), acc \cup {y}, n)
    BY <1>3, <1>6, <1>7, <1>8, <1>9 DEF Whole
  <1>11. \A m : m # u /\ Free(m, Records(Append(p, x))) => Free(m, Records(Append(p, z)))
    BY <1>1, <1>3, <1>6
  <1> QED BY <1>1, <1>10, <1>11 DEF x, y, z

LEMMA KeptNotHeader ==
  ASSUME NEW t \in Kept
  PROVE HeaderFirst(<<Header>> \o t)
  <1>1. /\ DOMAIN (<<Header>> \o t) = 1..(Len(t) + 1) /\ <<Header>> \o t # <<>>
        /\ (<<Header>> \o t)[1] = Header
        /\ \A i \in 2..(Len(t) + 1) : (<<Header>> \o t)[i] \in Recs \cup Trailers
    BY DEF Kept
  <1>2. \A i \in 1..(Len(t) + 1) : i = 1 \/ i \in 2..(Len(t) + 1)
    BY DEF Kept
  <1>3. 1 \in 1..(Len(t) + 1)
    BY DEF Kept
  <1> QED BY <1>1, <1>2, <1>3, HeaderLine DEF HeaderFirst

LEMMA WholeUnfolded ==
  ASSUME NEW f \in Seq(Lines), NEW acc, NEW n \in Nat, Whole(f, acc, n)
  PROVE /\ Whole(<<Header>> \o Records(f), acc, n)
        /\ Records(<<Header>> \o Records(f)) = Records(f)
  <1>1. Records(f) \in Kept
    BY RecordsGrow
  <1>2. Records(<<Header>> \o Records(f)) = Records(f)
    BY <1>1, RecordsOfRecords
  <1>3. HeaderFirst(<<Header>> \o Records(f))
    BY <1>1, KeptNotHeader
  <1>4. TrailersRight(<<Header>> \o Records(f))
    BY TrailersUnfold DEF Whole
  <1> QED BY <1>2, <1>3, <1>4 DEF Whole

\* A revert keeps the records before the message, and drops the others.
LEMMA WholeCut ==
  ASSUME NEW t \in Kept, NEW acc, NEW n \in Nat, Whole(<<Header>> \o t, acc, n), NEW c \in 1..Len(t)
  PROVE Whole(<<Header>> \o SubSeq(t, 1, c - 1), acc \ {t[i] : i \in c..Len(t)}, n)
  <1> DEFINE s == SubSeq(t, 1, c - 1)
             f == <<Header>> \o t
             g == <<Header>> \o s
  <1>1. /\ s \in Kept /\ Len(s) = c - 1 /\ DOMAIN s = 1..(c - 1) /\ DOMAIN t = 1..Len(t)
        /\ \A i \in 1..(c - 1) : i \in 1..Len(t) /\ s[i] = t[i]
    BY DEF Kept
  <1>2. Records(f) = t /\ Records(g) = s /\ f \in Seq(Lines)
    BY <1>1, RecordsOfRecords
  <1>3. HeaderFirst(g)
    BY <1>1, KeptNotHeader
  <1>4. NumbersOnce(s) /\ Numbered(s, n)
    <2>1. NumbersOnce(t) /\ Numbered(t, n)
      BY <1>2 DEF Whole
    <2> HIDE DEF s
    <2>2. \A i \in DOMAIN s : i \in DOMAIN t /\ s[i] = t[i]
      BY <1>1
    <2> QED BY <2>1, <2>2 DEF NumbersOnce, Numbered
  <1>5. TrailersRight(g)
    <2>1. g = SubSeq(f, 1, c) /\ c \in 0..Len(f)
      BY DEF Kept
    <2>2. TrailersRight(f)
      BY DEF Whole
    <2> HIDE DEF f, g
    <2> QED BY <2>1, <2>2, <1>2, TrailersPrefix
  <1>6. acc \ {t[i] : i \in c..Len(t)} \subseteq ToSet(s)
    <2>1. SUFFICES ASSUME NEW r \in acc, r \notin {t[i] : i \in c..Len(t)} PROVE r \in ToSet(s)
      OBVIOUS
    <2>2. PICK i \in DOMAIN t : t[i] = r
      BY <1>2 DEF Whole, ToSet
    <2>3. i \in 1..(c - 1)
      BY <1>1, <2>1, <2>2
    <2> HIDE DEF s
    <2> QED BY <1>1, <2>2, <2>3 DEF ToSet
  <1> HIDE DEF s, f, g
  <1>7. Whole(g, acc \ {t[i] : i \in c..Len(t)}, n)
    BY <1>2, <1>3, <1>4, <1>5, <1>6 DEF Whole
  <1> QED BY <1>7 DEF g, s

\* What a file that is whole, or cut short by a rewrite, shows.
LEMMA WholeShows ==
  ASSUME NEW f \in Seq(Lines), NumbersOnce(Records(f)), TrailersRight(f)
  PROVE /\ Listed(f) = Flags(f)
        /\ \A i, j \in DOMAIN Records(f) :
             Records(f)[i][1] # "state" /\ Records(f)[i] = Records(f)[j] => i = j
  BY ListedRight DEF NumbersOnce

-----------------------------------------------------------------------------
(* Who writes the file, and what it is while a rewrite is under way.       *)

\* The file as it was before a rewrite that is under way.
Old ==
  IF step["turn"] = "patch"
  THEN Append(jsonl, Rec(Last(read["turn"])[1], Last(read["turn"])[2]))
  ELSE IF step["header"] = "patch" THEN read["header"]
  ELSE IF step["revert"] = "patch" THEN <<Header>> \o read["revert"]
  ELSE jsonl

LineTyped ==
  /\ jsonl \in Seq(Lines) /\ read \in [Writers -> Seq(Lines)] /\ accepted \subseteq Recs
  /\ line \in [Writers -> {Header} \cup Recs \cup Trailers]
  /\ race \cap {"torn", "early", "sloppy"} = {}
Locked ==
  /\ held # "revert"
  /\ \A w \in Writers \ {"revert"} : step[w] \in {"cut", "patch", "write"} <=> held = w
\* What each writer has at each of its steps.
Carries(w) ==
  /\ w = "turn" => line[w] \in Recs /\ line[w][1] \notin {"title", "child"}
  /\ w = "child" => line[w] \in Recs /\ line[w][1] = "child"
  /\ w = "settle" => line[w] \in Trailers
  /\ w = "title" => line[w] \in Trailers \/ (line[w] \in Recs /\ line[w][1] = "title")
  /\ w = "header" => line[w] = Header
  /\ w = "revert" => line[w] \in Recs /\ line[w][1] = "user"
StageOf(w) ==
  /\ step[w] \in {"idle", "load"} => line[w] = Header
  /\ step[w] \notin {"idle", "load"} => Carries(w)
  /\ step[w] = "load" => w \in {"settle", "title", "revert"}
  /\ step[w] \in {"cut", "patch"} => w \in {"turn", "header", "revert"} /\ there
  /\ step[w] \in {"look", "write"} => w # "revert"
  /\ step[w] = "write" => (had[w] <=> there) /\ (w = "header" => ~there)
Staged == \A w \in Writers : StageOf(w)
RevertAlone == Busy("revert") => \A w \in Writers \ {"revert"} : ~Busy(w)
\* While a trailer is on its way, nothing is that would change what it says.
TrailerAlone ==
  \A w \in Writers : line[w] \in Trailers => line["turn"] = Header /\ line["title"] \notin Recs /\ there
\* A usage l that will be, and that is being, folded into the last line of f.
FoldStaged(l, f, rd) ==
  \E p \in Seq(Lines), k \in Answers, n, u \in Pos :
    l = Rec("usage", u) /\ f = Append(p, Rec(k, n)) /\ rd = Append(p, <<k, n, u>>)
FoldCut(l, f, rd) ==
  \E k \in Answers, n, u \in Pos : l = Rec("usage", u) /\ rd = Append(f, <<k, n, u>>)
Rewrites ==
  /\ step["turn"] = "cut" => FoldStaged(line["turn"], jsonl, read["turn"])
  /\ step["turn"] = "patch" => FoldCut(line["turn"], jsonl, read["turn"])
  /\ step["header"] = "cut" => read["header"] = jsonl
  /\ step["header"] = "patch" => jsonl = <<>>
  /\ step["revert"] = "cut" => read["revert"] = Records(jsonl)
  /\ step["revert"] = "patch" => jsonl = <<>> /\ read["revert"] \in Seq(Recs \cup Trailers)
  /\ step["revert"] \in {"cut", "patch"} => line["revert"] \in ToSet(read["revert"])
LogCtl == LogTypeOK /\ LineTyped /\ Locked /\ Staged /\ RevertAlone /\ TrailerAlone /\ Rewrites

TrailersFlying ==
  \A w \in Writers : line[w] \in Trailers =>
    /\ line[w][2] = Flags(Old)
    /\ step[w] = "write" => line[w][3] = Len(Old) + 1
InFlight ==
  \A w \in Writers \ {"revert"} : line[w] \in Recs =>
    /\ line[w][2] <= count /\ Free(line[w][2], Records(Old))
    /\ \A v \in Writers \ {"revert", w} : line[v] \in Recs => line[v][2] # line[w][2]
FileRight == IF there THEN Whole(Old, accepted, count) ELSE jsonl = <<>> /\ accepted = {}

Settled == UNCHANGED <<jsonl, there, held, read, had, accepted, deleted, race>>

LEMMA RecTyped ==
  ASSUME NEW k \in Kinds, NEW n \in Nat, n > 0
  PROVE Rec(k, n) \in Recs /\ Rec(k, n)[1] = k /\ Rec(k, n)[2] = n /\ Rec(k, n) # Header
        /\ Rec(k, n) \notin Trailers
  BY DEF Rec, Recs, Pos, Header, Kinds, Trailers

LEMMA Alone == LogCtl => ~("early" \in race) /\ ~("sloppy" \in race) /\ ~("torn" \in race)
  BY DEF LogCtl, LineTyped

LEMMA WantCtl ==
  ASSUME LogCtl, NEW w \in {"turn", "title", "child"}, NEW kind \in Kinds,
         w = "turn" => kind \notin {"title", "child"}, w = "title" => kind = "title",
         w = "child" => kind = "child",
         Want(w, kind), Settled,
         turnRuns' \in BOOLEAN,
         turnAt' \in {"none", "user", "calls", "called", "tool", "text", "spoke", "error"}
  PROVE LogCtl'
  <1> USE DEF LogCtl
  <1> DEFINE r == Rec(kind, count + 1)
  <1>1. /\ step[w] = "idle" /\ step["settle"] = "idle" /\ step["title"] = "idle" /\ step["revert"] = "idle"
        /\ step' = [step EXCEPT ![w] = "look"] /\ line' = [line EXCEPT ![w] = r]
        /\ count' = count + 1 /\ count + 1 \in 0..MaxLines
    BY Alone, SessionLogAssumption DEF Want, MayWrite, Busy, At, LogTypeOK
  <1>2. r \in Recs /\ r[1] = kind /\ r # Header /\ r \notin Trailers
    BY RecTyped DEF LogTypeOK
  <1> HIDE DEF r
  <1>3. LogTypeOK'
    BY <1>1 DEF LogTypeOK, Settled, Writers
  <1>4. LineTyped'
    BY <1>1, <1>2 DEF LineTyped, Settled
  <1>5. \A x \in Writers : x # w => step'[x] = step[x] /\ line'[x] = line[x]
    BY <1>1 DEF LogTypeOK, LineTyped
  <1>6. w \in Writers /\ step'[w] = "look" /\ line'[w] = r
    BY <1>1 DEF LogTypeOK, LineTyped, Writers
  <1>7. Locked'
    BY <1>1, <1>5, <1>6 DEF Locked, Settled
  <1>8. Staged'
    <2>1. SUFFICES ASSUME NEW x \in Writers PROVE StageOf(x)'
      BY DEF Staged
    <2>2. CASE x = w
      BY <2>2, <1>2, <1>6 DEF StageOf, Carries
    <2>3. CASE x # w
      <3>1. StageOf(x)
        BY DEF Staged
      <3> QED BY <3>1, <2>3, <1>5 DEF StageOf, Carries, Settled
    <2> QED BY <2>2, <2>3
  <1>9. RevertAlone'
    BY <1>1, <1>5 DEF RevertAlone, Busy, Writers
  <1>10. TrailerAlone'
    <2>1. \A x \in Writers : line[x] \notin Trailers
      BY <1>1, HeaderLine DEF Staged, StageOf, Carries, Writers, Recs, Trailers, Kinds
    <2> QED BY <2>1, <1>2, <1>5, <1>6 DEF TrailerAlone
  <1>11. Rewrites'
    BY <1>1, <1>5, <1>6 DEF Rewrites, Settled, Writers
  <1> QED BY <1>3, <1>4, <1>7, <1>8, <1>9, <1>10, <1>11

\* Only w moves.
Moves(w) ==
  \A x \in Writers : x # w =>
    step'[x] = step[x] /\ line'[x] = line[x] /\ read'[x] = read[x] /\ had'[x] = had[x]

LEMMA StagedKept ==
  ASSUME Staged, NEW w \in Writers, Moves(w), StageOf(w)', there' = there
  PROVE Staged'
  <1>1. SUFFICES ASSUME NEW x \in Writers, x # w PROVE StageOf(x)'
    BY DEF Staged
  <1>2. StageOf(x)
    BY DEF Staged
  <1> QED BY <1>1, <1>2 DEF StageOf, Carries, Moves

LEMMA LockKept ==
  ASSUME Locked, NEW w \in Writers, Moves(w), held' = held,
         w # "revert" => (step'[w] \in {"cut", "patch", "write"} <=> held = w)
  PROVE Locked'
  BY DEF Locked, Moves

LEMMA TurnSettlesCtl ==
  ASSUME LogCtl, TurnSettles
  PROVE LogCtl'
  <1> USE DEF LogCtl
  <1>1. /\ step["settle"] = "idle" /\ step["title"] = "idle" /\ step["revert"] = "idle"
        /\ step' = [step EXCEPT !["settle"] = "load"]
        /\ UNCHANGED <<jsonl, there, held, line, read, had, count, accepted, deleted, race>>
        /\ turnRuns' = FALSE /\ turnAt' = "none"
    BY Alone DEF TurnSettles, MayWrite, Busy, At
  <1>2. Moves("settle") /\ step'["settle"] = "load" /\ "settle" \in Writers
    BY <1>1 DEF Moves, LogTypeOK, Writers
  <1>3. LogTypeOK' /\ LineTyped'
    BY <1>1 DEF LogTypeOK, LineTyped
  <1>4. Locked'
    BY <1>1, <1>2, LockKept DEF Locked
  <1>5. Staged'
    <2>1. line'["settle"] = Header
      BY <1>1, <1>2 DEF Staged, StageOf
    <2>2. StageOf("settle")'
      BY <2>1, <1>1, <1>2 DEF StageOf
    <2> QED BY <2>2, <1>1, <1>2, StagedKept
  <1>6. RevertAlone'
    BY <1>1, <1>2 DEF RevertAlone, Busy, Moves, Writers
  <1>7. TrailerAlone'
    BY <1>1 DEF TrailerAlone
  <1>8. Rewrites'
    BY <1>1, <1>2 DEF Rewrites, Moves, Writers
  <1> QED BY <1>3, <1>4, <1>5, <1>6, <1>7, <1>8

LEMMA NewHeaderCtl ==
  ASSUME LogCtl, NewHeader
  PROVE LogCtl'
  <1> USE DEF LogCtl
  <1>1. /\ step["header"] = "idle" /\ step["revert"] = "idle"
        /\ step' = [step EXCEPT !["header"] = "look"]
        /\ UNCHANGED <<jsonl, there, held, line, read, had, accepted>> /\ LogKeeps
    BY Alone DEF NewHeader, MayWrite, Busy, At
  <1>2. Moves("header") /\ step'["header"] = "look" /\ "header" \in Writers
    BY <1>1 DEF Moves, LogTypeOK, Writers
  <1>3. LogTypeOK' /\ LineTyped'
    BY <1>1 DEF LogTypeOK, LineTyped, LogKeeps
  <1>4. Locked'
    BY <1>1, <1>2, LockKept DEF Locked
  <1>5. Staged'
    <2>1. line'["header"] = Header
      BY <1>1, <1>2 DEF Staged, StageOf
    <2>2. StageOf("header")'
      BY <2>1, <1>1, <1>2 DEF StageOf, Carries
    <2> QED BY <2>2, <1>1, <1>2, StagedKept
  <1>6. RevertAlone'
    BY <1>1, <1>2 DEF RevertAlone, Busy, Moves, Writers
  <1>7. TrailerAlone'
    BY <1>1 DEF TrailerAlone
  <1>8. Rewrites'
    BY <1>1, <1>2 DEF Rewrites, Moves, Writers
  <1> QED BY <1>3, <1>4, <1>5, <1>6, <1>7, <1>8

LEMMA SummaryLoadCtl ==
  ASSUME LogCtl, NEW w \in Writers, SummaryLoad(w)
  PROVE LogCtl'
  <1> USE DEF LogCtl
  <1>1. /\ step[w] = "load" /\ w \in {"settle", "title"}
        /\ line["turn"][1] \in {"header", "state"} /\ line["title"][1] \in {"header", "state"}
        /\ UNCHANGED <<jsonl, there, held, read, had, accepted>> /\ LogKeeps
    BY Alone DEF SummaryLoad, Staged, StageOf
  <1>9. \/ /\ jsonl # <<>> /\ line' = [line EXCEPT ![w] = Trailer(Flags(jsonl), 0)]
           /\ step' = [step EXCEPT ![w] = "look"]
        \/ step' = [step EXCEPT ![w] = "idle"] /\ line' = line
    BY DEF SummaryLoad, At
  <1>10. Trailer(Flags(jsonl), 0) \in Trailers
    BY FlagsGrow DEF LineTyped, Trailer, Trailers
  <1>2. Moves(w) /\ step'[w] \in {"look", "idle"}
    BY <1>1, <1>9 DEF Moves, LogTypeOK, LineTyped
  <1>11. /\ step'[w] = "look" => line'[w] \in Trailers /\ there
         /\ step'[w] = "idle" => line'[w] = Header
    BY <1>1, <1>9, <1>10 DEF LogTypeOK, LineTyped, Staged, StageOf
  <1>3. LogTypeOK'
    BY <1>1, <1>9 DEF LogTypeOK, LogKeeps
  <1>12. LineTyped'
    BY <1>1, <1>9, <1>10 DEF LineTyped, LogKeeps
  <1>4. Locked'
    BY <1>1, <1>2, LockKept DEF Locked
  <1>5. Staged'
    <2>2. StageOf(w)'
      BY <1>11, <1>1, <1>2 DEF StageOf, Carries
    <2> QED BY <2>2, <1>1, <1>2, StagedKept
  <1>6. RevertAlone'
    BY <1>1, <1>2 DEF RevertAlone, Busy, Moves, Writers
  <1>7. TrailerAlone'
    <2>1. line["turn"] = Header
      <3>1. line["turn"] \notin Recs
        BY <1>1, RecTyped DEF Recs, Kinds
      <3> QED BY <3>1 DEF Staged, StageOf, Carries, Writers
    <2>2. line["title"] \notin Recs
      BY <1>1 DEF Recs, Kinds
    <2>3. line'["turn"] = Header /\ line'["title"] \notin Recs
      <3>1. Header \notin Recs /\ \A t \in Trailers : t \notin Recs
        BY HeaderLine DEF Recs, Trailers, Kinds
      <3> QED BY <2>1, <2>2, <1>1, <1>2, <1>11, <3>1 DEF Moves, Writers
    <2>4. \A x \in Writers : line'[x] \in Trailers => there
      BY <1>2, <1>11, HeaderLine DEF TrailerAlone, Moves
    <2> QED BY <2>3, <2>4, <1>1 DEF TrailerAlone
  <1>8. Rewrites'
    BY <1>1, <1>2 DEF Rewrites, Moves, Writers
  <1> QED BY <1>3, <1>12, <1>4, <1>5, <1>6, <1>7, <1>8

\* What a writer that is not a revert carries.
LEMMA CarriedIs ==
  ASSUME Staged, LogTypeOK, NEW w \in Writers \ {"revert"}
  PROVE /\ line[w] = Header \/ line[w] \in Recs \/ line[w] \in Trailers
        /\ line[w] \in Recs /\ line[w][1] = "usage" => w = "turn"
        /\ line[w] \in Trailers => w \in {"settle", "title"} /\ step[w] \in {"look", "write"}
        /\ line[w] \in Recs => w \in {"turn", "child", "title"} /\ step[w] \notin {"idle", "load"}
        /\ step[w] \notin {"idle", "load"} /\ w # "header" => line[w] \in Recs \cup Trailers
  <1>1. StageOf(w)
    BY DEF Staged
  <1>2. \A t \in Trailers : t \notin Recs /\ t # Header /\ t[1] = "state"
    BY HeaderLine DEF Recs, Trailers, Kinds
  <1>3. \A t \in Recs : t # Header
    BY HeaderLine
  <1>6. step[w] \in {"idle", "load", "look", "cut", "patch", "write"}
    BY DEF LogTypeOK
  <1>4. CASE step[w] \in {"idle", "load"}
    BY <1>1, <1>2, <1>3, <1>4, HeaderLine DEF StageOf
  <1>5. CASE step[w] \notin {"idle", "load"}
    <2>1. Carries(w)
      BY <1>1, <1>5 DEF StageOf
    <2>2. w \in {"settle", "title", "child"} => step[w] \in {"look", "write"}
      BY <1>1, <1>5, <1>6 DEF StageOf
    <2>3. CASE w = "turn"
      BY <2>1, <2>3, <1>2, <1>3, <1>5 DEF Carries
    <2>4. CASE w = "child"
      BY <2>1, <2>4, <1>2, <1>3, <1>5 DEF Carries
    <2>5. CASE w = "settle"
      BY <2>1, <2>2, <2>5, <1>2, <1>3, <1>5 DEF Carries
    <2>6. CASE w = "title"
      BY <2>1, <2>2, <2>6, <1>2, <1>3, <1>5 DEF Carries
    <2>7. CASE w = "header"
      BY <2>1, <2>7, <1>2, <1>3, <1>5, HeaderLine DEF Carries
    <2> QED BY <2>3, <2>4, <2>5, <2>6, <2>7 DEF Writers
  <1> QED BY <1>4, <1>5

LEMMA ExceptLast ==
  ASSUME NEW X, NEW p \in Seq(X), NEW l \in X, NEW z \in X
  PROVE [Append(p, l) EXCEPT ![Len(p) + 1] = z] = Append(p, z)
  <1> DEFINE a == [Append(p, l) EXCEPT ![Len(p) + 1] = z]
             b == Append(p, z)
             c == Append(p, l)
  <1>1. c \in Seq(X) /\ Len(c) = Len(p) + 1 /\ DOMAIN c = 1..(Len(p) + 1) /\ Len(p) \in Nat
        /\ \A i \in 1..Len(p) : c[i] = p[i]
    OBVIOUS
  <1>2. b \in Seq(X) /\ Len(b) = Len(p) + 1 /\ \A i \in 1..(Len(p) + 1) : b[i] = IF i = Len(p) + 1 THEN z ELSE p[i]
    OBVIOUS
  <1>3. a \in Seq(X) /\ Len(a) = Len(p) + 1
    <2>1. a = [c EXCEPT ![Len(p) + 1] = z]
      OBVIOUS
    <2> HIDE DEF a, c
    <2> QED BY <1>1, <2>1, ExceptSeq
  <1>4. \A i \in 1..(Len(p) + 1) : a[i] = IF i = Len(p) + 1 THEN z ELSE p[i]
    <2>1. a = [c EXCEPT ![Len(p) + 1] = z]
      OBVIOUS
    <2>2. \A i \in 1..(Len(p) + 1) : i = Len(p) + 1 \/ i \in 1..Len(p)
      BY <1>1
    <2> HIDE DEF a, c
    <2> QED BY <1>1, <2>1, <2>2
  <1> HIDE DEF a, b
  <1>5. a = b
    BY <1>2, <1>3, <1>4, SeqEqual
  <1> QED BY <1>5 DEF a, b

\* A usage that can be folded.
LEMMA FoldableIs ==
  ASSUME LineTyped, NEW w \in Writers, Foldable(w), line[w] \in Recs
  PROVE /\ FoldStaged(line[w], jsonl, [jsonl EXCEPT ![Len(jsonl)][3] = line[w][2]])
        /\ [jsonl EXCEPT ![Len(jsonl)][3] = line[w][2]] \in Seq(Lines)
  <1> DEFINE l == Last(jsonl)
             p == SubSeq(jsonl, 1, Len(jsonl) - 1)
             u == line[w][2]
  <1>1. jsonl \in Seq(Lines) /\ jsonl # <<>> /\ Len(jsonl) \in Nat /\ Len(jsonl) > 0
        /\ l = jsonl[Len(jsonl)] /\ l \in Lines
    BY DEF LineTyped, Foldable, Last
  <1>2. l[1] \in Answers /\ l[3] = 0 /\ line[w][1] = "usage"
    BY DEF Foldable
  <1>3. u \in Pos /\ line[w] = Rec("usage", u)
    BY <1>2 DEF Recs, Rec
  <1> HIDE DEF l, u
  <1>4. l \in Recs
    BY <1>1, <1>2, HeaderLine DEF Lines, Folded, Trailers, Answers, Pos
  <1>5. l[2] \in Pos /\ l = Rec(l[1], l[2])
    BY <1>2, <1>4 DEF Recs, Rec
  <1>6. p \in Seq(Lines) /\ jsonl = Append(p, l) /\ Len(p) = Len(jsonl) - 1
    <2>1. Len(jsonl) - 1 \in Nat /\ (Len(jsonl) - 1) + 1 = Len(jsonl)
      BY <1>1
    <2>2. p \in Seq(Lines) /\ Len(p) = Len(jsonl) - 1
      BY <1>1, <2>1
    <2>3. jsonl = Append(p, jsonl[Len(jsonl)])
      BY <1>1, <2>1, <2>2
    <2> QED BY <1>1, <2>2, <2>3
  <1>7. <<l[1], l[2], u>> \in Lines
    BY <1>2, <1>3, <1>5 DEF Lines, Folded
  <1>8. [jsonl EXCEPT ![Len(jsonl)][3] = u] = Append(p, <<l[1], l[2], u>>)
    <2> DEFINE a == [jsonl EXCEPT ![Len(jsonl)][3] = u]
               b == Append(p, <<l[1], l[2], u>>)
               z == [l EXCEPT ![3] = u]
    <2>1. z = <<l[1], l[2], u>>
      BY <1>4 DEF Recs
    <2>2. a = [jsonl EXCEPT ![Len(jsonl)] = z]
      BY <1>1
    <2> HIDE DEF z
    <2>4. jsonl \in Seq(Lines) /\ z \in Lines
      BY <1>1, <1>7, <2>1
    <2>5. [jsonl EXCEPT ![Len(jsonl)] = z] = Append(p, z)
      <3> HIDE DEF p
      <3>1. Len(jsonl) = Len(p) + 1 /\ Len(p) \in Nat
        BY <1>1, <1>6
      <3>2. [Append(p, l) EXCEPT ![Len(p) + 1] = z] = Append(p, z)
        BY <1>1, <1>6, <2>4, ExceptLast
      <3> QED BY <3>1, <3>2, <1>6
    <2> HIDE DEF p
    <2> QED BY <2>1, <2>2, <2>5
  <1> HIDE DEF p
  <1> DEFINE e == [jsonl EXCEPT ![Len(jsonl)][3] = u]
  <1>9. e \in Seq(Lines)
    <2>1. \A x \in Lines : Append(p, x) \in Seq(Lines)
      BY <1>6
    <2> QED BY <2>1, <1>7, <1>8
  <1> HIDE DEF e
  <1>10. FoldStaged(line[w], jsonl, e)
    <2>1. e = Append(p, <<l[1], l[2], u>>) /\ jsonl = Append(p, Rec(l[1], l[2]))
      BY <1>5, <1>6, <1>8 DEF e
    <2> QED BY <2>1, <1>2, <1>3, <1>5, <1>6 DEF FoldStaged
  <1> QED BY <1>9, <1>10 DEF e, u

LEMMA LookCtl ==
  ASSUME LogCtl, NEW w \in Writers, Look(w)
  PROVE LogCtl'
  <1> USE DEF LogCtl
  <1> DEFINE r == IF Foldable(w) THEN [jsonl EXCEPT ![Len(jsonl)][3] = line[w][2]]
                  ELSE IF w = "header" THEN jsonl ELSE <<>>
             l == IF line[w][1] = "state"
                  THEN Trailer(line[w][2], (IF there THEN Len(jsonl) ELSE 1) + 1) ELSE line[w]
             to == IF Foldable(w) \/ (w = "header" /\ there) THEN "cut" ELSE "write"
  <1>1. /\ step[w] = "look" /\ held = Nobody /\ held' = w
        /\ had' = [had EXCEPT ![w] = there] /\ line' = [line EXCEPT ![w] = l]
        /\ read' = [read EXCEPT ![w] = r] /\ step' = [step EXCEPT ![w] = to]
        /\ UNCHANGED <<jsonl, there, accepted>> /\ LogKeeps
    BY DEF Look, At, LineTyped
  <1>2. w # "revert"
    BY <1>1 DEF Staged, StageOf
  <1>3. /\ Foldable(w) => w = "turn" /\ line[w] \in Recs
        /\ line[w][1] = "state" => line[w] \in Trailers
    BY <1>1, <1>2, CarriedIs, HeaderLine DEF Foldable, Recs, Kinds, Trailers
  <1>4. Foldable(w) => FoldStaged(line[w], jsonl, r) /\ r \in Seq(Lines)
    BY <1>3, FoldableIs
  <1>5. r \in Seq(Lines)
    BY <1>4 DEF LineTyped
  <1>6. l = line[w] \/ (l \in Trailers /\ line[w] \in Trailers)
    BY <1>3 DEF Trailer, Trailers, LineTyped
  <1>7. to \in {"cut", "write"}
    OBVIOUS
  <1>8. Foldable(w) => there
    BY DEF Foldable, LogTypeOK
  <1> HIDE DEF l
  <1>9. Moves(w) /\ step'[w] = to /\ line'[w] = l /\ had'[w] = there /\ read'[w] = r
    BY <1>1 DEF Moves, LogTypeOK, LineTyped
  <1>10. LogTypeOK'
    BY <1>1, <1>7 DEF LogTypeOK, LogKeeps
  <1>11. LineTyped'
    <2>1. l \in {Header} \cup Recs \cup Trailers
      BY <1>6 DEF LineTyped
    <2> HIDE DEF r, to
    <2> QED BY <2>1, <1>1, <1>5 DEF LineTyped, LogKeeps
  <1>12. Locked'
    <2>1. \A x \in Writers \ {"revert"} : step[x] \notin {"cut", "patch", "write"}
      BY <1>1 DEF Locked, Nobody, Writers
    <2> HIDE DEF r, to
    <2> QED BY <2>1, <1>1, <1>2, <1>7, <1>9 DEF Locked, Moves
  <1>13. Staged'
    <2>1. StageOf(w)
      BY DEF Staged
    <2>4. Carries(w)
      BY <2>1, <1>1 DEF StageOf
    <2>2. Carries(w)'
      <3>1. CASE l = line[w]
        BY <3>1, <2>4, <1>9 DEF Carries
      <3>2. CASE l \in Trailers /\ line[w] \in Trailers
        <4>1. w \in {"settle", "title"}
          BY <3>2, <1>2, CarriedIs
        <4> QED BY <4>1, <3>2, <1>9 DEF Carries
      <3> QED BY <1>6, <3>1, <3>2
    <2>3. StageOf(w)'
      <3>1. to = "cut" => w \in {"turn", "header"} /\ there
        BY <1>3, <1>8
      <3>2. to = "write" /\ w = "header" => ~there
        OBVIOUS
      <3> HIDE DEF r, to
      <3> QED BY <2>2, <3>1, <3>2, <1>1, <1>2, <1>7, <1>9 DEF StageOf
    <2> QED BY <2>3, <1>1, <1>9, StagedKept
  <1>14. RevertAlone'
    BY <1>1, <1>2, <1>9 DEF RevertAlone, Busy, Moves, Writers
  <1>15. TrailerAlone'
    <2>1. \A x \in Writers : line'[x] \in Trailers => line[x] \in Trailers
      BY <1>6, <1>9 DEF Moves
    <2>2. \A x \in Writers : line[x] = Header \/ line[x] \notin Recs => line'[x] = line[x] \/ line'[x] \in Trailers
      BY <1>6, <1>9 DEF Moves
    <2>3. \A t \in Trailers : t \notin Recs
      BY DEF Recs, Trailers, Kinds
    <2>4. line["turn"] = Header => line'["turn"] = Header
      BY <1>6, <1>9, HeaderLine DEF Moves, Writers
    <2> QED BY <2>1, <2>2, <2>3, <2>4, <1>1 DEF TrailerAlone, Writers
  <1>16. Rewrites'
    <2>1. step["revert"] = step'["revert"] /\ read'["revert"] = read["revert"] /\ line'["revert"] = line["revert"]
      BY <1>2, <1>9 DEF Moves, Writers
    <2>2. w # "turn" => step'["turn"] = step["turn"] /\ read'["turn"] = read["turn"] /\ line'["turn"] = line["turn"]
      BY <1>9 DEF Moves, Writers
    <2>3. w # "header" => step'["header"] = step["header"] /\ read'["header"] = read["header"]
      BY <1>9 DEF Moves, Writers
    <2>4. w = "turn" /\ to = "cut" => l = line[w]
      BY <1>3 DEF l, Recs, Kinds
    <2>5. w = "turn" /\ to = "cut" => FoldStaged(line[w], jsonl, r)
      BY <1>4
    <2>6. w = "header" => r = jsonl
      BY <1>3
    <2> HIDE DEF r, to
    <2> QED BY <2>1, <2>2, <2>3, <2>4, <2>5, <2>6, <1>1, <1>7, <1>9 DEF Rewrites
  <1> QED BY <1>10, <1>11, <1>12, <1>13, <1>14, <1>15, <1>16

\* Who holds the lock is alone between the lock and the write.
LEMMA Exclusive ==
  ASSUME LogCtl, NEW w \in Writers \ {"revert"}, step[w] \in {"cut", "patch", "write"}
  PROVE /\ held = w /\ step["revert"] = "idle" /\ step["revert"] # "load"
        /\ \A x \in Writers : x # w => step[x] \in {"idle", "load", "look"}
  <1> USE DEF LogCtl
  <1>1. held = w
    BY DEF Locked
  <1>2. step["revert"] = "idle"
    BY DEF RevertAlone, Busy
  <1>3. ASSUME NEW x \in Writers, x # w PROVE step[x] \in {"idle", "load", "look"}
    <2>1. x # "revert" => step[x] \notin {"cut", "patch", "write"}
      BY <1>1, <1>3 DEF Locked
    <2>2. step[x] \in {"idle", "load", "look", "cut", "patch", "write"}
      BY DEF LogTypeOK
    <2> QED BY <2>1, <2>2, <1>2
  <1> QED BY <1>1, <1>2, <1>3

\* The control part of every step that ends a write under the lock.
LEMMA ReleaseCtl ==
  ASSUME LogCtl, NEW w \in Writers \ {"revert"}, step[w] \in {"cut", "patch", "write"},
         Release(w), LogKeeps, there' = TRUE \/ there' = there,
         jsonl' \in Seq(Lines), accepted' \subseteq Recs, ~there' => jsonl' = <<>>
  PROVE LogCtl'
  <1> USE DEF LogCtl
  <1> DEFINE to == IF w = "title" /\ line[w][1] = "title" THEN "load" ELSE "idle"
  <1>1. /\ held' = Nobody /\ step' = [step EXCEPT ![w] = to]
        /\ line' = [line EXCEPT ![w] = Header] /\ read' = [read EXCEPT ![w] = <<>>]
        /\ had' = [had EXCEPT ![w] = FALSE]
    BY DEF Release, Forget, At
  <1>2. to \in {"idle", "load"} /\ (to = "load" => w = "title")
    OBVIOUS
  <1> HIDE DEF to
  <1>3. Moves(w) /\ step'[w] = to /\ line'[w] = Header
    BY <1>1 DEF Moves, LogTypeOK, LineTyped
  <1>4. /\ step["revert"] = "idle" /\ there \in BOOLEAN
        /\ \A x \in Writers : x # w => step[x] \in {"idle", "load", "look"}
    BY Exclusive DEF LogTypeOK
  <1>5. LogTypeOK'
    BY <1>1, <1>2 DEF LogTypeOK, LogKeeps
  <1>6. LineTyped'
    BY <1>1 DEF LineTyped, LogKeeps
  <1>7. Locked'
    BY <1>1, <1>2, <1>3, <1>4 DEF Locked, Moves, Nobody, Writers
  <1>8. Staged'
    <2>1. SUFFICES ASSUME NEW x \in Writers PROVE StageOf(x)'
      BY DEF Staged
    <2>2. CASE x = w
      BY <2>2, <1>2, <1>3 DEF StageOf
    <2>3. CASE x # w
      <3>1. StageOf(x) /\ step[x] \in {"idle", "load", "look"}
        BY <2>3, <1>4 DEF Staged
      <3> QED BY <3>1, <2>3, <1>3 DEF StageOf, Carries, Moves
    <2> QED BY <2>2, <2>3
  <1>9. RevertAlone'
    BY <1>3, <1>4 DEF RevertAlone, Busy, Moves, Writers
  <1>10. TrailerAlone'
    <2>1. \A x \in Writers : line'[x] = line[x] \/ line'[x] = Header
      BY <1>3 DEF Moves
    <2>2. Header \notin Recs /\ Header \notin Trailers
      BY HeaderLine
    <2> QED BY <2>1, <2>2, <1>4 DEF TrailerAlone, Writers
  <1>11. Rewrites'
    <2>1. \A x \in {"turn", "header", "revert"} : step'[x] \in {"idle", "load", "look"}
      BY <1>2, <1>3, <1>4 DEF Moves, Writers
    <2> QED BY <2>1 DEF Rewrites
  <1> QED BY <1>5, <1>6, <1>7, <1>8, <1>9, <1>10, <1>11

\* What an append does to the file.
LEMMA WriteLineFile ==
  ASSUME LogCtl, NEW w \in Writers, WriteLine(w)
  PROVE /\ w \in Writers \ {"revert", "header"} /\ step[w] = "write" /\ there' = TRUE
        /\ line[w] \in Recs \cup Trailers /\ line[w] \in Lines
        /\ jsonl' = IF there THEN Append(jsonl, line[w]) ELSE <<Header>> \o <<line[w]>>
        /\ accepted' = IF line[w] \in Trailers THEN accepted ELSE accepted \cup {line[w]}
        /\ jsonl' \in Seq(Lines)
  <1> USE DEF LogCtl
  <1>1. w \in Writers \ {"revert", "header"} /\ step[w] = "write" /\ there' = TRUE
    BY DEF WriteLine
  <1>2. line[w] \in Recs \cup Trailers /\ line[w] \in Lines /\ (had[w] <=> there)
    BY <1>1, CarriedIs, KeptLines DEF Staged, StageOf
  <1>3. line[w][1] = "state" <=> line[w] \in Trailers
    BY <1>2 DEF Recs, Kinds, Trailers
  <1>4. jsonl \in Seq(Lines) /\ Header \in Lines
    BY HeaderLine DEF LineTyped
  <1> DEFINE l == line[w]
  <1>5. ~there => jsonl = <<>>
    BY DEF LogTypeOK
  <1>6. jsonl' = jsonl \o (IF there THEN <<>> ELSE <<Header>>) \o <<l>>
    BY <1>2 DEF WriteLine, LogTypeOK
  <1> HIDE DEF l
  <1>7. l \in Lines
    BY <1>2 DEF l
  <1>8. jsonl \o <<>> \o <<l>> = Append(jsonl, l) /\ <<>> \o <<Header>> \o <<l>> = <<Header>> \o <<l>>
    BY <1>4, <1>7
  <1>9. Append(jsonl, l) \in Seq(Lines) /\ <<Header>> \o <<l>> \in Seq(Lines)
    BY <1>4, <1>7
  <1> QED BY <1>1, <1>2, <1>3, <1>5, <1>6, <1>8, <1>9 DEF l, WriteLine

LEMMA WriteLineCtl ==
  ASSUME LogCtl, NEW w \in Writers, WriteLine(w)
  PROVE LogCtl'
  <1>1. accepted' \subseteq Recs
    BY WriteLineFile DEF LogCtl, LineTyped
  <1>2. Release(w) /\ LogKeeps
    BY DEF WriteLine
  <1> QED BY <1>1, <1>2, WriteLineFile, ReleaseCtl

LEMMA FoldWriteFile ==
  ASSUME LogCtl, NEW w \in Writers, FoldWrite(w)
  PROVE /\ w = "turn" /\ step[w] = "patch" /\ there /\ there' = there
        /\ \E k \in Answers, n, u \in Pos :
             /\ line[w] = Rec("usage", u) /\ read[w] = Append(jsonl, <<k, n, u>>)
             /\ Last(read[w])[1] = k /\ Last(read[w])[2] = n
             /\ jsonl' = Append(jsonl, <<k, n, u>>) /\ accepted' = accepted \cup {Rec("usage", u)}
        /\ jsonl' \in Seq(Lines) /\ accepted' \subseteq Recs
  <1> USE DEF LogCtl
  <1>1. w = "turn" /\ step[w] = "patch" /\ there /\ there' = there
    BY DEF FoldWrite, Staged, StageOf
  <1>2. PICK k \in Answers, n \in Pos, u \in Pos :
          line[w] = Rec("usage", u) /\ read[w] = Append(jsonl, <<k, n, u>>)
    BY <1>1 DEF Rewrites, FoldCut
  <1> DEFINE z == <<k, n, u>>
  <1>3. jsonl \in Seq(Lines) /\ z \in Lines
    BY DEF LineTyped, Lines, Folded
  <1>4. z[1] = k /\ z[2] = n
    OBVIOUS
  <1> HIDE DEF z
  <1>5. Last(Append(jsonl, z)) = z /\ Append(jsonl, z) \in Seq(Lines)
    BY <1>3 DEF Last
  <1>6. jsonl' = Append(jsonl, z) /\ accepted' = accepted \cup {Rec("usage", u)}
    BY <1>2, <1>5 DEF FoldWrite, z
  <1>7. Rec("usage", u) \in Recs
    BY DEF Rec, Recs, Kinds
  <1>8. accepted' \subseteq Recs
    BY <1>6, <1>7 DEF LineTyped
  <1> QED BY <1>1, <1>2, <1>4, <1>5, <1>6, <1>8 DEF z

LEMMA FoldWriteCtl ==
  ASSUME LogCtl, NEW w \in Writers, FoldWrite(w)
  PROVE LogCtl'
  <1>1. Release(w) /\ LogKeeps
    BY DEF FoldWrite
  <1>2. w \in Writers \ {"revert"} /\ step[w] = "patch" /\ there' = TRUE
    BY FoldWriteFile DEF LogCtl, LogTypeOK
  <1> QED BY <1>1, <1>2, FoldWriteFile, ReleaseCtl

LEMMA WriteHeaderCtl ==
  ASSUME LogCtl, WriteHeader
  PROVE LogCtl'
  <1> USE DEF LogCtl
  <1>1. Release("header") /\ LogKeeps /\ step["header"] \in {"patch", "write"} /\ accepted' = accepted
    BY DEF WriteHeader
  <1>2. step["header"] = "patch" => there
    BY DEF Staged, StageOf, Writers
  <1>3. there' = there
    BY <1>2 DEF WriteHeader, LogTypeOK
  <1>4. jsonl' \in Seq(Lines) /\ accepted' \subseteq Recs
    BY <1>1 DEF WriteHeader, LineTyped, Writers
  <1>5. ~there' => jsonl' = <<>>
    BY <1>1, <1>2, <1>3 DEF WriteHeader, LogTypeOK
  <1>6. "header" \in Writers \ {"revert"}
    BY DEF Writers
  <1> QED BY <1>1, <1>3, <1>4, <1>5, <1>6, ReleaseCtl

\* What a truncation does to the file.
LEMMA TruncateFile ==
  ASSUME LogCtl, NEW w \in Writers, Truncate(w)
  PROVE /\ w \in {"turn", "header", "revert"} /\ step[w] = "cut" /\ there
        /\ step' = [step EXCEPT ![w] = "patch"]
        /\ UNCHANGED <<there, held, line, read, had, accepted>> /\ LogKeeps
        /\ jsonl' \in Seq(Lines)
        /\ w # "turn" => jsonl' = <<>>
        /\ w = "turn" =>
             \E k \in Answers, n, u \in Pos :
               /\ line[w] = Rec("usage", u) /\ jsonl = Append(jsonl', Rec(k, n))
               /\ read[w] = Append(jsonl', <<k, n, u>>)
  <1> USE DEF LogCtl
  <1>1. /\ w \in {"turn", "header", "revert"} /\ step[w] = "cut" /\ there
        /\ step' = [step EXCEPT ![w] = "patch"]
        /\ UNCHANGED <<there, held, line, read, had, accepted>> /\ LogKeeps
    BY DEF Truncate, At, Staged, StageOf
  <1>2. w # "turn" => jsonl' = <<>>
    BY <1>1 DEF Truncate
  <1>3. ASSUME w = "turn"
        PROVE /\ jsonl' \in Seq(Lines)
              /\ \E k \in Answers, n, u \in Pos :
                   /\ line[w] = Rec("usage", u) /\ jsonl = Append(jsonl', Rec(k, n))
                   /\ read[w] = Append(jsonl', <<k, n, u>>)
    <2>1. PICK p \in Seq(Lines), k \in Answers, n \in Pos, u \in Pos :
            line[w] = Rec("usage", u) /\ jsonl = Append(p, Rec(k, n)) /\ read[w] = Append(p, <<k, n, u>>)
      BY <1>1, <1>3 DEF Rewrites, FoldStaged
    <2> DEFINE x == Rec(k, n)
               z == <<k, n, u>>
    <2>2. jsonl' = SubSeq(Append(p, x), 1, Len(Append(p, z)) - 1)
      BY <2>1, <1>3 DEF Truncate
    <2>3. x \in Lines /\ z \in Lines
      BY DEF Lines, Recs, Folded, Rec, Answers, Kinds
    <2> HIDE DEF x, z
    <2>4. Len(Append(p, z)) - 1 = Len(p) /\ SubSeq(Append(p, x), 1, Len(p)) = p
      BY <2>3
    <2>5. jsonl' = p
      BY <2>2, <2>4
    <2> QED BY <2>1, <2>5
  <1>4. w # "turn" => jsonl' \in Seq(Lines)
    BY <1>2
  <1> QED BY <1>1, <1>2, <1>3, <1>4

LEMMA TruncateCtl ==
  ASSUME LogCtl, NEW w \in Writers, Truncate(w)
  PROVE LogCtl'
  <1> USE DEF LogCtl
  <1>1. /\ w \in {"turn", "header", "revert"} /\ step[w] = "cut" /\ there
        /\ step' = [step EXCEPT ![w] = "patch"]
        /\ UNCHANGED <<there, held, line, read, had, accepted>> /\ LogKeeps
        /\ jsonl' \in Seq(Lines)
        /\ w # "turn" => jsonl' = <<>>
    BY TruncateFile
  <1>2. w = "turn" => FoldCut(line["turn"], jsonl', read["turn"])
    BY TruncateFile DEF FoldCut
  <1>3. Moves(w) /\ step'[w] = "patch"
    BY <1>1 DEF Moves, LogTypeOK
  <1>4. LogTypeOK'
    BY <1>1 DEF LogTypeOK, LogKeeps
  <1>5. LineTyped'
    BY <1>1 DEF LineTyped, LogKeeps
  <1>6. Locked'
    BY <1>1, <1>3, LockKept DEF Locked
  <1>7. Staged'
    <2>1. StageOf(w)
      BY DEF Staged
    <2>2. StageOf(w)'
      BY <2>1, <1>1, <1>3 DEF StageOf, Carries
    <2> QED BY <2>2, <1>1, <1>3, StagedKept
  <1>8. RevertAlone'
    BY <1>1, <1>3 DEF RevertAlone, Busy, Moves, Writers
  <1>9. TrailerAlone'
    BY <1>1 DEF TrailerAlone
  <1>10. Rewrites'
    <2>1. \A x \in {"turn", "header", "revert"} : x # w =>
            step'[x] \in {"idle", "load", "look"}
      <3>1. CASE w = "revert"
        <4>1. step["turn"] = "idle" /\ step["header"] = "idle"
          BY <1>1, <3>1 DEF RevertAlone, Busy, Writers
        <4> QED BY <4>1, <3>1, <1>3 DEF Moves, Writers
      <3>2. CASE w # "revert"
        BY <3>2, <1>1, <1>3, Exclusive DEF Moves, Writers
      <3> QED BY <3>1, <3>2
    <2>2. \A x \in Writers : step'[x] = "patch" \/ x # w
      BY <1>3
    <2>3. CASE w = "turn"
      BY <2>1, <2>3, <1>1, <1>2, <1>3 DEF Rewrites
    <2>4. CASE w = "header"
      BY <2>1, <2>4, <1>1, <1>3 DEF Rewrites
    <2>5. CASE w = "revert"
      <3>1. read["revert"] = Records(jsonl) /\ line["revert"] \in ToSet(read["revert"])
        BY <2>5, <1>1 DEF Rewrites
      <3>2. read["revert"] \in Seq(Recs \cup Trailers)
        BY <3>1, RecordsGrow DEF LineTyped, Kept
      <3> QED BY <2>1, <2>5, <3>1, <3>2, <1>1, <1>3 DEF Rewrites
    <2> QED BY <1>1, <2>3, <2>4, <2>5
  <1> QED BY <1>4, <1>5, <1>6, <1>7, <1>8, <1>9, <1>10

LEMMA RevertBeginsCtl ==
  ASSUME LogCtl, RevertBegins
  PROVE LogCtl'
  <1> USE DEF LogCtl
  <1>1. /\ there /\ step' = [step EXCEPT !["revert"] = "load"] /\ \A x \in Writers : step[x] = "idle"
        /\ UNCHANGED <<jsonl, there, held, line, read, had, accepted>> /\ LogKeeps
    BY Alone DEF RevertBegins, Busy, At
  <1>2. Moves("revert") /\ step'["revert"] = "load" /\ "revert" \in Writers
    BY <1>1 DEF Moves, LogTypeOK, Writers
  <1>3. LogTypeOK' /\ LineTyped'
    BY <1>1 DEF LogTypeOK, LineTyped, LogKeeps
  <1>4. Locked'
    BY <1>1, <1>2, LockKept
  <1>5. Staged'
    <2>1. line'["revert"] = Header
      BY <1>1, <1>2 DEF Staged, StageOf
    <2>2. StageOf("revert")'
      BY <2>1, <1>1, <1>2 DEF StageOf
    <2> QED BY <2>2, <1>1, <1>2, StagedKept
  <1>6. RevertAlone'
    BY <1>1, <1>2 DEF RevertAlone, Busy, Moves, Writers
  <1>7. TrailerAlone'
    BY <1>1 DEF TrailerAlone
  <1>8. Rewrites'
    BY <1>1, <1>2 DEF Rewrites, Moves, Writers
  <1> QED BY <1>3, <1>4, <1>5, <1>6, <1>7, <1>8

LEMMA RevertLoadCtl ==
  ASSUME LogCtl, RevertLoad
  PROVE LogCtl'
  <1> USE DEF LogCtl
  <1> DEFINE R == Records(jsonl)
  <1>1. /\ step["revert"] = "load" /\ "revert" \in Writers
        /\ UNCHANGED <<jsonl, there, held, had, accepted>> /\ LogKeeps
    BY DEF RevertLoad, Writers
  <1>2. R \in Seq(Recs \cup Trailers) /\ R \in Seq(Lines)
    BY RecordsGrow, KeptLines DEF LineTyped, Kept
  <1>3. \A x \in Writers : x # "revert" => step[x] = "idle" /\ line[x] = Header
    BY <1>1 DEF RevertAlone, Busy, Staged, StageOf
  <1>4. CASE step' = [step EXCEPT !["revert"] = "idle"] /\ UNCHANGED <<line, read>>
    <2>1. Moves("revert") /\ step'["revert"] = "idle"
      BY <1>1, <1>4 DEF Moves, LogTypeOK
    <2>2. LogTypeOK' /\ LineTyped'
      BY <1>1, <1>4 DEF LogTypeOK, LineTyped, LogKeeps
    <2>3. Locked'
      BY <1>1, <2>1, LockKept
    <2>4. Staged'
      <3>1. line'["revert"] = Header
        BY <1>1, <1>4 DEF Staged, StageOf
      <3>2. StageOf("revert")'
        BY <2>1, <3>1 DEF StageOf
      <3> QED BY <3>2, <1>1, <2>1, StagedKept
    <2>5. RevertAlone' /\ TrailerAlone'
      BY <1>1, <1>4, <2>1 DEF RevertAlone, Busy, TrailerAlone
    <2>6. Rewrites'
      BY <1>1, <1>3, <2>1 DEF Rewrites, Moves, Writers
    <2> QED BY <2>2, <2>3, <2>4, <2>5, <2>6
  <1>5. ASSUME NEW i \in DOMAIN R, R[i][1] = "user",
               line' = [line EXCEPT !["revert"] = R[i]], read' = [read EXCEPT !["revert"] = R],
               step' = [step EXCEPT !["revert"] = "cut"]
        PROVE LogCtl'
    <2>0. R[i] \in Recs /\ R[i] \in ToSet(R)
      BY <1>2, <1>5 DEF Trailers, ToSet
    <2> HIDE DEF R
    <2>1. Moves("revert") /\ step'["revert"] = "cut" /\ line'["revert"] = R[i] /\ read'["revert"] = R
      BY <1>1, <1>5 DEF Moves, LogTypeOK, LineTyped
    <2>2. LogTypeOK'
      BY <1>1, <1>5 DEF LogTypeOK, LogKeeps
    <2>3. LineTyped'
      BY <1>1, <1>2, <1>5, <2>0 DEF LineTyped, LogKeeps
    <2>4. Locked'
      BY <1>1, <2>1, LockKept
    <2>5. there
      <3>1. R # <<>>
        BY <1>5, <1>2
      <3>2. jsonl # <<>>
        BY <3>1, RecordsGrow DEF R
      <3> QED BY <3>2 DEF LogTypeOK
    <2>6. Staged'
      <3>1. StageOf("revert")'
        BY <2>0, <2>1, <2>5, <1>1, <1>5 DEF StageOf, Carries
      <3> QED BY <3>1, <1>1, <2>1, StagedKept
    <2>7. RevertAlone'
      BY <1>3, <2>1 DEF RevertAlone, Busy, Moves
    <2>8. TrailerAlone'
      <3>1. \A x \in Writers : line'[x] \notin Trailers
        BY <2>0, <2>1, <1>3, HeaderLine DEF Moves, Recs, Trailers, Kinds
      <3> QED BY <3>1 DEF TrailerAlone
    <2>9. Rewrites'
      <3>1. step'["turn"] = "idle" /\ step'["header"] = "idle"
        BY <1>3, <2>1 DEF Moves, Writers
      <3> QED BY <3>1, <2>0, <2>1, <1>1 DEF Rewrites, R
    <2> QED BY <2>2, <2>3, <2>4, <2>6, <2>7, <2>8, <2>9
  <1> QED BY <1>4, <1>5 DEF RevertLoad, At

\* What a revert does to the file.
LEMMA RevertWriteFile ==
  ASSUME LogCtl, RevertWrite
  PROVE /\ step["revert"] = "patch" /\ there /\ there' = TRUE
        /\ \A x \in Writers : x # "revert" => step[x] = "idle" /\ line[x] = Header
        /\ read["revert"] \in Kept
        /\ \E c \in 1..Len(read["revert"]) :
             /\ jsonl' = <<Header>> \o SubSeq(read["revert"], 1, c - 1)
             /\ accepted' = accepted \ {read["revert"][i] : i \in c..Len(read["revert"])}
        /\ jsonl' \in Seq(Lines)
  <1> USE DEF LogCtl
  <1> DEFINE all == read["revert"]
             c == CHOOSE i \in DOMAIN all : all[i] = line["revert"]
  <1>1. step["revert"] = "patch" /\ there' = TRUE /\ "revert" \in Writers
    BY DEF RevertWrite, Writers
  <1>2. there
    BY <1>1 DEF Staged, StageOf
  <1>3. \A x \in Writers : x # "revert" => step[x] = "idle" /\ line[x] = Header
    BY <1>1 DEF RevertAlone, Busy, Staged, StageOf
  <1>4. all \in Kept /\ line["revert"] \in ToSet(all)
    BY <1>1 DEF Rewrites, Kept
  <1>5. c \in DOMAIN all
    BY <1>4 DEF ToSet
  <1>6. /\ jsonl' = <<Header>> \o SubSeq(all, 1, c - 1)
        /\ accepted' = accepted \ {all[i] : i \in c..Len(all)}
    BY DEF RevertWrite
  <1> HIDE DEF c, all
  <1>7. c \in 1..Len(all) /\ SubSeq(all, 1, c - 1) \in Kept
    BY <1>4, <1>5 DEF Kept
  <1>8. jsonl' \in Seq(Lines)
    BY <1>6, <1>7, RecordsOfRecords
  <1> QED BY <1>1, <1>2, <1>3, <1>4, <1>6, <1>7, <1>8 DEF all

LEMMA RevertWriteCtl ==
  ASSUME LogCtl, RevertWrite
  PROVE LogCtl'
  <1> USE DEF LogCtl
  <1>1. /\ there' = TRUE /\ held' = held /\ LogKeeps /\ "revert" \in Writers
        /\ step' = [step EXCEPT !["revert"] = "idle"] /\ line' = [line EXCEPT !["revert"] = Header]
        /\ read' = [read EXCEPT !["revert"] = <<>>] /\ had' = [had EXCEPT !["revert"] = FALSE]
    BY DEF RevertWrite, At, Forget, Writers
  <1>2. /\ jsonl' \in Seq(Lines) /\ there
        /\ \A x \in Writers : x # "revert" => step[x] = "idle" /\ line[x] = Header
    BY RevertWriteFile
  <1>3. accepted' \subseteq Recs
    BY RevertWriteFile DEF LineTyped
  <1>4. Moves("revert") /\ step'["revert"] = "idle" /\ line'["revert"] = Header
    BY <1>1 DEF Moves, LogTypeOK, LineTyped
  <1>5. LogTypeOK'
    BY <1>1 DEF LogTypeOK, LogKeeps
  <1>6. LineTyped'
    BY <1>1, <1>2, <1>3 DEF LineTyped, LogKeeps
  <1>7. Locked'
    BY <1>1, <1>4, LockKept
  <1>8. Staged'
    <2>1. StageOf("revert")'
      BY <1>4 DEF StageOf
    <2>2. there' = there
      BY <1>1, <1>2 DEF LogTypeOK
    <2> QED BY <2>1, <2>2, <1>1, <1>4, StagedKept
  <1>9. RevertAlone'
    BY <1>4 DEF RevertAlone, Busy
  <1>10. \A x \in Writers : step'[x] = "idle" /\ line'[x] = Header
    BY <1>2, <1>4 DEF Moves
  <1>11. TrailerAlone' /\ Rewrites'
    BY <1>10, HeaderLine DEF TrailerAlone, Rewrites, Writers
  <1> QED BY <1>5, <1>6, <1>7, <1>8, <1>9, <1>11

LEMMA DeleteFileCtl ==
  ASSUME LogCtl, DeleteFile
  PROVE LogCtl'
  <1> USE DEF LogCtl
  <1>1. /\ jsonl' = <<>> /\ there' = FALSE /\ accepted' = {} /\ deleted' = TRUE
        /\ UNCHANGED <<held, step, line, read, had, turnRuns, turnAt, count, race>>
        /\ \A x \in Writers : step[x] = "idle"
    BY Alone DEF DeleteFile, Busy
  <1>2. \A x \in Writers : line[x] = Header
    BY <1>1 DEF Staged, StageOf
  <1>3. LogTypeOK'
    BY <1>1 DEF LogTypeOK
  <1>7. LineTyped'
    BY <1>1 DEF LineTyped
  <1>4. Locked' /\ RevertAlone'
    BY <1>1 DEF Locked, RevertAlone, Busy
  <1>5. Staged'
    BY <1>1, <1>2 DEF Staged, StageOf
  <1>6. TrailerAlone' /\ Rewrites'
    BY <1>1, <1>2, HeaderLine DEF TrailerAlone, Rewrites, Writers
  <1> QED BY <1>3, <1>4, <1>5, <1>6, <1>7

LEMMA CrashCtl ==
  ASSUME LogCtl, Crash
  PROVE LogCtl' /\ \A x \in Writers : step'[x] = "idle" /\ line'[x] = Header
  <1> USE DEF LogCtl
  <1>1. /\ held' = Nobody /\ turnRuns' = FALSE /\ turnAt' = "none"
        /\ step' = [w \in Writers |-> "idle"] /\ line' = [w \in Writers |-> Header]
        /\ read' = [w \in Writers |-> <<>>] /\ had' = [w \in Writers |-> FALSE]
        /\ UNCHANGED <<jsonl, there, count, accepted, deleted, race>>
    BY DEF Crash
  <1>2. \A x \in Writers : step'[x] = "idle" /\ line'[x] = Header
    BY <1>1
  <1>3. LogTypeOK'
    BY <1>1 DEF LogTypeOK
  <1>4. LineTyped'
    BY <1>1 DEF LineTyped
  <1>5. Locked' /\ RevertAlone'
    BY <1>1, <1>2 DEF Locked, RevertAlone, Busy, Nobody, Writers
  <1>6. Staged'
    BY <1>2 DEF Staged, StageOf
  <1>7. TrailerAlone' /\ Rewrites'
    BY <1>2, HeaderLine DEF TrailerAlone, Rewrites, Writers
  <1> QED BY <1>2, <1>3, <1>4, <1>5, <1>6, <1>7

\* Each step keeps the control part.
LEMMA CtlStep ==
  ASSUME LogCtl, [LogNext]_logVars
  PROVE LogCtl'
  <1> USE DEF LogCtl
  <1> DEFINE Ats == {"none", "user", "calls", "called", "tool", "text", "spoke", "error"}
  <1>1. CASE BeginLogTurn
    <2>1. Want("turn", "user") /\ Settled /\ turnRuns' \in BOOLEAN /\ turnAt' \in Ats
      BY <1>1 DEF BeginLogTurn, Settled
    <2> QED BY <2>1, WantCtl DEF Kinds
  <1>2. CASE TurnWrites
    <2>1. PICK kind \in Answers \cup {"error", "usage", "tool"} :
            /\ Want("turn", kind)
            /\ turnAt' = IF kind # "usage" THEN kind
                         ELSE IF turnAt = "calls" THEN "called" ELSE "spoke"
      BY <1>2 DEF TurnWrites
    <2>2. Settled /\ turnRuns' \in BOOLEAN /\ turnAt' \in Ats /\ kind \in Kinds \ {"title", "child"}
      BY <1>2, <2>1 DEF TurnWrites, Settled, LogTypeOK, Answers, Kinds
    <2> QED BY <2>1, <2>2, WantCtl
  <1>3. CASE NewTitle
    <2>1. Want("title", "title") /\ Settled /\ turnRuns' \in BOOLEAN /\ turnAt' \in Ats
      BY <1>3 DEF NewTitle, Settled, LogTypeOK
    <2> QED BY <2>1, WantCtl DEF Kinds
  <1>4. CASE ChildWrites
    <2>1. Want("child", "child") /\ Settled /\ turnRuns' \in BOOLEAN /\ turnAt' \in Ats
      BY <1>4 DEF ChildWrites, Settled, LogTypeOK
    <2> QED BY <2>1, WantCtl DEF Kinds
  <1>5. CASE \E w \in Writers : WriterStep(w)
    BY <1>5, SummaryLoadCtl, LookCtl, WriteLineCtl, TruncateCtl, FoldWriteCtl DEF WriterStep
  <1>6. CASE UNCHANGED logVars
    <2>1. LogTypeOK' /\ LineTyped'
      BY <1>6 DEF logVars, LogTypeOK, LineTyped
    <2>2. Locked' /\ Staged' /\ RevertAlone' /\ TrailerAlone'
      BY <1>6 DEF logVars, Locked, Staged, StageOf, Carries, RevertAlone, Busy, TrailerAlone
    <2>3. Rewrites'
      BY <1>6 DEF logVars, Rewrites
    <2> QED BY <2>1, <2>2, <2>3
  <1> QED BY <1>1, <1>2, <1>3, <1>4, <1>5, <1>6, TurnSettlesCtl, NewHeaderCtl, WriteHeaderCtl,
             RevertBeginsCtl, RevertLoadCtl, RevertWriteCtl, DeleteFileCtl, CrashCtl DEF LogNext

-----------------------------------------------------------------------------
DataInv == TrailersFlying /\ InFlight /\ FileRight

LEMMA OldTyped ==
  ASSUME LogCtl
  PROVE Old \in Seq(Lines)
  <1> USE DEF LogCtl
  <1>1. CASE step["turn"] = "patch"
    <2>1. PICK k \in Answers, n \in Pos, u \in Pos : read["turn"] = Append(jsonl, <<k, n, u>>)
      BY <1>1 DEF Rewrites, FoldCut
    <2> DEFINE z == <<k, n, u>>
    <2>2. z[1] = k /\ z[2] = n /\ z \in Lines /\ Rec(k, n) \in Lines
      BY DEF Lines, Folded, Recs, Rec, Answers, Kinds
    <2> HIDE DEF z
    <2>3. Last(read["turn"]) = z
      BY <2>1, <2>2 DEF Last, LineTyped, z
    <2>4. Old = Append(jsonl, Rec(k, n))
      BY <1>1, <2>2, <2>3 DEF Old
    <2> QED BY <2>2, <2>4 DEF LineTyped
  <1>2. CASE step["turn"] # "patch" /\ step["header"] = "patch"
    BY <1>2 DEF Old, LineTyped, Writers
  <1>3. CASE step["turn"] # "patch" /\ step["header"] # "patch" /\ step["revert"] = "patch"
    BY <1>3, RecordsOfRecords DEF Old, Rewrites, Kept
  <1>4. CASE step["turn"] # "patch" /\ step["header"] # "patch" /\ step["revert"] # "patch"
    BY <1>4 DEF Old, LineTyped
  <1> QED BY <1>1, <1>2, <1>3, <1>4

LEMMA OldSame ==
  ASSUME jsonl' = jsonl,
         \A x \in {"turn", "header", "revert"} :
           (step'[x] = "patch" <=> step[x] = "patch") /\ (step[x] = "patch" => read'[x] = read[x])
  PROVE Old' = Old
  BY DEF Old

\* The file as it was stays as it is, and so do the lines that wait.
LEMMA OldIsFile ==
  ASSUME LogCtl, \A x \in {"turn", "header", "revert"} : step[x] # "patch"
  PROVE Old = jsonl
  BY DEF Old

\* The file as it was stays as it is, and the next number is free.
LEMMA FileKept ==
  ASSUME LogCtl, LogCtl', DataInv, Old' = Old, there' = there, accepted' = accepted,
         count' \in Nat, count <= count'
  PROVE FileRight' /\ Free(count + 1, Records(Old))
  <1>1. Old \in Seq(Lines) /\ count \in Nat
    BY OldTyped DEF LogCtl, LogTypeOK
  <1>2. ~there' => jsonl' = <<>>
    BY DEF LogCtl, LogTypeOK
  <1>3. there => Whole(Old, accepted, count) /\ Whole(Old, accepted, count')
    BY <1>1, WholeLater DEF DataInv, FileRight
  <1>4. there => Free(count + 1, Records(Old))
    BY <1>1, <1>3, WholeLater
  <1>5. ~there => Records(Old) = <<>>
    <2>1. ~there => \A x \in {"turn", "header", "revert"} : step[x] # "patch"
      BY DEF LogCtl, Staged, StageOf, Writers
    <2>2. ~there => Old = jsonl /\ jsonl = <<>>
      BY <2>1, OldIsFile DEF LogCtl, LogTypeOK
    <2> QED BY <2>2, RecordsGrow
  <1>6. Free(count + 1, <<>>)
    BY DEF Free
  <1> QED BY <1>2, <1>3, <1>4, <1>5, <1>6 DEF DataInv, FileRight

\* A step that neither moves the file nor puts a line on its way.
LEMMA NoNewLine ==
  ASSUME LogCtl, LogCtl', DataInv, Old' = Old, there' = there, accepted' = accepted, count' = count,
         \A x \in Writers : line'[x] = line[x] \/ line'[x] = Header,
         \A x \in Writers : line'[x] \in Trailers /\ step'[x] = "write" => step[x] = "write"
  PROVE DataInv'
  <1>1. count \in Nat /\ count <= count'
    BY DEF LogCtl, LogTypeOK
  <1>2. FileRight'
    BY <1>1, FileKept
  <1>3. Header \notin Recs /\ Header \notin Trailers
    BY HeaderLine
  <1>4. TrailersFlying'
    BY <1>3 DEF DataInv, TrailersFlying
  <1>5. InFlight'
    BY <1>3 DEF DataInv, InFlight
  <1> QED BY <1>2, <1>4, <1>5 DEF DataInv

LEMMA WantData ==
  ASSUME LogCtl, LogCtl', DataInv, NEW w \in {"turn", "title", "child"}, NEW kind \in Kinds,
         Want(w, kind), Settled
  PROVE DataInv'
  <1> DEFINE r == Rec(kind, count + 1)
  <1>1. /\ step[w] = "idle" /\ step["settle"] = "idle" /\ step["title"] = "idle"
        /\ step' = [step EXCEPT ![w] = "look"] /\ line' = [line EXCEPT ![w] = r]
        /\ count' = count + 1 /\ count \in Nat /\ w \in Writers /\ w # "revert"
    BY Alone DEF Want, MayWrite, Busy, At, LogCtl, LogTypeOK, Writers
  <1>2. r \in Recs /\ r[2] = count + 1 /\ r \notin Trailers
    BY <1>1, RecTyped
  <1> HIDE DEF r
  <1>3. /\ line'[w] = r /\ step'[w] = "look"
        /\ \A x \in Writers : x # w => line'[x] = line[x] /\ step'[x] = step[x]
    BY <1>1 DEF LogCtl, LogTypeOK, LineTyped
  <1>4. Old' = Old
    <2>1. \A x \in {"turn", "header", "revert"} :
            (step'[x] = "patch" <=> step[x] = "patch") /\ read'[x] = read[x]
      BY <1>1, <1>3 DEF Settled, Writers
    <2> QED BY <2>1, OldSame DEF Settled
  <1>5. FileRight' /\ Free(count + 1, Records(Old))
    BY <1>1, <1>4, FileKept DEF Settled
  <1>6. TrailersFlying'
    BY <1>2, <1>3, <1>4 DEF DataInv, TrailersFlying
  <1>7. ASSUME NEW x \in Writers \ {"revert"}, line[x] \in Recs
        PROVE line[x][2] \in Nat /\ line[x][2] <= count
    BY <1>7 DEF DataInv, InFlight, Recs, Pos
  <1>8. ASSUME NEW x \in Writers \ {"revert"}, line'[x] \in Recs
        PROVE /\ line'[x][2] <= count' /\ Free(line'[x][2], Records(Old'))
              /\ \A v \in Writers \ {"revert", x} : line'[v] \in Recs => line'[v][2] # line'[x][2]
    <2>1. CASE x = w
      <3>1. ASSUME NEW v \in Writers \ {"revert", x}, line'[v] \in Recs PROVE line'[v][2] # line'[x][2]
        <4>1. line'[v] = line[v]
          BY <2>1, <1>3
        <4>2. line[v][2] \in Nat /\ line[v][2] <= count
          BY <4>1, <3>1, <1>7
        <4> QED BY <4>1, <4>2, <2>1, <1>1, <1>2, <1>3
      <3> QED BY <3>1, <2>1, <1>1, <1>2, <1>3, <1>4, <1>5
    <2>2. CASE x # w
      <3>1. line'[x] = line[x]
        BY <2>2, <1>3
      <3>2. line[x][2] \in Nat /\ line[x][2] <= count
        BY <3>1, <1>7, <1>8
      <3>3. ASSUME NEW v \in Writers \ {"revert", x}, line'[v] \in Recs PROVE line'[v][2] # line'[x][2]
        <4>1. CASE v = w
          BY <4>1, <3>1, <3>2, <1>1, <1>2, <1>3
        <4>2. CASE v # w
          BY <4>2, <3>1, <3>3, <1>3, <1>8 DEF DataInv, InFlight
        <4> QED BY <4>1, <4>2
      <3>4. line'[x][2] <= count'
        BY <3>1, <3>2, <1>1
      <3>5. Free(line'[x][2], Records(Old'))
        BY <3>1, <1>4, <1>8 DEF DataInv, InFlight
      <3> QED BY <3>3, <3>4, <3>5
    <2> QED BY <2>1, <2>2
  <1>9. InFlight'
    BY <1>8 DEF InFlight
  <1> QED BY <1>5, <1>6, <1>9 DEF DataInv

LEMMA SummaryLoadData ==
  ASSUME LogCtl, LogCtl', DataInv, NEW w \in Writers, SummaryLoad(w)
  PROVE DataInv'
  <1>1. /\ step[w] = "load" /\ w \in {"settle", "title"}
        /\ line["turn"][1] \in {"header", "state"}
        /\ UNCHANGED <<jsonl, there, held, read, had, accepted>> /\ LogKeeps
    BY Alone DEF SummaryLoad, LogCtl, Staged, StageOf
  <1>2. \/ /\ jsonl # <<>> /\ line' = [line EXCEPT ![w] = Trailer(Flags(jsonl), 0)]
           /\ step' = [step EXCEPT ![w] = "look"]
        \/ step' = [step EXCEPT ![w] = "idle"] /\ line' = line
    BY DEF SummaryLoad, At
  <1>3. /\ \A x \in Writers : x # w => line'[x] = line[x] /\ step'[x] = step[x]
        /\ step'[w] # "write" /\ count' = count /\ count \in Nat /\ count <= count'
    BY <1>1, <1>2 DEF LogCtl, LogTypeOK, LineTyped, LogKeeps
  <1>4. Old' = Old
    <2>1. \A x \in {"turn", "header", "revert"} :
            (step'[x] = "patch" <=> step[x] = "patch") /\ read'[x] = read[x]
      BY <1>1, <1>3 DEF Writers
    <2> QED BY <2>1, <1>1, OldSame
  <1>5. CASE line' = line
    BY <1>1, <1>3, <1>4, <1>5, NoNewLine
  <1>6. CASE jsonl # <<>> /\ line' = [line EXCEPT ![w] = Trailer(Flags(jsonl), 0)]
    <2>1. Old = jsonl
      <3>1. step["header"] # "patch" /\ step["revert"] # "patch"
        BY <1>1, <1>6 DEF LogCtl, Rewrites, Writers
      <3>2. step["turn"] # "patch"
        <4>1. SUFFICES ASSUME step["turn"] = "patch" PROVE FALSE
          OBVIOUS
        <4>2. PICK u \in Pos : line["turn"] = Rec("usage", u)
          BY <4>1 DEF LogCtl, Rewrites, FoldCut
        <4>3. line["turn"][1] = "usage"
          BY <4>2 DEF Rec
        <4> QED BY <4>3, <1>1
      <3> QED BY <3>1, <3>2, OldIsFile
    <2>2. line'[w] = Trailer(Flags(jsonl), 0) /\ line'[w][2] = Flags(jsonl) /\ line'[w] \notin Recs
      BY <1>6 DEF LogCtl, LineTyped, Trailer, Recs, Kinds
    <2>3. FileRight'
      BY <1>1, <1>3, <1>4, FileKept
    <2>4. TrailersFlying'
      BY <2>1, <2>2, <1>3, <1>4 DEF DataInv, TrailersFlying
    <2>5. InFlight'
      BY <2>2, <1>3, <1>4 DEF DataInv, InFlight
    <2> QED BY <2>3, <2>4, <2>5 DEF DataInv
  <1> QED BY <1>2, <1>5, <1>6

LEMMA LookData ==
  ASSUME LogCtl, LogCtl', DataInv, NEW w \in Writers, Look(w)
  PROVE DataInv'
  <1> DEFINE l == IF line[w][1] = "state"
                  THEN Trailer(line[w][2], (IF there THEN Len(jsonl) ELSE 1) + 1) ELSE line[w]
             to == IF Foldable(w) \/ (w = "header" /\ there) THEN "cut" ELSE "write"
  <1>1. /\ step[w] = "look" /\ held = Nobody /\ line' = [line EXCEPT ![w] = l]
        /\ step' = [step EXCEPT ![w] = to]
        /\ UNCHANGED <<jsonl, there, accepted>> /\ LogKeeps
    BY DEF Look, At, LogCtl, LineTyped
  <1>2. w # "revert" /\ step["revert"] # "patch"
    BY <1>1 DEF LogCtl, Staged, StageOf, RevertAlone, Busy
  <1>3. \A x \in {"turn", "header", "revert"} : step[x] # "patch"
    BY <1>1, <1>2 DEF LogCtl, Locked, Nobody, Writers
  <1>4. to \in {"cut", "write"}
    OBVIOUS
  <1> HIDE DEF to
  <1>5. /\ \A x \in Writers : x # w => line'[x] = line[x] /\ step'[x] = step[x]
        /\ line'[w] = l /\ step'[w] = to /\ count' = count /\ count \in Nat /\ count <= count'
    BY <1>1 DEF LogCtl, LogTypeOK, LineTyped, LogKeeps
  <1>6. \A x \in {"turn", "header", "revert"} : step'[x] # "patch"
    BY <1>3, <1>4, <1>5 DEF Writers
  <1>7. Old = jsonl /\ Old' = Old
    BY <1>1, <1>3, <1>6, OldIsFile, OldSame
  <1>8. FileRight'
    BY <1>1, <1>5, <1>7, FileKept
  <1>9. line[w] \in Trailers => l = Trailer(line[w][2], Len(jsonl) + 1)
    BY DEF LogCtl, TrailerAlone, Trailers
  <1>10. line[w] \notin Trailers => l = line[w]
    <2>1. line[w] \in {Header} \cup Recs \cup Trailers
      BY DEF LogCtl, LineTyped
    <2> QED BY <2>1, HeaderLine DEF Recs, Kinds
  <1>11. l \in Recs => l = line[w]
    BY <1>9, <1>10 DEF Trailer, Recs, Kinds
  <1> HIDE DEF l
  <1>12. TrailersFlying'
    <2>1. ASSUME NEW x \in Writers, line'[x] \in Trailers
          PROVE line'[x][2] = Flags(Old') /\ (step'[x] = "write" => line'[x][3] = Len(Old') + 1)
      <3>1. CASE x = w
        <4>1. line[w] \in Trailers
          BY <2>1, <3>1, <1>5, <1>10
        <4>2. line[w][2] = Flags(Old)
          BY <4>1 DEF DataInv, TrailersFlying
        <4>3. l[2] = line[w][2] /\ l[3] = Len(jsonl) + 1
          BY <4>1, <1>9 DEF Trailer
        <4> QED BY <4>2, <4>3, <3>1, <1>5, <1>7
      <3>2. CASE x # w
        BY <3>2, <2>1, <1>5, <1>7 DEF DataInv, TrailersFlying
      <3> QED BY <3>1, <3>2
    <2> QED BY <2>1 DEF TrailersFlying
  <1>13. InFlight'
    <2>1. \A x \in Writers : line'[x] \in Recs => line'[x] = line[x]
      BY <1>5, <1>11
    <2> QED BY <2>1, <1>5, <1>7 DEF DataInv, InFlight
  <1> QED BY <1>8, <1>12, <1>13 DEF DataInv

LEMMA TruncateData ==
  ASSUME LogCtl, LogCtl', DataInv, NEW w \in Writers, Truncate(w)
  PROVE DataInv'
  <1>1. /\ w \in {"turn", "header", "revert"} /\ step[w] = "cut" /\ there
        /\ step' = [step EXCEPT ![w] = "patch"]
        /\ UNCHANGED <<there, held, line, read, had, accepted>> /\ LogKeeps
        /\ jsonl' \in Seq(Lines)
        /\ w # "turn" => jsonl' = <<>>
    BY TruncateFile
  <1>2. /\ \A x \in Writers : x # w => step'[x] = step[x]
        /\ step'[w] = "patch" /\ count' = count
    BY <1>1 DEF LogCtl, LogTypeOK, LogKeeps
  <1>3. \A x \in {"turn", "header", "revert"} : step[x] # "patch" /\ (x # w => step'[x] # "patch")
    <2>1. CASE w = "revert"
      <3>1. step["turn"] = "idle" /\ step["header"] = "idle"
        BY <1>1, <2>1 DEF LogCtl, RevertAlone, Busy, Writers
      <3> QED BY <3>1, <2>1, <1>1, <1>2 DEF Writers
    <2>2. CASE w # "revert"
      BY <2>2, <1>1, <1>2, Exclusive DEF Writers
    <2> QED BY <2>1, <2>2
  <1>4. Old = jsonl
    BY <1>3, OldIsFile
  <1>5. w \in {"turn", "header"} => Old' = Old
    <2>1. CASE w = "turn"
      <3>1. PICK k \in Answers, n \in Pos, u \in Pos :
              jsonl = Append(jsonl', Rec(k, n)) /\ read[w] = Append(jsonl', <<k, n, u>>)
        BY <2>1, TruncateFile
      <3> DEFINE z == <<k, n, u>>
      <3>2. z[1] = k /\ z[2] = n /\ z \in Lines
        BY DEF Lines, Folded
      <3> HIDE DEF z
      <3>3. Last(read[w]) = z
        BY <3>1, <3>2, <1>1 DEF Last, z
      <3>4. Old' = Append(jsonl', Rec(k, n))
        BY <3>2, <3>3, <2>1, <1>1, <1>2 DEF Old
      <3> QED BY <3>1, <3>4, <1>4
    <2>2. CASE w = "header"
      <3>1. read["header"] = jsonl
        BY <2>2, <1>1 DEF LogCtl, Rewrites
      <3>2. Old' = read'["header"]
        BY <2>2, <1>2, <1>3 DEF Old
      <3> QED BY <3>1, <3>2, <1>1, <1>4
    <2> QED BY <2>1, <2>2
  <1>6. CASE w \in {"turn", "header"}
    BY <1>1, <1>2, <1>5, <1>6, NoNewLine
  <1>7. CASE w = "revert"
    <2>1. read["revert"] = Records(jsonl)
      BY <1>1, <1>7 DEF LogCtl, Rewrites
    <2>2. Old' = <<Header>> \o Records(jsonl)
      BY <2>1, <1>1, <1>2, <1>3, <1>7 DEF Old
    <2>3. Whole(Old', accepted', count')
      <3>1. Whole(jsonl, accepted, count) /\ jsonl \in Seq(Lines) /\ count \in Nat
        BY <1>1, <1>4 DEF DataInv, FileRight, LogCtl, LogTypeOK, LineTyped
      <3>2. Whole(<<Header>> \o Records(jsonl), accepted, count)
        BY <3>1, WholeUnfolded
      <3> QED BY <3>2, <2>2, <1>1, <1>2
    <2>4. \A x \in Writers : x # "revert" => line'[x] = Header
      BY <1>1, <1>7 DEF LogCtl, RevertAlone, Busy, Staged, StageOf
    <2>5. line'["revert"] \notin Trailers
      BY <1>1, <1>7 DEF LogCtl, Staged, StageOf, Carries, Recs, Trailers, Kinds
    <2>6. TrailersFlying' /\ InFlight'
      BY <2>4, <2>5, HeaderLine DEF TrailersFlying, InFlight
    <2>7. FileRight'
      BY <2>3, <1>1 DEF FileRight
    <2> QED BY <2>6, <2>7 DEF DataInv
  <1> QED BY <1>1, <1>6, <1>7

LEMMA WriteLineData ==
  ASSUME LogCtl, LogCtl', DataInv, NEW w \in Writers, WriteLine(w)
  PROVE DataInv'
  <1> DEFINE l == line[w]
             f == jsonl'
  <1>1. /\ w \in Writers \ {"revert", "header"} /\ step[w] = "write" /\ there' = TRUE
        /\ l \in Recs \cup Trailers /\ l \in Lines
        /\ f = IF there THEN Append(jsonl, l) ELSE <<Header>> \o <<l>>
        /\ accepted' = IF l \in Trailers THEN accepted ELSE accepted \cup {l}
        /\ f \in Seq(Lines)
    BY WriteLineFile
  <1>2. /\ step["revert"] = "idle" /\ \A x \in Writers : x # w => step[x] \in {"idle", "load", "look"}
    BY <1>1, Exclusive
  <1>3. /\ \A x \in Writers : x # w => line'[x] = line[x] /\ step'[x] = step[x]
        /\ line'[w] = Header /\ step'[w] \in {"load", "idle"} /\ count' = count /\ count \in Nat
    BY DEF WriteLine, Release, Forget, At, LogKeeps, LogCtl, LogTypeOK, LineTyped
  <1>4. /\ \A x \in {"turn", "header", "revert"} : step[x] # "patch"
        /\ \A x \in {"turn", "header", "revert"} : step'[x] # "patch"
    BY <1>1, <1>2, <1>3 DEF Writers
  <1>5. Old = jsonl /\ Old' = f
    BY <1>4, OldIsFile DEF Old
  <1>6. jsonl \in Seq(Lines) /\ (~there => jsonl = <<>> /\ accepted = {})
        /\ (there => Whole(jsonl, accepted, count))
    BY <1>5 DEF LogCtl, LineTyped, DataInv, FileRight
  <1>7. Header \notin Recs /\ Header \notin Trailers /\ \A t \in Trailers : t \notin Recs
    BY HeaderLine DEF Recs, Trailers, Kinds
  <1>8. CASE l \in Recs
    <2>1. l[2] <= count /\ Free(l[2], Records(jsonl))
      BY <1>1, <1>5, <1>8 DEF DataInv, InFlight
    <2>2. Whole(f, accepted', count) /\ \A m : m # l[2] /\ Free(m, Records(jsonl)) => Free(m, Records(f))
      <3>1. CASE there
        BY <3>1, <2>1, <1>1, <1>3, <1>6, <1>7, <1>8, WholeWithRecord
      <3>2. CASE ~there
        BY <3>2, <2>1, <1>1, <1>3, <1>6, <1>7, <1>8, WholeWithFirst
      <3> QED BY <3>1, <3>2
    <2>3. FileRight'
      BY <2>2, <1>1, <1>3, <1>5 DEF FileRight
    <2>4. TrailersFlying'
      <3>1. SUFFICES ASSUME NEW x \in Writers, line'[x] \in Trailers
                     PROVE line'[x][2] = Flags(Old') /\ step'[x] # "write"
        BY DEF TrailersFlying
      <3>2. x # w /\ line[x] \in Trailers /\ step'[x] # "write"
        BY <3>1, <1>2, <1>3, <1>7
      <3>3. line["turn"] = Header /\ line["title"] \notin Recs /\ there
        BY <3>2 DEF LogCtl, TrailerAlone
      <3>4. w = "child"
        BY <3>3, <1>1, <1>7, <1>8, CarriedIs DEF LogCtl, Writers
      <3>5. l[1] = "child"
        BY <3>4, <1>1 DEF LogCtl, Staged, StageOf, Carries
      <3>6. Flags(f) = Flags(jsonl)
        BY <3>3, <3>5, <1>1, <1>6, FlagsAppend
      <3> QED BY <3>2, <3>6, <1>3, <1>5 DEF DataInv, TrailersFlying
    <2>5. InFlight'
      <3>1. \A x \in Writers \ {"revert"} : line'[x] \in Recs =>
              x # w /\ line[x] \in Recs /\ line'[x] = line[x] /\ line[x][2] # l[2]
        BY <1>1, <1>3, <1>7, <1>8 DEF DataInv, InFlight
      <3>2. \A x \in Writers \ {"revert"} : line'[x] \in Recs => Free(line'[x][2], Records(Old'))
        BY <3>1, <2>2, <1>5 DEF DataInv, InFlight
      <3> QED BY <3>1, <3>2, <1>3 DEF DataInv, InFlight
    <2> QED BY <2>3, <2>4, <2>5 DEF DataInv
  <1>9. CASE l \in Trailers
    <2>1. there /\ l[2] = Flags(jsonl) /\ l[3] = Len(jsonl) + 1
      BY <1>1, <1>5, <1>9 DEF DataInv, TrailersFlying, LogCtl, TrailerAlone
    <2>2. Whole(f, accepted, count) /\ \A m : Free(m, Records(jsonl)) => Free(m, Records(f))
      BY <2>1, <1>1, <1>3, <1>6, <1>9, WholeWithTrailer
    <2>3. FileRight'
      BY <2>2, <1>1, <1>3, <1>5, <1>9 DEF FileRight
    <2>4. TrailersFlying'
      <3>1. SUFFICES ASSUME NEW x \in Writers, line'[x] \in Trailers
                     PROVE line'[x][2] = Flags(Old') /\ step'[x] # "write"
        BY DEF TrailersFlying
      <3>2. x # w /\ line[x] \in Trailers /\ step'[x] # "write"
        BY <3>1, <1>2, <1>3, <1>7
      <3>3. l[1] = "state"
        BY <1>9 DEF Trailers
      <3>4. Flags(f) = Flags(jsonl)
        BY <2>1, <3>3, <1>1, <1>6, FlagsAppend
      <3> QED BY <3>2, <3>4, <1>3, <1>5 DEF DataInv, TrailersFlying
    <2>5. InFlight'
      <3>1. \A x \in Writers \ {"revert"} : line'[x] \in Recs => line[x] \in Recs /\ line'[x] = line[x]
        BY <1>3, <1>7
      <3>2. \A x \in Writers \ {"revert"} : line'[x] \in Recs => Free(line'[x][2], Records(Old'))
        BY <3>1, <2>2, <1>5 DEF DataInv, InFlight
      <3> QED BY <3>1, <3>2, <1>3 DEF DataInv, InFlight
    <2> QED BY <2>3, <2>4, <2>5 DEF DataInv
  <1> QED BY <1>1, <1>8, <1>9

LEMMA FoldWriteData ==
  ASSUME LogCtl, LogCtl', DataInv, NEW w \in Writers, FoldWrite(w)
  PROVE DataInv'
  <1>1. w = "turn" /\ step[w] = "patch" /\ there /\ there' = there
    BY FoldWriteFile
  <1>2. PICK k \in Answers, n \in Pos, u \in Pos :
             /\ line[w] = Rec("usage", u)
             /\ Last(read[w])[1] = k /\ Last(read[w])[2] = n
             /\ jsonl' = Append(jsonl, <<k, n, u>>) /\ accepted' = accepted \cup {Rec("usage", u)}
    BY FoldWriteFile
  <1>3. \A x \in Writers : x # w => step[x] \in {"idle", "load", "look"}
    BY <1>1, Exclusive
  <1>4. /\ \A x \in Writers : x # w => line'[x] = line[x] /\ step'[x] = step[x]
        /\ line'[w] = Header /\ step'[w] \in {"load", "idle"} /\ count' = count /\ count \in Nat
    BY DEF FoldWrite, Release, Forget, At, LogKeeps, LogCtl, LogTypeOK, LineTyped
  <1>5. Old = Append(jsonl, Rec(k, n)) /\ jsonl \in Seq(Lines)
    BY <1>1, <1>2 DEF Old, LogCtl, LineTyped
  <1>6. Old' = jsonl'
    <2>1. \A x \in {"turn", "header", "revert"} : step'[x] # "patch"
      BY <1>1, <1>3, <1>4 DEF Writers
    <2> QED BY <2>1 DEF Old
  <1>7. Rec("usage", u) \in Recs /\ Rec("usage", u)[2] = u
    BY DEF Rec, Recs, Kinds
  <1>8. u <= count /\ Free(u, Records(Old))
    BY <1>1, <1>2, <1>7 DEF DataInv, InFlight, Writers
  <1>9. /\ Whole(jsonl', accepted', count)
        /\ \A m : m # u /\ Free(m, Records(Old)) => Free(m, Records(jsonl'))
    <2>1. Whole(Append(jsonl, Rec(k, n)), accepted, count)
      BY <1>1, <1>5 DEF DataInv, FileRight
    <2> QED BY <2>1, <1>2, <1>4, <1>5, <1>8, WholeWithUsage
  <1>10. FileRight'
    BY <1>1, <1>4, <1>6, <1>9 DEF FileRight
  <1>11. Header \notin Recs /\ Header \notin Trailers
    BY HeaderLine
  <1>12. TrailersFlying'
    <2>1. \A x \in Writers : line[x] \notin Trailers
      BY <1>1, <1>2, <1>7, <1>11 DEF LogCtl, TrailerAlone
    <2> QED BY <2>1, <1>4, <1>11 DEF TrailersFlying
  <1>13. InFlight'
    <2>1. \A x \in Writers \ {"revert"} : line'[x] \in Recs =>
            x # w /\ line[x] \in Recs /\ line'[x] = line[x] /\ line[x][2] # u
      BY <1>1, <1>2, <1>4, <1>7, <1>11 DEF DataInv, InFlight, Writers
    <2>2. \A x \in Writers \ {"revert"} : line'[x] \in Recs => Free(line'[x][2], Records(Old'))
      BY <2>1, <1>6, <1>9 DEF DataInv, InFlight
    <2> QED BY <2>1, <2>2, <1>4 DEF DataInv, InFlight
  <1> QED BY <1>10, <1>12, <1>13 DEF DataInv

LEMMA WriteHeaderData ==
  ASSUME LogCtl, LogCtl', DataInv, WriteHeader
  PROVE DataInv'
  <1>1. "header" \in Writers \ {"revert"} /\ step["header"] \in {"patch", "write"} /\ accepted' = accepted
    BY DEF WriteHeader, Writers
  <1>2. /\ \A x \in Writers : x # "header" => step[x] \in {"idle", "load", "look"}
    BY <1>1, Exclusive
  <1>3. /\ \A x \in Writers : x # "header" => line'[x] = line[x] /\ step'[x] = step[x]
        /\ line'["header"] = Header /\ step'["header"] = "idle" /\ count' = count
    BY <1>1 DEF WriteHeader, Release, Forget, At, LogKeeps, LogCtl, LogTypeOK, LineTyped
  <1>4. step["turn"] # "patch" /\ step["revert"] # "patch"
    BY <1>2 DEF Writers
  <1>5. Old' = jsonl'
    <2>1. \A x \in {"turn", "header", "revert"} : step'[x] # "patch"
      BY <1>2, <1>3 DEF Writers
    <2> QED BY <2>1 DEF Old
  <1>6. Old' = Old
    BY <1>1, <1>4, <1>5 DEF WriteHeader, Old
  <1>7. there' = there
    <2>1. step["header"] = "patch" => there
      BY <1>1 DEF LogCtl, Staged, StageOf
    <2> QED BY <2>1 DEF WriteHeader, LogCtl, LogTypeOK
  <1>8. \A x \in Writers : line'[x] \in Trailers /\ step'[x] = "write" => step[x] = "write"
    BY <1>3
  <1>9. \A x \in Writers : line'[x] = line[x] \/ line'[x] = Header
    BY <1>3
  <1> QED BY <1>1, <1>3, <1>6, <1>7, <1>8, <1>9, NoNewLine

LEMMA RevertWriteData ==
  ASSUME LogCtl, LogCtl', DataInv, RevertWrite
  PROVE DataInv'
  <1>1. /\ step["revert"] = "patch" /\ there /\ there' = TRUE
        /\ \A x \in Writers : x # "revert" => step[x] = "idle" /\ line[x] = Header
        /\ read["revert"] \in Kept
    BY RevertWriteFile
  <1>2. PICK c \in 1..Len(read["revert"]) :
             /\ jsonl' = <<Header>> \o SubSeq(read["revert"], 1, c - 1)
             /\ accepted' = accepted \ {read["revert"][i] : i \in c..Len(read["revert"])}
    BY RevertWriteFile
  <1>3. /\ \A x \in Writers : line'[x] = Header /\ step'[x] = "idle"
        /\ count' = count /\ count \in Nat
    BY <1>1 DEF RevertWrite, At, Forget, LogKeeps, LogCtl, LogTypeOK, LineTyped
  <1>4. Old = <<Header>> \o read["revert"] /\ Old' = jsonl'
    BY <1>1, <1>3 DEF Old, Writers
  <1>5. Whole(jsonl', accepted', count')
    <2>1. Whole(<<Header>> \o read["revert"], accepted, count)
      BY <1>1, <1>4 DEF DataInv, FileRight
    <2> QED BY <2>1, <1>1, <1>2, <1>3, WholeCut
  <1>6. FileRight'
    BY <1>1, <1>4, <1>5 DEF FileRight
  <1>7. TrailersFlying' /\ InFlight'
    BY <1>3, HeaderLine DEF TrailersFlying, InFlight
  <1> QED BY <1>6, <1>7 DEF DataInv

\* Each step keeps what the file and the lines on their way say.
LEMMA DataStep ==
  ASSUME LogCtl, LogCtl', DataInv, [LogNext]_logVars
  PROVE DataInv'
  <1>1. CASE BeginLogTurn
    BY <1>1, WantData DEF BeginLogTurn, Settled, Kinds
  <1>2. CASE TurnWrites
    <2>1. PICK kind \in Answers \cup {"error", "usage", "tool"} : Want("turn", kind)
      BY <1>2 DEF TurnWrites
    <2>2. Settled /\ kind \in Kinds
      BY <1>2 DEF TurnWrites, Settled, Answers, Kinds
    <2> QED BY <2>1, <2>2, WantData
  <1>3. CASE NewTitle
    BY <1>3, WantData DEF NewTitle, Settled, Kinds
  <1>4. CASE ChildWrites
    BY <1>4, WantData DEF ChildWrites, Settled, Kinds
  <1>5. CASE \E w \in Writers : WriterStep(w)
    BY <1>5, SummaryLoadData, LookData, WriteLineData, TruncateData, FoldWriteData DEF WriterStep
  <1>6. CASE UNCHANGED logVars
    <2>1. Old' = Old
      BY <1>6 DEF logVars, Old
    <2> QED BY <2>1, <1>6 DEF logVars, DataInv, TrailersFlying, InFlight, FileRight
  <1>7. CASE TurnSettles \/ NewHeader \/ RevertBegins
    <2>1. /\ jsonl' = jsonl /\ there' = there /\ accepted' = accepted /\ count' = count
          /\ line' = line /\ read' = read
          /\ \E w \in {"settle", "header", "revert"}, to \in {"load", "look"} :
               step[w] = "idle" /\ step' = [step EXCEPT ![w] = to]
      BY <1>7 DEF TurnSettles, NewHeader, RevertBegins, LogKeeps, Busy, At
    <2>2. \A x \in Writers : step'[x] = step[x] \/ (step[x] = "idle" /\ step'[x] \in {"load", "look"})
      BY <2>1 DEF LogCtl, LogTypeOK
    <2>3. Old' = Old
      BY <2>1, <2>2, OldSame DEF Writers
    <2> QED BY <2>1, <2>2, <2>3, NoNewLine
  <1>8. CASE RevertLoad
    <2>1. /\ jsonl' = jsonl /\ there' = there /\ accepted' = accepted /\ count' = count
          /\ step["revert"] = "load"
      BY <1>8 DEF RevertLoad, LogKeeps
    <2>2. /\ \A x \in Writers : x # "revert" =>
               line[x] = Header /\ step'[x] = step[x] /\ line'[x] = line[x] /\ step[x] = "idle"
      BY <2>1, <1>8 DEF RevertLoad, At, LogCtl, LogTypeOK, LineTyped, RevertAlone, Busy, Staged, StageOf
    <2>3. step'["revert"] \in {"idle", "cut"} /\ line'["revert"] \notin Trailers
      <3>1. step'["revert"] \in {"idle", "cut"}
        BY <1>8 DEF RevertLoad, At, LogCtl, LogTypeOK, Writers
      <3>2. StageOf("revert")'
        BY DEF LogCtl, Staged, Writers
      <3> QED BY <3>1, <3>2, HeaderLine DEF StageOf, Carries, Recs, Trailers, Kinds
    <2>4. Old' = Old
      <3>1. Old' = jsonl' /\ Old = jsonl
        BY <2>1, <2>2, <2>3 DEF Old, Writers
      <3> QED BY <2>1, <3>1
    <2>5. FileRight'
      BY <2>1, <2>4, FileKept DEF LogCtl, LogTypeOK
    <2>6. TrailersFlying' /\ InFlight'
      BY <2>2, <2>3, HeaderLine DEF TrailersFlying, InFlight
    <2> QED BY <2>5, <2>6 DEF DataInv
  <1>9. CASE DeleteFile
    <2>1. jsonl' = <<>> /\ there' = FALSE /\ accepted' = {} /\ line' = line /\ \A x \in Writers : step[x] = "idle"
      BY <1>9, Alone DEF DeleteFile, Busy
    <2>2. \A x \in Writers : line'[x] = Header
      BY <2>1 DEF LogCtl, Staged, StageOf
    <2> QED BY <2>1, <2>2, HeaderLine DEF DataInv, TrailersFlying, InFlight, FileRight
  <1>10. CASE Crash
    <2>1. \A x \in Writers : step'[x] = "idle" /\ line'[x] = Header
      BY <1>10, CrashCtl
    <2>2. /\ \A x \in {"turn", "header", "revert"} : step[x] # "patch" /\ step'[x] # "patch"
          /\ jsonl' = jsonl /\ there' = there /\ accepted' = accepted /\ count' = count
      BY <2>1, <1>10, Alone DEF Crash, Writers
    <2>3. Old' = Old
      BY <2>2, OldSame
    <2>4. \A x \in Writers : line'[x] = line[x] \/ line'[x] = Header
      BY <2>1
    <2> QED BY <2>1, <2>2, <2>3, <2>4, NoNewLine
  <1> QED BY <1>1, <1>2, <1>3, <1>4, <1>5, <1>6, <1>7, <1>8, <1>9, <1>10,
             WriteHeaderData, RevertWriteData DEF LogNext

\* What the invariant says of the file.
LEMMA InvShows ==
  ASSUME LogCtl, DataInv
  PROVE FileWhole
  <1>1. jsonl \in Seq(Lines) /\ LogTypeOK /\ there \in BOOLEAN
    BY DEF LogCtl, LineTyped, LogTypeOK
  <1>2. NumbersOnce(<<>>) /\ TrailersRight(<<>>) /\ Records(<<>>) = <<>>
    BY RecordsGrow DEF NumbersOnce, TrailersRight
  <1>3. NumbersOnce(Records(jsonl)) /\ TrailersRight(jsonl)
    <2>1. CASE jsonl = <<>>
      BY <2>1, <1>2
    <2>2. CASE jsonl # <<>>
      <3>1. there /\ step["header"] # "patch" /\ step["revert"] # "patch"
        BY <2>2 DEF LogCtl, LogTypeOK, Rewrites
      <3>2. CASE step["turn"] # "patch"
        BY <3>1, <3>2 DEF Old, DataInv, FileRight, Whole
      <3>3. CASE step["turn"] = "patch"
        <4>1. PICK k \in Answers, n \in Pos, u \in Pos : read["turn"] = Append(jsonl, <<k, n, u>>)
          BY <3>3 DEF LogCtl, Rewrites, FoldCut
        <4> DEFINE z == <<k, n, u>>
                   x == Rec(k, n)
        <4>2. z[1] = k /\ z[2] = n /\ z \in Lines /\ x \in Lines /\ x \in Recs
          BY DEF Lines, Folded, Recs, Rec, Answers, Kinds
        <4> HIDE DEF z
        <4>3. Last(read["turn"]) = z
          BY <4>1, <4>2, <1>1 DEF Last, z
        <4>4. Old = Append(jsonl, x)
          BY <4>2, <4>3, <3>3 DEF Old
        <4> HIDE DEF x
        <4>5. Whole(Append(jsonl, x), accepted, count)
          BY <4>4, <3>1 DEF DataInv, FileRight
        <4>6. Records(Append(jsonl, x)) = Append(Records(jsonl), x) /\ Records(jsonl) \in Kept
          BY <4>2, <1>1, RecordsAppend
        <4>7. \A i \in DOMAIN Records(jsonl) :
                i \in DOMAIN Append(Records(jsonl), x) /\ Append(Records(jsonl), x)[i] = Records(jsonl)[i]
          BY <4>6 DEF Kept
        <4>8. NumbersOnce(Records(jsonl))
          BY <4>5, <4>6, <4>7 DEF Whole, NumbersOnce
        <4>9. TrailersRight(jsonl)
          BY <4>2, <4>5, <1>1, TrailersAppend DEF Whole
        <4> QED BY <4>8, <4>9
      <3> QED BY <3>2, <3>3
    <2> QED BY <2>1, <2>2
  <1>4. Listed(jsonl) = Flags(jsonl) /\ UsageOnce
    BY <1>1, <1>3, WholeShows DEF UsageOnce
  <1>5. ASSUME ~Rewriting PROVE Old = jsonl
    <2>1. \A x \in {"turn", "header", "revert"} : step[x] # "patch"
      BY <1>5 DEF Rewriting, Writers
    <2> QED BY <2>1, OldIsFile
  <1>6. OneHeader
    <2>1. SUFFICES ASSUME there, ~Rewriting
                   PROVE jsonl # <<>> /\ jsonl[1] = Header /\ \A i \in 2..Len(jsonl) : jsonl[i] # Header
      BY DEF OneHeader
    <2>2. HeaderFirst(jsonl)
      BY <2>1, <1>5 DEF DataInv, FileRight, Whole
    <2>3. jsonl # <<>> => 1 \in DOMAIN jsonl
      BY <1>1
    <2>4. \A i \in 2..Len(jsonl) : i \in DOMAIN jsonl /\ i # 1
      BY <1>1
    <2> QED BY <2>2, <2>3, <2>4 DEF HeaderFirst
  <1>7. NothingVanishes
    BY <1>5 DEF NothingVanishes, DataInv, FileRight, Whole
  <1> QED BY <1>1, <1>4, <1>6, <1>7 DEF FileWhole, TrailerTruthful

\* The file of a session is whole: while no record is written that would
\* overtake a trailer, a revert or a deletion, and no crash tears a rewrite
\* (Races without "early", "sloppy" and "torn"), its types are right, it has one
\* header, an accepted record is in it until a revert or a deletion drops it,
\* every record and every usage is in it once, and the sessions list shows what
\* its records say, for any number of lines, writers' steps, reverts and crashes.
THEOREM FileStaysWhole ==
  (\A q \in Races : q \cap {"torn", "early", "sloppy"} = {}) => (LogSpec => []FileWhole)
  <1> SUFFICES ASSUME \A q \in Races : q \cap {"torn", "early", "sloppy"} = {}
               PROVE LogSpec => []FileWhole
    OBVIOUS
  <1>1. LogInit => LogCtl /\ DataInv
    <2>1. SUFFICES ASSUME LogInit PROVE LogCtl /\ DataInv
      OBVIOUS
    <2>8. 0 \in 0..MaxLines
      BY SessionLogAssumption
    <2>2. LogTypeOK
      BY <2>1, <2>8 DEF LogInit, LogTypeOK
    <2>3. LineTyped
      BY <2>1 DEF LogInit, LineTyped
    <2>4. Locked /\ RevertAlone
      BY <2>1 DEF LogInit, Locked, RevertAlone, Busy, Nobody, Writers
    <2>5. Staged
      BY <2>1 DEF LogInit, Staged, StageOf
    <2>6. TrailerAlone /\ Rewrites
      BY <2>1, HeaderLine DEF LogInit, TrailerAlone, Rewrites, Writers
    <2>7. DataInv
      BY <2>1, HeaderLine DEF LogInit, DataInv, TrailersFlying, InFlight, FileRight
    <2> QED BY <2>2, <2>3, <2>4, <2>5, <2>6, <2>7 DEF LogCtl
  <1>2. LogCtl /\ DataInv /\ [LogNext]_logVars => (LogCtl /\ DataInv)'
    BY CtlStep, DataStep
  <1>3. LogCtl /\ DataInv => FileWhole
    BY InvShows
  <1> QED BY <1>1, <1>2, <1>3, PTL DEF LogSpec

-----------------------------------------------------------------------------
(* Messages and records of a Transcript, and its folds over them, one      *)
(* element at a time.                                                      *)

\* Induction for any fold that iterates: its value at the empty sequence, its
\* type, and what one more element adds.
LEMMA Grows ==
  ASSUME NEW A, NEW X, NEW st, NEW base, Folding(st, base, A, X), NEW F,
         \A s \in Seq(X) : \E g : Iterates(st, base, A, s, g) /\ F[s] = g[DOMAIN s]
  PROVE /\ F[<<>>] = base
        /\ \A s \in Seq(X) : F[s] \in A
        /\ \A s \in Seq(X), x \in X : F[Append(s, x)] = st[<<F[s], x>>]
  <1>1. F[<<>>] = base
    <2>1. <<>> \in Seq(X) /\ DOMAIN <<>> = {}
      OBVIOUS
    <2>2. PICK g : Iterates(st, base, A, <<>>, g) /\ F[<<>>] = g[DOMAIN <<>>]
      BY <2>1
    <2> QED BY <2>1, <2>2 DEF Iterates
  <1>2. ASSUME NEW s \in Seq(X) PROVE F[s] \in A
    <2>1. PICK g : Iterates(st, base, A, s, g) /\ F[s] = g[DOMAIN s]
      OBVIOUS
    <2>2. \A t \in SUBSET DOMAIN s : g[t] \in A
      BY <2>1, IteratesTyped
    <2> QED BY <2>1, <2>2
  <1>3. ASSUME NEW s \in Seq(X), NEW x \in X PROVE F[Append(s, x)] = st[<<F[s], x>>]
    <2>0. Append(s, x) \in Seq(X)
      OBVIOUS
    <2>1. PICK g : Iterates(st, base, A, s, g) /\ F[s] = g[DOMAIN s]
      OBVIOUS
    <2>2. PICK h : Iterates(st, base, A, Append(s, x), h) /\ F[Append(s, x)] = h[DOMAIN Append(s, x)]
      BY <2>0
    <2> QED BY <2>1, <2>2, IteratesAppend
  <1> QED BY <1>1, <1>2, <1>3

(* The messages of a history and the records of a log.                     *)

Said ==
  ({"user", "text"} \X (1..MaxIds)) \cup ({"calls"} \X Seq(CallIds)) \cup ({"tool"} \X CallIds)
Summaries   == {"summary"} \X (SUBSET Said)
Compactions == {"compaction"} \X (SUBSET Said) \X Nat
Messages    == Said \cup Summaries
Entries     == Said \cup Compactions
Anything    == Said \cup Summaries \cup Compactions

\* What a message of the user, the assistant or a tool looks like.
LEMMA SaidIs ==
  ASSUME NEW e \in Said
  PROVE /\ e[1] \in {"user", "text", "calls", "tool"}
        /\ e[1] \in {"user", "text"} => e[2] \in 1..MaxIds /\ e = <<e[1], e[2]>>
        /\ e[1] = "calls" => e[2] \in Seq(CallIds) /\ e = CallsOf(e[2])
        /\ e[1] = "tool" => e[2] \in CallIds /\ e = Result(e[2])
  <1>1. CASE e \in {"user", "text"} \X (1..MaxIds)
    BY <1>1
  <1>2. CASE e \in {"calls"} \X Seq(CallIds)
    BY <1>2 DEF CallsOf
  <1>3. CASE e \in {"tool"} \X CallIds
    BY <1>3 DEF Result
  <1> QED BY <1>1, <1>2, <1>3 DEF Said

\* What a summary and the record of a compaction look like.
LEMMA OtherIs ==
  /\ \A e \in Summaries : e[1] = "summary" /\ e[2] \subseteq Said /\ e = Summary(e[2])
  /\ \A e \in Compactions : /\ e[1] = "compaction" /\ e[2] \subseteq Said /\ e[3] \in Nat
                            /\ e = Compaction(e[2], e[3])
  BY DEF Summaries, Compactions, Summary, Compaction

\* The constructors give messages and entries.
LEMMA Spoken ==
  /\ \A n \in 1..MaxIds : User(n) \in Said /\ Text(n) \in Said
  /\ \A cs \in Seq(CallIds) : CallsOf(cs) \in Said
  /\ \A c \in CallIds : Result(c) \in Said
  /\ \A S \in SUBSET Said : Summary(S) \in Summaries
  /\ \A S \in SUBSET Said, n \in Nat : Compaction(S, n) \in Compactions
  BY DEF Said, Summaries, Compactions, User, Text, CallsOf, Result, Summary, Compaction

\* The fields of a message.
LEMMA Shapes ==
  /\ \A n : User(n)[1] = "user" /\ User(n)[2] = n /\ Text(n)[1] = "text" /\ Text(n)[2] = n
  /\ \A cs : CallsOf(cs)[1] = "calls" /\ CallsOf(cs)[2] = cs
  /\ \A c : Result(c)[1] = "tool" /\ Result(c)[2] = c
  /\ \A S : Summary(S)[1] = "summary" /\ Summary(S)[2] = S
  /\ \A S, n : Compaction(S, n)[1] = "compaction" /\ Compaction(S, n)[2] = S /\ Compaction(S, n)[3] = n
  BY DEF User, Text, CallsOf, Result, Summary, Compaction

\* Every set of indices has a least.
LEMMA MinOfIndices ==
  ASSUME NEW n \in Nat, NEW t \in SUBSET (1..n), t # {}
  PROVE Min(t) \in t /\ \A y \in t : Min(t) <= y
  <1> DEFINE u == {n + 1 - y : y \in t}
  <1>0. \A y \in t : y \in 1..n
    OBVIOUS
  <1>1. u \in SUBSET (1..n) /\ u # {}
    <2>1. \A y \in t : n + 1 - y \in 1..n
      BY <1>0
    <2> QED BY <2>1
  <1>2. Max(u) \in u /\ \A y \in u : y <= Max(u)
    BY <1>1, MaxOfIndices
  <1>3. PICK x \in t : Max(u) = n + 1 - x
    BY <1>2
  <1>4. \A y \in t : n + 1 - y <= n + 1 - x
    BY <1>2, <1>3
  <1>5. \A y \in t : x <= y
    BY <1>0, <1>4
  <1> QED BY <1>5 DEF Min

\* PastResults is the first place from i that has no result.
LEMMA PastResultsIs ==
  ASSUME NEW h, Len(h) \in Nat, NEW i \in 1..(Len(h) + 1)
  PROVE /\ PastResults(h, i) \in i..(Len(h) + 1)
        /\ PastResults(h, i) = Len(h) + 1 \/ h[PastResults(h, i)][1] # "tool"
        /\ \A j \in i..(PastResults(h, i) - 1) : h[j][1] = "tool"
  <1> DEFINE t == {j \in i..(Len(h) + 1) : j = Len(h) + 1 \/ h[j][1] # "tool"}
  <1>1. t \in SUBSET (1..(Len(h) + 1)) /\ Len(h) + 1 \in t
    OBVIOUS
  <1>2. Min(t) \in t /\ \A y \in t : Min(t) <= y
    <2> HIDE DEF t
    <2>1. Len(h) + 1 \in Nat /\ t # {}
      BY <1>1
    <2> QED BY <1>1, <2>1, MinOfIndices
  <1>3. PastResults(h, i) = Min(t)
    BY DEF PastResults
  <1>4. ASSUME NEW j \in i..(Min(t) - 1) PROVE h[j][1] = "tool"
    <2>1. j \in i..(Len(h) + 1) /\ ~(Min(t) <= j)
      BY <1>2
    <2> QED BY <2>1, <1>2
  <1> QED BY <1>2, <1>3, <1>4

\* There is only one such place.
LEMMA PastResultsFrom ==
  ASSUME NEW h, Len(h) \in Nat, NEW i \in 1..(Len(h) + 1), NEW m \in i..(Len(h) + 1),
         m = Len(h) + 1 \/ h[m][1] # "tool", \A j \in i..(m - 1) : h[j][1] = "tool"
  PROVE PastResults(h, i) = m
  <1>1. /\ PastResults(h, i) \in i..(Len(h) + 1)
        /\ PastResults(h, i) = Len(h) + 1 \/ h[PastResults(h, i)][1] # "tool"
        /\ \A j \in i..(PastResults(h, i) - 1) : h[j][1] = "tool"
    BY PastResultsIs
  <1>2. ~(PastResults(h, i) < m)
    BY <1>1
  <1>3. ~(m < PastResults(h, i))
    BY <1>1
  <1> QED BY <1>1, <1>2, <1>3

(* The folds of the model: rebuild, all calls, calls without a result, and *)
(* the results that a reopening inserts.                                   *)

AddCalls(cs, r) == IF r[1] = "calls" THEN cs \o r[2] ELSE cs
AllCallsStep == [p \in Seq(CallIds) \X Anything |-> AddCalls(p[1], p[2])]

\* AllCalls is a fold over records.
LEMMA AllCallsStepFolds ==
  Folding(AllCallsStep, <<>>, Seq(CallIds), Anything)
  <1>1. ASSUME NEW cs \in Seq(CallIds), NEW r \in Anything PROVE AddCalls(cs, r) \in Seq(CallIds)
    BY SaidIs, OtherIs DEF AddCalls, Anything
  <1> QED BY <1>1 DEF Folding, AllCallsStep

\* The iteration whose last value AllCalls is.
LEMMA AllCallsIterate ==
  ASSUME NEW s \in Seq(Anything)
  PROVE \E g : Iterates(AllCallsStep, <<>>, Seq(CallIds), s, g) /\ AllCalls(s) = g[DOMAIN s]
  <1> DEFINE Sol(g) == g = [t \in SUBSET DOMAIN s |->
                              IF t = {} THEN <<>> ELSE AddCalls(g[t \ {Max(t)}], s[Max(t)])]
  <1>1. AllCalls(s) = (CHOOSE g : Sol(g))[DOMAIN s]
    BY DEF AllCalls, AddCalls, FoldLeft, MapThenFoldSet
  <1>2. PICK f : Folds(AllCallsStep, <<>>, Seq(CallIds), s, f)
    BY AllCallsStepFolds, IteratesExists
  <1>3. \A i \in DOMAIN s : s[i] \in Anything
    OBVIOUS
  <1>4. \A t \in SUBSET DOMAIN s : t # {} => Max(t) \in DOMAIN s
    <2>1. DOMAIN s = 1..Len(s) /\ Len(s) \in Nat
      OBVIOUS
    <2> QED BY <2>1, MaxOfIndices
  <1>5. Sol(f)
    <2> DEFINE F == [t \in SUBSET DOMAIN s |-> IF t = {} THEN <<>> ELSE AddCalls(f[t \ {Max(t)}], s[Max(t)])]
    <2>1. ASSUME NEW t \in SUBSET DOMAIN s PROVE f[t] = F[t]
      <3>1. CASE t = {}
        BY <3>1, <1>2 DEF Folds
      <3>2. CASE t # {}
        <4>1. f[t \ {Max(t)}] \in Seq(CallIds) /\ s[Max(t)] \in Anything
          BY <1>2, <1>3, <1>4, <3>2 DEF Folds
        <4>2. f[t] = AllCallsStep[<<f[t \ {Max(t)}], s[Max(t)]>>]
          BY <1>2, <3>2 DEF Folds
        <4>3. f[t] = AddCalls(f[t \ {Max(t)}], s[Max(t)])
          BY <4>1, <4>2 DEF AllCallsStep
        <4> QED BY <4>3, <3>2
      <3> QED BY <3>1, <3>2
    <2>2. f \in [SUBSET DOMAIN s -> Seq(CallIds)]
      BY <1>2 DEF Folds
    <2> QED BY <2>1, <2>2
  <1> DEFINE g == CHOOSE g : Sol(g)
  <1>6. Sol(g)
    <2> HIDE DEF Sol
    <2> QED BY <1>5
  <1>7. g[{}] = <<>>
    BY <1>6
  <1>8. ASSUME NEW t \in SUBSET DOMAIN s, t # {}, g[t \ {Max(t)}] \in Seq(CallIds)
        PROVE g[t] = AllCallsStep[<<g[t \ {Max(t)}], s[Max(t)]>>]
    <2>1. g[t] = AddCalls(g[t \ {Max(t)}], s[Max(t)])
      <3> HIDE DEF g
      <3> QED BY <1>6, <1>8
    <2>2. s[Max(t)] \in Anything
      BY <1>3, <1>4, <1>8
    <2> HIDE DEF g
    <2> QED BY <2>1, <2>2, <1>8 DEF AllCallsStep
  <1> HIDE DEF g
  <1> QED BY <1>1, <1>7, <1>8 DEF Iterates, g

\* AllCalls, one record at a time.
LEMMA AllCallsGrows ==
  /\ AllCalls(<<>>) = <<>>
  /\ \A s \in Seq(Anything) : AllCalls(s) \in Seq(CallIds)
  /\ \A s \in Seq(Anything), x \in Anything : AllCalls(Append(s, x)) = AddCalls(AllCalls(s), x)
  <1> DEFINE F == [s \in Seq(Anything) |-> AllCalls(s)]
  <1>1. ASSUME NEW s \in Seq(Anything)
        PROVE \E g : Iterates(AllCallsStep, <<>>, Seq(CallIds), s, g) /\ F[s] = g[DOMAIN s]
    BY AllCallsIterate
  <1>2. /\ F[<<>>] = <<>>
        /\ \A s \in Seq(Anything) : F[s] \in Seq(CallIds)
        /\ \A s \in Seq(Anything), x \in Anything : F[Append(s, x)] = AllCallsStep[<<F[s], x>>]
    <2> HIDE DEF F
    <2> QED BY <1>1, AllCallsStepFolds, Grows
  <1>3. \A s \in Seq(Anything), x \in Anything : Append(s, x) \in Seq(Anything) /\ <<>> \in Seq(Anything)
    OBVIOUS
  <1>4. ASSUME NEW s \in Seq(Anything), NEW x \in Anything PROVE AllCalls(Append(s, x)) = AddCalls(AllCalls(s), x)
    <2>1. F[s] = AllCalls(s) /\ F[Append(s, x)] = AllCalls(Append(s, x))
      BY <1>3
    <2>2. F[Append(s, x)] = AllCallsStep[<<F[s], x>>]
      BY <1>2
    <2> HIDE DEF F
    <2> QED BY <1>2, <2>1, <2>2 DEF AllCallsStep
  <1> QED BY <1>2, <1>3, <1>4

\* The calls of cs without a result in the set T.
AddLeft(T, os, c) == IF Result(c) \in T THEN os ELSE Append(os, c)
Left(T, cs) == FoldLeft(LAMBDA os, c : IF Result(c) \in T THEN os ELSE Append(os, c), <<>>, cs)
LeftStep(T) == [p \in Seq(CallIds) \X CallIds |-> AddLeft(T, p[1], p[2])]

\* Left is a fold over calls.
LEMMA LeftStepFolds ==
  ASSUME NEW T
  PROVE Folding(LeftStep(T), <<>>, Seq(CallIds), CallIds)
  BY DEF Folding, LeftStep, AddLeft

\* The iteration whose last value Left is.
LEMMA LeftIterate ==
  ASSUME NEW T, NEW s \in Seq(CallIds)
  PROVE \E g : Iterates(LeftStep(T), <<>>, Seq(CallIds), s, g) /\ Left(T, s) = g[DOMAIN s]
  <1> DEFINE Sol(g) == g = [t \in SUBSET DOMAIN s |->
                              IF t = {} THEN <<>> ELSE AddLeft(T, g[t \ {Max(t)}], s[Max(t)])]
  <1>1. Left(T, s) = (CHOOSE g : Sol(g))[DOMAIN s]
    BY DEF Left, AddLeft, FoldLeft, MapThenFoldSet
  <1>2. PICK f : Folds(LeftStep(T), <<>>, Seq(CallIds), s, f)
    BY LeftStepFolds, IteratesExists
  <1>3. \A i \in DOMAIN s : s[i] \in CallIds
    OBVIOUS
  <1>4. \A t \in SUBSET DOMAIN s : t # {} => Max(t) \in DOMAIN s
    <2>1. DOMAIN s = 1..Len(s) /\ Len(s) \in Nat
      OBVIOUS
    <2> QED BY <2>1, MaxOfIndices
  <1>5. Sol(f)
    <2> DEFINE F == [t \in SUBSET DOMAIN s |-> IF t = {} THEN <<>> ELSE AddLeft(T, f[t \ {Max(t)}], s[Max(t)])]
    <2>1. ASSUME NEW t \in SUBSET DOMAIN s PROVE f[t] = F[t]
      <3>1. CASE t = {}
        BY <3>1, <1>2 DEF Folds
      <3>2. CASE t # {}
        <4>1. f[t \ {Max(t)}] \in Seq(CallIds) /\ s[Max(t)] \in CallIds
          BY <1>2, <1>3, <1>4, <3>2 DEF Folds
        <4>2. f[t] = LeftStep(T)[<<f[t \ {Max(t)}], s[Max(t)]>>]
          BY <1>2, <3>2 DEF Folds
        <4>3. f[t] = AddLeft(T, f[t \ {Max(t)}], s[Max(t)])
          BY <4>1, <4>2 DEF LeftStep
        <4> QED BY <4>3, <3>2
      <3> QED BY <3>1, <3>2
    <2>2. f \in [SUBSET DOMAIN s -> Seq(CallIds)]
      BY <1>2 DEF Folds
    <2> QED BY <2>1, <2>2
  <1> DEFINE g == CHOOSE g : Sol(g)
  <1>6. Sol(g)
    <2> HIDE DEF Sol
    <2> QED BY <1>5
  <1>7. g[{}] = <<>>
    BY <1>6
  <1>8. ASSUME NEW t \in SUBSET DOMAIN s, t # {}, g[t \ {Max(t)}] \in Seq(CallIds)
        PROVE g[t] = LeftStep(T)[<<g[t \ {Max(t)}], s[Max(t)]>>]
    <2>1. g[t] = AddLeft(T, g[t \ {Max(t)}], s[Max(t)])
      <3> HIDE DEF g
      <3> QED BY <1>6, <1>8
    <2>2. s[Max(t)] \in CallIds
      BY <1>3, <1>4, <1>8
    <2> HIDE DEF g
    <2> QED BY <2>1, <2>2, <1>8 DEF LeftStep
  <1> HIDE DEF g
  <1> QED BY <1>1, <1>7, <1>8 DEF Iterates, g

\* Left, one call at a time.
LEMMA LeftGrows ==
  ASSUME NEW T
  PROVE

  /\ Left(T, <<>>) = <<>>
  /\ \A s \in Seq(CallIds) : Left(T, s) \in Seq(CallIds)
  /\ \A s \in Seq(CallIds), x \in CallIds : Left(T, Append(s, x)) = AddLeft(T, Left(T, s), x)
  <1> DEFINE F == [s \in Seq(CallIds) |-> Left(T, s)]
  <1>1. ASSUME NEW s \in Seq(CallIds)
        PROVE \E g : Iterates(LeftStep(T), <<>>, Seq(CallIds), s, g) /\ F[s] = g[DOMAIN s]
    BY LeftIterate
  <1>2. /\ F[<<>>] = <<>>
        /\ \A s \in Seq(CallIds) : F[s] \in Seq(CallIds)
        /\ \A s \in Seq(CallIds), x \in CallIds : F[Append(s, x)] = LeftStep(T)[<<F[s], x>>]
    <2> HIDE DEF F
    <2> QED BY <1>1, LeftStepFolds, Grows
  <1>3. \A s \in Seq(CallIds), x \in CallIds : Append(s, x) \in Seq(CallIds) /\ <<>> \in Seq(CallIds)
    OBVIOUS
  <1>4. ASSUME NEW s \in Seq(CallIds), NEW x \in CallIds PROVE Left(T, Append(s, x)) = AddLeft(T, Left(T, s), x)
    <2>1. F[s] = Left(T, s) /\ F[Append(s, x)] = Left(T, Append(s, x))
      BY <1>3
    <2>2. F[Append(s, x)] = LeftStep(T)[<<F[s], x>>]
      BY <1>2
    <2> HIDE DEF F
    <2> QED BY <1>2, <2>1, <2>2 DEF LeftStep
  <1> QED BY <1>2, <1>3, <1>4

\* A recovered result makes a history longer by one message.
LEMMA InsertResultIs ==
  ASSUME NEW h \in Seq(Messages), NEW c \in CallIds
  PROVE /\ InsertResult(h, c) \in Seq(Messages)
        /\ Len(InsertResult(h, c)) = Len(h) + 1
  <1> DEFINE Owners == {i \in DOMAIN h : h[i][1] = "calls" /\ c \in ToSet(h[i][2])}
             at == IF Owners = {} THEN Len(h) + 1 ELSE PastResults(h, Max(Owners) + 1)
  <1>1. at \in 1..(Len(h) + 1)
    <2>1. CASE Owners = {}
      BY <2>1
    <2>2. CASE Owners # {}
      <3>1. Max(Owners) \in 1..Len(h)
        <4>1. Owners \in SUBSET (1..Len(h)) /\ Len(h) \in Nat
          OBVIOUS
        <4> HIDE DEF Owners
        <4> QED BY <2>2, <4>1, MaxOfIndices
      <3>2. PastResults(h, Max(Owners) + 1) \in (Max(Owners) + 1)..(Len(h) + 1)
        BY <3>1, PastResultsIs
      <3> QED BY <2>2, <3>1, <3>2
    <2> QED BY <2>1, <2>2
  <1>2. Result(c) \in Messages
    BY Spoken DEF Messages
  <1>3. InsertResult(h, c) = InsertAt(h, at, Result(c))
    BY DEF InsertResult
  <1> HIDE DEF at
  <1>4. InsertAt(h, at, Result(c)) = SubSeq(h, 1, at - 1) \o <<Result(c)>> \o SubSeq(h, at, Len(h))
    BY DEF InsertAt
  <1>5. /\ SubSeq(h, 1, at - 1) \in Seq(Messages) /\ Len(SubSeq(h, 1, at - 1)) = at - 1
        /\ SubSeq(h, at, Len(h)) \in Seq(Messages) /\ Len(SubSeq(h, at, Len(h))) = Len(h) - at + 1
    BY <1>1
  <1> DEFINE a == SubSeq(h, 1, at - 1)
             z == SubSeq(h, at, Len(h))
  <1> HIDE DEF a, z
  <1>6. /\ a \o <<Result(c)>> \in Seq(Messages) /\ Len(a \o <<Result(c)>>) = at
        /\ z \in Seq(Messages) /\ Len(z) = Len(h) - at + 1
    BY <1>1, <1>2, <1>5 DEF a, z
  <1>7. a \o <<Result(c)>> \o z \in Seq(Messages) /\ Len(a \o <<Result(c)>> \o z) = Len(h) + 1
    BY <1>1, <1>6
  <1> QED BY <1>3, <1>4, <1>7 DEF a, z

InsertStep == [p \in Seq(Messages) \X CallIds |-> InsertResult(p[1], p[2])]

\* Recovering calls is a fold over them.
LEMMA InsertStepFolds ==
  ASSUME NEW h0 \in Seq(Messages)
  PROVE Folding(InsertStep, h0, Seq(Messages), CallIds)
  BY InsertResultIs DEF Folding, InsertStep

\* The iteration whose last value the recovered history is.
LEMMA InsertIterate ==
  ASSUME NEW h0 \in Seq(Messages), NEW s \in Seq(CallIds)
  PROVE \E g : Iterates(InsertStep, h0, Seq(Messages), s, g) /\ FoldLeft(InsertResult, h0, s) = g[DOMAIN s]
  <1> DEFINE Sol(g) == g = [t \in SUBSET DOMAIN s |->
                              IF t = {} THEN h0 ELSE InsertResult(g[t \ {Max(t)}], s[Max(t)])]
  <1>1. FoldLeft(InsertResult, h0, s) = (CHOOSE g : Sol(g))[DOMAIN s]
    BY DEF FoldLeft, MapThenFoldSet
  <1>2. PICK f : Folds(InsertStep, h0, Seq(Messages), s, f)
    BY InsertStepFolds, IteratesExists
  <1>3. \A i \in DOMAIN s : s[i] \in CallIds
    OBVIOUS
  <1>4. \A t \in SUBSET DOMAIN s : t # {} => Max(t) \in DOMAIN s
    <2>1. DOMAIN s = 1..Len(s) /\ Len(s) \in Nat
      OBVIOUS
    <2> QED BY <2>1, MaxOfIndices
  <1>5. Sol(f)
    <2> DEFINE F == [t \in SUBSET DOMAIN s |-> IF t = {} THEN h0 ELSE InsertResult(f[t \ {Max(t)}], s[Max(t)])]
    <2>1. ASSUME NEW t \in SUBSET DOMAIN s PROVE f[t] = F[t]
      <3>1. CASE t = {}
        BY <3>1, <1>2 DEF Folds
      <3>2. CASE t # {}
        <4>1. f[t \ {Max(t)}] \in Seq(Messages) /\ s[Max(t)] \in CallIds
          BY <1>2, <1>3, <1>4, <3>2 DEF Folds
        <4>2. f[t] = InsertStep[<<f[t \ {Max(t)}], s[Max(t)]>>]
          BY <1>2, <3>2 DEF Folds
        <4>3. f[t] = InsertResult(f[t \ {Max(t)}], s[Max(t)])
          BY <4>1, <4>2 DEF InsertStep
        <4> QED BY <4>3, <3>2
      <3> QED BY <3>1, <3>2
    <2>2. f \in [SUBSET DOMAIN s -> Seq(Messages)]
      BY <1>2 DEF Folds
    <2> QED BY <2>1, <2>2
  <1> DEFINE g == CHOOSE g : Sol(g)
  <1>6. Sol(g)
    <2> HIDE DEF Sol
    <2> QED BY <1>5
  <1>7. g[{}] = h0
    BY <1>6
  <1>8. ASSUME NEW t \in SUBSET DOMAIN s, t # {}, g[t \ {Max(t)}] \in Seq(Messages)
        PROVE g[t] = InsertStep[<<g[t \ {Max(t)}], s[Max(t)]>>]
    <2>1. g[t] = InsertResult(g[t \ {Max(t)}], s[Max(t)])
      <3> HIDE DEF g
      <3> QED BY <1>6, <1>8
    <2>2. s[Max(t)] \in CallIds
      BY <1>3, <1>4, <1>8
    <2> HIDE DEF g
    <2> QED BY <2>1, <2>2, <1>8 DEF InsertStep
  <1> HIDE DEF g
  <1> QED BY <1>1, <1>7, <1>8 DEF Iterates, g

\* Recovery, one call at a time.
LEMMA InsertGrows ==
  ASSUME NEW h0 \in Seq(Messages)
  PROVE

  /\ FoldLeft(InsertResult, h0, <<>>) = h0
  /\ \A s \in Seq(CallIds) : FoldLeft(InsertResult, h0, s) \in Seq(Messages)
  /\ \A s \in Seq(CallIds), x \in CallIds :
       FoldLeft(InsertResult, h0, Append(s, x)) = InsertResult(FoldLeft(InsertResult, h0, s), x)
  <1> DEFINE F == [s \in Seq(CallIds) |-> FoldLeft(InsertResult, h0, s)]
  <1>1. ASSUME NEW s \in Seq(CallIds)
        PROVE \E g : Iterates(InsertStep, h0, Seq(Messages), s, g) /\ F[s] = g[DOMAIN s]
    BY InsertIterate
  <1>2. /\ F[<<>>] = h0
        /\ \A s \in Seq(CallIds) : F[s] \in Seq(Messages)
        /\ \A s \in Seq(CallIds), x \in CallIds : F[Append(s, x)] = InsertStep[<<F[s], x>>]
    <2> HIDE DEF F
    <2> QED BY <1>1, InsertStepFolds, Grows
  <1>3. \A s \in Seq(CallIds), x \in CallIds : Append(s, x) \in Seq(CallIds) /\ <<>> \in Seq(CallIds)
    OBVIOUS
  <1>4. ASSUME NEW s \in Seq(CallIds), NEW x \in CallIds
        PROVE FoldLeft(InsertResult, h0, Append(s, x)) = InsertResult(FoldLeft(InsertResult, h0, s), x)
    <2>1. F[s] = FoldLeft(InsertResult, h0, s) /\ F[Append(s, x)] = FoldLeft(InsertResult, h0, Append(s, x))
      BY <1>3
    <2>2. F[Append(s, x)] = InsertStep[<<F[s], x>>]
      BY <1>2
    <2> HIDE DEF F
    <2> QED BY <1>2, <2>1, <2>2 DEF InsertStep
  <1>5. \A s \in Seq(CallIds) : F[s] = FoldLeft(InsertResult, h0, s)
    OBVIOUS
  <1>6. <<>> \in Seq(CallIds)
    OBVIOUS
  <1> HIDE DEF F
  <1>7. FoldLeft(InsertResult, h0, <<>>) = h0
    BY <1>2, <1>5, <1>6
  <1>8. \A s \in Seq(CallIds) : FoldLeft(InsertResult, h0, s) \in Seq(Messages)
    BY <1>2, <1>5
  <1> QED BY <1>4, <1>7, <1>8

\* What compaction leaves of a history is one.
LEMMA ApplySummaryIs ==
  ASSUME NEW h \in Seq(Messages), NEW cut \in 1..(Len(h) + 1), NEW S \in SUBSET Said
  PROVE ApplySummary(h, cut, S) \in Seq(Messages)
  <1>1. PastResults(h, cut) \in cut..(Len(h) + 1)
    BY PastResultsIs
  <1>2. Summary(S) \in Messages
    BY Spoken DEF Messages
  <1>3. SubSeq(h, PastResults(h, cut), Len(h)) \in Seq(Messages)
    BY <1>1
  <1> QED BY <1>2, <1>3 DEF ApplySummary, Snap

\* Replaying a record on a history gives one.
LEMMA ReplayIs ==
  ASSUME NEW h \in Seq(Messages), NEW r \in Entries
  PROVE Replay(h, r) \in Seq(Messages)
  <1>1. CASE r \in Said
    BY <1>1, SaidIs DEF Replay, Messages
  <1>2. CASE r \in Compactions
    <2>1. r[1] = "compaction" /\ r[2] \in SUBSET Said /\ r[3] \in Nat
      BY <1>2, OtherIs
    <2> DEFINE cut == IF r[3] >= Len(h) THEN 1 ELSE Len(h) - r[3] + 1
    <2>2. cut \in 1..(Len(h) + 1)
      BY <2>1
    <2>3. Replay(h, r) = ApplySummary(h, cut, r[2])
      BY <2>1 DEF Replay
    <2> QED BY <2>1, <2>2, <2>3, ApplySummaryIs
  <1> QED BY <1>1, <1>2 DEF Entries

RebuildStep == [p \in Seq(Messages) \X Entries |-> Replay(p[1], p[2])]

\* Rebuilding is a fold over records.
LEMMA RebuildStepFolds ==
  Folding(RebuildStep, <<>>, Seq(Messages), Entries)
  BY ReplayIs DEF Folding, RebuildStep

\* The iteration whose last value the rebuilt history is.
LEMMA RebuildIterate ==
  ASSUME NEW s \in Seq(Entries)
  PROVE \E g : Iterates(RebuildStep, <<>>, Seq(Messages), s, g) /\ Rebuild(s) = g[DOMAIN s]
  <1> DEFINE Sol(g) == g = [t \in SUBSET DOMAIN s |->
                              IF t = {} THEN <<>> ELSE Replay(g[t \ {Max(t)}], s[Max(t)])]
  <1>1. Rebuild(s) = (CHOOSE g : Sol(g))[DOMAIN s]
    BY DEF Rebuild, FoldLeft, MapThenFoldSet
  <1>2. PICK f : Folds(RebuildStep, <<>>, Seq(Messages), s, f)
    BY RebuildStepFolds, IteratesExists
  <1>3. \A i \in DOMAIN s : s[i] \in Entries
    OBVIOUS
  <1>4. \A t \in SUBSET DOMAIN s : t # {} => Max(t) \in DOMAIN s
    <2>1. DOMAIN s = 1..Len(s) /\ Len(s) \in Nat
      OBVIOUS
    <2> QED BY <2>1, MaxOfIndices
  <1>5. Sol(f)
    <2> DEFINE F == [t \in SUBSET DOMAIN s |-> IF t = {} THEN <<>> ELSE Replay(f[t \ {Max(t)}], s[Max(t)])]
    <2>1. ASSUME NEW t \in SUBSET DOMAIN s PROVE f[t] = F[t]
      <3>1. CASE t = {}
        BY <3>1, <1>2 DEF Folds
      <3>2. CASE t # {}
        <4>1. f[t \ {Max(t)}] \in Seq(Messages) /\ s[Max(t)] \in Entries
          BY <1>2, <1>3, <1>4, <3>2 DEF Folds
        <4>2. f[t] = RebuildStep[<<f[t \ {Max(t)}], s[Max(t)]>>]
          BY <1>2, <3>2 DEF Folds
        <4>3. f[t] = Replay(f[t \ {Max(t)}], s[Max(t)])
          BY <4>1, <4>2 DEF RebuildStep
        <4> QED BY <4>3, <3>2
      <3> QED BY <3>1, <3>2
    <2>2. f \in [SUBSET DOMAIN s -> Seq(Messages)]
      BY <1>2 DEF Folds
    <2> QED BY <2>1, <2>2
  <1> DEFINE g == CHOOSE g : Sol(g)
  <1>6. Sol(g)
    <2> HIDE DEF Sol
    <2> QED BY <1>5
  <1>7. g[{}] = <<>>
    BY <1>6
  <1>8. ASSUME NEW t \in SUBSET DOMAIN s, t # {}, g[t \ {Max(t)}] \in Seq(Messages)
        PROVE g[t] = RebuildStep[<<g[t \ {Max(t)}], s[Max(t)]>>]
    <2>1. g[t] = Replay(g[t \ {Max(t)}], s[Max(t)])
      <3> HIDE DEF g
      <3> QED BY <1>6, <1>8
    <2>2. s[Max(t)] \in Entries
      BY <1>3, <1>4, <1>8
    <2> HIDE DEF g
    <2> QED BY <2>1, <2>2, <1>8 DEF RebuildStep
  <1> HIDE DEF g
  <1> QED BY <1>1, <1>7, <1>8 DEF Iterates, g

\* Rebuilding, one record at a time.
LEMMA RebuildGrows ==
  /\ Rebuild(<<>>) = <<>>
  /\ \A s \in Seq(Entries) : Rebuild(s) \in Seq(Messages)
  /\ \A s \in Seq(Entries), x \in Entries : Rebuild(Append(s, x)) = Replay(Rebuild(s), x)
  <1> DEFINE F == [s \in Seq(Entries) |-> Rebuild(s)]
  <1>1. ASSUME NEW s \in Seq(Entries)
        PROVE \E g : Iterates(RebuildStep, <<>>, Seq(Messages), s, g) /\ F[s] = g[DOMAIN s]
    BY RebuildIterate
  <1>2. /\ F[<<>>] = <<>>
        /\ \A s \in Seq(Entries) : F[s] \in Seq(Messages)
        /\ \A s \in Seq(Entries), x \in Entries : F[Append(s, x)] = RebuildStep[<<F[s], x>>]
    <2> HIDE DEF F
    <2> QED BY <1>1, RebuildStepFolds, Grows
  <1>3. \A s \in Seq(Entries), x \in Entries : Append(s, x) \in Seq(Entries) /\ <<>> \in Seq(Entries)
    OBVIOUS
  <1>4. ASSUME NEW s \in Seq(Entries), NEW x \in Entries PROVE Rebuild(Append(s, x)) = Replay(Rebuild(s), x)
    <2>1. F[s] = Rebuild(s) /\ F[Append(s, x)] = Rebuild(Append(s, x))
      BY <1>3
    <2>2. F[Append(s, x)] = RebuildStep[<<F[s], x>>]
      BY <1>2
    <2> HIDE DEF F
    <2> QED BY <1>2, <2>1, <2>2 DEF RebuildStep
  <1> QED BY <1>2, <1>3, <1>4

-----------------------------------------------------------------------------
(* The calls of a history, and those without a result.                     *)

Recovered(h, cs) == FoldLeft(InsertResult, h, cs)
Full(l) == Recovered(Rebuild(l), Orphans(l))
Owned(h, c) == \E r \in ToSet(h) : r[1] = "calls" /\ c \in ToSet(r[2])
Results(cs, k) == [j \in 1..k |-> Result(cs[j])]
Batch(cs, k) == <<CallsOf(cs)>> \o Results(cs, k)
Rest(cs, k) == SubSeq(cs, k + 1, Len(cs))

\* The elements of sequences.
LEMMA Elements ==
  ASSUME NEW X
  PROVE /\ ToSet(<<>>) = {}
        /\ \A s \in Seq(X) : ToSet(s) \subseteq X
        /\ \A s \in Seq(X), x \in X : ToSet(Append(s, x)) = ToSet(s) \cup {x}
        /\ \A s, u \in Seq(X) : ToSet(s \o u) = ToSet(s) \cup ToSet(u)
        /\ \A x \in X : ToSet(<<x>>) = {x}
  <1>1. ToSet(<<>>) = {} /\ \A x \in X : ToSet(<<x>>) = {x}
    BY DEF ToSet
  <1>2. \A s \in Seq(X) : ToSet(s) \subseteq X
    BY DEF ToSet
  <1>3. ASSUME NEW s \in Seq(X), NEW u \in Seq(X) PROVE ToSet(s \o u) = ToSet(s) \cup ToSet(u)
    <2>1. /\ DOMAIN (s \o u) = 1..(Len(s) + Len(u)) /\ DOMAIN s = 1..Len(s) /\ DOMAIN u = 1..Len(u)
          /\ \A i \in 1..Len(s) : (s \o u)[i] = s[i]
          /\ \A i \in 1..Len(u) : Len(s) + i \in 1..(Len(s) + Len(u)) /\ (s \o u)[Len(s) + i] = u[i]
      OBVIOUS
    <2>2. ASSUME NEW x \in ToSet(s \o u) PROVE x \in ToSet(s) \cup ToSet(u)
      <3>1. PICK i \in 1..(Len(s) + Len(u)) : x = (s \o u)[i]
        BY <2>1 DEF ToSet
      <3>2. CASE i \in 1..Len(s)
        BY <2>1, <3>1, <3>2 DEF ToSet
      <3>3. CASE i \notin 1..Len(s)
        <4>1. i - Len(s) \in 1..Len(u) /\ i = Len(s) + (i - Len(s))
          BY <3>3
        <4>2. x = u[i - Len(s)]
          BY <2>1, <3>1, <4>1
        <4> QED BY <2>1, <4>1, <4>2 DEF ToSet
      <3> QED BY <3>2, <3>3
    <2>3. \A i \in 1..Len(s) : s[i] \in ToSet(s \o u)
      <3>1. ASSUME NEW i \in 1..Len(s) PROVE s[i] \in ToSet(s \o u)
        <4>1. i \in 1..(Len(s) + Len(u))
          OBVIOUS
        <4> QED BY <2>1, <4>1 DEF ToSet
      <3> QED BY <3>1
    <2>4. \A i \in 1..Len(u) : u[i] \in ToSet(s \o u)
      <3>1. ASSUME NEW i \in 1..Len(u) PROVE u[i] \in ToSet(s \o u)
        <4>1. Len(s) + i \in 1..(Len(s) + Len(u)) /\ (s \o u)[Len(s) + i] = u[i]
          BY <2>1
        <4> QED BY <2>1, <4>1 DEF ToSet
      <3> QED BY <3>1
    <2>5. ToSet(s) = {s[i] : i \in 1..Len(s)} /\ ToSet(u) = {u[i] : i \in 1..Len(u)}
      BY <2>1 DEF ToSet
    <2>6. \A x \in ToSet(s) : x \in ToSet(s \o u)
      BY <2>3, <2>5
    <2>7. \A x \in ToSet(u) : x \in ToSet(s \o u)
      BY <2>4, <2>5
    <2> QED BY <2>2, <2>6, <2>7
  <1>4. ASSUME NEW s \in Seq(X), NEW x \in X PROVE ToSet(Append(s, x)) = ToSet(s) \cup {x}
    <2>1. Append(s, x) = s \o <<x>> /\ <<x>> \in Seq(X)
      OBVIOUS
    <2> QED BY <2>1, <1>1, <1>3
  <1> QED BY <1>1, <1>2, <1>3, <1>4

\* The elements of two sequences together.
LEMMA ConcatElements ==
  ASSUME NEW X, NEW s \in Seq(X), NEW u \in Seq(X)
  PROVE s \o u \in Seq(X) /\ ToSet(s \o u) = ToSet(s) \cup ToSet(u)
  BY Elements

\* The elements with one more.
LEMMA AppendElements ==
  ASSUME NEW X, NEW s \in Seq(X), NEW x \in X
  PROVE Append(s, x) \in Seq(X) /\ ToSet(Append(s, x)) = ToSet(s) \cup {x}
  BY Elements

\* Appending to the second of two parts.
LEMMA AppendConcat ==
  ASSUME NEW X, NEW a \in Seq(X), NEW b \in Seq(X), NEW y \in X
  PROVE Append(a \o b, y) = a \o Append(b, y)
  OBVIOUS

\* Two parts of a sequence, also when it grows.
LEMMA Cut ==
  ASSUME NEW X, NEW h \in Seq(X), NEW q \in Seq(X), NEW p \in 1..(Len(h) + 1)
  PROVE /\ SubSeq(h, 1, p - 1) \in Seq(X) /\ SubSeq(h, p, Len(h)) \in Seq(X)
        /\ SubSeq(h, 1, p - 1) \o SubSeq(h, p, Len(h)) = h
        /\ SubSeq(h \o q, 1, p - 1) = SubSeq(h, 1, p - 1)
        /\ SubSeq(h \o q, p, Len(h \o q)) = SubSeq(h, p, Len(h)) \o q
  <1> DEFINE a == SubSeq(h, 1, p - 1)
             z == SubSeq(h, p, Len(h))
  <1>1. a \in Seq(X) /\ z \in Seq(X) /\ Len(a) = p - 1
    OBVIOUS
  <1>2. a \o z = h
    <2>1. p - 1 \in 0..Len(h) /\ p = (p - 1) + 1 /\ 1 \in 1..(Len(h) + 1) /\ Len(h) \in (p - 1)..Len(h)
      OBVIOUS
    <2>2. SubSeq(h, 1, p - 1) \o SubSeq(h, (p - 1) + 1, Len(h)) = SubSeq(h, 1, Len(h))
      <3> DEFINE k == p - 1
      <3> HIDE DEF k
      <3>1. 1 \in 1..(Len(h) + 1) /\ k \in (1 - 1)..Len(h) /\ Len(h) \in k..Len(h)
        BY <2>1 DEF k
      <3>2. SubSeq(h, 1, k) \o SubSeq(h, k + 1, Len(h)) = SubSeq(h, 1, Len(h))
        BY <3>1, ConcatAdjacentSubSeq
      <3> QED BY <3>2 DEF k
    <2>3. SubSeq(h, 1, Len(h)) = h
      OBVIOUS
    <2> QED BY <2>1, <2>2, <2>3
  <1>3. SubSeq(h \o q, 1, p - 1) = a
    <2>1. CASE p = 1
      BY <2>1
    <2>2. CASE p # 1
      <3>1. 1 \in 1..Len(h) /\ p - 1 \in 1..Len(h)
        BY <2>2
      <3> QED BY <3>1, SubSeqOfConcat1
    <2> QED BY <2>1, <2>2
  <1> HIDE DEF a, z
  <1>4. z \o q \in Seq(X) /\ a \o (z \o q) = h \o q
    <2>1. (a \o z) \o q = a \o (z \o q)
      BY <1>1
    <2> QED BY <1>1, <1>2, <2>1
  <1> DEFINE w == z \o q
  <1> HIDE DEF w
  <1>5. SubSeq(a \o w, Len(a) + 1, Len(a) + Len(w)) = w
    <2>0. w \in Seq(X)
      BY <1>4 DEF w
    <2>1. CASE w = <<>>
      BY <1>1, <2>1
    <2>2. CASE w # <<>>
      <3>1. Len(a) + 1 \in Len(a) + 1 .. Len(a) + Len(w) /\ Len(a) + Len(w) \in Len(a) + 1 .. Len(a) + Len(w)
        BY <1>1, <2>0, <2>2
      <3>2. SubSeq(a \o w, Len(a) + 1, Len(a) + Len(w))
              = SubSeq(w, (Len(a) + 1) - Len(a), (Len(a) + Len(w)) - Len(a))
        BY <1>1, <2>0, <3>1, SubSeqOfConcat2
      <3>3. SubSeq(w, 1, Len(w)) = w /\ (Len(a) + 1) - Len(a) = 1 /\ (Len(a) + Len(w)) - Len(a) = Len(w)
        BY <1>1, <2>0
      <3> QED BY <3>2, <3>3
    <2> QED BY <2>1, <2>2
  <1>6. a \o w = h \o q /\ Len(a \o w) = Len(a) + Len(w) /\ Len(a) + 1 = p
    <2>1. w \in Seq(X) /\ a \o w = h \o q
      BY <1>4 DEF w
    <2>2. Len(a \o w) = Len(a) + Len(w)
      BY <1>1, <2>1, ConcatProperties
    <2>3. Len(a) + 1 = p
      BY <1>1
    <2> QED BY <2>1, <2>2, <2>3
  <1>7. SubSeq(h \o q, p, Len(h \o q)) = w
    BY <1>5, <1>6
  <1> QED BY <1>1, <1>2, <1>3, <1>7 DEF a, z, w

(* Calls without a result.                                                 *)

\* What T leaves of calls, group by group.
LEMMA LeftAlways ==
  ASSUME NEW T
  PROVE /\ \A a, b \in Seq(CallIds) : Left(T, a \o b) = Left(T, a) \o Left(T, b)
        /\ \A a \in Seq(CallIds) : ToSet(Left(T, a)) = {c \in ToSet(a) : Result(c) \notin T}
        /\ \A a \in Seq(CallIds) : (\A c \in ToSet(a) : Result(c) \in T) => Left(T, a) = <<>>
        /\ \A a \in Seq(CallIds) : (\A c \in ToSet(a) : Result(c) \notin T) => Left(T, a) = a
  <1> DEFINE C == Seq(CallIds)
  <1>0. /\ Left(T, <<>>) = <<>> /\ \A s \in C : Left(T, s) \in C
        /\ \A s \in C, x \in CallIds :
             Left(T, Append(s, x)) = IF Result(x) \in T THEN Left(T, s) ELSE Append(Left(T, s), x)
    BY LeftGrows DEF AddLeft
  <1>1. ASSUME NEW a \in C PROVE \A b \in C : Left(T, a \o b) = Left(T, a) \o Left(T, b)
    <2> DEFINE P == {b \in C : Left(T, a \o b) = Left(T, a) \o Left(T, b)}
    <2>1. <<>> \in P
      BY <1>0
    <2>2. ASSUME NEW b \in C, NEW x \in CallIds, b \in P PROVE Append(b, x) \in P
      <3>1. a \o Append(b, x) = Append(a \o b, x) /\ a \o b \in C /\ Append(b, x) \in C
        OBVIOUS
      <3>2. Left(T, a) \in C /\ Left(T, b) \in C
        BY <1>0
      <3>3. Left(T, a) \o Append(Left(T, b), x) = Append(Left(T, a) \o Left(T, b), x)
        BY <3>2
      <3>4. Left(T, Append(a \o b, x))
              = IF Result(x) \in T THEN Left(T, a \o b) ELSE Append(Left(T, a \o b), x)
        BY <1>0, <3>1
      <3>5. Left(T, Append(b, x)) = IF Result(x) \in T THEN Left(T, b) ELSE Append(Left(T, b), x)
        BY <1>0
      <3>6. Left(T, a \o b) = Left(T, a) \o Left(T, b)
        BY <2>2
      <3>7. Left(T, a \o Append(b, x)) = Left(T, a) \o Left(T, Append(b, x))
        BY <3>1, <3>3, <3>4, <3>5, <3>6
      <3> QED BY <3>1, <3>7
    <2>3. C \subseteq P
      <3> HIDE DEF P
      <3> QED BY <2>1, <2>2, SeqInduct
    <2> QED BY <2>3
  <1>2. \A a \in C : ToSet(Left(T, a)) = {c \in ToSet(a) : Result(c) \notin T}
    <2> DEFINE P == {a \in C : ToSet(Left(T, a)) = {c \in ToSet(a) : Result(c) \notin T}}
    <2>1. <<>> \in P
      BY <1>0, Elements
    <2>2. ASSUME NEW a \in C, NEW x \in CallIds, a \in P PROVE Append(a, x) \in P
      <3>1. ToSet(Append(a, x)) = ToSet(a) \cup {x}
        BY Elements
      <3>2. ToSet(Append(Left(T, a), x)) = ToSet(Left(T, a)) \cup {x}
        BY <1>0, Elements
      <3>3. ToSet(Left(T, a)) = {c \in ToSet(a) : Result(c) \notin T}
        BY <2>2
      <3>4. ToSet(Left(T, Append(a, x))) = {c \in ToSet(Append(a, x)) : Result(c) \notin T}
        <4>1. CASE Result(x) \in T
          BY <1>0, <4>1, <3>1, <3>3
        <4>2. CASE Result(x) \notin T
          BY <1>0, <4>2, <3>1, <3>2, <3>3
        <4> QED BY <4>1, <4>2
      <3> QED BY <3>4
    <2>3. C \subseteq P
      <3> HIDE DEF P
      <3> QED BY <2>1, <2>2, SeqInduct
    <2> QED BY <2>3
  <1>3. \A a \in C : (\A c \in ToSet(a) : Result(c) \in T) => Left(T, a) = <<>>
    <2> DEFINE P == {a \in C : (\A c \in ToSet(a) : Result(c) \in T) => Left(T, a) = <<>>}
    <2>1. <<>> \in P
      BY <1>0
    <2>2. ASSUME NEW a \in C, NEW x \in CallIds, a \in P PROVE Append(a, x) \in P
      <3>1. ToSet(Append(a, x)) = ToSet(a) \cup {x}
        BY Elements
      <3> QED BY <1>0, <2>2, <3>1
    <2>3. C \subseteq P
      <3> HIDE DEF P
      <3> QED BY <2>1, <2>2, SeqInduct
    <2> QED BY <2>3
  <1>4. \A a \in C : (\A c \in ToSet(a) : Result(c) \notin T) => Left(T, a) = a
    <2> DEFINE P == {a \in C : (\A c \in ToSet(a) : Result(c) \notin T) => Left(T, a) = a}
    <2>1. <<>> \in P
      BY <1>0
    <2>2. ASSUME NEW a \in C, NEW x \in CallIds, a \in P PROVE Append(a, x) \in P
      <3>1. ToSet(Append(a, x)) = ToSet(a) \cup {x}
        BY Elements
      <3> QED BY <1>0, <2>2, <3>1
    <2>3. C \subseteq P
      <3> HIDE DEF P
      <3> QED BY <2>1, <2>2, SeqInduct
    <2> QED BY <2>3
  <1> QED BY <1>1, <1>2, <1>3, <1>4

\* Only the results of its calls matter, and it can be taken in two steps.
LEMMA LeftSame ==
  ASSUME NEW T, NEW U, NEW a \in Seq(CallIds), \A c \in ToSet(a) : Result(c) \in T <=> Result(c) \in U
  PROVE Left(T, a) = Left(U, a)
  <1> DEFINE C == Seq(CallIds)
             Grown(W) ==
               /\ Left(W, <<>>) = <<>> /\ \A s \in C : Left(W, s) \in C
               /\ \A s \in C, x \in CallIds :
                    Left(W, Append(s, x)) = IF Result(x) \in W THEN Left(W, s) ELSE Append(Left(W, s), x)
             P == {s \in C : (\A c \in ToSet(s) : Result(c) \in T <=> Result(c) \in U) => Left(T, s) = Left(U, s)}
  <1>0. Grown(T) /\ Grown(U)
    BY LeftGrows DEF AddLeft
  <1>1. <<>> \in P
    BY <1>0
  <1>2. ASSUME NEW s \in C, NEW x \in CallIds, s \in P PROVE Append(s, x) \in P
    <2>1. ToSet(Append(s, x)) = ToSet(s) \cup {x}
      BY Elements
    <2>2. SUFFICES ASSUME \A c \in ToSet(Append(s, x)) : Result(c) \in T <=> Result(c) \in U
                   PROVE Left(T, Append(s, x)) = Left(U, Append(s, x))
      OBVIOUS
    <2>3. Left(T, s) = Left(U, s) /\ (Result(x) \in T <=> Result(x) \in U)
      BY <1>2, <2>1, <2>2
    <2>4. Left(T, Append(s, x)) = IF Result(x) \in T THEN Left(T, s) ELSE Append(Left(T, s), x)
      BY <1>0
    <2>5. Left(U, Append(s, x)) = IF Result(x) \in U THEN Left(U, s) ELSE Append(Left(U, s), x)
      BY <1>0
    <2> QED BY <2>3, <2>4, <2>5
  <1>3. C \subseteq P
    <2> HIDE DEF P
    <2> QED BY <1>1, <1>2, SeqInduct
  <1> QED BY <1>3

\* Leaving out what T answers, then what U answers.
LEMMA LeftTwice ==
  ASSUME NEW T, NEW U, NEW a \in Seq(CallIds)
  PROVE Left(T \cup U, a) = Left(U, Left(T, a))
  <1> DEFINE C == Seq(CallIds)
             Grown(W) ==
               /\ Left(W, <<>>) = <<>> /\ \A s \in C : Left(W, s) \in C
               /\ \A s \in C, x \in CallIds :
                    Left(W, Append(s, x)) = IF Result(x) \in W THEN Left(W, s) ELSE Append(Left(W, s), x)
             Q == {s \in C : Left(T \cup U, s) = Left(U, Left(T, s))}
  <1>0. Grown(T) /\ Grown(U) /\ Grown(T \cup U)
    BY LeftGrows DEF AddLeft
  <1>1. <<>> \in Q
    BY <1>0
  <1>3. ASSUME NEW s \in C, NEW x \in CallIds, s \in Q PROVE Append(s, x) \in Q
    <2>1. Left(T, s) \in C /\ Append(s, x) \in C
      BY <1>0
    <2>2. /\ Left(T \cup U, Append(s, x))
               = IF Result(x) \in T \cup U THEN Left(T \cup U, s) ELSE Append(Left(T \cup U, s), x)
          /\ Left(T, Append(s, x)) = IF Result(x) \in T THEN Left(T, s) ELSE Append(Left(T, s), x)
          /\ Left(U, Append(Left(T, s), x))
               = IF Result(x) \in U THEN Left(U, Left(T, s)) ELSE Append(Left(U, Left(T, s)), x)
      BY <1>0, <2>1
    <2>3. Left(T \cup U, s) = Left(U, Left(T, s))
      BY <1>3
    <2>4. Left(U, Left(T, Append(s, x))) = Left(T \cup U, Append(s, x))
      <3>1. CASE Result(x) \in T
        BY <3>1, <2>2, <2>3
      <3>2. CASE Result(x) \notin T
        BY <3>2, <2>2, <2>3
      <3> QED BY <3>1, <3>2
    <2> QED BY <2>1, <2>4
  <1>4. C \subseteq Q
    <2> HIDE DEF Q
    <2> QED BY <1>1, <1>3, SeqInduct
  <1> QED BY <1>4

\* The calls of a history: those some message owns.
LEMMA CallsAlways ==
  /\ \A h, q \in Seq(Anything) : AllCalls(h \o q) = AllCalls(h) \o AllCalls(q)
  /\ \A h \in Seq(Anything) : \A c : c \in ToSet(AllCalls(h)) <=> Owned(h, c)
  /\ \A q \in Seq(Anything) : (\A r \in ToSet(q) : r[1] # "calls") => AllCalls(q) = <<>>
  /\ \A cs \in Seq(CallIds) : AllCalls(<<CallsOf(cs)>>) = cs
  <1> DEFINE C == Seq(CallIds)
             N == Seq(Anything)
  <1>0. /\ AllCalls(<<>>) = <<>> /\ \A s \in N : AllCalls(s) \in C
        /\ \A s \in N, x \in Anything :
             AllCalls(Append(s, x)) = IF x[1] = "calls" THEN AllCalls(s) \o x[2] ELSE AllCalls(s)
    BY AllCallsGrows DEF AddCalls
  <1>8. \A a, b, c \in C : (a \o b) \o c = a \o (b \o c)
    OBVIOUS
  <1>9. \A x \in Anything : x[1] = "calls" => x[2] \in C
    BY SaidIs, OtherIs DEF Anything
  <1>1. ASSUME NEW h \in N PROVE \A q \in N : AllCalls(h \o q) = AllCalls(h) \o AllCalls(q)
    <2> DEFINE P == {q \in N : AllCalls(h \o q) = AllCalls(h) \o AllCalls(q)}
    <2>1. <<>> \in P
      BY <1>0
    <2>2. ASSUME NEW q \in N, NEW x \in Anything, q \in P PROVE Append(q, x) \in P
      <3>1. h \o Append(q, x) = Append(h \o q, x) /\ h \o q \in N /\ Append(q, x) \in N
        OBVIOUS
      <3>2. AllCalls(h) \in C /\ AllCalls(q) \in C /\ AllCalls(h \o q) = AllCalls(h) \o AllCalls(q)
        BY <1>0, <2>2
      <3>3. x[1] = "calls" => (AllCalls(h) \o AllCalls(q)) \o x[2] = AllCalls(h) \o (AllCalls(q) \o x[2])
        BY <3>2, <1>9, <1>8
      <3>4. AllCalls(Append(h \o q, x))
              = IF x[1] = "calls" THEN AllCalls(h \o q) \o x[2] ELSE AllCalls(h \o q)
        BY <1>0, <3>1
      <3>5. AllCalls(Append(q, x)) = IF x[1] = "calls" THEN AllCalls(q) \o x[2] ELSE AllCalls(q)
        BY <1>0
      <3>6. AllCalls(h \o Append(q, x)) = AllCalls(h) \o AllCalls(Append(q, x))
        BY <3>1, <3>2, <3>3, <3>4, <3>5
      <3> QED BY <3>1, <3>6
    <2>3. N \subseteq P
      <3> HIDE DEF P
      <3> QED BY <2>1, <2>2, SeqInduct
    <2> QED BY <2>3
  <1>2. \A h \in N : \A c : c \in ToSet(AllCalls(h)) <=> Owned(h, c)
    <2> DEFINE P == {h \in N : \A c : c \in ToSet(AllCalls(h)) <=> Owned(h, c)}
    <2>1. <<>> \in P
      BY <1>0, Elements DEF Owned
    <2>2. ASSUME NEW h \in N, NEW x \in Anything, h \in P PROVE Append(h, x) \in P
      <3>1. ToSet(Append(h, x)) = ToSet(h) \cup {x}
        BY Elements
      <3>2. x[1] = "calls" => ToSet(AllCalls(h) \o x[2]) = ToSet(AllCalls(h)) \cup ToSet(x[2])
        BY <1>0, <1>9, Elements
      <3>3. \A c : c \in ToSet(AllCalls(h)) <=> Owned(h, c)
        BY <2>2
      <3>4. \A c : Owned(Append(h, x), c) <=> Owned(h, c) \/ (x[1] = "calls" /\ c \in ToSet(x[2]))
        BY <3>1 DEF Owned
      <3>5. AllCalls(Append(h, x)) = IF x[1] = "calls" THEN AllCalls(h) \o x[2] ELSE AllCalls(h)
        BY <1>0
      <3>6. \A c : c \in ToSet(AllCalls(Append(h, x))) <=> Owned(Append(h, x), c)
        BY <3>2, <3>3, <3>4, <3>5
      <3> QED BY <3>6
    <2>3. N \subseteq P
      <3> HIDE DEF P
      <3> QED BY <2>1, <2>2, SeqInduct
    <2> QED BY <2>3
  <1>3. \A q \in N : (\A r \in ToSet(q) : r[1] # "calls") => AllCalls(q) = <<>>
    <2> DEFINE P == {q \in N : (\A r \in ToSet(q) : r[1] # "calls") => AllCalls(q) = <<>>}
    <2>1. <<>> \in P
      BY <1>0
    <2>2. ASSUME NEW h \in N, NEW x \in Anything, h \in P PROVE Append(h, x) \in P
      <3>1. ToSet(Append(h, x)) = ToSet(h) \cup {x}
        BY Elements
      <3> QED BY <1>0, <2>2, <3>1
    <2>3. N \subseteq P
      <3> HIDE DEF P
      <3> QED BY <2>1, <2>2, SeqInduct
    <2> QED BY <2>3
  <1>4. ASSUME NEW cs \in C PROVE AllCalls(<<CallsOf(cs)>>) = cs
    <2>1. CallsOf(cs) \in Anything /\ <<>> \in N /\ <<CallsOf(cs)>> = Append(<<>>, CallsOf(cs))
      BY Spoken DEF Anything
    <2>2. AllCalls(Append(<<>>, CallsOf(cs))) = <<>> \o cs
      <3>1. CallsOf(cs)[1] = "calls" /\ CallsOf(cs)[2] = cs
        BY Shapes
      <3> HIDE DEF N
      <3>2. AllCalls(Append(<<>>, CallsOf(cs))) = AllCalls(<<>>) \o CallsOf(cs)[2]
        BY <1>0, <2>1, <3>1
      <3> QED BY <1>0, <3>1, <3>2
    <2> QED BY <2>1, <2>2
  <1> QED BY <1>1, <1>2, <1>3, <1>4

\* The orphans of a history: the calls it owns without their results.
LEMMA OrphansAre ==
  ASSUME NEW h \in Seq(Anything)
  PROVE /\ Orphans(h) = Left(ToSet(h), AllCalls(h))
        /\ Orphans(h) \in Seq(CallIds) /\ AllCalls(h) \in Seq(CallIds)
        /\ \A c : c \in ToSet(Orphans(h)) <=> Owned(h, c) /\ Result(c) \notin ToSet(h)
  <1>1. Orphans(h) = Left(ToSet(h), AllCalls(h))
    BY DEF Orphans, Left
  <1>2. AllCalls(h) \in Seq(CallIds)
    BY AllCallsGrows
  <1>3. Left(ToSet(h), AllCalls(h)) \in Seq(CallIds)
    BY <1>2, LeftGrows
  <1>4. ToSet(Left(ToSet(h), AllCalls(h))) = {c \in ToSet(AllCalls(h)) : Result(c) \notin ToSet(h)}
    BY <1>2, LeftAlways
  <1>5. \A c : c \in ToSet(AllCalls(h)) <=> Owned(h, c)
    BY CallsAlways
  <1> QED BY <1>1, <1>2, <1>3, <1>4, <1>5

-----------------------------------------------------------------------------
(* Recovered results, and the history that a log is rebuilt to.            *)

\* A recovered result is all that is new.
LEMMA InsertElements ==
  ASSUME NEW h \in Seq(Messages), NEW c \in CallIds
  PROVE ToSet(InsertResult(h, c)) = ToSet(h) \cup {Result(c)}
  <1> DEFINE Owners == {i \in DOMAIN h : h[i][1] = "calls" /\ c \in ToSet(h[i][2])}
             at == IF Owners = {} THEN Len(h) + 1 ELSE PastResults(h, Max(Owners) + 1)
  <1>1. at \in 1..(Len(h) + 1)
    <2>1. CASE Owners = {}
      BY <2>1
    <2>2. CASE Owners # {}
      <3>1. Max(Owners) \in 1..Len(h)
        <4>1. Owners \in SUBSET (1..Len(h)) /\ Len(h) \in Nat
          OBVIOUS
        <4> HIDE DEF Owners
        <4> QED BY <2>2, <4>1, MaxOfIndices
      <3>2. PastResults(h, Max(Owners) + 1) \in (Max(Owners) + 1)..(Len(h) + 1)
        BY <3>1, PastResultsIs
      <3> QED BY <2>2, <3>1, <3>2
    <2> QED BY <2>1, <2>2
  <1>2. InsertResult(h, c) = SubSeq(h, 1, at - 1) \o <<Result(c)>> \o SubSeq(h, at, Len(h))
    BY DEF InsertResult, InsertAt
  <1> DEFINE a == SubSeq(h, 1, at - 1)
             z == SubSeq(h, at, Len(h))
  <1>3. a \in Seq(Messages) /\ z \in Seq(Messages) /\ h = a \o z
    <2> HIDE DEF at
    <2>1. at - 1 \in 0..Len(h) /\ at = (at - 1) + 1
      BY <1>1
    <2>2. a \in Seq(Messages) /\ z \in Seq(Messages)
      BY <1>1
    <2>3. SubSeq(h, 1, at - 1) \o SubSeq(h, (at - 1) + 1, Len(h)) = SubSeq(h, 1, Len(h))
      <3> DEFINE k == at - 1
                 n == Len(h)
      <3>1. n \in Nat /\ 1 \in 1..(n + 1) /\ k \in (1 - 1)..n /\ n \in k..n
        BY <2>1
      <3> HIDE DEF k
      <3>2. SubSeq(h, 1, k) \o SubSeq(h, k + 1, n) = SubSeq(h, 1, n)
        BY <3>1, ConcatAdjacentSubSeq
      <3> QED BY <3>2 DEF k
    <2>4. SubSeq(h, 1, Len(h)) = h
      OBVIOUS
    <2> QED BY <2>1, <2>2, <2>3, <2>4
  <1>4. Result(c) \in Messages /\ <<Result(c)>> \in Seq(Messages)
    BY Spoken DEF Messages
  <1> HIDE DEF a, z, at
  <1>5. a \o <<Result(c)>> \in Seq(Messages)
    BY <1>3, <1>4
  <1>6. ToSet(h) = ToSet(a) \cup ToSet(z)
    BY <1>3, Elements
  <1>7. ToSet((a \o <<Result(c)>>) \o z) = ToSet(a \o <<Result(c)>>) \cup ToSet(z)
    <2> DEFINE y == a \o <<Result(c)>>
    <2>1. y \in Seq(Messages) /\ z \in Seq(Messages)
      BY <1>3, <1>5
    <2> HIDE DEF y
    <2>2. ToSet(y \o z) = ToSet(y) \cup ToSet(z)
      BY <2>1, ConcatElements
    <2> QED BY <2>2 DEF y
  <1>8. ToSet(a \o <<Result(c)>>) = ToSet(a) \cup {Result(c)}
    <2> DEFINE e == Result(c)
    <2> HIDE DEF e
    <2>1. ToSet(<<e>>) = {e}
      BY DEF ToSet
    <2>2. <<e>> \in Seq(Messages)
      BY <1>4 DEF e
    <2>3. ToSet(a \o <<e>>) = ToSet(a) \cup ToSet(<<e>>)
      BY <1>3, <2>2, ConcatElements
    <2> QED BY <2>1, <2>3 DEF e
  <1> QED BY <1>2, <1>6, <1>7, <1>8 DEF a, z

\* A result that is inserted in the front part leaves the back part alone.
LEMMA InsertInFront ==
  ASSUME NEW h \in Seq(Messages), NEW q \in Seq(Messages), NEW c \in CallIds,
         Owned(h, c), ~Owned(q, c), q = <<>> \/ q[1][1] # "tool"
  PROVE InsertResult(h \o q, c) = InsertResult(h, c) \o q
  <1> DEFINE Own(u) == {i \in DOMAIN u : u[i][1] = "calls" /\ c \in ToSet(u[i][2])}
             n == Len(h)
             u == h \o q
  <1>1. /\ n \in Nat /\ Len(q) \in Nat /\ Len(u) = n + Len(q) /\ u \in Seq(Messages)
        /\ DOMAIN u = 1..(n + Len(q)) /\ DOMAIN h = 1..n /\ DOMAIN q = 1..Len(q)
        /\ \A i \in 1..n : u[i] = h[i]
        /\ \A i \in (n + 1)..(n + Len(q)) : u[i] = q[i - n] /\ i - n \in 1..Len(q)
    OBVIOUS
  <1>2. Own(u) = Own(h)
    <2>1. \A i \in DOMAIN q : ~(q[i][1] = "calls" /\ c \in ToSet(q[i][2]))
      BY DEF Owned, ToSet
    <2> HIDE DEF u, n
    <2>2. ASSUME NEW i \in Own(u) PROVE i \in Own(h)
      <3>1. i \in 1..(n + Len(q)) /\ u[i][1] = "calls" /\ c \in ToSet(u[i][2])
        BY <1>1
      <3>2. i \in 1..n
        <4>1. SUFFICES ASSUME i \notin 1..n PROVE FALSE
          OBVIOUS
        <4>2. i \in (n + 1)..(n + Len(q))
          BY <1>1, <3>1, <4>1
        <4>3. u[i] = q[i - n] /\ i - n \in DOMAIN q
          BY <1>1, <4>2
        <4> QED BY <2>1, <3>1, <4>3
      <3> QED BY <1>1, <3>1, <3>2
    <2>3. ASSUME NEW i \in Own(h) PROVE i \in Own(u)
      <3>1. i \in 1..n /\ i \in 1..(n + Len(q)) /\ u[i] = h[i]
        BY <1>1
      <3> QED BY <1>1, <3>1
    <2> QED BY <2>2, <2>3
  <1>3. Own(h) # {} /\ Own(h) \in SUBSET (1..n)
    BY DEF Owned, ToSet
  <1> DEFINE m == Max(Own(h))
  <1>4. m \in 1..n
    <2> HIDE DEF Own, u
    <2> QED BY <1>1, <1>3, MaxOfIndices
  <1> DEFINE p == PastResults(h, m + 1)
  <1> HIDE DEF m
  <1>5. /\ p \in (m + 1)..(n + 1)
        /\ p = n + 1 \/ h[p][1] # "tool"
        /\ \A j \in (m + 1)..(p - 1) : h[j][1] = "tool"
    <2>1. m + 1 \in 1..(Len(h) + 1) /\ Len(h) \in Nat
      BY <1>1, <1>4
    <2> QED BY <2>1, PastResultsIs
  <1>6. PastResults(u, m + 1) = p
    <2> HIDE DEF p, u, n
    <2>1. p \in (m + 1)..(Len(u) + 1) /\ m + 1 \in 1..(Len(u) + 1) /\ Len(u) \in Nat
      BY <1>1, <1>4, <1>5
    <2>2. p = Len(u) + 1 \/ u[p][1] # "tool"
      <3>1. CASE p \in 1..n
        BY <1>1, <1>5, <3>1
      <3>2. CASE p = n + 1
        <4>1. CASE q = <<>>
          BY <1>1, <3>2, <4>1
        <4>2. CASE q # <<>>
          <5>1. Len(q) >= 1 /\ p \in (n + 1)..(n + Len(q)) /\ p - n = 1
            BY <1>1, <3>2, <4>2
          <5>2. u[p] = q[1]
            BY <1>1, <5>1
          <5> QED BY <4>2, <5>2
        <4> QED BY <4>1, <4>2
      <3> QED BY <1>1, <1>4, <1>5, <3>1, <3>2
    <2>3. \A j \in (m + 1)..(p - 1) : u[j][1] = "tool"
      <3>1. \A j \in (m + 1)..(p - 1) : j \in 1..n
        BY <1>1, <1>4, <1>5
      <3> QED BY <1>1, <1>5, <3>1
    <2> QED BY <2>1, <2>2, <2>3, PastResultsFrom
  <1>7. InsertResult(h, c) = InsertAt(h, p, Result(c))
    BY <1>3 DEF InsertResult, m
  <1>8. InsertResult(u, c) = InsertAt(u, p, Result(c))
    <2>1. Own(u) # {} /\ Max(Own(u)) = m
      BY <1>2, <1>3 DEF m
    <2> QED BY <1>6, <2>1 DEF InsertResult
  <1> HIDE DEF p
  <1>16. p \in 1..(n + 1)
    BY <1>1, <1>4, <1>5
  <1>9. /\ SubSeq(u, 1, p - 1) = SubSeq(h, 1, p - 1)
        /\ SubSeq(u, p, Len(u)) = SubSeq(h, p, n) \o q
    <2> HIDE DEF u, n
    <2>1. p \in 1..(Len(h) + 1)
      BY <1>16 DEF n
    <2> QED BY <2>1, Cut DEF u, n
  <1>10. Result(c) \in Messages /\ <<Result(c)>> \in Seq(Messages)
    BY Spoken DEF Messages
  <1>11. SubSeq(h, 1, p - 1) \in Seq(Messages) /\ SubSeq(h, p, n) \in Seq(Messages)
    BY <1>1, <1>4, <1>5
  <1> DEFINE a == SubSeq(h, 1, p - 1)
             z == SubSeq(h, p, n)
             r == <<Result(c)>>
  <1> HIDE DEF a, z, r
  <1>12. a \o r \in Seq(Messages) /\ z \in Seq(Messages)
    BY <1>10, <1>11 DEF a, z, r
  <1>13. (a \o r) \o (z \o q) = ((a \o r) \o z) \o q
    BY <1>12
  <1>14. InsertAt(u, p, Result(c)) = (a \o r) \o (z \o q)
    BY <1>9 DEF InsertAt, a, z, r
  <1>15. InsertAt(h, p, Result(c)) = (a \o r) \o z
    BY DEF InsertAt, a, z, r
  <1> QED BY <1>7, <1>8, <1>13, <1>14, <1>15

\* Recovery adds the results of the calls, and no call.
LEMMA RecoveredAlways ==
  ASSUME NEW h \in Seq(Messages)
  PROVE /\ Recovered(h, <<>>) = h
        /\ \A cs \in Seq(CallIds) : Recovered(h, cs) \in Seq(Messages)
        /\ \A cs \in Seq(CallIds), c \in CallIds :
             Recovered(h, Append(cs, c)) = InsertResult(Recovered(h, cs), c)
        /\ \A cs \in Seq(CallIds) :
             ToSet(Recovered(h, cs)) = ToSet(h) \cup {Result(c) : c \in ToSet(cs)}
        /\ \A cs \in Seq(CallIds) : \A c : Owned(Recovered(h, cs), c) <=> Owned(h, c)
  <1> DEFINE C == Seq(CallIds)
  <1>1. /\ Recovered(h, <<>>) = h
        /\ \A cs \in C : Recovered(h, cs) \in Seq(Messages)
        /\ \A cs \in C, c \in CallIds : Recovered(h, Append(cs, c)) = InsertResult(Recovered(h, cs), c)
    BY InsertGrows DEF Recovered
  <1>2. \A cs \in C : ToSet(Recovered(h, cs)) = ToSet(h) \cup {Result(c) : c \in ToSet(cs)}
    <2> DEFINE P == {cs \in C : ToSet(Recovered(h, cs)) = ToSet(h) \cup {Result(c) : c \in ToSet(cs)}}
    <2>1. <<>> \in P
      BY <1>1, Elements
    <2>2. ASSUME NEW cs \in C, NEW x \in CallIds, cs \in P PROVE Append(cs, x) \in P
      <3>1. ToSet(Append(cs, x)) = ToSet(cs) \cup {x} /\ Append(cs, x) \in C
        BY Elements
      <3>2. ToSet(Recovered(h, cs)) = ToSet(h) \cup {Result(c) : c \in ToSet(cs)}
        BY <2>2
      <3>3. ToSet(Recovered(h, Append(cs, x))) = ToSet(Recovered(h, cs)) \cup {Result(x)}
        BY <1>1, InsertElements
      <3> QED BY <3>1, <3>2, <3>3
    <2>3. C \subseteq P
      <3> HIDE DEF P
      <3> QED BY <2>1, <2>2, SeqInduct
    <2> QED BY <2>3
  <1>3. \A cs \in C : \A c : Owned(Recovered(h, cs), c) <=> Owned(h, c)
    <2>1. \A c : Result(c)[1] # "calls"
      BY Shapes
    <2> QED BY <1>2, <2>1 DEF Owned
  <1> QED BY <1>1, <1>2, <1>3

\* Recovery does not touch what is behind the calls.
LEMMA RecoveredInFront ==
  ASSUME NEW h \in Seq(Messages), NEW q \in Seq(Messages), q = <<>> \/ q[1][1] # "tool",
         NEW cs \in Seq(CallIds), \A c \in ToSet(cs) : Owned(h, c) /\ ~Owned(q, c)
  PROVE Recovered(h \o q, cs) = Recovered(h, cs) \o q
  <1> DEFINE C == Seq(CallIds)
             P == {s \in C : (\A c \in ToSet(s) : Owned(h, c) /\ ~Owned(q, c))
                               => Recovered(h \o q, s) = Recovered(h, s) \o q}
  <1> DEFINE u == h \o q
  <1>0. u \in Seq(Messages)
    OBVIOUS
  <1>4. /\ Recovered(u, <<>>) = u /\ Recovered(h, <<>>) = h
        /\ \A s \in C, c \in CallIds : Recovered(u, Append(s, c)) = InsertResult(Recovered(u, s), c)
    <2> HIDE DEF u
    <2> QED BY <1>0, RecoveredAlways
  <1>1. <<>> \in P
    BY <1>4
  <1>2. ASSUME NEW s \in C, NEW x \in CallIds, s \in P PROVE Append(s, x) \in P
    <2>1. SUFFICES ASSUME \A c \in ToSet(Append(s, x)) : Owned(h, c) /\ ~Owned(q, c)
                   PROVE Recovered(h \o q, Append(s, x)) = Recovered(h, Append(s, x)) \o q
      OBVIOUS
    <2>2. ToSet(Append(s, x)) = ToSet(s) \cup {x}
      BY Elements
    <2>3. Recovered(h \o q, s) = Recovered(h, s) \o q
      BY <1>2, <2>1, <2>2
    <2>4. Recovered(h, s) \in Seq(Messages) /\ Owned(Recovered(h, s), x) /\ ~Owned(q, x)
      BY <2>1, <2>2, RecoveredAlways
    <2>5. InsertResult(Recovered(h, s) \o q, x) = InsertResult(Recovered(h, s), x) \o q
      BY <2>4, InsertInFront
    <2>6. Recovered(h \o q, Append(s, x)) = InsertResult(Recovered(h \o q, s), x)
      BY <1>4
    <2>7. Recovered(h, Append(s, x)) = InsertResult(Recovered(h, s), x)
      BY RecoveredAlways
    <2> QED BY <2>3, <2>5, <2>6, <2>7
  <1>3. C \subseteq P
    <2> HIDE DEF P
    <2> QED BY <1>1, <1>2, SeqInduct
  <1> QED BY <1>3

\* Recovering two groups of calls, one after the other.
LEMMA RecoveredTwice ==
  ASSUME NEW h \in Seq(Messages), NEW a \in Seq(CallIds), NEW b \in Seq(CallIds)
  PROVE Recovered(h, a \o b) = Recovered(Recovered(h, a), b)
  <1> DEFINE C == Seq(CallIds)
             P == {s \in C : Recovered(h, a \o s) = Recovered(Recovered(h, a), s)}
  <1>0. Recovered(h, a) \in Seq(Messages)
    BY RecoveredAlways
  <1>1. <<>> \in P
    BY <1>0, RecoveredAlways
  <1>2. ASSUME NEW s \in C, NEW x \in CallIds, s \in P PROVE Append(s, x) \in P
    <2>1. a \o Append(s, x) = Append(a \o s, x) /\ a \o s \in C /\ Append(s, x) \in C
      OBVIOUS
    <2>2. Recovered(h, Append(a \o s, x)) = InsertResult(Recovered(h, a \o s), x)
      BY <2>1, RecoveredAlways
    <2>3. Recovered(Recovered(h, a), Append(s, x)) = InsertResult(Recovered(Recovered(h, a), s), x)
      BY <1>0, RecoveredAlways
    <2>4. Recovered(h, a \o s) = Recovered(Recovered(h, a), s)
      BY <1>2
    <2> QED BY <2>1, <2>2, <2>3, <2>4
  <1>3. C \subseteq P
    <2> HIDE DEF P
    <2> QED BY <1>1, <1>2, SeqInduct
  <1> QED BY <1>3

\* What is said behind a log is said behind its history.
LEMMA RebuildAlways ==
  ASSUME NEW l \in Seq(Entries)
  PROVE /\ Rebuild(l) \in Seq(Messages)
        /\ \A q \in Seq(Said) : Rebuild(l \o q) = Rebuild(l) \o q
  <1>1. Rebuild(l) \in Seq(Messages)
    BY RebuildGrows
  <1> DEFINE P == {q \in Seq(Said) : Rebuild(l \o q) = Rebuild(l) \o q}
  <1>2. <<>> \in P
    BY <1>1
  <1>3. ASSUME NEW q \in Seq(Said), NEW x \in Said, q \in P PROVE Append(q, x) \in P
    <2>1. /\ l \o Append(q, x) = Append(l \o q, x) /\ l \o q \in Seq(Entries) /\ Append(q, x) \in Seq(Said)
          /\ x \in Entries /\ q \in Seq(Messages)
      BY DEF Entries, Messages
    <2>2. Rebuild(Append(l \o q, x)) = Replay(Rebuild(l \o q), x)
      BY <2>1, RebuildGrows
    <2>3. Replay(Rebuild(l \o q), x) = Append(Rebuild(l \o q), x)
      BY SaidIs DEF Replay
    <2>4. Rebuild(l \o q) = Rebuild(l) \o q /\ Append(Rebuild(l) \o q, x) = Rebuild(l) \o Append(q, x)
      <3>1. Append(Rebuild(l) \o q, x) = Rebuild(l) \o Append(q, x)
        <4>1. x \in Messages
          BY DEF Messages
        <4> DEFINE b == Rebuild(l)
        <4> HIDE DEF b
        <4>2. b \in Seq(Messages) /\ q \in Seq(Messages)
          BY <1>1, <2>1 DEF b
        <4>3. Append(b \o q, x) = b \o Append(q, x)
          BY <4>1, <4>2
        <4> QED BY <4>3 DEF b
      <3> QED BY <1>3, <3>1
    <2> QED BY <2>1, <2>2, <2>3, <2>4
  <1>4. Seq(Said) \subseteq P
    <2> HIDE DEF P
    <2> QED BY <1>2, <1>3, SeqInduct
  <1> QED BY <1>1, <1>4

\* What is in a rebuilt history, but for the summary, is in the log.
LEMMA RebuiltFrom ==
  \A l \in Seq(Entries) : ToSet(Rebuild(l)) \subseteq ToSet(l) \cup Summaries
  <1> DEFINE P == {l \in Seq(Entries) : ToSet(Rebuild(l)) \subseteq ToSet(l) \cup Summaries}
  <1>1. <<>> \in P
    BY RebuildGrows, Elements
  <1>2. ASSUME NEW l \in Seq(Entries), NEW x \in Entries, l \in P PROVE Append(l, x) \in P
    <2>1. Rebuild(l) \in Seq(Messages) /\ Rebuild(Append(l, x)) = Replay(Rebuild(l), x)
      BY RebuildGrows
    <2>2. ToSet(Append(l, x)) = ToSet(l) \cup {x} /\ Append(l, x) \in Seq(Entries)
      BY Elements
    <2>3. ToSet(Rebuild(l)) \subseteq ToSet(l) \cup Summaries
      BY <1>2
    <2>4. CASE x \in Said
      <3>1. Replay(Rebuild(l), x) = Append(Rebuild(l), x) /\ x \in Messages
        BY <2>4, SaidIs DEF Replay, Messages
      <3>2. ToSet(Append(Rebuild(l), x)) = ToSet(Rebuild(l)) \cup {x}
        BY <2>1, <3>1, Elements
      <3> QED BY <2>1, <2>2, <2>3, <3>1, <3>2
    <2>5. CASE x \in Compactions
      <3>1. x[1] = "compaction" /\ x[2] \in SUBSET Said /\ x[3] \in Nat
        BY <2>5, OtherIs
      <3> DEFINE h == Rebuild(l)
                 cut == IF x[3] >= Len(h) THEN 1 ELSE Len(h) - x[3] + 1
                 p == PastResults(h, cut)
      <3>2. Replay(h, x) = <<Summary(x[2])>> \o SubSeq(h, p, Len(h))
        BY <3>1 DEF Replay, ApplySummary, Snap
      <3> HIDE DEF h
      <3>3. cut \in 1..(Len(h) + 1) /\ Len(h) \in Nat
        BY <2>1, <3>1 DEF h
      <3> HIDE DEF cut
      <3>4. p \in cut..(Len(h) + 1)
        BY <3>3, PastResultsIs
      <3>5. SubSeq(h, p, Len(h)) \in Seq(Messages) /\ ToSet(SubSeq(h, p, Len(h))) \subseteq ToSet(h)
        <4> HIDE DEF p
        <4>1. /\ DOMAIN SubSeq(h, p, Len(h)) = 1..(Len(h) - p + 1)
              /\ \A i \in 1..(Len(h) - p + 1) : SubSeq(h, p, Len(h))[i] = h[p + i - 1]
                                               /\ p + i - 1 \in DOMAIN h
          BY <2>1, <3>3, <3>4 DEF h
        <4>2. SubSeq(h, p, Len(h)) \in Seq(Messages)
          BY <2>1, <3>3, <3>4 DEF h
        <4> QED BY <4>1, <4>2 DEF ToSet
      <3>6. Summary(x[2]) \in Summaries /\ <<Summary(x[2])>> \in Seq(Messages)
        BY <3>1, Spoken DEF Messages
      <3>7. ToSet(<<Summary(x[2])>> \o SubSeq(h, p, Len(h)))
              = {Summary(x[2])} \cup ToSet(SubSeq(h, p, Len(h)))
        <4> DEFINE z == SubSeq(h, p, Len(h))
                   e == Summary(x[2])
        <4> HIDE DEF z, e
        <4>1. z \in Seq(Messages) /\ <<e>> \in Seq(Messages) /\ ToSet(<<e>>) = {e}
          BY <3>5, <3>6 DEF z, e, ToSet
        <4>2. ToSet(<<e>> \o z) = {e} \cup ToSet(z)
          <5> DEFINE w == <<e>>
          <5> HIDE DEF w
          <5>1. w \in Seq(Messages) /\ ToSet(w) = {e}
            BY <4>1 DEF w
          <5>2. ToSet(w \o z) = {e} \cup ToSet(z)
            BY <4>1, <5>1, ConcatElements
          <5> QED BY <5>2 DEF w
        <4> QED BY <4>2 DEF z, e
      <3> QED BY <2>1, <2>2, <2>3, <3>2, <3>5, <3>6, <3>7 DEF h
    <2> QED BY <2>4, <2>5 DEF Entries
  <1>3. Seq(Entries) \subseteq P
    <2> HIDE DEF P
    <2> QED BY <1>1, <1>2, SeqInduct
  <1> QED BY <1>3

-----------------------------------------------------------------------------
(* Complete histories: every batch is followed by its results, in order.   *)

Distinct(cs) == cs \in Seq(CallIds) /\ \A i, j \in DOMAIN cs : cs[i] = cs[j] => i = j
Unowned(h, cs) == \A c \in ToSet(cs) : ~Owned(h, c)
Complete(h) ==
  /\ \A i \in DOMAIN h : h[i][1] = "calls" =>
       /\ i + Len(h[i][2]) <= Len(h)
       /\ \A j \in 1..Len(h[i][2]) : h[i + j] = Result(h[i][2][j])
  /\ \A i \in DOMAIN h : h[i][1] = "tool" =>
       \E j \in 1..(i - 1) : h[j][1] = "calls" /\ i - j <= Len(h[j][2])

\* Two sequences together, element by element.
LEMMA ConcatIs ==
  ASSUME NEW X, NEW s \in Seq(X), NEW u \in Seq(X)
  PROVE /\ s \o u \in Seq(X) /\ Len(s \o u) = Len(s) + Len(u) /\ Len(s) \in Nat /\ Len(u) \in Nat
        /\ DOMAIN (s \o u) = 1..(Len(s) + Len(u)) /\ DOMAIN s = 1..Len(s) /\ DOMAIN u = 1..Len(u)
        /\ \A i \in 1..Len(s) : (s \o u)[i] = s[i]
        /\ \A i \in 1..Len(u) : (s \o u)[Len(s) + i] = u[i]
  OBVIOUS

\* Sequences with the same elements in the same places are equal.
LEMMA SeqSame ==
  ASSUME NEW X, NEW s \in Seq(X), NEW u \in Seq(X), Len(s) = Len(u),
         \A i \in 1..Len(s) : s[i] = u[i]
  PROVE s = u
  OBVIOUS

\* A sequence cut behind its k-th element.
LEMMA TwoParts ==
  ASSUME NEW X, NEW s \in Seq(X), NEW k \in 0..Len(s)
  PROVE /\ SubSeq(s, 1, k) \o SubSeq(s, k + 1, Len(s)) = s
        /\ SubSeq(s, 1, k) \in Seq(X) /\ Len(SubSeq(s, 1, k)) = k
        /\ SubSeq(s, k + 1, Len(s)) \in Seq(X) /\ Len(SubSeq(s, k + 1, Len(s))) = Len(s) - k
        /\ \A i \in 1..k : SubSeq(s, 1, k)[i] = s[i]
        /\ \A i \in 1..(Len(s) - k) : SubSeq(s, k + 1, Len(s))[i] = s[k + i]
  <1>1. SubSeq(s, 1, k) \o SubSeq(s, k + 1, Len(s)) = SubSeq(s, 1, Len(s))
    <2>1. 1 \in 1..(Len(s) + 1) /\ k \in (1 - 1)..Len(s) /\ Len(s) \in k..Len(s)
      OBVIOUS
    <2> QED BY <2>1, ConcatAdjacentSubSeq
  <1>2. SubSeq(s, 1, Len(s)) = s
    OBVIOUS
  <1>3. /\ SubSeq(s, 1, k) \in Seq(X) /\ Len(SubSeq(s, 1, k)) = k
        /\ \A i \in 1..k : SubSeq(s, 1, k)[i] = s[i]
    OBVIOUS
  <1>4. /\ SubSeq(s, k + 1, Len(s)) \in Seq(X) /\ Len(SubSeq(s, k + 1, Len(s))) = Len(s) - k
        /\ \A i \in 1..(Len(s) - k) : SubSeq(s, k + 1, Len(s))[i] = s[k + i]
    OBVIOUS
  <1> QED BY <1>1, <1>2, <1>3, <1>4

\* A batch of calls with its first k results, message by message.
LEMMA BatchIs ==
  ASSUME NEW cs \in Seq(CallIds), NEW k \in 0..Len(cs)
  PROVE /\ Batch(cs, k) \in Seq(Said) /\ Len(Batch(cs, k)) = k + 1
        /\ Batch(cs, k)[1] = CallsOf(cs) /\ Batch(cs, k) # <<>>
        /\ \A i \in 1..k : Batch(cs, k)[i + 1] = Result(cs[i])
        /\ \A x : x \in ToSet(Batch(cs, k)) <=> x = CallsOf(cs) \/ \E i \in 1..k : x = Result(cs[i])
        /\ \A c : Owned(Batch(cs, k), c) <=> c \in ToSet(cs)
  <1> DEFINE r == Results(cs, k)
             s == <<CallsOf(cs)>>
  <1>1. /\ r \in Seq(Said) /\ Len(r) = k /\ \A i \in 1..k : r[i] = Result(cs[i])
    <2>1. \A i \in 1..k : Result(cs[i]) \in Said
      BY Spoken
    <2> QED BY <2>1 DEF Results
  <1>2. s \in Seq(Said) /\ Len(s) = 1 /\ s[1] = CallsOf(cs)
    BY Spoken
  <1>3. Batch(cs, k) = s \o r
    BY DEF Batch
  <1> HIDE DEF r, s
  <1>4. /\ s \o r \in Seq(Said) /\ Len(s \o r) = k + 1 /\ DOMAIN (s \o r) = 1..(k + 1)
        /\ (s \o r)[1] = CallsOf(cs)
        /\ \A i \in 1..k : (s \o r)[1 + i] = Result(cs[i])
    <2>1. /\ s \o r \in Seq(Said) /\ Len(s \o r) = Len(s) + Len(r)
          /\ DOMAIN (s \o r) = 1..(Len(s) + Len(r))
          /\ \A i \in 1..Len(s) : (s \o r)[i] = s[i]
          /\ \A i \in 1..Len(r) : (s \o r)[Len(s) + i] = r[i]
      <3>1. s \in Seq(Said) /\ r \in Seq(Said)
        BY <1>1, <1>2
      <3> QED BY <3>1, ConcatIs
    <2>2. Len(s) + Len(r) = k + 1 /\ 1 \in 1..Len(s)
      BY <1>1, <1>2
    <2> QED BY <1>1, <1>2, <2>1, <2>2
  <1>5. \A i \in 1..k : (s \o r)[i + 1] = Result(cs[i])
    BY <1>4
  <1>6. \A x : x \in ToSet(s \o r) <=> x = CallsOf(cs) \/ \E i \in 1..k : x = Result(cs[i])
    <2>1. ASSUME NEW x, x \in ToSet(s \o r) PROVE x = CallsOf(cs) \/ \E i \in 1..k : x = Result(cs[i])
      <3>1. PICK j \in 1..(k + 1) : x = (s \o r)[j]
        BY <1>4, <2>1 DEF ToSet
      <3>2. CASE j = 1
        BY <1>4, <3>1, <3>2
      <3>3. CASE j # 1
        <4>1. j - 1 \in 1..k /\ j = (j - 1) + 1
          BY <3>3
        <4> QED BY <1>5, <3>1, <4>1
      <3> QED BY <3>2, <3>3
    <2>2. CallsOf(cs) \in ToSet(s \o r)
      <3>1. 1 \in 1..(k + 1)
        OBVIOUS
      <3> QED BY <1>4, <3>1 DEF ToSet
    <2>3. ASSUME NEW i \in 1..k PROVE Result(cs[i]) \in ToSet(s \o r)
      <3>1. i + 1 \in 1..(k + 1)
        OBVIOUS
      <3> QED BY <1>4, <1>5, <3>1 DEF ToSet
    <2> QED BY <2>1, <2>2, <2>3
  <1>7. \A c : Owned(s \o r, c) <=> c \in ToSet(cs)
    BY <1>6, Shapes DEF Owned
  <1>8. s \o r # <<>>
    BY <1>4
  <1> QED BY <1>3, <1>4, <1>5, <1>6, <1>7, <1>8

\* The calls behind the first k.
LEMMA RestIs ==
  ASSUME NEW cs \in Seq(CallIds), NEW k \in 0..Len(cs)
  PROVE /\ Rest(cs, k) \in Seq(CallIds) /\ Len(Rest(cs, k)) = Len(cs) - k
        /\ \A i \in 1..(Len(cs) - k) : Rest(cs, k)[i] = cs[k + i]
        /\ Rest(cs, 0) = cs /\ (Rest(cs, k) = <<>> <=> k = Len(cs))
        /\ k < Len(cs) => /\ Head(Rest(cs, k)) = cs[k + 1] /\ Tail(Rest(cs, k)) = Rest(cs, k + 1)
                          /\ cs[k + 1] \in CallIds
  <1>0. Len(cs) \in Nat /\ k \in Nat /\ k <= Len(cs) /\ \A i \in 1..Len(cs) : cs[i] \in CallIds
    OBVIOUS
  <1>1. /\ Rest(cs, k) \in Seq(CallIds) /\ Len(Rest(cs, k)) = Len(cs) - k
        /\ \A i \in 1..(Len(cs) - k) : Rest(cs, k)[i] = cs[k + i]
    BY <1>0 DEF Rest
  <1>2. Rest(cs, 0) = cs
    BY DEF Rest
  <1>3. Rest(cs, k) = <<>> <=> k = Len(cs)
    BY <1>0, <1>1
  <1>4. ASSUME k < Len(cs)
        PROVE /\ Head(Rest(cs, k)) = cs[k + 1] /\ Tail(Rest(cs, k)) = Rest(cs, k + 1)
              /\ cs[k + 1] \in CallIds
    <2>1. Head(Rest(cs, k)) = cs[k + 1] /\ cs[k + 1] \in CallIds
      BY <1>0, <1>1, <1>4
    <2> DEFINE t == Tail(Rest(cs, k))
               v == Rest(cs, k + 1)
    <2>2. v \in Seq(CallIds) /\ Len(v) = Len(cs) - k - 1 /\ \A i \in 1..(Len(cs) - k - 1) : v[i] = cs[k + 1 + i]
      BY <1>0, <1>4 DEF Rest
    <2>3. /\ t \in Seq(CallIds) /\ Len(t) = Len(cs) - k - 1
          /\ \A i \in 1..(Len(cs) - k - 1) : t[i] = Rest(cs, k)[i + 1]
      <3> HIDE DEF Rest
      <3>1. Rest(cs, k) # <<>>
        BY <1>0, <1>1, <1>4
      <3> QED BY <1>0, <1>1, <1>4, <3>1
    <2>4. \A i \in 1..(Len(cs) - k - 1) : Rest(cs, k)[i + 1] = cs[k + 1 + i]
      <3>1. \A i \in 1..(Len(cs) - k - 1) : i + 1 \in 1..(Len(cs) - k) /\ k + (i + 1) = k + 1 + i
        BY <1>0, <1>4
      <3> QED BY <1>1, <3>1
    <2> HIDE DEF t, v
    <2>5. t = v
      <3>1. t \in Seq(CallIds) /\ v \in Seq(CallIds) /\ Len(t) = Len(v)
        BY <2>2, <2>3
      <3>2. \A i \in 1..Len(t) : t[i] = v[i]
        BY <2>2, <2>3, <2>4
      <3> QED BY <3>1, <3>2, SeqSame
    <2> QED BY <2>1, <2>5 DEF t, v
  <1> QED BY <1>1, <1>2, <1>3, <1>4

\* A batch with one more result, and with all that are left.
LEMMA BatchGrows ==
  ASSUME NEW cs \in Seq(CallIds), NEW k \in 0..Len(cs)
  PROVE /\ k < Len(cs) => Batch(cs, k) \o <<Result(cs[k + 1])>> = Batch(cs, k + 1)
        /\ Batch(cs, k) \o [i \in DOMAIN Rest(cs, k) |-> Result(Rest(cs, k)[i])] = Batch(cs, Len(cs))
  <1>1. ASSUME k < Len(cs) PROVE Batch(cs, k) \o <<Result(cs[k + 1])>> = Batch(cs, k + 1)
    <2>1. k + 1 \in 0..Len(cs) /\ Result(cs[k + 1]) \in Said
      BY <1>1, Spoken
    <2> DEFINE b == Batch(cs, k)
               d == Batch(cs, k + 1)
               x == Result(cs[k + 1])
    <2>2. /\ b \in Seq(Said) /\ Len(b) = k + 1 /\ b[1] = CallsOf(cs)
          /\ \A i \in 1..k : b[i + 1] = Result(cs[i])
      BY BatchIs
    <2>3. /\ d \in Seq(Said) /\ Len(d) = k + 2 /\ d[1] = CallsOf(cs)
          /\ \A i \in 1..(k + 1) : d[i + 1] = Result(cs[i])
      <3>1. Len(d) = (k + 1) + 1
        BY <2>1, BatchIs
      <3> QED BY <2>1, <3>1, BatchIs
    <2> HIDE DEF b, d
    <2>4. \A j \in 1..(k + 2) : Append(b, x)[j] = d[j]
      <3>1. ASSUME NEW j \in 1..(k + 2) PROVE Append(b, x)[j] = d[j]
        <4>1. CASE j = 1
          BY <2>2, <2>3, <4>1
        <4>2. CASE j \in 2..(k + 1)
          <5>1. j - 1 \in 1..k /\ j = (j - 1) + 1 /\ j - 1 \in 1..(k + 1)
            BY <4>2
          <5>2. Append(b, x)[j] = b[j]
            BY <2>2, <4>2
          <5>3. b[(j - 1) + 1] = Result(cs[j - 1]) /\ d[(j - 1) + 1] = Result(cs[j - 1])
            BY <2>2, <2>3, <5>1
          <5> QED BY <5>1, <5>2, <5>3
        <4>3. CASE j = k + 2
          <5>1. Append(b, x)[j] = x
            BY <2>2, <4>3
          <5>2. k + 1 \in 1..(k + 1) /\ j = (k + 1) + 1
            BY <4>3
          <5> QED BY <2>3, <5>1, <5>2
        <4>4. j = 1 \/ j \in 2..(k + 1) \/ j = k + 2
          <5>1. k \in Nat
            OBVIOUS
          <5> QED BY <5>1
        <4> QED BY <4>1, <4>2, <4>3, <4>4
      <3> QED BY <3>1
    <2>5. Append(b, x) \in Seq(Said) /\ Len(Append(b, x)) = k + 2
      BY <2>1, <2>2
    <2>6. Append(b, x) = d
      BY <2>3, <2>4, <2>5
    <2>7. b \o <<x>> = Append(b, x)
      BY <2>1, <2>2
    <2> QED BY <2>6, <2>7 DEF b, d
  <1>2. Batch(cs, k) \o [i \in DOMAIN Rest(cs, k) |-> Result(Rest(cs, k)[i])] = Batch(cs, Len(cs))
    <2> DEFINE b == Batch(cs, k)
               d == Batch(cs, Len(cs))
               t == [i \in DOMAIN Rest(cs, k) |-> Result(Rest(cs, k)[i])]
    <2>1. /\ b \in Seq(Said) /\ Len(b) = k + 1 /\ b[1] = CallsOf(cs)
          /\ \A i \in 1..k : b[i + 1] = Result(cs[i])
      BY BatchIs
    <2>2. /\ d \in Seq(Said) /\ Len(d) = Len(cs) + 1 /\ d[1] = CallsOf(cs)
          /\ \A i \in 1..Len(cs) : d[i + 1] = Result(cs[i])
      <3>1. Len(cs) \in 0..Len(cs)
        OBVIOUS
      <3> QED BY <3>1, BatchIs
    <2>3. /\ t \in Seq(Said) /\ Len(t) = Len(cs) - k
          /\ \A i \in 1..(Len(cs) - k) : t[i] = Result(cs[k + i])
      <3>1. /\ Rest(cs, k) \in Seq(CallIds) /\ Len(Rest(cs, k)) = Len(cs) - k
            /\ DOMAIN Rest(cs, k) = 1..(Len(cs) - k)
            /\ \A i \in 1..(Len(cs) - k) : Rest(cs, k)[i] = cs[k + i]
        BY RestIs
      <3>2. \A i \in 1..(Len(cs) - k) : Result(cs[k + i]) \in Said
        BY Spoken
      <3>3. t = [i \in 1..(Len(cs) - k) |-> Result(cs[k + i])]
        BY <3>1
      <3>4. Len(cs) - k \in Nat
        OBVIOUS
      <3> HIDE DEF t
      <3> QED BY <3>2, <3>3, <3>4
    <2> HIDE DEF b, d, t
    <2>4. /\ b \o t \in Seq(Said) /\ Len(b \o t) = Len(cs) + 1
          /\ \A i \in 1..(k + 1) : (b \o t)[i] = b[i]
          /\ \A i \in 1..(Len(cs) - k) : (b \o t)[(k + 1) + i] = t[i]
      BY <2>1, <2>3, ConcatIs
    <2>5. \A j \in 1..(Len(cs) + 1) : (b \o t)[j] = d[j]
      <3>1. ASSUME NEW j \in 1..(Len(cs) + 1) PROVE (b \o t)[j] = d[j]
        <4>1. CASE j = 1
          <5>1. 1 \in 1..(k + 1)
            OBVIOUS
          <5> QED BY <2>1, <2>2, <2>4, <4>1, <5>1
        <4>2. CASE j \in 2..(k + 1)
          <5>1. j - 1 \in 1..k /\ j = (j - 1) + 1 /\ j - 1 \in 1..Len(cs) /\ j \in 1..(k + 1)
            BY <4>2
          <5>3. b[(j - 1) + 1] = Result(cs[j - 1]) /\ d[(j - 1) + 1] = Result(cs[j - 1])
            BY <2>1, <2>2, <5>1
          <5> QED BY <2>4, <5>1, <5>3
        <4>3. CASE j > k + 1
          <5> DEFINE i == j - (k + 1)
          <5>1. i \in 1..(Len(cs) - k) /\ j = (k + 1) + i /\ k + i \in 1..Len(cs) /\ j = (k + i) + 1
            BY <4>3
          <5> HIDE DEF i
          <5>2. (b \o t)[j] = Result(cs[k + i])
            BY <2>3, <2>4, <5>1
          <5>3. d[(k + i) + 1] = Result(cs[k + i])
            BY <2>2, <5>1
          <5> QED BY <5>1, <5>2, <5>3
        <4>4. j = 1 \/ j \in 2..(k + 1) \/ j > k + 1
          <5>1. k \in Nat
            OBVIOUS
          <5> QED BY <5>1
        <4> QED BY <4>1, <4>2, <4>3, <4>4
      <3> QED BY <3>1
    <2>6. b \o t = d
      <3> DEFINE w == b \o t
      <3> HIDE DEF w
      <3>1. w \in Seq(Said) /\ Len(w) = Len(cs) + 1 /\ \A j \in 1..(Len(cs) + 1) : w[j] = d[j]
        BY <2>4, <2>5 DEF w
      <3>2. w = d
        BY <2>2, <3>1
      <3> QED BY <3>2 DEF w
    <2> QED BY <2>6 DEF b, d, t
  <1> QED BY <1>1, <1>2

\* The calls of a batch that are left, by the results that are there.
LEMMA LeftRest ==
  ASSUME NEW cs, Distinct(cs), NEW k \in 0..Len(cs), NEW T,
         \A i \in DOMAIN cs : Result(cs[i]) \in T <=> i <= k
  PROVE Left(T, cs) = Rest(cs, k)
  <1>1. cs \in Seq(CallIds) /\ DOMAIN cs = 1..Len(cs) /\ Len(cs) \in Nat
    BY DEF Distinct
  <1> DEFINE a == SubSeq(cs, 1, k)
             z == Rest(cs, k)
  <1>2. a \in Seq(CallIds) /\ Len(a) = k /\ \A i \in 1..k : a[i] = cs[i] /\ i \in DOMAIN cs
    BY <1>1
  <1>3. /\ z \in Seq(CallIds) /\ Len(z) = Len(cs) - k
        /\ \A i \in 1..(Len(cs) - k) : z[i] = cs[k + i] /\ k + i \in DOMAIN cs
    <2>1. \A i \in 1..(Len(cs) - k) : k + i \in DOMAIN cs
      BY <1>1
    <2> QED BY <1>1, <2>1, RestIs
  <1>4. cs = a \o z
    <2>1. SubSeq(cs, 1, k) \o SubSeq(cs, k + 1, Len(cs)) = cs
      BY <1>1, TwoParts
    <2> QED BY <2>1 DEF Rest
  <1> HIDE DEF a, z
  <1>5. Left(T, a) = <<>>
    <2>1. \A c \in ToSet(a) : Result(c) \in T
      BY <1>1, <1>2 DEF ToSet
    <2> QED BY <1>2, <2>1, LeftAlways
  <1>6. Left(T, z) = z
    <2>1. \A c \in ToSet(z) : Result(c) \notin T
      <3>1. \A i \in 1..(Len(cs) - k) : ~(k + i <= k)
        BY <1>1
      <3>2. \A i \in 1..(Len(cs) - k) : Result(z[i]) \notin T
        BY <1>3, <3>1
      <3>3. DOMAIN z = 1..(Len(cs) - k)
        BY <1>3
      <3> QED BY <3>2, <3>3 DEF ToSet
    <2> QED BY <1>3, <2>1, LeftAlways
  <1>7. Left(T, a \o z) = Left(T, a) \o Left(T, z)
    BY <1>2, <1>3, LeftAlways
  <1>8. Left(T, cs) = z
    BY <1>3, <1>4, <1>5, <1>6, <1>7
  <1> QED BY <1>8 DEF z

\* The next result of a batch that the history ends with.
LEMMA InsertAtEnd ==
  ASSUME NEW h \in Seq(Messages), NEW cs \in Seq(CallIds), NEW k \in 0..Len(cs), k < Len(cs)
  PROVE InsertResult(h \o Batch(cs, k), cs[k + 1]) = h \o Batch(cs, k + 1)
  <1> DEFINE b == Batch(cs, k)
             n == Len(h)
             u == h \o b
             c == cs[k + 1]
             Own == {i \in DOMAIN u : u[i][1] = "calls" /\ c \in ToSet(u[i][2])}
  <1>0. k \in Nat /\ n \in Nat /\ k + 1 \in 1..Len(cs) /\ c \in CallIds
    OBVIOUS
  <1>1. /\ b \in Seq(Said) /\ b \in Seq(Messages) /\ Len(b) = k + 1 /\ b[1] = CallsOf(cs)
        /\ \A i \in 1..k : b[i + 1] = Result(cs[i])
    <2>1. Seq(Said) \subseteq Seq(Messages)
      BY DEF Messages
    <2> HIDE DEF b
    <2>2. b \in Seq(Said) /\ Len(b) = k + 1 /\ b[1] = CallsOf(cs) /\ \A i \in 1..k : b[i + 1] = Result(cs[i])
      BY BatchIs DEF b
    <2> QED BY <2>1, <2>2
  <1> HIDE DEF b
  <1>2. /\ u \in Seq(Messages) /\ Len(u) = n + k + 1 /\ DOMAIN u = 1..(n + k + 1)
        /\ \A i \in 1..(k + 1) : u[n + i] = b[i]
    <2> HIDE DEF u
    <2>1. /\ u \in Seq(Messages) /\ Len(u) = Len(h) + Len(b) /\ DOMAIN u = 1..(Len(h) + Len(b))
          /\ \A i \in 1..Len(b) : u[Len(h) + i] = b[i]
      <3>1. /\ h \o b \in Seq(Messages) /\ Len(h \o b) = Len(h) + Len(b)
            /\ DOMAIN (h \o b) = 1..(Len(h) + Len(b))
            /\ \A i \in 1..Len(b) : (h \o b)[Len(h) + i] = b[i]
        <4>1. b \in Seq(Messages)
          BY <1>1
        <4> QED BY <4>1, ConcatIs
      <3> QED BY <3>1 DEF u
    <2> QED BY <1>0, <1>1, <2>1
  <1> HIDE DEF u
  <1>3. u[n + 1] = CallsOf(cs)
    <2>1. 1 \in 1..(k + 1)
      BY <1>0
    <2> QED BY <1>1, <1>2, <2>1
  <1>4. \A j \in (n + 2)..(n + k + 1) : u[j][1] = "tool"
    <2>1. ASSUME NEW j \in (n + 2)..(n + k + 1) PROVE u[j][1] = "tool"
      <3>1. j - n - 1 \in 1..k /\ j = n + ((j - n - 1) + 1) /\ (j - n - 1) + 1 \in 1..(k + 1)
        BY <1>0
      <3>2. u[j] = Result(cs[j - n - 1])
        BY <1>1, <1>2, <3>1
      <3> QED BY <3>2, Shapes
    <2> QED BY <2>1
  <1>5. Own \in SUBSET (1..(n + k + 1)) /\ n + 1 \in Own
    <2>1. n + 1 \in 1..(n + k + 1)
      BY <1>0
    <2>2. c \in ToSet(cs)
      BY <1>0 DEF ToSet
    <2>3. u[n + 1][1] = "calls" /\ u[n + 1][2] = cs
      BY <1>3, Shapes
    <2> QED BY <1>2, <2>1, <2>2, <2>3
  <1>6. Max(Own) = n + 1
    <2>1. Max(Own) \in Own /\ \A y \in Own : y <= Max(Own)
      <3>1. n + k + 1 \in Nat
        BY <1>0
      <3> HIDE DEF Own
      <3> QED BY <1>5, <3>1, MaxOfIndices
    <2>2. Max(Own) \notin (n + 2)..(n + k + 1)
      BY <1>4, <2>1
    <2>3. Max(Own) \in 1..(n + k + 1) /\ n + 1 <= Max(Own)
      <3> HIDE DEF Own
      <3> QED BY <1>5, <2>1
    <2> HIDE DEF Own
    <2> QED BY <1>0, <2>2, <2>3
  <1>7. PastResults(u, n + 2) = Len(u) + 1
    <2>1. /\ Len(u) \in Nat /\ n + 2 \in 1..(Len(u) + 1) /\ Len(u) + 1 \in (n + 2)..(Len(u) + 1)
          /\ \A j \in (n + 2)..((Len(u) + 1) - 1) : u[j][1] = "tool"
      BY <1>0, <1>2, <1>4
    <2> QED BY <2>1, PastResultsFrom
  <1>8. InsertResult(u, c) = InsertAt(u, Len(u) + 1, Result(c))
    <2>1. InsertResult(u, c) = InsertAt(u, IF Own = {} THEN Len(u) + 1 ELSE PastResults(u, Max(Own) + 1), Result(c))
      BY DEF InsertResult
    <2>2. Own # {} /\ Max(Own) + 1 = n + 2
      BY <1>0, <1>5, <1>6
    <2> HIDE DEF Own
    <2> QED BY <1>7, <2>1, <2>2
  <1> DEFINE e == <<Result(c)>>
  <1>9. e \in Seq(Messages) /\ e \in Seq(Said)
    BY <1>0, Spoken DEF Messages
  <1>10. InsertAt(u, Len(u) + 1, Result(c)) = u \o e
    <2>1. InsertAt(u, Len(u) + 1, Result(c)) = SubSeq(u, 1, (Len(u) + 1) - 1) \o e \o SubSeq(u, Len(u) + 1, Len(u))
      BY DEF InsertAt
    <2>2. Len(u) \in Nat /\ (Len(u) + 1) - 1 = Len(u) /\ SubSeq(u, 1, Len(u)) = u
      BY <1>2
    <2>3. SubSeq(u, Len(u) + 1, Len(u)) = <<>>
      BY <1>2, <2>2
    <2> HIDE DEF e
    <2>4. (u \o e) \o <<>> = u \o e
      <3>1. u \o e \in Seq(Messages)
        BY <1>2, <1>9
      <3> QED BY <3>1
    <2> QED BY <2>1, <2>2, <2>3, <2>4
  <1> HIDE DEF e
  <1>11. (h \o b) \o e = h \o (b \o e)
    BY <1>1, <1>9
  <1>12. b \o e = Batch(cs, k + 1)
    <2>1. Batch(cs, k) \o <<Result(cs[k + 1])>> = Batch(cs, k + 1)
      BY BatchGrows
    <2> QED BY <2>1 DEF b, e
  <1> QED BY <1>8, <1>10, <1>11, <1>12 DEF u, b

\* One more element of a sequence.
LEMMA SubSeqMore ==
  ASSUME NEW X, NEW s \in Seq(X), NEW k \in 0..Len(s), NEW m \in k..Len(s), m < Len(s)
  PROVE SubSeq(s, k + 1, m + 1) = Append(SubSeq(s, k + 1, m), s[m + 1])
  <1>0. Len(s) \in Nat /\ k \in Nat /\ m \in Nat /\ k <= m /\ m + 1 <= Len(s) /\ s[m + 1] \in X
    OBVIOUS
  <1> DEFINE a == SubSeq(s, k + 1, m)
             z == SubSeq(s, k + 1, m + 1)
  <1>1. a \in Seq(X) /\ Len(a) = m - k /\ \A i \in 1..(m - k) : a[i] = s[k + i]
    BY <1>0
  <1>2. z \in Seq(X) /\ Len(z) = m - k + 1 /\ \A i \in 1..(m - k + 1) : z[i] = s[k + i]
    BY <1>0
  <1> HIDE DEF a, z
  <1>3. Append(a, s[m + 1]) \in Seq(X) /\ Len(Append(a, s[m + 1])) = m - k + 1
    BY <1>0, <1>1
  <1>4. \A i \in 1..(m - k + 1) : Append(a, s[m + 1])[i] = z[i]
    <2>1. ASSUME NEW i \in 1..(m - k + 1) PROVE Append(a, s[m + 1])[i] = z[i]
      <3>1. CASE i = m - k + 1
        <4>1. Append(a, s[m + 1])[i] = s[m + 1] /\ k + i = m + 1
          BY <1>0, <1>1, <3>1
        <4> QED BY <1>2, <4>1
      <3>2. CASE i # m - k + 1
        <4>1. i \in 1..(m - k)
          BY <1>0, <3>2
        <4>2. Append(a, s[m + 1])[i] = a[i]
          BY <1>1, <4>1
        <4> QED BY <1>1, <1>2, <4>1, <4>2
      <3> QED BY <3>1, <3>2
    <2> QED BY <2>1
  <1> DEFINE y == Append(a, s[m + 1])
  <1> HIDE DEF y
  <1>5. y \in Seq(X) /\ Len(y) = Len(z) /\ \A i \in 1..Len(y) : y[i] = z[i]
    BY <1>2, <1>3, <1>4 DEF y
  <1>6. y = z
    BY <1>2, <1>5, SeqSame
  <1> QED BY <1>6 DEF y, a, z

\* Recovering what is left of the batch at the end of a history completes it.
LEMMA RecoverBatch ==
  ASSUME NEW h \in Seq(Messages), NEW cs \in Seq(CallIds), NEW k \in 0..Len(cs)
  PROVE Recovered(h \o Batch(cs, k), Rest(cs, k)) = h \o Batch(cs, Len(cs))
  <1> DEFINE u == h \o Batch(cs, k)
             T == {j \in Nat : k + j <= Len(cs) =>
                     Recovered(u, SubSeq(cs, k + 1, k + j)) = h \o Batch(cs, k + j)}
  <1>0. k \in Nat /\ Len(cs) \in Nat /\ u \in Seq(Messages)
    <2>1. Batch(cs, k) \in Seq(Said) /\ Seq(Said) \subseteq Seq(Messages)
      BY BatchIs DEF Messages
    <2> QED BY <2>1
  <1> HIDE DEF u
  <1>1. 0 \in T
    <2>1. SubSeq(cs, k + 1, k + 0) = <<>> /\ k + 0 = k
      BY <1>0
    <2>2. Recovered(u, <<>>) = u
      BY <1>0, RecoveredAlways
    <2> QED BY <2>1, <2>2 DEF u
  <1>2. ASSUME NEW j \in T PROVE j + 1 \in T
    <2>1. SUFFICES ASSUME k + (j + 1) <= Len(cs)
                   PROVE Recovered(u, SubSeq(cs, k + 1, k + (j + 1))) = h \o Batch(cs, k + (j + 1))
      OBVIOUS
    <2>2. Recovered(u, SubSeq(cs, k + 1, k + j)) = h \o Batch(cs, k + j)
      BY <1>0, <2>1
    <2> DEFINE m == k + j
    <2>3. m \in 0..Len(cs) /\ m < Len(cs) /\ k + (j + 1) = m + 1 /\ m + 1 \in 1..Len(cs) /\ k + 1 \in 1..(m + 1)
      BY <1>0, <2>1
    <2> HIDE DEF m
    <2> DEFINE s == SubSeq(cs, k + 1, m)
    <2>4. s \in Seq(CallIds) /\ cs[m + 1] \in CallIds
      BY <1>0, <2>3
    <2>5. SubSeq(cs, k + 1, m + 1) = Append(s, cs[m + 1])
      BY <1>0, <2>3, SubSeqMore
    <2> HIDE DEF s
    <2>6. Recovered(u, Append(s, cs[m + 1])) = InsertResult(Recovered(u, s), cs[m + 1])
      BY <1>0, <2>4, RecoveredAlways
    <2>7. InsertResult(h \o Batch(cs, m), cs[m + 1]) = h \o Batch(cs, m + 1)
      BY <2>3, InsertAtEnd
    <2>8. Recovered(u, s) = h \o Batch(cs, m)
      BY <2>2 DEF s, m
    <2> QED BY <2>3, <2>5, <2>6, <2>7, <2>8
  <1>3. T = Nat
    <2> HIDE DEF T
    <2>1. T \subseteq Nat
      BY DEF T
    <2> QED BY <1>1, <1>2, <2>1, Induct
  <1>4. Len(cs) - k \in T
    <2> HIDE DEF T
    <2> QED BY <1>0, <1>3
  <1>6. k + (Len(cs) - k) = Len(cs) /\ k + (Len(cs) - k) <= Len(cs)
    BY <1>0
  <1>7. Recovered(u, SubSeq(cs, k + 1, k + (Len(cs) - k))) = h \o Batch(cs, k + (Len(cs) - k))
    BY <1>4, <1>6
  <1>5. Recovered(u, SubSeq(cs, k + 1, Len(cs))) = h \o Batch(cs, Len(cs))
    BY <1>6, <1>7
  <1> QED BY <1>5 DEF u, Rest

\* What a history has at a place.
LEMMA MessageIs ==
  ASSUME NEW h \in Seq(Messages), NEW i \in DOMAIN h
  PROVE /\ h[i] \in Messages /\ i \in 1..Len(h) /\ Len(h) \in Nat
        /\ h[i][1] = "calls" => h[i][2] \in Seq(CallIds) /\ Len(h[i][2]) \in Nat
                                /\ DOMAIN h[i][2] = 1..Len(h[i][2])
  <1>1. h[i] \in Messages /\ i \in 1..Len(h) /\ Len(h) \in Nat
    OBVIOUS
  <1>2. h[i][1] = "calls" => h[i][2] \in Seq(CallIds)
    BY <1>1, SaidIs, OtherIs DEF Messages
  <1>3. \A s \in Seq(CallIds) : Len(s) \in Nat /\ DOMAIN s = 1..Len(s)
    OBVIOUS
  <1> QED BY <1>1, <1>2, <1>3

\* A complete history is one that a provider accepts.
LEMMA CompleteFits ==
  ASSUME NEW h \in Seq(Messages), Complete(h)
  PROVE WellFormed(h)
  <1>1. ASSUME NEW i \in DOMAIN h, h[i][1] = "calls"
        PROVE LET n == Len(h[i][2])
              IN i + n <= Len(h) /\ {h[i + j] : j \in 1..n} = {Result(c) : c \in ToSet(h[i][2])}
    <2> DEFINE cs == h[i][2]
    <2>1. cs \in Seq(CallIds) /\ DOMAIN cs = 1..Len(cs)
      BY <1>1, MessageIs
    <2>2. i + Len(cs) <= Len(h) /\ \A j \in 1..Len(cs) : h[i + j] = Result(cs[j])
      BY <1>1 DEF Complete
    <2> HIDE DEF cs
    <2>3. {h[i + j] : j \in 1..Len(cs)} = {Result(c) : c \in ToSet(cs)}
      BY <2>1, <2>2 DEF ToSet
    <2> QED BY <2>2, <2>3 DEF cs
  <1>2. ASSUME NEW i \in DOMAIN h, h[i][1] = "tool"
        PROVE \E j \in 1..(i - 1) : h[j][1] = "calls" /\ h[i][2] \in ToSet(h[j][2])
    <2>1. PICK j \in 1..(i - 1) : h[j][1] = "calls" /\ i - j <= Len(h[j][2])
      BY <1>2 DEF Complete
    <2>2. i \in 1..Len(h) /\ Len(h) \in Nat /\ j \in 1..Len(h) /\ j \in DOMAIN h
      <3>1. DOMAIN h = 1..Len(h) /\ Len(h) \in Nat
        OBVIOUS
      <3> QED BY <3>1
    <2>3. Len(h[j][2]) \in Nat /\ DOMAIN h[j][2] = 1..Len(h[j][2])
      BY <2>1, <2>2, MessageIs
    <2>4. i - j \in 1..Len(h[j][2]) /\ j + (i - j) = i
      BY <2>1, <2>2, <2>3
    <2>5. h[j + (i - j)] = Result(h[j][2][i - j])
      BY <2>1, <2>2, <2>4 DEF Complete
    <2>6. h[i][2] = h[j][2][i - j]
      BY <2>4, <2>5, Shapes
    <2>7. h[i][2] \in ToSet(h[j][2])
      BY <2>3, <2>4, <2>6 DEF ToSet
    <2> QED BY <2>1, <2>7
  <1> QED BY <1>1, <1>2 DEF WellFormed

\* A complete history has no orphans.
LEMMA CompleteAnswers ==
  ASSUME NEW h \in Seq(Messages), Complete(h)
  PROVE /\ \A c : Owned(h, c) => Result(c) \in ToSet(h)
        /\ Orphans(h) = <<>>
  <1>1. ASSUME NEW c, Owned(h, c) PROVE Result(c) \in ToSet(h)
    <2>1. PICK i \in DOMAIN h : h[i][1] = "calls" /\ c \in ToSet(h[i][2])
      BY <1>1 DEF Owned, ToSet
    <2>2. h[i][2] \in Seq(CallIds) /\ Len(h[i][2]) \in Nat /\ DOMAIN h[i][2] = 1..Len(h[i][2])
          /\ i \in 1..Len(h) /\ Len(h) \in Nat
      BY <2>1, MessageIs
    <2>3. PICK j \in 1..Len(h[i][2]) : c = h[i][2][j]
      BY <2>1, <2>2 DEF ToSet
    <2>4. h[i + j] = Result(c) /\ i + Len(h[i][2]) <= Len(h)
      BY <2>1, <2>3 DEF Complete
    <2>5. i + j \in 1..Len(h) /\ DOMAIN h = 1..Len(h)
      BY <2>2, <2>3, <2>4
    <2> QED BY <2>4, <2>5 DEF ToSet
  <1>2. h \in Seq(Anything)
    <2>1. Seq(Messages) \subseteq Seq(Anything)
      BY DEF Messages, Anything
    <2> QED BY <2>1
  <1>3. Orphans(h) \in Seq(CallIds) /\ \A c : c \notin ToSet(Orphans(h))
    BY <1>1, <1>2, OrphansAre
  <1>4. \A s \in Seq(CallIds) : (\A c : c \notin ToSet(s)) => s = <<>>
    <2>1. ASSUME NEW s \in Seq(CallIds), s # <<>> PROVE s[1] \in ToSet(s)
      <3>1. 1 \in DOMAIN s
        BY <2>1
      <3> QED BY <3>1 DEF ToSet
    <2> QED BY <2>1
  <1> QED BY <1>1, <1>3, <1>4

\* Two complete histories make one.
LEMMA CompleteConcat ==
  ASSUME NEW h \in Seq(Messages), NEW q \in Seq(Messages), Complete(h), Complete(q)
  PROVE Complete(h \o q)
  <1> DEFINE u == h \o q
             n == Len(h)
             m == Len(q)
  <1>1. /\ u \in Seq(Messages) /\ n \in Nat /\ m \in Nat /\ Len(u) = n + m
        /\ DOMAIN u = 1..(n + m) /\ DOMAIN h = 1..n /\ DOMAIN q = 1..m
        /\ \A i \in 1..n : u[i] = h[i]
        /\ \A i \in 1..m : u[n + i] = q[i]
    BY ConcatIs
  <1> HIDE DEF u, n, m
  <1>2. ASSUME NEW i \in 1..(n + m) PROVE i \in 1..n \/ (i - n \in 1..m /\ i = n + (i - n))
    BY <1>1
  <1>3. ASSUME NEW i \in 1..(n + m), u[i][1] = "calls"
        PROVE /\ i + Len(u[i][2]) <= n + m
              /\ \A j \in 1..Len(u[i][2]) : u[i + j] = Result(u[i][2][j])
    <2>1. CASE i \in 1..n
      <3>1. u[i] = h[i] /\ i \in DOMAIN h
        BY <1>1, <2>1
      <3>2. Len(h[i][2]) \in Nat /\ i + Len(h[i][2]) <= n
        <4>1. Len(h[i][2]) \in Nat
          BY <1>3, <3>1, MessageIs
        <4>2. i + Len(h[i][2]) <= n
          BY <1>3, <3>1 DEF Complete, n
        <4> QED BY <4>1, <4>2
      <3>3. \A j \in 1..Len(h[i][2]) : h[i + j] = Result(h[i][2][j])
        BY <1>3, <3>1 DEF Complete
      <3>4. \A j \in 1..Len(h[i][2]) : i + j \in 1..n
        BY <1>1, <2>1, <3>2
      <3>5. i + Len(h[i][2]) <= n + m
        BY <1>1, <2>1, <3>2
      <3> QED BY <1>1, <3>1, <3>3, <3>4, <3>5
    <2>2. CASE i - n \in 1..m /\ i = n + (i - n)
      <3> DEFINE k == i - n
      <3>1. u[i] = q[k] /\ k \in DOMAIN q /\ k \in 1..m /\ i = n + k
        BY <1>1, <2>2
      <3> HIDE DEF k
      <3>2. Len(q[k][2]) \in Nat /\ k + Len(q[k][2]) <= m
        <4>1. Len(q[k][2]) \in Nat
          BY <1>3, <3>1, MessageIs
        <4>2. k + Len(q[k][2]) <= m
          BY <1>3, <3>1 DEF Complete, m
        <4> QED BY <4>1, <4>2
      <3>3. \A j \in 1..Len(q[k][2]) : q[k + j] = Result(q[k][2][j])
        BY <1>3, <3>1 DEF Complete
      <3>4. \A j \in 1..Len(q[k][2]) : k + j \in 1..m /\ i + j = n + (k + j)
        <4> DEFINE l == Len(q[k][2])
        <4>1. l \in Nat /\ k + l <= m /\ k \in 1..m /\ i = n + k /\ n \in Nat /\ m \in Nat
          BY <1>1, <3>1, <3>2
        <4> HIDE DEF l, n, m
        <4>2. \A j \in 1..l : k + j \in 1..m /\ i + j = n + (k + j)
          BY <4>1
        <4> QED BY <4>2 DEF l
      <3>5. i + Len(q[k][2]) <= n + m
        BY <1>1, <3>1, <3>2
      <3>6. \A j \in 1..Len(q[k][2]) : u[i + j] = q[k + j]
        BY <1>1, <3>4
      <3> QED BY <3>1, <3>3, <3>5, <3>6
    <2> QED BY <1>2, <2>1, <2>2
  <1>4. ASSUME NEW i \in 1..(n + m), u[i][1] = "tool"
        PROVE \E j \in 1..(i - 1) : u[j][1] = "calls" /\ i - j <= Len(u[j][2])
    <2>1. CASE i \in 1..n
      <3>1. u[i] = h[i] /\ i \in DOMAIN h
        BY <1>1, <2>1
      <3>2. PICK j \in 1..(i - 1) : h[j][1] = "calls" /\ i - j <= Len(h[j][2])
        BY <1>4, <3>1 DEF Complete
      <3>3. j \in 1..n
        BY <1>1, <2>1
      <3> QED BY <1>1, <3>2, <3>3
    <2>2. CASE i - n \in 1..m /\ i = n + (i - n)
      <3> DEFINE k == i - n
      <3>1. u[i] = q[k] /\ k \in DOMAIN q /\ k \in 1..m /\ i = n + k
        BY <1>1, <2>2
      <3> HIDE DEF k
      <3>2. PICK j \in 1..(k - 1) : q[j][1] = "calls" /\ k - j <= Len(q[j][2])
        BY <1>4, <3>1 DEF Complete
      <3>3. j \in 1..m /\ n + j \in 1..(i - 1) /\ i - (n + j) = k - j
        BY <1>1, <3>1
      <3>4. u[n + j] = q[j]
        BY <1>1, <3>3
      <3> QED BY <3>2, <3>3, <3>4
    <2> QED BY <1>2, <2>1, <2>2
  <1>5. Complete(u)
    BY <1>1, <1>3, <1>4 DEF Complete
  <1> QED BY <1>5 DEF u

\* A message of the user, a text or a summary is complete.
LEMMA CompleteSingle ==
  ASSUME NEW x, x[1] \notin {"calls", "tool"}
  PROVE Complete(<<x>>)
  <1> DEFINE s == <<x>>
  <1>1. DOMAIN s = {1} /\ s[1] = x
    OBVIOUS
  <1> HIDE DEF s
  <1>2. Complete(s)
    BY <1>1 DEF Complete
  <1> QED BY <1>2 DEF s

\* A batch with all its results is complete.
LEMMA CompleteBatch ==
  ASSUME NEW cs \in Seq(CallIds)
  PROVE Complete(Batch(cs, Len(cs)))
  <1> DEFINE b == Batch(cs, Len(cs))
             n == Len(cs)
  <1>1. /\ b \in Seq(Said) /\ n \in Nat /\ Len(b) = n + 1 /\ DOMAIN b = 1..(n + 1) /\ b[1] = CallsOf(cs)
        /\ \A i \in 1..n : b[i + 1] = Result(cs[i])
    <2>1. n \in Nat /\ n \in 0..Len(cs)
      OBVIOUS
    <2>2. /\ b \in Seq(Said) /\ Len(b) = n + 1 /\ b[1] = CallsOf(cs)
          /\ \A i \in 1..n : b[i + 1] = Result(cs[i])
      BY <2>1, BatchIs
    <2> HIDE DEF b
    <2> QED BY <2>1, <2>2
  <1> HIDE DEF b
  <1>2. b[1][1] = "calls" /\ b[1][2] = cs
    BY <1>1, Shapes
  <1>3. \A i \in 2..(n + 1) : b[i][1] = "tool" /\ i - 1 \in 1..n
    <2>1. ASSUME NEW i \in 2..(n + 1) PROVE b[i][1] = "tool" /\ i - 1 \in 1..n
      <3>1. i - 1 \in 1..n /\ i = (i - 1) + 1
        BY <1>1
      <3>2. b[(i - 1) + 1] = Result(cs[i - 1])
        BY <1>1, <3>1
      <3> QED BY <3>1, <3>2, Shapes
    <2> QED BY <2>1
  <1>4. ASSUME NEW i \in DOMAIN b, b[i][1] = "calls"
        PROVE i + Len(b[i][2]) <= Len(b) /\ \A j \in 1..Len(b[i][2]) : b[i + j] = Result(b[i][2][j])
    <2>1. i = 1
      <3>1. i \notin 2..(n + 1)
        BY <1>3, <1>4
      <3> QED BY <1>1, <3>1
    <2>2. \A j \in 1..n : b[1 + j] = Result(cs[j])
      BY <1>1
    <2> QED BY <1>1, <1>2, <2>1, <2>2
  <1>5. ASSUME NEW i \in DOMAIN b, b[i][1] = "tool"
        PROVE \E j \in 1..(i - 1) : b[j][1] = "calls" /\ i - j <= Len(b[j][2])
    <2>1. i \in 2..(n + 1)
      <3>1. i # 1
        BY <1>2, <1>5
      <3> QED BY <1>1, <3>1
    <2>2. 1 \in 1..(i - 1) /\ i - 1 <= n
      BY <1>1, <2>1
    <2> QED BY <1>2, <2>2
  <1>6. Complete(b)
    BY <1>4, <1>5 DEF Complete
  <1> QED BY <1>6 DEF b

\* A place j behind p, counted from p.
LEMMA CountedFrom ==
  ASSUME NEW n \in Nat, NEW p \in 1..n, NEW i \in 1..(n - p + 1), NEW j \in 1..(p - 1 + i - 1), j # p, ~(j < p)
  PROVE /\ j - p + 1 \in 1..(i - 1) /\ j - p + 1 \in 1..(n - p + 1) /\ p - 1 + (j - p + 1) = j
        /\ i - (j - p + 1) = (p - 1 + i) - j
  OBVIOUS

\* A complete history is complete from a message of the user on.
LEMMA CompleteSuffix ==
  ASSUME NEW h \in Seq(Messages), Complete(h), NEW p \in DOMAIN h, h[p][1] = "user"
  PROVE Complete(SubSeq(h, p, Len(h)))
  <1> DEFINE z == SubSeq(h, p, Len(h))
             m == Len(h) - p + 1
  <1>1. /\ Len(h) \in Nat /\ DOMAIN h = 1..Len(h) /\ p \in 1..Len(h) /\ m \in Nat
        /\ z \in Seq(Messages) /\ Len(z) = m /\ DOMAIN z = 1..m
        /\ \A i \in 1..m : z[i] = h[p - 1 + i] /\ p - 1 + i \in DOMAIN h
    OBVIOUS
  <1> HIDE DEF z
  <1>2. ASSUME NEW i \in 1..m, z[i][1] = "calls"
        PROVE i + Len(z[i][2]) <= m /\ \A j \in 1..Len(z[i][2]) : z[i + j] = Result(z[i][2][j])
    <2> DEFINE k == p - 1 + i
    <2>1. z[i] = h[k] /\ k \in DOMAIN h
      BY <1>1
    <2>2. Len(h[k][2]) \in Nat
      BY <1>2, <2>1, MessageIs
    <2>3. k + Len(h[k][2]) <= Len(h) /\ \A j \in 1..Len(h[k][2]) : h[k + j] = Result(h[k][2][j])
      BY <1>2, <2>1 DEF Complete
    <2>4. i + Len(h[k][2]) <= m
      BY <1>1, <2>2, <2>3
    <2>5. \A j \in 1..Len(h[k][2]) : i + j \in 1..m /\ p - 1 + (i + j) = k + j
      <3> DEFINE l == Len(h[k][2])
      <3>1. l \in Nat /\ i + l <= m /\ k = p - 1 + i /\ p \in Nat /\ i \in Nat /\ i > 0
        BY <1>1, <2>2, <2>4
      <3> HIDE DEF l, k, m
      <3>2. \A j \in 1..l : i + j \in 1..m /\ p - 1 + (i + j) = k + j
        BY <1>1, <3>1
      <3> QED BY <3>2 DEF l
    <2> HIDE DEF k, m
    <2> QED BY <1>1, <2>1, <2>3, <2>4, <2>5
  <1>3. ASSUME NEW i \in 1..m, z[i][1] = "tool"
        PROVE \E j \in 1..(i - 1) : z[j][1] = "calls" /\ i - j <= Len(z[j][2])
    <2> DEFINE k == p - 1 + i
    <2>1. z[i] = h[k] /\ k \in DOMAIN h
      BY <1>1
    <2>2. PICK j \in 1..(k - 1) : h[j][1] = "calls" /\ k - j <= Len(h[j][2])
      BY <1>3, <2>1 DEF Complete
    <2>3. j \in DOMAIN h /\ j \in Nat
      BY <1>1, <2>1
    <2>4. Len(h[j][2]) \in Nat
      BY <2>2, <2>3, MessageIs
    <2>5. j # p
      BY <2>2
    <2>6. ~(j < p)
      <3>1. SUFFICES ASSUME j < p PROVE FALSE
        OBVIOUS
      <3>2. p - j \in 1..Len(h[j][2]) /\ j + (p - j) = p
        <4> DEFINE l == Len(h[j][2])
        <4>1. l \in Nat /\ k - j <= l /\ p \in Nat /\ j \in Nat /\ k \in Int /\ k >= p
          BY <1>1, <2>2, <2>3, <2>4
        <4> HIDE DEF l, k, m
        <4>2. p - j \in 1..l /\ j + (p - j) = p
          BY <3>1, <4>1
        <4> QED BY <4>2 DEF l
      <3>3. h[j + (p - j)] = Result(h[j][2][p - j])
        BY <2>2, <2>3, <3>2 DEF Complete
      <3>4. h[p] = Result(h[j][2][p - j])
        BY <3>2, <3>3
      <3>5. h[p][1] = "tool"
        BY <3>4, Shapes
      <3> QED BY <3>5
    <2>7. /\ j - p + 1 \in 1..(i - 1) /\ j - p + 1 \in 1..m /\ p - 1 + (j - p + 1) = j
          /\ i - (j - p + 1) = k - j
      <3>1. j \in 1..(p - 1 + i - 1) /\ Len(h) \in Nat /\ p \in 1..Len(h) /\ i \in 1..(Len(h) - p + 1)
        BY <1>1
      <3> QED BY <2>5, <2>6, <3>1, CountedFrom
    <2>8. z[j - p + 1] = h[j]
      BY <1>1, <2>7
    <2> QED BY <2>2, <2>7, <2>8
  <1>4. Complete(z)
    BY <1>1, <1>2, <1>3 DEF Complete
  <1> QED BY <1>4 DEF z

\* What is left of two groups of calls.
LEMMA LeftConcat ==
  ASSUME NEW T, NEW a \in Seq(CallIds), NEW b \in Seq(CallIds)
  PROVE Left(T, a \o b) = Left(T, a) \o Left(T, b)
  BY LeftAlways

\* A message without calls and results leaves the orphans as they are.
LEMMA OrphansSay ==
  ASSUME NEW h \in Seq(Anything), NEW x \in Anything, x[1] \notin {"calls", "tool"}
  PROVE Orphans(h \o <<x>>) = Orphans(h)
  <1> DEFINE s == <<x>>
             u == h \o s
  <1>1. s \in Seq(Anything) /\ ToSet(s) = {x}
    BY DEF ToSet
  <1> HIDE DEF s
  <1>2. u \in Seq(Anything) /\ ToSet(u) = ToSet(h) \cup {x}
    BY <1>1, ConcatElements
  <1>3. AllCalls(u) = AllCalls(h)
    <2>1. AllCalls(u) = AllCalls(h) \o AllCalls(s)
      BY <1>1, CallsAlways
    <2>2. AllCalls(s) = <<>>
      BY <1>1, CallsAlways
    <2>3. AllCalls(h) \in Seq(CallIds)
      BY OrphansAre
    <2> QED BY <2>1, <2>2, <2>3
  <1> HIDE DEF u
  <1>4. \A c \in ToSet(AllCalls(h)) : Result(c) \in ToSet(h) <=> Result(c) \in ToSet(u)
    BY <1>2, Shapes
  <1>5. Left(ToSet(h), AllCalls(h)) = Left(ToSet(u), AllCalls(h))
    <2>1. AllCalls(h) \in Seq(CallIds)
      BY OrphansAre
    <2> DEFINE a == AllCalls(h)
    <2> HIDE DEF a
    <2>2. Left(ToSet(h), a) = Left(ToSet(u), a)
      BY <1>4, <2>1, LeftSame DEF a
    <2> QED BY <2>2 DEF a
  <1>6. Orphans(u) = Orphans(h)
    BY <1>2, <1>3, <1>5, OrphansAre
  <1> QED BY <1>6 DEF u, s

\* Calls without results are orphans.
LEMMA OrphansCall ==
  ASSUME NEW h \in Seq(Anything), NEW cs \in Seq(CallIds), \A c \in ToSet(cs) : Result(c) \notin ToSet(h)
  PROVE Orphans(h \o <<CallsOf(cs)>>) = Orphans(h) \o cs
  <1> DEFINE s == <<CallsOf(cs)>>
             u == h \o s
  <1>1. s \in Seq(Anything) /\ ToSet(s) = {CallsOf(cs)} /\ AllCalls(s) = cs
    <2>1. CallsOf(cs) \in Anything
      BY Spoken DEF Anything
    <2> QED BY <2>1, CallsAlways DEF ToSet
  <1> HIDE DEF s
  <1>2. u \in Seq(Anything) /\ ToSet(u) = ToSet(h) \cup {CallsOf(cs)}
    BY <1>1, ConcatElements
  <1>3. AllCalls(u) = AllCalls(h) \o cs
    BY <1>1, CallsAlways
  <1> HIDE DEF u
  <1>4. \A c : Result(c) \in ToSet(h) <=> Result(c) \in ToSet(u)
    BY <1>2, Shapes
  <1>5. Left(ToSet(h), AllCalls(h)) = Left(ToSet(u), AllCalls(h))
    <2>1. AllCalls(h) \in Seq(CallIds)
      BY OrphansAre
    <2> DEFINE a == AllCalls(h)
    <2> HIDE DEF a
    <2>2. Left(ToSet(h), a) = Left(ToSet(u), a)
      BY <1>4, <2>1, LeftSame DEF a
    <2> QED BY <2>2 DEF a
  <1>6. Left(ToSet(u), cs) = cs
    BY <1>4, LeftAlways
  <1>7. Left(ToSet(u), AllCalls(h) \o cs) = Left(ToSet(u), AllCalls(h)) \o Left(ToSet(u), cs)
    <2>1. AllCalls(h) \in Seq(CallIds)
      BY OrphansAre
    <2> QED BY <2>1, LeftConcat
  <1>8. Orphans(u) = Orphans(h) \o cs
    <2>1. Orphans(u) = Left(ToSet(u), AllCalls(u)) /\ Orphans(h) = Left(ToSet(h), AllCalls(h))
      BY <1>2, OrphansAre
    <2> QED BY <1>3, <1>5, <1>6, <1>7, <2>1
  <1> QED BY <1>8 DEF u, s

\* Results take their calls from the orphans.
LEMMA OrphansHear ==
  ASSUME NEW h \in Seq(Anything), NEW q \in Seq(Said), \A r \in ToSet(q) : r[1] = "tool"
  PROVE Orphans(h \o q) = Left(ToSet(q), Orphans(h))
  <1> DEFINE u == h \o q
  <1>1. q \in Seq(Anything) /\ AllCalls(q) = <<>>
    <2>1. q \in Seq(Anything)
      <3>1. Seq(Said) \subseteq Seq(Anything)
        BY DEF Anything
      <3> QED BY <3>1
    <2> QED BY <2>1, CallsAlways
  <1>2. u \in Seq(Anything) /\ ToSet(u) = ToSet(h) \cup ToSet(q)
    BY <1>1, ConcatElements
  <1>3. AllCalls(u) = AllCalls(h)
    <2>1. AllCalls(u) = AllCalls(h) \o AllCalls(q)
      BY <1>1, CallsAlways
    <2>2. AllCalls(h) \in Seq(CallIds)
      BY OrphansAre
    <2> QED BY <1>1, <2>1, <2>2
  <1> HIDE DEF u
  <1>4. Left(ToSet(h) \cup ToSet(q), AllCalls(h)) = Left(ToSet(q), Left(ToSet(h), AllCalls(h)))
    BY OrphansAre, LeftTwice
  <1>5. Orphans(u) = Left(ToSet(u), AllCalls(u)) /\ Orphans(h) = Left(ToSet(h), AllCalls(h))
    BY <1>2, OrphansAre
  <1>6. Orphans(u) = Left(ToSet(q), Orphans(h))
    BY <1>2, <1>3, <1>4, <1>5
  <1> QED BY <1>6 DEF u

\* Behind a complete history, the orphans are the calls that wait.
LEMMA OrphansBatch ==
  ASSUME NEW h \in Seq(Messages), Complete(h), NEW cs, Distinct(cs), NEW k \in 0..Len(cs),
         \A c \in ToSet(cs) : Result(c) \notin ToSet(h)
  PROVE Orphans(h \o Batch(cs, k)) = Rest(cs, k)
  <1> DEFINE b == Batch(cs, k)
             u == h \o b
  <1>0. cs \in Seq(CallIds) /\ DOMAIN cs = 1..Len(cs) /\ Len(cs) \in Nat /\ h \in Seq(Anything)
    <2>1. Seq(Messages) \subseteq Seq(Anything)
      BY DEF Messages, Anything
    <2> QED BY <2>1 DEF Distinct
  <1>1. /\ b \in Seq(Said)
        /\ \A x : x \in ToSet(b) <=> x = CallsOf(cs) \/ \E i \in 1..k : x = Result(cs[i])
    BY <1>0, BatchIs
  <1>2. b \in Seq(Anything)
    <2>1. Seq(Said) \subseteq Seq(Anything)
      BY DEF Anything
    <2> QED BY <1>1, <2>1
  <1>3. AllCalls(b) = cs
    <2> DEFINE s == <<CallsOf(cs)>>
               r == Results(cs, k)
    <2>1. s \in Seq(Anything) /\ AllCalls(s) = cs
      BY <1>0, Spoken, CallsAlways DEF Anything
    <2>2. r \in Seq(Anything) /\ \A x \in ToSet(r) : x[1] = "tool"
      <3>1. \A i \in 1..k : Result(cs[i]) \in Anything
        BY <1>0, Spoken DEF Anything
      <3>2. r \in Seq(Anything)
        BY <3>1 DEF Results
      <3>3. \A x \in ToSet(r) : x[1] = "tool"
        BY Shapes DEF Results, ToSet
      <3> QED BY <3>2, <3>3
    <2>3. b = s \o r
      BY DEF Batch
    <2> HIDE DEF s, r, b
    <2>4. AllCalls(s \o r) = AllCalls(s) \o AllCalls(r) /\ AllCalls(r) = <<>>
      BY <2>1, <2>2, CallsAlways
    <2>5. cs \o <<>> = cs
      BY <1>0
    <2> QED BY <2>1, <2>3, <2>4, <2>5
  <1> HIDE DEF b
  <1>4. u \in Seq(Anything) /\ ToSet(u) = ToSet(h) \cup ToSet(b)
    BY <1>0, <1>2, ConcatElements
  <1>5. AllCalls(u) = AllCalls(h) \o cs
    BY <1>0, <1>2, <1>3, CallsAlways
  <1> HIDE DEF u
  <1>6. Left(ToSet(u), AllCalls(h)) = <<>>
    <2>1. \A c \in ToSet(AllCalls(h)) : Result(c) \in ToSet(h)
      BY <1>0, CallsAlways, CompleteAnswers
    <2>2. \A c \in ToSet(AllCalls(h)) : Result(c) \in ToSet(u)
      BY <1>4, <2>1
    <2> QED BY <1>0, <2>2, OrphansAre, LeftAlways
  <1>7. Left(ToSet(u), cs) = Rest(cs, k)
    <2>1. \A i \in DOMAIN cs : Result(cs[i]) \in ToSet(u) <=> i <= k
      <3>1. ASSUME NEW i \in DOMAIN cs PROVE Result(cs[i]) \in ToSet(u) <=> i <= k
        <4>1. Result(cs[i]) \notin ToSet(h)
          BY DEF ToSet
        <4>2. Result(cs[i]) \in ToSet(u) <=> \E j \in 1..k : Result(cs[i]) = Result(cs[j])
          BY <1>1, <1>4, <4>1, Shapes
        <4>3. \A j \in 1..k : Result(cs[i]) = Result(cs[j]) => cs[i] = cs[j]
          BY Shapes
        <4>4. \A j \in 1..k : j \in DOMAIN cs
          BY <1>0
        <4>5. \A j \in 1..k : Result(cs[i]) = Result(cs[j]) => i = j
          BY <4>3, <4>4 DEF Distinct
        <4> QED BY <1>0, <4>2, <4>5
      <3> QED BY <3>1
    <2> QED BY <2>1, LeftRest
  <1>8. Left(ToSet(u), AllCalls(h) \o cs) = Left(ToSet(u), AllCalls(h)) \o Left(ToSet(u), cs)
    <2>1. AllCalls(h) \in Seq(CallIds)
      BY <1>0, OrphansAre
    <2> QED BY <1>0, <2>1, LeftConcat
  <1>9. Rest(cs, k) \in Seq(CallIds)
    BY <1>0, RestIs
  <1>10. Orphans(u) = <<>> \o Rest(cs, k)
    <2>1. Orphans(u) = Left(ToSet(u), AllCalls(u))
      BY <1>4, OrphansAre
    <2> QED BY <1>5, <1>6, <1>7, <1>8, <2>1
  <1>11. Orphans(u) = Rest(cs, k)
    BY <1>9, <1>10
  <1> QED BY <1>11 DEF u, b

-----------------------------------------------------------------------------
(* What a history remembers of its log.                                    *)

UsersFrom(h, i) == {j \in DOMAIN h : j >= i /\ h[j][1] = "user"}
Count(h, i) == Cardinality(UsersFrom(h, i))
Recent(l, h) ==
  \A i \in DOMAIN l : l[i][1] = "user" /\ Count(l, i) <= Keep =>
    \E j \in DOMAIN h : h[j] = l[i] /\ Count(h, j) <= Count(l, i)
Covers(l, h) ==
  \A i \in DOMAIN l : l[i][1] # "compaction" => l[i] \in ToSet(h) \cup Summarised(h, Len(h) + 1)
InFront(h) == \A i \in DOMAIN h : h[i][1] = "summary" => i = 1
Remembers(l, h) == Recent(l, h) /\ Covers(l, h) /\ InFront(h)

\* What a set of messages says, summaries for what they stand for.
Known(T) == UNION {IF r[1] = "summary" THEN r[2] ELSE {r} : r \in T}

\* A sequence with one more element, element by element.
LEMMA AppendIs ==
  ASSUME NEW X, NEW h \in Seq(X), NEW x \in X
  PROVE /\ Append(h, x) \in Seq(X) /\ Len(Append(h, x)) = Len(h) + 1 /\ Len(h) \in Nat
        /\ DOMAIN Append(h, x) = 1..(Len(h) + 1) /\ DOMAIN h = 1..Len(h)
        /\ \A i \in 1..Len(h) : Append(h, x)[i] = h[i]
        /\ Append(h, x)[Len(h) + 1] = x
  OBVIOUS

\* How many messages of the user there are from a place on.
LEMMA CountIs ==
  ASSUME NEW X, NEW h \in Seq(X), NEW i \in Nat
  PROVE IsFiniteSet(UsersFrom(h, i)) /\ Count(h, i) \in Nat /\ (i > Len(h) => Count(h, i) = 0)
  <1>1. DOMAIN h = 1..Len(h) /\ Len(h) \in Nat
    OBVIOUS
  <1>2. IsFiniteSet(DOMAIN h)
    BY <1>1, FS_Interval
  <1>3. UsersFrom(h, i) \in SUBSET DOMAIN h
    BY DEF UsersFrom
  <1>4. IsFiniteSet(UsersFrom(h, i))
    BY <1>2, <1>3, FS_Subset
  <1>5. Count(h, i) \in Nat
    BY <1>4, FS_CardinalityType DEF Count
  <1>6. ASSUME i > Len(h) PROVE Count(h, i) = 0
    <2>1. UsersFrom(h, i) = {}
      BY <1>1, <1>6 DEF UsersFrom
    <2> QED BY <2>1, FS_EmptySet DEF Count
  <1> QED BY <1>4, <1>5, <1>6

\* One more message counts when it is of the user.
LEMMA CountAppend ==
  ASSUME NEW X, NEW h \in Seq(X), NEW x \in X, NEW i \in 1..(Len(h) + 1)
  PROVE Count(Append(h, x), i) = IF x[1] = "user" THEN Count(h, i) + 1 ELSE Count(h, i)
  <1> DEFINE u == Append(h, x)
  <1>1. /\ Len(u) = Len(h) + 1 /\ Len(h) \in Nat
        /\ DOMAIN u = 1..(Len(h) + 1) /\ DOMAIN h = 1..Len(h)
        /\ (\A j \in 1..Len(h) : u[j] = h[j]) /\ u[Len(h) + 1] = x
    BY AppendIs
  <1> HIDE DEF u
  <1>2. CASE x[1] = "user"
    <2>1. UsersFrom(u, i) = UsersFrom(h, i) \cup {Len(h) + 1}
      BY <1>1, <1>2 DEF UsersFrom
    <2>2. Len(h) + 1 \notin UsersFrom(h, i)
      BY <1>1 DEF UsersFrom
    <2>3. IsFiniteSet(UsersFrom(h, i))
      BY CountIs
    <2>4. Cardinality(UsersFrom(h, i) \cup {Len(h) + 1}) = Cardinality(UsersFrom(h, i)) + 1
      BY <2>2, <2>3, FS_AddElement
    <2> QED BY <1>2, <2>1, <2>4 DEF Count, u
  <1>3. CASE x[1] # "user"
    <2>1. UsersFrom(u, i) = UsersFrom(h, i)
      BY <1>1, <1>3 DEF UsersFrom
    <2> QED BY <1>3, <2>1 DEF Count, u
  <1> QED BY <1>2, <1>3

\* The users of a part behind another are counted as in that part alone.
LEMMA CountBehind ==
  ASSUME NEW X, NEW a \in Seq(X)
  PROVE \A z \in Seq(X) : \A i \in 1..(Len(z) + 1) : Count(a \o z, Len(a) + i) = Count(z, i)
  <1> DEFINE P == {z \in Seq(X) : \A i \in 1..(Len(z) + 1) : Count(a \o z, Len(a) + i) = Count(z, i)}
  <1>0. Len(a) \in Nat
    OBVIOUS
  <1>1. <<>> \in P
    <2>1. a \o <<>> = a /\ Len(<<>>) = 0 /\ <<>> \in Seq(X)
      OBVIOUS
    <2>2. Count(a, Len(a) + 1) = 0
      BY <1>0, CountIs
    <2>3. Count(<<>>, 1) = 0
      <3>1. UsersFrom(<<>>, 1) = {}
        BY DEF UsersFrom
      <3> QED BY <3>1, FS_EmptySet DEF Count
    <2>4. \A i \in 1..(Len(<<>>) + 1) : i = 1
      BY <2>1
    <2> QED BY <2>1, <2>2, <2>3, <2>4
  <1>2. ASSUME NEW z \in Seq(X), NEW x \in X, z \in P PROVE Append(z, x) \in P
    <2> DEFINE u == a \o z
    <2>1. /\ u \in Seq(X) /\ Len(u) = Len(a) + Len(z) /\ Len(z) \in Nat
      BY ConcatIs
    <2>2. a \o Append(z, x) = Append(u, x)
      BY AppendConcat
    <2>3. Append(z, x) \in Seq(X) /\ Len(Append(z, x)) = Len(z) + 1
      OBVIOUS
    <2>4. \A i \in 1..(Len(z) + 1) : Count(u, Len(a) + i) = Count(z, i)
      BY <1>2
    <2> HIDE DEF u
    <2>5. ASSUME NEW i \in 1..(Len(z) + 2) PROVE Count(Append(u, x), Len(a) + i) = Count(Append(z, x), i)
      <3>1. CASE i \in 1..(Len(z) + 1)
        <4>1. Len(a) + i \in 1..(Len(u) + 1)
          BY <1>0, <2>1, <3>1
        <4>2. Count(Append(u, x), Len(a) + i) =
                IF x[1] = "user" THEN Count(u, Len(a) + i) + 1 ELSE Count(u, Len(a) + i)
          BY <2>1, <4>1, CountAppend
        <4>3. Count(Append(z, x), i) = IF x[1] = "user" THEN Count(z, i) + 1 ELSE Count(z, i)
          BY <3>1, CountAppend
        <4> QED BY <2>4, <3>1, <4>2, <4>3
      <3>2. CASE i = Len(z) + 2
        <4>1. Append(u, x) \in Seq(X) /\ Len(Append(u, x)) = Len(a) + Len(z) + 1
          BY <2>1
        <4>2. Len(a) + i \in Nat /\ Len(a) + i > Len(Append(u, x)) /\ i \in Nat /\ i > Len(Append(z, x))
          BY <1>0, <2>1, <2>3, <3>2, <4>1
        <4>3. Count(Append(u, x), Len(a) + i) = 0
          BY <4>1, <4>2, CountIs
        <4>4. Count(Append(z, x), i) = 0
          BY <2>3, <4>2, CountIs
        <4> QED BY <4>3, <4>4
      <3>3. i \in 1..(Len(z) + 1) \/ i = Len(z) + 2
        BY <2>1
      <3> QED BY <3>1, <3>2, <3>3
    <2>6. (Len(z) + 1) + 1 = Len(z) + 2
      BY <2>1
    <2> QED BY <2>2, <2>3, <2>5, <2>6
  <1>3. Seq(X) \subseteq P
    <2> HIDE DEF P
    <2> QED BY <1>1, <1>2, SeqInduct
  <1> QED BY <1>3

\* Behind a user there are fewer.
LEMMA CountLess ==
  ASSUME NEW X, NEW h \in Seq(X), NEW i \in DOMAIN h, NEW j \in Nat, i < j, h[i][1] = "user"
  PROVE Count(h, j) + 1 <= Count(h, i)
  <1>1. i \in Nat
    OBVIOUS
  <1>2. IsFiniteSet(UsersFrom(h, j)) /\ IsFiniteSet(UsersFrom(h, i)) /\ Count(h, j) \in Nat
    BY <1>1, CountIs
  <1>3. i \notin UsersFrom(h, j)
    BY <1>1 DEF UsersFrom
  <1>4. UsersFrom(h, j) \cup {i} \in SUBSET UsersFrom(h, i)
    BY <1>1 DEF UsersFrom
  <1>5. Cardinality(UsersFrom(h, j) \cup {i}) = Cardinality(UsersFrom(h, j)) + 1
    BY <1>2, <1>3, FS_AddElement
  <1>6. Cardinality(UsersFrom(h, j) \cup {i}) <= Cardinality(UsersFrom(h, i))
    BY <1>2, <1>4, FS_Subset
  <1> QED BY <1>5, <1>6 DEF Count

\* A summary of the whole stands for what its messages say.
LEMMA SummarisedAll ==
  ASSUME NEW h \in Seq(Messages)
  PROVE Summarised(h, Len(h) + 1) = Known(ToSet(h))
  <1>1. Len(h) \in Nat /\ DOMAIN h = 1..Len(h) /\ (Len(h) + 1) - 1 = Len(h)
    OBVIOUS
  <1> QED BY <1>1 DEF Summarised, Known, ToSet

\* A summary stands for messages, never for another summary.
LEMMA SummarisedSaid ==
  ASSUME NEW h \in Seq(Messages), NEW cut \in 1..(Len(h) + 1)
  PROVE Summarised(h, cut) \in SUBSET Said
  <1>1. \A i \in 1..(cut - 1) : h[i] \in Messages
    OBVIOUS
  <1>2. \A r \in Messages : IF r[1] = "summary" THEN r[2] \subseteq Said ELSE r \in Said
    BY SaidIs, OtherIs DEF Messages
  <1>3. ASSUME NEW i \in 1..(cut - 1) PROVE (IF h[i][1] = "summary" THEN h[i][2] ELSE {h[i]}) \subseteq Said
    BY <1>1, <1>2
  <1> QED BY <1>3 DEF Summarised

\* A history that has more covers a log that has no more.
LEMMA CoversOnly ==
  ASSUME NEW l, NEW h \in Seq(Messages), NEW k, NEW q \in Seq(Messages),
         Covers(l, h), ToSet(h) \subseteq ToSet(q),
         \A i \in DOMAIN k : k[i][1] # "compaction" => k[i] \in ToSet(q) \/ \E j \in DOMAIN l : k[i] = l[j]
  PROVE Covers(k, q)
  <1>1. Known(ToSet(h)) \subseteq Known(ToSet(q))
    BY DEF Known
  <1>2. Summarised(h, Len(h) + 1) = Known(ToSet(h)) /\ Summarised(q, Len(q) + 1) = Known(ToSet(q))
    BY SummarisedAll
  <1>3. \A i \in DOMAIN l : l[i][1] # "compaction" => l[i] \in ToSet(h) \cup Known(ToSet(h))
    BY <1>2 DEF Covers
  <1>4. ASSUME NEW i \in DOMAIN k, k[i][1] # "compaction" PROVE k[i] \in ToSet(q) \cup Known(ToSet(q))
    <2>1. CASE k[i] \in ToSet(q)
      BY <2>1
    <2>2. CASE \E j \in DOMAIN l : k[i] = l[j]
      BY <1>1, <1>3, <1>4, <2>2
    <2> QED BY <1>4, <2>1, <2>2
  <1> QED BY <1>2, <1>4 DEF Covers

\* A message can stand in a history and in a log.
LEMMA SaidEverywhere == Said \subseteq Messages /\ Said \subseteq Entries /\ Said \subseteq Anything
                        /\ Messages \subseteq Anything /\ Entries \subseteq Anything
                        /\ Seq(Said) \subseteq Seq(Messages) /\ Seq(Said) \subseteq Seq(Entries)
                        /\ Seq(Messages) \subseteq Seq(Anything) /\ Seq(Entries) \subseteq Seq(Anything)
  <1>1. Said \subseteq Messages /\ Said \subseteq Entries /\ Said \subseteq Anything
        /\ Messages \subseteq Anything /\ Entries \subseteq Anything
    BY DEF Messages, Entries, Anything
  <1>2. ASSUME NEW X, NEW Y, X \subseteq Y PROVE Seq(X) \subseteq Seq(Y)
    BY <1>2
  <1> QED BY <1>1, <1>2

\* What a turn says is remembered.
LEMMA RememberSay ==
  ASSUME NEW l \in Seq(Entries), NEW h \in Seq(Messages), NEW x \in Said, Remembers(l, h)
  PROVE Remembers(Append(l, x), Append(h, x))
  <1> DEFINE k == Append(l, x)
             q == Append(h, x)
  <1>0. x \in Entries /\ x \in Messages
    BY SaidEverywhere
  <1>1. /\ k \in Seq(Entries) /\ Len(k) = Len(l) + 1 /\ Len(l) \in Nat
        /\ DOMAIN k = 1..(Len(l) + 1) /\ DOMAIN l = 1..Len(l)
        /\ (\A i \in 1..Len(l) : k[i] = l[i]) /\ k[Len(l) + 1] = x
    BY <1>0, AppendIs
  <1>2. /\ q \in Seq(Messages) /\ Len(q) = Len(h) + 1 /\ Len(h) \in Nat
        /\ DOMAIN q = 1..(Len(h) + 1) /\ DOMAIN h = 1..Len(h)
        /\ (\A i \in 1..Len(h) : q[i] = h[i]) /\ q[Len(h) + 1] = x
    BY <1>0, AppendIs
  <1>3. ASSUME NEW i \in 1..(Len(l) + 1)
        PROVE Count(k, i) = IF x[1] = "user" THEN Count(l, i) + 1 ELSE Count(l, i)
    BY <1>0, CountAppend
  <1>4. ASSUME NEW i \in 1..(Len(h) + 1)
        PROVE Count(q, i) = IF x[1] = "user" THEN Count(h, i) + 1 ELSE Count(h, i)
    BY <1>0, CountAppend
  <1>5. /\ Count(l, Len(l) + 1) = 0 /\ Count(h, Len(h) + 1) = 0
        /\ \A i \in 1..Len(l) : Count(l, i) \in Nat
        /\ \A i \in 1..Len(h) : Count(h, i) \in Nat
    <2>1. Len(l) + 1 \in Nat /\ Len(l) + 1 > Len(l) /\ Len(h) + 1 \in Nat /\ Len(h) + 1 > Len(h)
      BY <1>1, <1>2
    <2>2. Count(l, Len(l) + 1) = 0 /\ Count(h, Len(h) + 1) = 0
      BY <2>1, CountIs
    <2>3. ASSUME NEW i \in 1..Len(l) PROVE Count(l, i) \in Nat
      BY CountIs
    <2>4. ASSUME NEW i \in 1..Len(h) PROVE Count(h, i) \in Nat
      BY CountIs
    <2> QED BY <2>2, <2>3, <2>4
  <1> HIDE DEF k, q
  <1>6. Recent(k, q)
    <2>1. SUFFICES ASSUME NEW i \in DOMAIN k, k[i][1] = "user", Count(k, i) <= Keep
                   PROVE \E j \in DOMAIN q : q[j] = k[i] /\ Count(q, j) <= Count(k, i)
      BY DEF Recent
    <2>2. CASE i = Len(l) + 1
      <3>1. Len(h) + 1 \in 1..(Len(h) + 1) /\ Len(l) + 1 \in 1..(Len(l) + 1)
        BY <1>1, <1>2
      <3>2. Count(q, Len(h) + 1) = Count(k, i)
        BY <1>3, <1>4, <1>5, <2>2, <3>1
      <3>3. q[Len(h) + 1] = k[i]
        BY <1>1, <1>2, <2>2
      <3>4. Count(k, i) <= Count(k, i)
        BY <1>3, <1>5, <2>2, <3>1
      <3> QED BY <1>2, <3>1, <3>2, <3>3, <3>4
    <2>3. CASE i \in 1..Len(l)
      <3>1. k[i] = l[i] /\ i \in DOMAIN l
        BY <1>1, <2>3
      <3>2. Count(k, i) = IF x[1] = "user" THEN Count(l, i) + 1 ELSE Count(l, i)
        BY <1>1, <1>3, <2>1
      <3>3. Count(l, i) <= Keep
        BY <1>5, <2>1, <2>3, <3>2, TranscriptAssumption
      <3>4. PICK j \in DOMAIN h : h[j] = l[i] /\ Count(h, j) <= Count(l, i)
        BY <2>1, <3>1, <3>3 DEF Remembers, Recent
      <3>5. j \in 1..(Len(h) + 1) /\ j \in 1..Len(h)
        BY <1>2
      <3>6. Count(q, j) = IF x[1] = "user" THEN Count(h, j) + 1 ELSE Count(h, j)
        BY <1>4, <3>5
      <3>7. Count(q, j) <= Count(k, i)
        BY <1>5, <2>3, <3>2, <3>4, <3>5, <3>6
      <3> QED BY <1>2, <3>1, <3>4, <3>5, <3>7
    <2> QED BY <1>1, <2>2, <2>3
  <1>7. ToSet(q) = ToSet(h) \cup {x}
    BY <1>0, AppendElements DEF q
  <1>8. Covers(k, q)
    <2>1. ASSUME NEW i \in DOMAIN k PROVE k[i] \in ToSet(q) \/ \E j \in DOMAIN l : k[i] = l[j]
      <3>1. CASE i = Len(l) + 1
        BY <1>1, <1>7, <3>1
      <3>2. CASE i # Len(l) + 1
        BY <1>1, <3>2
      <3> QED BY <3>1, <3>2
    <2> QED BY <1>2, <1>7, <2>1, CoversOnly DEF Remembers
  <1>9. InFront(q)
    <2>1. x[1] # "summary"
      BY SaidIs
    <2> QED BY <1>2, <2>1 DEF Remembers, InFront
  <1> QED BY <1>6, <1>8, <1>9 DEF Remembers, k, q

\* So is what it knew, when a result is inserted behind it.
LEMMA RememberHear ==
  ASSUME NEW l \in Seq(Entries), NEW h \in Seq(Messages), NEW x \in Said, x[1] = "tool", Remembers(l, h)
  PROVE Remembers(l, Append(h, x))
  <1> DEFINE q == Append(h, x)
  <1>0. x \in Messages
    BY SaidEverywhere
  <1>2. /\ q \in Seq(Messages) /\ Len(q) = Len(h) + 1 /\ Len(h) \in Nat
        /\ DOMAIN q = 1..(Len(h) + 1) /\ DOMAIN h = 1..Len(h)
        /\ (\A i \in 1..Len(h) : q[i] = h[i]) /\ q[Len(h) + 1] = x
    BY <1>0, AppendIs
  <1>4. ASSUME NEW i \in 1..(Len(h) + 1) PROVE Count(q, i) = Count(h, i)
    BY <1>0, CountAppend
  <1>5. ToSet(q) = ToSet(h) \cup {x}
    BY <1>0, AppendElements
  <1> HIDE DEF q
  <1>6. Recent(l, q)
    <2>1. SUFFICES ASSUME NEW i \in DOMAIN l, l[i][1] = "user", Count(l, i) <= Keep
                   PROVE \E j \in DOMAIN q : q[j] = l[i] /\ Count(q, j) <= Count(l, i)
      BY DEF Recent
    <2>2. PICK j \in DOMAIN h : h[j] = l[i] /\ Count(h, j) <= Count(l, i)
      BY <2>1 DEF Remembers, Recent
    <2>3. j \in 1..(Len(h) + 1) /\ j \in 1..Len(h)
      BY <1>2
    <2> QED BY <1>2, <1>4, <2>2, <2>3
  <1>8. Covers(l, q)
    BY <1>2, <1>5, CoversOnly DEF Remembers
  <1>9. InFront(q)
    <2>1. x[1] # "summary"
      OBVIOUS
    <2> QED BY <1>2, <2>1 DEF Remembers, InFront
  <1> QED BY <1>6, <1>8, <1>9 DEF Remembers, q

\* The record of a compaction is none that a history has.
LEMMA RememberNote ==
  ASSUME NEW l \in Seq(Entries), NEW h \in Seq(Messages), NEW x \in Compactions, Remembers(l, h)
  PROVE Remembers(Append(l, x), h)
  <1> DEFINE k == Append(l, x)
  <1>0. x \in Entries /\ x[1] = "compaction"
    BY OtherIs DEF Entries
  <1>1. /\ k \in Seq(Entries) /\ Len(k) = Len(l) + 1 /\ Len(l) \in Nat
        /\ DOMAIN k = 1..(Len(l) + 1) /\ DOMAIN l = 1..Len(l)
        /\ (\A i \in 1..Len(l) : k[i] = l[i]) /\ k[Len(l) + 1] = x
    BY <1>0, AppendIs
  <1>3. ASSUME NEW i \in 1..(Len(l) + 1) PROVE Count(k, i) = Count(l, i)
    BY <1>0, CountAppend
  <1> HIDE DEF k
  <1>5. \A i \in DOMAIN k : k[i][1] # "compaction" => i \in DOMAIN l /\ k[i] = l[i] /\ Count(k, i) = Count(l, i)
    BY <1>0, <1>1, <1>3
  <1>6. Recent(k, h)
    <2>1. \A i \in DOMAIN k : k[i][1] = "user" => i \in DOMAIN l /\ k[i] = l[i] /\ Count(k, i) = Count(l, i)
      BY <1>5
    <2> QED BY <2>1 DEF Remembers, Recent
  <1>7. Covers(k, h)
    BY <1>5 DEF Remembers, Covers
  <1> QED BY <1>6, <1>7 DEF Remembers, k

\* What is said is remembered, once log and history have it.
LEMMA RememberMore ==
  ASSUME NEW l \in Seq(Entries), NEW h \in Seq(Messages), Remembers(l, h)
  PROVE \A q \in Seq(Said) : Remembers(l \o q, h \o q)
  <1> DEFINE P == {q \in Seq(Said) : Remembers(l \o q, h \o q)}
  <1>1. <<>> \in P
    <2>1. l \o <<>> = l /\ h \o <<>> = h
      OBVIOUS
    <2> QED BY <2>1
  <1>2. ASSUME NEW q \in Seq(Said), NEW x \in Said, q \in P PROVE Append(q, x) \in P
    <2>1. q \in Seq(Entries) /\ q \in Seq(Messages) /\ x \in Entries /\ x \in Messages
      BY SaidEverywhere
    <2>2. l \o q \in Seq(Entries) /\ h \o q \in Seq(Messages)
      BY <2>1, ConcatIs
    <2>3. Remembers(Append(l \o q, x), Append(h \o q, x))
      BY <1>2, <2>2, RememberSay
    <2>4. l \o Append(q, x) = Append(l \o q, x) /\ h \o Append(q, x) = Append(h \o q, x)
      BY <2>1, AppendConcat
    <2>5. Remembers(l \o Append(q, x), h \o Append(q, x))
      BY <2>3, <2>4
    <2> QED BY <2>5
  <1>3. Seq(Said) \subseteq P
    <2> HIDE DEF P
    <2> QED BY <1>1, <1>2, SeqInduct
  <1> QED BY <1>3

\* Results in the history alone do not make it forget.
LEMMA RememberHeard ==
  ASSUME NEW l \in Seq(Entries), NEW h \in Seq(Messages), Remembers(l, h)
  PROVE \A q \in Seq(Said) : (\A r \in ToSet(q) : r[1] = "tool") => Remembers(l, h \o q)
  <1> DEFINE P == {q \in Seq(Said) : (\A r \in ToSet(q) : r[1] = "tool") => Remembers(l, h \o q)}
  <1>1. <<>> \in P
    <2>1. h \o <<>> = h
      OBVIOUS
    <2> QED BY <2>1
  <1>2. ASSUME NEW q \in Seq(Said), NEW x \in Said, q \in P PROVE Append(q, x) \in P
    <2>0. SUFFICES ASSUME \A r \in ToSet(Append(q, x)) : r[1] = "tool" PROVE Remembers(l, h \o Append(q, x))
      OBVIOUS
    <2>1. q \in Seq(Messages) /\ x \in Messages
      BY SaidEverywhere
    <2>2. ToSet(Append(q, x)) = ToSet(q) \cup {x}
      BY AppendElements
    <2>3. h \o q \in Seq(Messages)
      BY <2>1, ConcatIs
    <2>4. Remembers(l, h \o q) /\ x[1] = "tool"
      BY <1>2, <2>0, <2>2
    <2>5. Remembers(l, Append(h \o q, x))
      BY <2>3, <2>4, RememberHear
    <2>6. h \o Append(q, x) = Append(h \o q, x)
      BY <2>1, AppendConcat
    <2> QED BY <2>5, <2>6
  <1>3. Seq(Said) \subseteq P
    <2> HIDE DEF P
    <2> QED BY <1>1, <1>2, SeqInduct
  <1> QED BY <1>3

\* Where compaction cuts: at a message of the user, Keep of them from the end.
LEMMA CutoffIs ==
  ASSUME NEW h \in Seq(Messages), Compactable(h, FindCutoff(h))
  PROVE /\ FindCutoff(h) \in 2..Len(h) /\ Len(h) \in Nat /\ DOMAIN h = 1..Len(h)
        /\ h[FindCutoff(h)][1] = "user" /\ Count(h, FindCutoff(h)) = Keep
  <1> DEFINE Users == {i \in DOMAIN h : h[i][1] = "user"}
             Kth == {i \in Users : Cardinality({j \in Users : j >= i}) = Keep /\ i > 1}
  <1>1. FindCutoff(h) = IF Kth = {} THEN 0 ELSE CHOOSE i \in Kth : TRUE
    BY DEF FindCutoff
  <1>2. FindCutoff(h) > 1
    BY DEF Compactable
  <1>3. FindCutoff(h) \in Kth
    <2> HIDE DEF Kth
    <2>1. ~(0 > 1)
      OBVIOUS
    <2> QED BY <1>1, <1>2, <2>1
  <1> DEFINE cut == FindCutoff(h)
  <1> HIDE DEF cut
  <1>4. cut \in DOMAIN h /\ h[cut][1] = "user" /\ cut > 1 /\ Cardinality({j \in Users : j >= cut}) = Keep
    BY <1>3 DEF cut
  <1>5. {j \in Users : j >= cut} = UsersFrom(h, cut)
    BY DEF UsersFrom
  <1>6. Len(h) \in Nat /\ DOMAIN h = 1..Len(h) /\ cut \in 2..Len(h)
    BY <1>4
  <1> QED BY <1>4, <1>5, <1>6 DEF Count, cut

\* A cut keeps the last Keep messages of the user, and the rest in its summary.
LEMMA RememberCut ==
  ASSUME NEW l \in Seq(Entries), NEW h \in Seq(Messages), Remembers(l, h),
         NEW cut \in 2..Len(h), h[cut][1] = "user", Count(h, cut) = Keep
  PROVE Remembers(l, <<Summary(Summarised(h, cut))>> \o SubSeq(h, cut, Len(h)))
  <1> DEFINE S == Summarised(h, cut)
             s == <<Summary(S)>>
             z == SubSeq(h, cut, Len(h))
             q == s \o z
             m == Len(h) - cut + 1
  <1>0. Len(h) \in Nat /\ DOMAIN h = 1..Len(h) /\ cut \in 1..Len(h) /\ cut - 1 \in 0..Len(h) /\ (cut - 1) + 1 = cut
    OBVIOUS
  <1>1. S \in SUBSET Said
    BY <1>0, SummarisedSaid
  <1> HIDE DEF S
  <1>2. Summary(S) \in Messages /\ Summary(S)[1] = "summary" /\ Summary(S)[2] = S
    BY <1>1, Spoken, Shapes DEF Messages
  <1>3. s \in Seq(Messages) /\ Len(s) = 1 /\ s[1] = Summary(S)
    BY <1>2
  <1> HIDE DEF s
  <1> DEFINE a == SubSeq(h, 1, cut - 1)
  <1>4. /\ z \in Seq(Messages) /\ Len(z) = m /\ m \in Nat
        /\ \A i \in 1..m : z[i] = h[cut - 1 + i]
        /\ a \in Seq(Messages) /\ Len(a) = cut - 1
        /\ h = a \o z
    <2>1. /\ SubSeq(h, 1, cut - 1) \o SubSeq(h, (cut - 1) + 1, Len(h)) = h
          /\ SubSeq(h, 1, cut - 1) \in Seq(Messages) /\ Len(SubSeq(h, 1, cut - 1)) = cut - 1
          /\ SubSeq(h, (cut - 1) + 1, Len(h)) \in Seq(Messages)
          /\ Len(SubSeq(h, (cut - 1) + 1, Len(h))) = Len(h) - (cut - 1)
          /\ \A i \in 1..(Len(h) - (cut - 1)) : SubSeq(h, (cut - 1) + 1, Len(h))[i] = h[(cut - 1) + i]
      <3> DEFINE k == cut - 1
      <3>1. k \in 0..Len(h)
        BY <1>0
      <3> HIDE DEF k
      <3>2. /\ SubSeq(h, 1, k) \o SubSeq(h, k + 1, Len(h)) = h
            /\ SubSeq(h, 1, k) \in Seq(Messages) /\ Len(SubSeq(h, 1, k)) = k
            /\ SubSeq(h, k + 1, Len(h)) \in Seq(Messages) /\ Len(SubSeq(h, k + 1, Len(h))) = Len(h) - k
            /\ \A i \in 1..(Len(h) - k) : SubSeq(h, k + 1, Len(h))[i] = h[k + i]
        BY <3>1, TwoParts
      <3> QED BY <3>2 DEF k
    <2>2. Len(h) - (cut - 1) = m /\ m \in Nat
      BY <1>0
    <2> QED BY <1>0, <2>1, <2>2
  <1> HIDE DEF a, z
  <1>5. /\ q \in Seq(Messages) /\ Len(q) = 1 + m /\ DOMAIN q = 1..(1 + m)
        /\ q[1] = Summary(S) /\ \A i \in 1..m : q[1 + i] = z[i]
    <2>1. /\ s \o z \in Seq(Messages) /\ Len(s \o z) = Len(s) + Len(z)
          /\ DOMAIN (s \o z) = 1..(Len(s) + Len(z))
          /\ \A i \in 1..Len(s) : (s \o z)[i] = s[i]
          /\ \A i \in 1..Len(z) : (s \o z)[Len(s) + i] = z[i]
      <3>1. s \in Seq(Messages) /\ z \in Seq(Messages)
        BY <1>3, <1>4
      <3> QED BY <3>1, ConcatIs
    <2>2. 1 \in 1..Len(s)
      BY <1>3
    <2> QED BY <1>3, <1>4, <2>1, <2>2
  <1>6. ToSet(q) = ToSet(s) \cup ToSet(z) /\ ToSet(h) = ToSet(a) \cup ToSet(z) /\ ToSet(s) = {Summary(S)}
    <2>1. ToSet(s \o z) = ToSet(s) \cup ToSet(z)
      BY <1>3, <1>4, ConcatElements
    <2>2. ToSet(a \o z) = ToSet(a) \cup ToSet(z)
      BY <1>4, ConcatElements
    <2>3. DOMAIN s = {1}
      BY <1>3
    <2>4. ToSet(s) = {Summary(S)}
      BY <1>3, <2>3 DEF ToSet
    <2>5. h = a \o z
      BY <1>4
    <2>6. ToSet(h) = ToSet(a) \cup ToSet(z)
      BY <2>2, <2>5
    <2> QED BY <2>1, <2>4, <2>6
  <1>7. \A i \in 1..(m + 1) : Count(h, cut - 1 + i) = Count(z, i) /\ Count(q, 1 + i) = Count(z, i)
    <2>1. \A i \in 1..(Len(z) + 1) : Count(a \o z, Len(a) + i) = Count(z, i)
      BY <1>4, CountBehind
    <2>2. \A i \in 1..(Len(z) + 1) : Count(s \o z, Len(s) + i) = Count(z, i)
      <3>1. s \in Seq(Messages) /\ z \in Seq(Messages)
        BY <1>3, <1>4
      <3> QED BY <3>1, CountBehind
    <2> QED BY <1>3, <1>4, <2>1, <2>2
  <1> HIDE DEF q
  <1>8. Recent(l, q)
    <2>1. SUFFICES ASSUME NEW i \in DOMAIN l, l[i][1] = "user", Count(l, i) <= Keep
                   PROVE \E j \in DOMAIN q : q[j] = l[i] /\ Count(q, j) <= Count(l, i)
      BY DEF Recent
    <2>2. PICK j \in DOMAIN h : h[j] = l[i] /\ Count(h, j) <= Count(l, i)
      BY <2>1 DEF Remembers, Recent
    <2>3. Count(l, i) \in Nat /\ Count(h, j) \in Nat /\ Keep \in Nat /\ j \in Nat /\ cut \in Nat
      <3>1. i \in Nat /\ j \in Nat
        OBVIOUS
      <3> QED BY <1>0, <3>1, CountIs, TranscriptAssumption
    <2>4. ~(j < cut)
      <3>1. SUFFICES ASSUME j < cut PROVE FALSE
        OBVIOUS
      <3>2. h[j][1] = "user"
        BY <2>1, <2>2
      <3>3. Count(h, cut) + 1 <= Count(h, j)
        BY <2>3, <3>1, <3>2, CountLess
      <3> QED BY <2>1, <2>2, <2>3, <3>3
    <2>5. j - cut + 1 \in 1..m /\ cut - 1 + (j - cut + 1) = j /\ 1 + (j - cut + 1) \in 1..(1 + m)
          /\ j - cut + 1 \in 1..(m + 1)
      BY <1>0, <2>3, <2>4
    <2>6. q[1 + (j - cut + 1)] = h[j]
      BY <1>4, <1>5, <2>5
    <2>7. Count(q, 1 + (j - cut + 1)) = Count(h, j)
      BY <1>7, <2>5
    <2> QED BY <1>5, <2>2, <2>5, <2>6, <2>7
  <1>9. Covers(l, q)
    <2>0. Summarised(h, Len(h) + 1) = Known(ToSet(h)) /\ Summarised(q, Len(q) + 1) = Known(ToSet(q))
      BY <1>5, SummarisedAll
    <2>1. SUFFICES ASSUME NEW i \in DOMAIN l, l[i][1] # "compaction"
                   PROVE l[i] \in ToSet(q) \cup Known(ToSet(q))
      BY <2>0 DEF Covers
    <2>2. l[i] \in ToSet(h) \cup Known(ToSet(h))
      BY <2>0, <2>1 DEF Remembers, Covers
    <2>3. l[i][1] # "summary" /\ l[i] \in Said
      <3>1. l[i] \in Entries
        OBVIOUS
      <3> QED BY <2>1, <3>1, OtherIs, SaidIs DEF Entries
    <2>4. S \subseteq Known(ToSet(q))
      <3>1. Summary(S) \in ToSet(q)
        BY <1>6
      <3> QED BY <1>2, <3>1 DEF Known
    <2>5. \A r \in ToSet(h) : r \in ToSet(z) \/ (IF r[1] = "summary" THEN r[2] ELSE {r}) \subseteq S
      <3>1. ASSUME NEW r \in ToSet(h) PROVE r \in ToSet(z) \/ (IF r[1] = "summary" THEN r[2] ELSE {r}) \subseteq S
        <4>1. PICK j \in 1..Len(h) : r = h[j]
          BY <1>0 DEF ToSet
        <4>2. CASE j < cut
          <5>1. j \in 1..(cut - 1)
            BY <1>0, <4>2
          <5> QED BY <4>1, <5>1 DEF S, Summarised
        <4>3. CASE j >= cut
          <5>1. j - cut + 1 \in 1..m /\ cut - 1 + (j - cut + 1) = j
            BY <1>0, <4>3
          <5>2. z[j - cut + 1] = r /\ DOMAIN z = 1..m
            BY <1>4, <4>1, <5>1
          <5> QED BY <5>1, <5>2 DEF ToSet
        <4> QED BY <1>0, <4>2, <4>3
      <3> QED BY <3>1
    <2>6. CASE l[i] \in ToSet(h)
      <3>1. CASE l[i] \in ToSet(z)
        BY <1>6, <3>1
      <3>2. CASE l[i] \notin ToSet(z)
        BY <2>3, <2>4, <2>5, <2>6, <3>2
      <3> QED BY <3>1, <3>2
    <2>7. CASE l[i] \in Known(ToSet(h))
      <3>1. PICK r \in ToSet(h) : l[i] \in (IF r[1] = "summary" THEN r[2] ELSE {r})
        BY <2>7 DEF Known
      <3>2. CASE r \in ToSet(z)
        <4>1. r \in ToSet(q)
          BY <1>6, <3>2
        <4> QED BY <3>1, <4>1 DEF Known
      <3>3. CASE r \notin ToSet(z)
        BY <2>4, <2>5, <3>1, <3>3
      <3> QED BY <3>2, <3>3
    <2> QED BY <2>2, <2>6, <2>7
  <1>10. InFront(q)
    <2>1. \A i \in 1..m : z[i][1] = "summary" => FALSE
      <3>1. SUFFICES ASSUME NEW i \in 1..m, z[i][1] = "summary" PROVE FALSE
        OBVIOUS
      <3>2. cut - 1 + i \in 1..Len(h) /\ cut - 1 + i # 1
        BY <1>0
      <3>3. h[cut - 1 + i][1] = "summary"
        BY <1>4, <3>1
      <3> QED BY <1>0, <3>2, <3>3 DEF Remembers, InFront
    <2>2. \A i \in 2..(1 + m) : i - 1 \in 1..m /\ i = 1 + (i - 1)
      BY <1>4
    <2>3. \A i \in 2..(1 + m) : q[i][1] # "summary"
      BY <1>5, <2>1, <2>2
    <2>4. \A i \in DOMAIN q : i = 1 \/ i \in 2..(1 + m)
      BY <1>4, <1>5
    <2> QED BY <2>3, <2>4 DEF InFront
  <1> QED BY <1>8, <1>9, <1>10 DEF Remembers, q, s, z, S

-----------------------------------------------------------------------------
(* What a log and a history owe each other.  The orphans of the log are    *)
(* those that a kill has cut off, whose results only the history has, and  *)
(* those of the batch under way, which both lack.                          *)

Asked(a) == a = <<>> \/ \E i \in DOMAIN a : a[i][2] # "ask_user"
\* The history g and what it has of a batch that still waits for the results td.
InBatch(g, b, td) ==
  \/ td = <<>> /\ b = <<>>
  \/ \E cs : \E k \in 0..Len(cs) :
       /\ Distinct(cs) /\ k < Len(cs) /\ b = Batch(cs, k) /\ td = Rest(cs, k)
       /\ \A c \in ToSet(cs) : Result(c) \notin ToSet(g)
\* In the profile m: the log l is rebuilt to g \o b, lacks the results of a, which
\* were cut off by kills, and of td; the history h has those of a.
OwesBy(m, l, h, td, a, g, b) ==
  /\ a \in Seq(CallIds) /\ td \in Seq(CallIds) /\ g \in Seq(Messages) /\ b \in Seq(Messages)
  /\ Rebuild(l) = g \o b /\ Orphans(l) = a \o td
  /\ Asked(a) /\ (a # <<>> => "kill" \in m)
  /\ \A c \in ToSet(a) : Owned(g, c) /\ ~Owned(b, c)
  /\ h = Recovered(g, a) \o b /\ Complete(Recovered(g, a))
  /\ InBatch(g, b, td)
Owes(m, l, h, td) == \E a, g, b : OwesBy(m, l, h, td, a, g, b)

\* No call is left: the history is the one that opening the log gives.
LEMMA OwesNothing ==
  ASSUME NEW m, NEW l \in Seq(Entries), NEW h, NEW a, NEW g, NEW b, OwesBy(m, l, h, <<>>, a, g, b)
  PROVE /\ b = <<>> /\ g = Rebuild(l) /\ a = Orphans(l) /\ h = Recovered(g, a)
        /\ h = Full(l) /\ h \in Seq(Messages) /\ Complete(h) /\ Asked(Orphans(l))
  <1>1. b = <<>>
    <2>1. ASSUME NEW cs, NEW k \in 0..Len(cs), Distinct(cs), k < Len(cs) PROVE Rest(cs, k) # <<>>
      <3>1. cs \in Seq(CallIds)
        BY <2>1 DEF Distinct
      <3>2. Rest(cs, k) = <<>> <=> k = Len(cs)
        BY <3>1, RestIs
      <3> QED BY <2>1, <3>1, <3>2
    <2> QED BY <2>1 DEF OwesBy, InBatch
  <1>2. a \in Seq(CallIds) /\ g \in Seq(Messages)
    BY DEF OwesBy
  <1>3. g \o <<>> = g /\ a \o <<>> = a
    BY <1>2
  <1>4. Recovered(g, a) \in Seq(Messages)
    BY <1>2, RecoveredAlways
  <1>5. Recovered(g, a) \o <<>> = Recovered(g, a)
    BY <1>4
  <1>6. g = Rebuild(l) /\ a = Orphans(l)
    BY <1>1, <1>3 DEF OwesBy
  <1>7. h = Recovered(g, a)
    BY <1>1, <1>5 DEF OwesBy
  <1> QED BY <1>1, <1>4, <1>6, <1>7 DEF OwesBy, Full

\* No question waits alone: opening the log recovers every orphan.
LEMMA AskedOpens ==
  ASSUME NEW l \in Seq(Entries), Asked(Orphans(l))
  PROVE Parked(l) = <<>> /\ Opened(l) = Full(l)
  <1>1. Parked(l) = <<>>
    BY DEF Asked, Parked
  <1> QED BY <1>1 DEF Opened, Full, Recovered

\* A message of the user, or an answer without calls.
LEMMA OwesSay ==
  ASSUME NEW m, NEW l \in Seq(Entries), NEW h, NEW a, NEW g, NEW b, OwesBy(m, l, h, <<>>, a, g, b),
         NEW x \in Said, x[1] \in {"user", "text"}
  PROVE OwesBy(m, l \o <<x>>, h \o <<x>>, <<>>, a, g \o <<x>>, <<>>)
  <1> DEFINE s == <<x>>
  <1>1. /\ b = <<>> /\ g = Rebuild(l) /\ a = Orphans(l) /\ h = Recovered(g, a) /\ Complete(h)
        /\ h \in Seq(Messages)
    BY OwesNothing
  <1>2. /\ a \in Seq(CallIds) /\ g \in Seq(Messages) /\ \A c \in ToSet(a) : Owned(g, c)
        /\ Asked(a) /\ (a # <<>> => "kill" \in m)
    BY DEF OwesBy
  <1>3. s \in Seq(Said) /\ s \in Seq(Messages) /\ s # <<>> /\ s[1] = x /\ ToSet(s) = {x}
    BY SaidEverywhere DEF ToSet
  <1>4. Complete(s)
    BY CompleteSingle
  <1>5. Orphans(l \o s) = a
    <2>1. l \in Seq(Anything) /\ x \in Anything /\ x[1] \notin {"calls", "tool"}
      BY SaidEverywhere
    <2> QED BY <1>1, <2>1, OrphansSay
  <1> HIDE DEF s
  <1>6. Rebuild(l \o s) = g \o s
    BY <1>1, <1>3, RebuildAlways
  <1>7. \A c : ~Owned(s, c)
    BY <1>3 DEF Owned
  <1>8. Recovered(g \o s, a) = h \o s
    <2>1. s[1][1] # "tool"
      BY <1>3
    <2>2. Recovered(g \o s, a) = Recovered(g, a) \o s
      BY <1>2, <1>3, <1>7, <2>1, RecoveredInFront
    <2> QED BY <1>1, <2>2
  <1>9. Complete(h \o s)
    BY <1>1, <1>3, <1>4, CompleteConcat
  <1>10. g \o s \in Seq(Messages) /\ ToSet(g \o s) = ToSet(g) \cup ToSet(s) /\ h \o s \in Seq(Messages)
    BY <1>1, <1>2, <1>3, ConcatElements
  <1>11. \A c \in ToSet(a) : Owned(g \o s, c)
    BY <1>2, <1>10 DEF Owned
  <1>12. \A c : ~Owned(<<>>, c)
    BY DEF Owned, ToSet
  <1> DEFINE g2 == g \o s
             h2 == h \o s
             l2 == l \o s
  <1>13. g2 \o <<>> = g2 /\ a \o <<>> = a /\ h2 \o <<>> = h2
    BY <1>2, <1>10
  <1>14. <<>> \in Seq(CallIds) /\ <<>> \in Seq(Messages)
    OBVIOUS
  <1>15. /\ Rebuild(l2) = g2 \o <<>> /\ Orphans(l2) = a \o <<>> /\ h2 = Recovered(g2, a) \o <<>>
         /\ Complete(Recovered(g2, a)) /\ g2 \in Seq(Messages)
         /\ \A c \in ToSet(a) : Owned(g2, c) /\ ~Owned(<<>>, c)
    BY <1>5, <1>6, <1>8, <1>9, <1>10, <1>11, <1>12, <1>13
  <1> HIDE DEF g2, h2, l2
  <1>16. OwesBy(m, l2, h2, <<>>, a, g2, <<>>)
    BY <1>2, <1>14, <1>15 DEF OwesBy, InBatch
  <1> QED BY <1>16 DEF g2, h2, l2, s

\* An answer with calls.
LEMMA OwesCalls ==
  ASSUME NEW m, NEW l \in Seq(Entries), NEW h, NEW a, NEW g, NEW b, OwesBy(m, l, h, <<>>, a, g, b),
         NEW cs, Distinct(cs), cs # <<>>,
         \A c \in ToSet(cs) : ~Owned(l, c) /\ Result(c) \notin ToSet(l)
  PROVE OwesBy(m, l \o <<CallsOf(cs)>>, h \o <<CallsOf(cs)>>, cs, a, g, <<CallsOf(cs)>>)
  <1> DEFINE s == <<CallsOf(cs)>>
  <1>1. /\ b = <<>> /\ g = Rebuild(l) /\ a = Orphans(l) /\ h = Recovered(g, a) /\ Complete(h)
        /\ h \in Seq(Messages)
    BY OwesNothing
  <1>2. /\ a \in Seq(CallIds) /\ g \in Seq(Messages) /\ \A c \in ToSet(a) : Owned(g, c)
        /\ Asked(a) /\ (a # <<>> => "kill" \in m)
    BY DEF OwesBy
  <1>0. cs \in Seq(CallIds) /\ Len(cs) \in Nat /\ Len(cs) > 0 /\ 0 \in 0..Len(cs) /\ CallsOf(cs) \in Said
    BY Spoken DEF Distinct
  <1>3. s \in Seq(Said) /\ s \in Seq(Messages) /\ ToSet(s) = {CallsOf(cs)}
    BY <1>0, SaidEverywhere DEF ToSet
  <1>4. s = Batch(cs, 0) /\ cs = Rest(cs, 0)
    <2>1. Results(cs, 0) = <<>>
      BY DEF Results
    <2>2. cs = Rest(cs, 0)
      BY <1>0, RestIs
    <2> HIDE DEF s
    <2>3. s \o <<>> = s
      BY <1>3
    <2> QED BY <2>1, <2>2, <2>3 DEF Batch, s
  <1>5. Orphans(l \o s) = a \o cs
    <2>1. l \in Seq(Anything)
      BY SaidEverywhere
    <2> QED BY <1>0, <1>1, <2>1, OrphansCall
  <1> HIDE DEF s
  <1>6. Rebuild(l \o s) = g \o s
    BY <1>1, <1>3, RebuildAlways
  <1>7. \A c : Owned(s, c) <=> c \in ToSet(cs)
    BY <1>3, Shapes DEF Owned
  <1>8. \A c \in ToSet(a) : ~Owned(s, c)
    <2>1. l \in Seq(Anything)
      BY SaidEverywhere
    <2>2. \A c \in ToSet(a) : Owned(l, c)
      BY <1>1, <2>1, OrphansAre
    <2> QED BY <1>7, <2>2
  <1>9. \A c \in ToSet(cs) : Result(c) \notin ToSet(g)
    <2>1. ToSet(g) \subseteq ToSet(l) \cup Summaries
      BY <1>1, RebuiltFrom
    <2>2. \A c : Result(c) \notin Summaries
      BY OtherIs, Shapes
    <2> QED BY <2>1, <2>2
  <1>10. InBatch(g, s, cs)
    BY <1>0, <1>4, <1>9 DEF InBatch
  <1>11. OwesBy(m, l \o s, h \o s, cs, a, g, s)
    BY <1>0, <1>1, <1>2, <1>3, <1>5, <1>6, <1>8, <1>10 DEF OwesBy
  <1> QED BY <1>11 DEF s

ResultsOf(td) == [i \in DOMAIN td |-> Result(td[i])]

\* The results of calls.
LEMMA ResultsAre ==
  ASSUME NEW td \in Seq(CallIds)
  PROVE /\ ResultsOf(td) \in Seq(Said) /\ Len(ResultsOf(td)) = Len(td)
        /\ ToSet(ResultsOf(td)) = {Result(c) : c \in ToSet(td)}
        /\ \A r \in ToSet(ResultsOf(td)) : r[1] = "tool"
  <1>1. \A i \in DOMAIN td : Result(td[i]) \in Said
    BY Spoken
  <1>2. DOMAIN td = 1..Len(td) /\ Len(td) \in Nat
    OBVIOUS
  <1>3. ResultsOf(td) \in Seq(Said) /\ Len(ResultsOf(td)) = Len(td)
    BY <1>1, <1>2 DEF ResultsOf
  <1>4. ToSet(ResultsOf(td)) = {Result(c) : c \in ToSet(td)}
    BY DEF ToSet, ResultsOf
  <1>5. \A r \in ToSet(ResultsOf(td)) : r[1] = "tool"
    BY <1>4, Shapes
  <1> QED BY <1>3, <1>4, <1>5

\* Concatenation is associative.
LEMMA ConcatThree ==
  ASSUME NEW X, NEW s \in Seq(X), NEW u \in Seq(X), NEW v \in Seq(X)
  PROVE (s \o u) \o v = s \o (u \o v)
  OBVIOUS

OwesPart(m, l, h, td, a, g, b, cs, k) ==
  /\ OwesBy(m, l, h, td, a, g, b)
  /\ Distinct(cs) /\ k \in 0..Len(cs) /\ k < Len(cs) /\ b = Batch(cs, k) /\ td = Rest(cs, k)
  /\ \A c \in ToSet(cs) : Result(c) \notin ToSet(g)

\* What a batch under way has to do with the rest.
LEMMA BatchApart ==
  ASSUME NEW m, NEW l \in Seq(Entries), NEW h, NEW td, NEW a, NEW g, NEW b, NEW cs, NEW k,
         OwesPart(m, l, h, td, a, g, b, cs, k)
  PROVE /\ cs \in Seq(CallIds) /\ Len(cs) \in Nat /\ Len(cs) \in 0..Len(cs) /\ k + 1 \in 0..Len(cs)
        /\ b \in Seq(Said) /\ b # <<>> /\ b[1][1] # "tool" /\ td # <<>>
        /\ \A c : Owned(b, c) <=> c \in ToSet(cs)
        /\ \A c \in ToSet(a) : c \notin ToSet(cs)
        /\ Recovered(g, a) \in Seq(Messages)
        /\ \A c \in ToSet(cs) : Result(c) \notin ToSet(Recovered(g, a))
        /\ ToSet(td) \subseteq ToSet(cs)
  <1>0. /\ OwesBy(m, l, h, td, a, g, b)
        /\ Distinct(cs) /\ k \in 0..Len(cs) /\ k < Len(cs) /\ b = Batch(cs, k) /\ td = Rest(cs, k)
        /\ \A c \in ToSet(cs) : Result(c) \notin ToSet(g)
    BY DEF OwesPart
  <1>1. cs \in Seq(CallIds) /\ Len(cs) \in Nat /\ Len(cs) \in 0..Len(cs) /\ k + 1 \in 0..Len(cs)
    BY <1>0 DEF Distinct
  <1>2. /\ b \in Seq(Said) /\ b[1] = CallsOf(cs) /\ b # <<>>
        /\ \A c : Owned(b, c) <=> c \in ToSet(cs)
    BY <1>0, <1>1, BatchIs
  <1>3. b[1][1] # "tool"
    BY <1>0, <1>2, Shapes
  <1>4. \A c \in ToSet(a) : c \notin ToSet(cs)
    BY <1>0, <1>2 DEF OwesBy
  <1>5. g \in Seq(Messages) /\ a \in Seq(CallIds)
    BY <1>0 DEF OwesBy
  <1>6. Recovered(g, a) \in Seq(Messages) /\ ToSet(Recovered(g, a)) = ToSet(g) \cup {Result(c) : c \in ToSet(a)}
    BY <1>0, <1>5, RecoveredAlways
  <1>7. \A c \in ToSet(cs) : Result(c) \notin ToSet(Recovered(g, a))
    BY <1>0, <1>4, <1>6, Shapes
  <1>8. td # <<>>
    BY <1>0, <1>1, RestIs
  <1>9. ToSet(td) \subseteq ToSet(cs)
    <2>1. /\ Rest(cs, k) \in Seq(CallIds) /\ Len(Rest(cs, k)) = Len(cs) - k
          /\ \A i \in 1..(Len(cs) - k) : Rest(cs, k)[i] = cs[k + i]
      BY <1>0, <1>1, RestIs
    <2>2. DOMAIN td = 1..(Len(cs) - k) /\ DOMAIN cs = 1..Len(cs)
      BY <1>0, <1>1, <2>1
    <2>3. \A i \in 1..(Len(cs) - k) : k + i \in 1..Len(cs)
      BY <1>0, <1>1
    <2> QED BY <1>0, <2>1, <2>2, <2>3 DEF ToSet
  <1> QED BY <1>0, <1>1, <1>2, <1>3, <1>4, <1>6, <1>7, <1>8, <1>9

\* A result, and others are left.
LEMMA OwesRun ==
  ASSUME NEW m, NEW l \in Seq(Entries), NEW h, NEW td, NEW a, NEW g, NEW b, NEW cs, NEW k,
         OwesPart(m, l, h, td, a, g, b, cs, k), k + 1 < Len(cs)
  PROVE OwesBy(m, l \o <<Result(Head(td))>>, h \o <<Result(Head(td))>>, Tail(td), a, g, Batch(cs, k + 1))
  <1>0. /\ cs \in Seq(CallIds) /\ Len(cs) \in Nat /\ k + 1 \in 0..Len(cs)
        /\ b \in Seq(Said) /\ Recovered(g, a) \in Seq(Messages) /\ td # <<>>
        /\ \A e : Owned(b, e) <=> e \in ToSet(cs)
        /\ \A e \in ToSet(a) : e \notin ToSet(cs)
    BY BatchApart
  <1>00. /\ OwesBy(m, l, h, td, a, g, b)
        /\ Distinct(cs) /\ k \in 0..Len(cs) /\ k < Len(cs) /\ b = Batch(cs, k) /\ td = Rest(cs, k)
        /\ \A e \in ToSet(cs) : Result(e) \notin ToSet(g)
    BY DEF OwesPart
  <1> DEFINE c == cs[k + 1]
             s == <<Result(c)>>
             d == Batch(cs, k + 1)
             G == Recovered(g, a)
  <1>1. /\ cs \in Seq(CallIds) /\ Len(cs) \in Nat /\ k + 1 \in 0..Len(cs)
        /\ b \in Seq(Said) /\ G \in Seq(Messages)
        /\ \A e : Owned(b, e) <=> e \in ToSet(cs)
        /\ \A e \in ToSet(a) : e \notin ToSet(cs)
    BY <1>0
  <1>2. /\ a \in Seq(CallIds) /\ g \in Seq(Messages) /\ b \in Seq(Messages) /\ td \in Seq(CallIds)
        /\ Rebuild(l) = g \o b /\ Orphans(l) = a \o td /\ h = G \o b /\ Complete(G)
        /\ Asked(a) /\ (a # <<>> => "kill" \in m) /\ \A e \in ToSet(a) : Owned(g, e)
    BY <1>00 DEF OwesBy
  <1>3. Head(td) = c /\ Tail(td) = Rest(cs, k + 1) /\ c \in CallIds /\ Tail(td) \in Seq(CallIds)
    <2>1. Head(td) = c /\ Tail(td) = Rest(cs, k + 1) /\ c \in CallIds
      BY <1>00, <1>1, RestIs
    <2>2. Rest(cs, k + 1) \in Seq(CallIds)
      BY <1>00, <1>1, RestIs
    <2> QED BY <2>1, <2>2
  <1>4. s \in Seq(Said) /\ s \in Seq(Messages) /\ ToSet(s) = {Result(c)} /\ \A r \in ToSet(s) : r[1] = "tool"
    BY <1>3, Spoken, SaidEverywhere, Shapes DEF ToSet
  <1>5. b \o s = d
    BY <1>00, <1>1, BatchGrows
  <1>6. d \in Seq(Messages) /\ \A e : Owned(d, e) <=> e \in ToSet(cs)
    <2>1. d \in Seq(Said) /\ \A e : Owned(d, e) <=> e \in ToSet(cs)
      BY <1>00, <1>1, BatchIs
    <2> QED BY <2>1, SaidEverywhere
  <1>7. /\ Left(ToSet(s), a) = a
        /\ Left(ToSet(s), td) = Tail(td)
    <2>1. c \in ToSet(cs) /\ DOMAIN cs = 1..Len(cs)
      BY <1>00, <1>1 DEF ToSet
    <2>2. Left(ToSet(s), a) = a
      <3>1. \A e \in ToSet(a) : Result(e) \notin ToSet(s)
        BY <1>1, <1>4, <2>1, Shapes
      <3> QED BY <1>2, <3>1, LeftAlways
    <2> DEFINE v == Rest(cs, k + 1)
    <2>3. /\ v \in Seq(CallIds) /\ Len(v) = Len(cs) - (k + 1) /\ DOMAIN v = 1..(Len(cs) - (k + 1))
          /\ \A i \in 1..(Len(cs) - (k + 1)) : v[i] = cs[k + 1 + i] /\ k + 1 + i \in 1..Len(cs)
                                              /\ k + 1 + i # k + 1
      <3>1. /\ v \in Seq(CallIds) /\ Len(v) = Len(cs) - (k + 1)
            /\ \A i \in 1..(Len(cs) - (k + 1)) : v[i] = cs[k + 1 + i]
        BY <1>00, <1>1, RestIs
      <3>2. \A i \in 1..(Len(cs) - (k + 1)) : k + 1 + i \in 1..Len(cs) /\ k + 1 + i # k + 1
        BY <1>00, <1>1
      <3>3. DOMAIN v = 1..(Len(cs) - (k + 1))
        BY <3>1
      <3> QED BY <3>1, <3>2, <3>3
    <2> HIDE DEF v
    <2>4. \A e \in ToSet(v) : Result(e) \notin ToSet(s)
      <3>1. k + 1 \in 1..Len(cs)
        BY <1>00, <1>1
      <3>2. \A i \in 1..(Len(cs) - (k + 1)) : v[i] # c
        BY <1>00, <2>1, <2>3, <3>1 DEF Distinct
      <3>3. \A e \in ToSet(v) : e # c
        BY <2>3, <3>2 DEF ToSet
      <3> QED BY <1>4, <3>3, Shapes
    <2>5. Left(ToSet(s), v) = v
      BY <2>3, <2>4, LeftAlways
    <2>6. Left(ToSet(s), <<c>>) = <<>>
      <3> DEFINE w == <<c>>
      <3>1. w \in Seq(CallIds) /\ ToSet(w) = {c}
        BY <1>3 DEF ToSet
      <3> HIDE DEF w
      <3>2. Left(ToSet(s), w) = <<>>
        BY <1>4, <3>1, LeftAlways
      <3> QED BY <3>2 DEF w
    <2>7. td = <<c>> \o v
      <3>1. td = <<Head(td)>> \o Tail(td)
        BY <1>0, <1>2
      <3> QED BY <1>3, <3>1 DEF v
    <2>8. Left(ToSet(s), <<c>> \o v) = Left(ToSet(s), <<c>>) \o Left(ToSet(s), v)
      <3> DEFINE w == <<c>>
                 T == ToSet(s)
      <3>1. w \in Seq(CallIds)
        BY <1>3
      <3> HIDE DEF w, T
      <3>2. Left(T, w \o v) = Left(T, w) \o Left(T, v)
        BY <2>3, <3>1, LeftConcat
      <3> QED BY <3>2 DEF w, T
    <2>9. Left(ToSet(s), td) = <<>> \o v
      BY <2>5, <2>6, <2>7, <2>8
    <2>10. <<>> \o v = v
      BY <2>3
    <2>11. Left(ToSet(s), td) = v
      BY <2>9, <2>10
    <2>12. Tail(td) = v
      BY <1>3 DEF v
    <2> QED BY <2>2, <2>11, <2>12
  <1> HIDE DEF s, d, G
  <1>8. Orphans(l \o s) = a \o Tail(td)
    <2>1. l \in Seq(Anything)
      BY SaidEverywhere
    <2>2. Orphans(l \o s) = Left(ToSet(s), Orphans(l))
      BY <1>4, <2>1, OrphansHear
    <2>3. Left(ToSet(s), a \o td) = Left(ToSet(s), a) \o Left(ToSet(s), td)
      BY <1>2, LeftConcat
    <2> QED BY <1>2, <1>7, <2>2, <2>3
  <1>9. Rebuild(l \o s) = g \o d
    <2>1. Rebuild(l \o s) = (g \o b) \o s
      BY <1>2, <1>4, RebuildAlways
    <2>2. (g \o b) \o s = g \o (b \o s)
      <3>1. g \in Seq(Messages) /\ b \in Seq(Messages) /\ s \in Seq(Messages)
        BY <1>2, <1>4
      <3> QED BY <3>1, ConcatThree
    <2> QED BY <1>5, <2>1, <2>2
  <1>10. h \o s = G \o d
    <2>1. (G \o b) \o s = G \o (b \o s)
      <3>1. G \in Seq(Messages) /\ b \in Seq(Messages) /\ s \in Seq(Messages)
        BY <1>1, <1>2, <1>4
      <3> QED BY <3>1, ConcatThree
    <2> QED BY <1>2, <1>5, <2>1
  <1>11. InBatch(g, d, Tail(td))
    BY <1>00, <1>1, <1>3 DEF InBatch, d
  <1>12. OwesBy(m, l \o s, h \o s, Tail(td), a, g, d)
    BY <1>1, <1>2, <1>3, <1>6, <1>8, <1>9, <1>10, <1>11 DEF OwesBy, G
  <1> QED BY <1>3, <1>12 DEF s, d

\* All the results that are left, one by one or together.
LEMMA OwesEnds ==
  ASSUME NEW m, NEW l \in Seq(Entries), NEW h, NEW td, NEW a, NEW g, NEW b, NEW cs, NEW k,
         OwesPart(m, l, h, td, a, g, b, cs, k)
  PROVE /\ OwesBy(m, l \o ResultsOf(td), h \o ResultsOf(td), <<>>, a, g \o Batch(cs, Len(cs)), <<>>)
        /\ Orphans(h) = td
  <1>0. /\ cs \in Seq(CallIds) /\ Len(cs) \in Nat /\ Len(cs) \in 0..Len(cs) /\ k + 1 \in 0..Len(cs)
        /\ b \in Seq(Said) /\ b # <<>> /\ b[1][1] # "tool" /\ td # <<>>
        /\ \A c : Owned(b, c) <=> c \in ToSet(cs)
        /\ \A c \in ToSet(a) : c \notin ToSet(cs)
        /\ Recovered(g, a) \in Seq(Messages)
        /\ \A c \in ToSet(cs) : Result(c) \notin ToSet(Recovered(g, a))
        /\ ToSet(td) \subseteq ToSet(cs)
    BY BatchApart
  <1>00. /\ OwesBy(m, l, h, td, a, g, b)
        /\ Distinct(cs) /\ k \in 0..Len(cs) /\ k < Len(cs) /\ b = Batch(cs, k) /\ td = Rest(cs, k)
        /\ \A e \in ToSet(cs) : Result(e) \notin ToSet(g)
    BY DEF OwesPart
  <1> DEFINE q == ResultsOf(td)
             d == Batch(cs, Len(cs))
             G == Recovered(g, a)
             g2 == g \o d
             l2 == l \o q
             h2 == h \o q
  <1>1. /\ cs \in Seq(CallIds) /\ Len(cs) \in Nat /\ Len(cs) \in 0..Len(cs)
        /\ b \in Seq(Said) /\ G \in Seq(Messages)
        /\ \A e : Owned(b, e) <=> e \in ToSet(cs)
        /\ \A e \in ToSet(a) : e \notin ToSet(cs)
        /\ ToSet(td) \subseteq ToSet(cs)
        /\ \A e \in ToSet(cs) : Result(e) \notin ToSet(G)
    BY <1>0
  <1>2. /\ a \in Seq(CallIds) /\ g \in Seq(Messages) /\ b \in Seq(Messages) /\ td \in Seq(CallIds)
        /\ Rebuild(l) = g \o b /\ Orphans(l) = a \o td /\ h = G \o b /\ Complete(G)
        /\ Asked(a) /\ (a # <<>> => "kill" \in m) /\ \A e \in ToSet(a) : Owned(g, e)
    BY <1>00 DEF OwesBy
  <1>3. /\ q \in Seq(Said) /\ q \in Seq(Messages) /\ ToSet(q) = {Result(c) : c \in ToSet(td)}
        /\ \A r \in ToSet(q) : r[1] = "tool"
    BY <1>2, ResultsAre, SaidEverywhere
  <1>4. b \o q = d
    BY <1>00, <1>1, BatchGrows DEF ResultsOf
  <1>5. d \in Seq(Messages) /\ d[1][1] # "tool" /\ \A e : Owned(d, e) <=> e \in ToSet(cs)
    <2>1. d \in Seq(Said) /\ d[1] = CallsOf(cs) /\ \A e : Owned(d, e) <=> e \in ToSet(cs)
      BY <1>00, <1>1, BatchIs
    <2> QED BY <2>1, SaidEverywhere, Shapes
  <1>6. Complete(d)
    BY <1>1, CompleteBatch
  <1> HIDE DEF q, d, G
  <1>7. Orphans(l \o q) = a
    <2>1. l \in Seq(Anything)
      BY SaidEverywhere
    <2>2. Orphans(l \o q) = Left(ToSet(q), Orphans(l))
      BY <1>3, <2>1, OrphansHear
    <2>3. Left(ToSet(q), a \o td) = Left(ToSet(q), a) \o Left(ToSet(q), td)
      BY <1>2, LeftConcat
    <2>4. Left(ToSet(q), a) = a
      <3>1. \A e \in ToSet(a) : Result(e) \notin ToSet(q)
        BY <1>1, <1>3, Shapes
      <3> QED BY <1>2, <3>1, LeftAlways
    <2>5. Left(ToSet(q), td) = <<>>
      <3>1. \A e \in ToSet(td) : Result(e) \in ToSet(q)
        BY <1>3
      <3> QED BY <1>2, <3>1, LeftAlways
    <2>6. a \o <<>> = a
      BY <1>2
    <2> QED BY <1>2, <2>2, <2>3, <2>4, <2>5, <2>6
  <1>8. Rebuild(l \o q) = g2
    <2>1. Rebuild(l \o q) = (g \o b) \o q
      BY <1>2, <1>3, RebuildAlways
    <2>2. (g \o b) \o q = g \o (b \o q)
      <3>1. g \in Seq(Messages) /\ b \in Seq(Messages) /\ q \in Seq(Messages)
        BY <1>2, <1>3
      <3> QED BY <3>1, ConcatThree
    <2> QED BY <1>4, <2>1, <2>2
  <1>9. h \o q = G \o d
    <2>1. (G \o b) \o q = G \o (b \o q)
      <3>1. G \in Seq(Messages) /\ b \in Seq(Messages) /\ q \in Seq(Messages)
        BY <1>1, <1>2, <1>3
      <3> QED BY <3>1, ConcatThree
    <2> QED BY <1>2, <1>4, <2>1
  <1>10. Recovered(g2, a) = G \o d
    BY <1>1, <1>2, <1>5, RecoveredInFront DEF G
  <1>11. Complete(G \o d)
    BY <1>1, <1>2, <1>5, <1>6, CompleteConcat
  <1>12. g2 \in Seq(Messages) /\ ToSet(g2) = ToSet(g) \cup ToSet(d) /\ G \o d \in Seq(Messages)
    BY <1>1, <1>2, <1>5, ConcatElements
  <1>13. \A e \in ToSet(a) : Owned(g2, e) /\ ~Owned(<<>>, e)
    <2>1. \A e \in ToSet(a) : Owned(g2, e)
      BY <1>2, <1>12 DEF Owned
    <2>2. \A e : ~Owned(<<>>, e)
      BY DEF Owned, ToSet
    <2> QED BY <2>1, <2>2
  <1> HIDE DEF g2, l2, h2
  <1>14. g2 \o <<>> = g2 /\ a \o <<>> = a /\ h2 \o <<>> = h2
    <2>1. h2 \in Seq(Messages)
      BY <1>9, <1>12 DEF h2
    <2> QED BY <1>2, <1>12, <2>1
  <1>15. <<>> \in Seq(CallIds) /\ <<>> \in Seq(Messages)
    OBVIOUS
  <1>16. OwesBy(m, l2, h2, <<>>, a, g2, <<>>)
    <2>1. Rebuild(l2) = g2 \o <<>> /\ Orphans(l2) = a \o <<>> /\ h2 = Recovered(g2, a) \o <<>>
          /\ Complete(Recovered(g2, a))
      BY <1>7, <1>8, <1>9, <1>10, <1>11, <1>14 DEF l2, h2
    <2>2. InBatch(g2, <<>>, <<>>)
      BY DEF InBatch
    <2> QED BY <1>2, <1>12, <1>13, <1>15, <2>1, <2>2 DEF OwesBy
  <1>17. Orphans(h) = td
    <2>1. Orphans(G \o Batch(cs, k)) = Rest(cs, k)
      BY <1>00, <1>1, <1>2, OrphansBatch
    <2> QED BY <1>00, <1>2, <2>1
  <1> QED BY <1>16, <1>17 DEF g2, l2, h2, q, d

\* Either nothing is owed, or a batch is under way.
LEMMA OwesSplit ==
  ASSUME NEW m, NEW l, NEW h, NEW td, NEW a, NEW g, NEW b, OwesBy(m, l, h, td, a, g, b)
  PROVE \/ td = <<>> /\ b = <<>>
        \/ td # <<>> /\ \E cs, k : OwesPart(m, l, h, td, a, g, b, cs, k)
  <1>1. CASE td = <<>> /\ b = <<>>
    BY <1>1
  <1>2. ASSUME NEW cs, NEW k \in 0..Len(cs), Distinct(cs), k < Len(cs), b = Batch(cs, k), td = Rest(cs, k),
               \A c \in ToSet(cs) : Result(c) \notin ToSet(g)
        PROVE td # <<>> /\ OwesPart(m, l, h, td, a, g, b, cs, k)
    <2>1. cs \in Seq(CallIds)
      BY <1>2 DEF Distinct
    <2>2. Rest(cs, k) = <<>> <=> k = Len(cs)
      BY <2>1, RestIs
    <2>3. td # <<>>
      BY <1>2, <2>1, <2>2
    <2>4. OwesPart(m, l, h, td, a, g, b, cs, k)
      BY <1>2 DEF OwesPart
    <2> QED BY <2>3, <2>4
  <1>3. InBatch(g, b, td)
    BY DEF OwesBy
  <1> QED BY <1>1, <1>2, <1>3 DEF InBatch

\* No calls have no results.
LEMMA NoResults ==
  ASSUME NEW X, NEW s \in Seq(X)
  PROVE ResultsOf(<<>>) = <<>> /\ s \o ResultsOf(<<>>) = s
  <1>1. ResultsOf(<<>>) = <<>>
    BY DEF ResultsOf
  <1>2. s \o <<>> = s
    OBVIOUS
  <1> QED BY <1>1, <1>2

\* The turn stops: the calls without a result get one.
LEMMA OwesStops ==
  ASSUME NEW m, NEW l \in Seq(Entries), NEW h, NEW td, Owes(m, l, h, td)
  PROVE /\ Orphans(h) = td
        /\ Owes(m, l \o ResultsOf(td), h \o ResultsOf(td), <<>>)
  <1>1. PICK a, g, b : OwesBy(m, l, h, td, a, g, b)
    BY DEF Owes
  <1>2. CASE td = <<>>
    <2>1. OwesBy(m, l, h, <<>>, a, g, b)
      BY <1>1, <1>2
    <2>2. h \in Seq(Messages) /\ Complete(h)
      BY <2>1, OwesNothing
    <2>3. Orphans(h) = <<>>
      BY <2>2, CompleteAnswers
    <2>4. l \o ResultsOf(<<>>) = l /\ h \o ResultsOf(<<>>) = h
      BY <2>2, NoResults
    <2>5. Owes(m, l, h, <<>>)
      BY <2>1 DEF Owes
    <2> QED BY <1>2, <2>3, <2>4, <2>5
  <1>3. CASE td # <<>>
    <2>1. PICK cs, k : OwesPart(m, l, h, td, a, g, b, cs, k)
      BY <1>1, <1>3, OwesSplit
    <2>2. /\ OwesBy(m, l \o ResultsOf(td), h \o ResultsOf(td), <<>>, a, g \o Batch(cs, Len(cs)), <<>>)
          /\ Orphans(h) = td
      BY <2>1, OwesEnds
    <2> QED BY <2>2 DEF Owes
  <1> QED BY <1>2, <1>3

\* Questions wait when every orphan is one.
LEMMA ParkedIs ==
  ASSUME NEW l \in Seq(Entries)
  PROVE /\ Parked(l) = <<>> => Asked(Orphans(l))
        /\ Parked(l) # <<>> => /\ Parked(l) = Orphans(l)
                               /\ \A i \in DOMAIN Orphans(l) : Orphans(l)[i][2] = "ask_user"
  BY DEF Parked, Asked

\* The session is opened, and no question waits for the user.
LEMMA OwesOpens ==
  ASSUME NEW m, NEW l \in Seq(Entries), NEW h, NEW td, Owes(m, l, h, td), "kill" \in m, Asked(Orphans(l))
  PROVE Owes(m, l, Full(l), <<>>) /\ Full(l) = h \o ResultsOf(td)
  <1>1. PICK a, g, b : OwesBy(m, l, h, td, a, g, b)
    BY DEF Owes
  <1>2. CASE td = <<>>
    <2>1. OwesBy(m, l, h, <<>>, a, g, b)
      BY <1>1, <1>2
    <2>2. h = Full(l) /\ h \in Seq(Messages)
      BY <2>1, OwesNothing
    <2>3. h \o ResultsOf(<<>>) = h
      BY <2>2, NoResults
    <2>4. Owes(m, l, h, <<>>)
      BY <2>1 DEF Owes
    <2> QED BY <1>2, <2>2, <2>3, <2>4
  <1>3. CASE td # <<>>
    <2>1. PICK cs, k : OwesPart(m, l, h, td, a, g, b, cs, k)
      BY <1>1, <1>3, OwesSplit
    <2>2. /\ cs \in Seq(CallIds) /\ Len(cs) \in Nat /\ Len(cs) \in 0..Len(cs) /\ k + 1 \in 0..Len(cs)
          /\ b \in Seq(Said) /\ b # <<>> /\ b[1][1] # "tool" /\ td # <<>>
          /\ \A c : Owned(b, c) <=> c \in ToSet(cs)
          /\ \A c \in ToSet(a) : c \notin ToSet(cs)
          /\ Recovered(g, a) \in Seq(Messages)
          /\ \A c \in ToSet(cs) : Result(c) \notin ToSet(Recovered(g, a))
          /\ ToSet(td) \subseteq ToSet(cs)
      BY <2>1, BatchApart
    <2>3. k \in 0..Len(cs) /\ b = Batch(cs, k) /\ td = Rest(cs, k)
      BY <2>1 DEF OwesPart
    <2>4. /\ a \in Seq(CallIds) /\ td \in Seq(CallIds) /\ g \in Seq(Messages) /\ b \in Seq(Messages)
          /\ Rebuild(l) = g \o b /\ Orphans(l) = a \o td
          /\ \A c \in ToSet(a) : Owned(g, c) /\ ~Owned(b, c)
          /\ h = Recovered(g, a) \o b /\ Complete(Recovered(g, a))
      BY <1>1 DEF OwesBy
    <2> DEFINE G == Recovered(g, a)
               d == Batch(cs, Len(cs))
               q == ResultsOf(td)
               e == g \o b
               o == a \o td
    <2>5. d = b \o q
      BY <2>2, <2>3, BatchGrows DEF ResultsOf
    <2>6. Complete(d) /\ d \in Seq(Messages)
      <3>1. d \in Seq(Said)
        BY <2>2, BatchIs
      <3>2. Complete(d)
        BY <2>2, CompleteBatch
      <3> QED BY <3>1, <3>2, SaidEverywhere
    <2>7. q \in Seq(Messages)
      BY <2>4, ResultsAre, SaidEverywhere
    <2>8. G \in Seq(Messages) /\ Complete(G)
      BY <2>2, <2>4
    <2>9. e \in Seq(Messages) /\ ToSet(e) = ToSet(g) \cup ToSet(b)
      BY <2>4, ConcatElements
    <2>10. o \in Seq(CallIds) /\ ToSet(o) = ToSet(a) \cup ToSet(td)
      BY <2>4, ConcatElements
    <2>11. Recovered(e, a) = G \o b
      BY <2>2, <2>4, RecoveredInFront
    <2>12. Recovered(G \o b, td) = G \o d
      BY <2>2, <2>3, <2>8, RecoverBatch
    <2> HIDE DEF G, d, q, e, o
    <2>13. Recovered(e, o) = Recovered(Recovered(e, a), td)
      BY <2>4, <2>9, RecoveredTwice DEF o
    <2>14. Recovered(e, o) = G \o d
      BY <2>11, <2>12, <2>13
    <2>15. Full(l) = Recovered(e, o)
      BY <2>4 DEF Full, e, o
    <2>16. G \o d \in Seq(Messages)
      BY <2>6, <2>8, ConcatElements
    <2>17. Complete(G \o d)
      BY <2>6, <2>8, CompleteConcat
    <2>18. G \o d = (G \o b) \o q
      <3>1. G \in Seq(Messages) /\ b \in Seq(Messages) /\ q \in Seq(Messages)
        BY <2>4, <2>7, <2>8
      <3>2. (G \o b) \o q = G \o (b \o q)
        BY <3>1, ConcatThree
      <3> QED BY <2>5, <3>2
    <2>19. \A c \in ToSet(o) : Owned(e, c)
      BY <2>2, <2>4, <2>9, <2>10 DEF Owned
    <2>20. \A c : ~Owned(<<>>, c)
      BY DEF Owned, ToSet
    <2> DEFINE f == Recovered(e, o)
    <2>21. f \in Seq(Messages) /\ Complete(f)
      BY <2>14, <2>16, <2>17
    <2> HIDE DEF f
    <2>22. e \o <<>> = e /\ o \o <<>> = o /\ f \o <<>> = f
      BY <2>9, <2>10, <2>21
    <2>23. /\ Rebuild(l) = e \o <<>> /\ Orphans(l) = o \o <<>> /\ Asked(o)
           /\ f = Recovered(e, o) \o <<>> /\ Complete(Recovered(e, o))
      BY <2>4, <2>21, <2>22 DEF e, o, f
    <2>24. InBatch(e, <<>>, <<>>) /\ <<>> \in Seq(CallIds) /\ <<>> \in Seq(Messages)
      BY DEF InBatch
    <2>25. OwesBy(m, l, f, <<>>, o, e, <<>>)
      BY <2>9, <2>10, <2>19, <2>20, <2>23, <2>24 DEF OwesBy
    <2>26. Full(l) = f
      BY <2>15 DEF f
    <2>27. f = h \o q
      BY <2>4, <2>14, <2>18 DEF f, G
    <2>28. Owes(m, l, f, <<>>)
      BY <2>25 DEF Owes
    <2> QED BY <2>26, <2>27, <2>28 DEF q
  <1> QED BY <1>2, <1>3

\* Questions wait for the user: they are asked again.
LEMMA OwesParked ==
  ASSUME NEW m, NEW l \in Seq(Entries), NEW h, NEW td, Owes(m, l, h, td), Parked(l) # <<>>
  PROVE Parked(l) = td /\ Opened(l) = h
  <1>1. PICK a, g, b : OwesBy(m, l, h, td, a, g, b)
    BY DEF Owes
  <1>2. /\ a \in Seq(CallIds) /\ td \in Seq(CallIds) /\ g \in Seq(Messages) /\ b \in Seq(Messages)
        /\ Rebuild(l) = g \o b /\ Orphans(l) = a \o td /\ Asked(a)
        /\ h = Recovered(g, a) \o b
    BY <1>1 DEF OwesBy
  <1>3. Parked(l) = Orphans(l) /\ \A i \in DOMAIN Orphans(l) : Orphans(l)[i][2] = "ask_user"
    BY ParkedIs
  <1>4. a = <<>>
    <2>1. /\ DOMAIN (a \o td) = 1..(Len(a) + Len(td)) /\ DOMAIN a = 1..Len(a) /\ Len(a) \in Nat /\ Len(td) \in Nat
          /\ \A i \in 1..Len(a) : (a \o td)[i] = a[i]
      BY <1>2, ConcatIs
    <2>2. \A i \in DOMAIN a : i \in DOMAIN (a \o td) /\ (a \o td)[i] = a[i]
      BY <2>1
    <2>3. \A i \in DOMAIN a : a[i][2] = "ask_user"
      BY <1>2, <1>3, <2>2
    <2> QED BY <1>2, <2>3 DEF Asked
  <1>5. Recovered(g, <<>>) = g
    BY <1>2, RecoveredAlways
  <1>6. <<>> \o td = td
    BY <1>2
  <1>7. Parked(l) = td
    BY <1>2, <1>3, <1>4, <1>6
  <1>8. Opened(l) = Rebuild(l)
    BY DEF Opened
  <1> QED BY <1>2, <1>4, <1>5, <1>7, <1>8

\* The message that the cut keeps first is not of the batch under way.
LEMMA CutInFront ==
  ASSUME NEW g \in Seq(Messages), NEW b \in Seq(Messages), NEW cut \in 1..Len(g \o b), (g \o b)[cut][1] = "user",
         \A i \in DOMAIN b : b[i][1] # "user"
  PROVE cut \in 1..Len(g) /\ g[cut] = (g \o b)[cut]
  <1>1. /\ Len(g \o b) = Len(g) + Len(b) /\ Len(g) \in Nat /\ Len(b) \in Nat
        /\ DOMAIN b = 1..Len(b)
        /\ \A i \in 1..Len(g) : (g \o b)[i] = g[i]
        /\ \A i \in 1..Len(b) : (g \o b)[Len(g) + i] = b[i]
    BY ConcatIs
  <1>2. ASSUME cut > Len(g) PROVE FALSE
    <2> DEFINE i == cut - Len(g)
    <2>1. i \in 1..Len(b) /\ Len(g) + i = cut
      BY <1>1, <1>2
    <2> HIDE DEF i
    <2>2. b[i][1] = "user"
      BY <1>1, <2>1
    <2> QED BY <1>1, <2>1, <2>2
  <1> QED BY <1>1, <1>2

\* Of histories, concatenation is associative.
LEMMA ThreeParts == \A x, y, u \in Seq(Messages) : (x \o y) \o u = x \o (y \o u)
  BY ConcatThree

\* What compaction leaves of the history, when the batch under way is behind the cut.
LEMMA ApplyInFront ==
  ASSUME NEW g \in Seq(Messages), NEW b \in Seq(Messages), NEW cut \in 1..Len(g), g[cut][1] = "user",
         NEW S \in SUBSET Said
  PROVE ApplySummary(g \o b, cut, S) = (<<Summary(S)>> \o SubSeq(g, cut, Len(g))) \o b
  <1> DEFINE h == g \o b
             w == <<Summary(S)>>
             z == SubSeq(g, cut, Len(g))
  <1>1. /\ h \in Seq(Messages) /\ Len(h) = Len(g) + Len(b) /\ Len(g) \in Nat /\ Len(b) \in Nat
        /\ \A i \in 1..Len(g) : h[i] = g[i]
    BY ConcatIs
  <1>2. Snap(h, cut) = cut
    <2>1. h[cut][1] # "tool" /\ cut \in 1..(Len(h) + 1) /\ cut \in cut..(Len(h) + 1) /\ Len(h) \in Nat
      BY <1>1
    <2>2. \A j \in cut..(cut - 1) : h[j][1] = "tool"
      OBVIOUS
    <2> HIDE DEF h
    <2>3. PastResults(h, cut) = cut
      BY <2>1, <2>2, PastResultsFrom
    <2> QED BY <2>3 DEF Snap
  <1>3. SubSeq(h, cut, Len(h)) = z \o b /\ z \in Seq(Messages)
    <2>1. cut \in 1..(Len(g) + 1)
      BY <1>1
    <2> QED BY <2>1, Cut
  <1>4. w \in Seq(Messages)
    <2>1. Summary(S) \in Messages
      BY Spoken DEF Messages
    <2> QED BY <2>1
  <1> HIDE DEF w, z, h
  <1>5. (w \o z) \o b = w \o (z \o b)
    <2>1. w \in Seq(Messages) /\ z \in Seq(Messages) /\ b \in Seq(Messages)
      BY <1>3, <1>4
    <2> QED BY <2>1, ThreeParts
  <1>6. ApplySummary(h, cut, S) = w \o (z \o b)
    BY <1>2, <1>3 DEF ApplySummary, w
  <1> QED BY <1>5, <1>6 DEF h, w, z

\* Replaying the record cuts where the compaction did.
LEMMA ReplayCuts ==
  ASSUME NEW h \in Seq(Messages), NEW cut \in 2..Len(h), NEW S
  PROVE Replay(h, Compaction(S, Len(h) - cut + 1)) = ApplySummary(h, cut, S)
  <1> DEFINE n == Len(h) - cut + 1
             r == Compaction(S, n)
  <1>1. Len(h) \in Nat /\ n \in Nat /\ ~(n >= Len(h)) /\ Len(h) - n + 1 = cut
    OBVIOUS
  <1>2. r[1] = "compaction" /\ r[2] = S /\ r[3] = n
    BY Shapes
  <1> HIDE DEF n, r
  <1>3. Replay(h, r) = ApplySummary(h, Len(h) - n + 1, S)
    BY <1>1, <1>2 DEF Replay
  <1> QED BY <1>1, <1>3 DEF n, r

\* A batch has no message of the user.
LEMMA PartKinds ==
  ASSUME NEW cs \in Seq(CallIds), NEW k \in 0..Len(cs)
  PROVE \A i \in DOMAIN Batch(cs, k) : Batch(cs, k)[i][1] # "user"
  <1>1. \A x : x \in ToSet(Batch(cs, k)) <=> x = CallsOf(cs) \/ \E i \in 1..k : x = Result(cs[i])
    BY BatchIs
  <1>2. \A x \in ToSet(Batch(cs, k)) : x[1] # "user"
    BY <1>1, Shapes
  <1>3. \A i \in DOMAIN Batch(cs, k) : Batch(cs, k)[i] \in ToSet(Batch(cs, k))
    BY DEF ToSet
  <1> QED BY <1>2, <1>3

\* Compaction, when nothing was cut off by a kill.
LEMMA OwesCut ==
  ASSUME NEW m, NEW l \in Seq(Entries), NEW h, NEW td, Owes(m, l, h, td), "kill" \notin m,
         Compactable(h, FindCutoff(h))
  PROVE LET cut == FindCutoff(h)
            S == Summarised(h, cut)
        IN /\ Owes(m, l \o <<Compaction(S, Len(h) - cut + 1)>>, ApplySummary(h, cut, S), td)
           /\ h \in Seq(Messages) /\ S \in SUBSET Said /\ Len(h) - cut + 1 \in Nat
           /\ ApplySummary(h, cut, S) = <<Summary(S)>> \o SubSeq(h, cut, Len(h))
  <1> DEFINE cut == FindCutoff(h)
             S == Summarised(h, cut)
             n == Len(h) - cut + 1
             x == Compaction(S, n)
             w == <<Summary(S)>>
  <1>1. PICK a, g, b : OwesBy(m, l, h, td, a, g, b)
    BY DEF Owes
  <1>2. /\ a = <<>> /\ td \in Seq(CallIds) /\ g \in Seq(Messages) /\ b \in Seq(Messages)
        /\ Rebuild(l) = g \o b /\ Orphans(l) = a \o td
        /\ h = Recovered(g, a) \o b /\ Complete(Recovered(g, a)) /\ InBatch(g, b, td)
    BY <1>1 DEF OwesBy
  <1>3. Recovered(g, a) = g
    BY <1>2, RecoveredAlways
  <1>4. h = g \o b /\ h = Rebuild(l) /\ Complete(g) /\ h \in Seq(Messages)
    <2>1. g \o b \in Seq(Messages)
      BY <1>2, ConcatElements
    <2> QED BY <1>2, <1>3, <2>1
  <1>5. cut \in 2..Len(h) /\ Len(h) \in Nat /\ DOMAIN h = 1..Len(h) /\ h[cut][1] = "user"
    BY <1>4, CutoffIs
  <1>6. \A i \in DOMAIN b : b[i][1] # "user"
    <2>1. ASSUME NEW cs, NEW k \in 0..Len(cs), Distinct(cs), b = Batch(cs, k)
          PROVE \A i \in DOMAIN b : b[i][1] # "user"
      <3>1. cs \in Seq(CallIds)
        BY <2>1 DEF Distinct
      <3> QED BY <2>1, <3>1, PartKinds
    <2>2. ASSUME b = <<>> PROVE \A i \in DOMAIN b : b[i][1] # "user"
      BY <2>2
    <2> QED BY <1>2, <2>1, <2>2 DEF InBatch
  <1> HIDE DEF cut
  <1>7. cut \in 1..Len(g) /\ g[cut][1] = "user"
    <2>1. cut \in 1..Len(g \o b) /\ (g \o b)[cut][1] = "user"
      BY <1>4, <1>5
    <2> QED BY <1>2, <1>6, <2>1, CutInFront
  <1>8. S \in SUBSET Said
    <2>1. cut \in 1..(Len(h) + 1)
      BY <1>5
    <2> QED BY <1>4, <2>1, SummarisedSaid
  <1> HIDE DEF S
  <1>9. n \in Nat /\ x \in Compactions /\ x[1] = "compaction"
    <2>1. n \in Nat
      BY <1>5
    <2> HIDE DEF n
    <2> QED BY <1>8, <2>1, Spoken, Shapes
  <1> DEFINE z == SubSeq(g, cut, Len(g))
             g2 == w \o z
  <1>10. ApplySummary(h, cut, S) = g2 \o b
    <2>1. ApplySummary(g \o b, cut, S) = (<<Summary(S)>> \o SubSeq(g, cut, Len(g))) \o b
      BY <1>2, <1>7, <1>8, ApplyInFront
    <2> QED BY <1>4, <2>1
  <1>11. z \in Seq(Messages) /\ Complete(z) /\ ToSet(z) \subseteq ToSet(g)
    <2>1. Len(g) \in Nat /\ DOMAIN g = 1..Len(g) /\ cut \in 1..(Len(g) + 1) /\ cut \in DOMAIN g
      BY <1>2, <1>7
    <2>2. /\ SubSeq(g, 1, cut - 1) \in Seq(Messages) /\ SubSeq(g, cut, Len(g)) \in Seq(Messages)
          /\ SubSeq(g, 1, cut - 1) \o SubSeq(g, cut, Len(g)) = g
      <3> DEFINE k == cut - 1
      <3>1. k \in 0..Len(g) /\ k + 1 = cut
        BY <2>1
      <3> HIDE DEF k
      <3>2. /\ SubSeq(g, 1, k) \o SubSeq(g, k + 1, Len(g)) = g
            /\ SubSeq(g, 1, k) \in Seq(Messages) /\ SubSeq(g, k + 1, Len(g)) \in Seq(Messages)
        BY <1>2, <3>1, TwoParts
      <3> QED BY <3>1, <3>2 DEF k
    <2>3. Complete(z)
      BY <1>2, <1>4, <1>7, <2>1, CompleteSuffix
    <2> DEFINE y == SubSeq(g, 1, cut - 1)
    <2> HIDE DEF z, y
    <2>4. y \in Seq(Messages) /\ z \in Seq(Messages) /\ y \o z = g
      BY <2>2 DEF y, z
    <2>5. ToSet(y \o z) = ToSet(y) \cup ToSet(z)
      <3>1. y \in Seq(Messages) /\ z \in Seq(Messages)
        BY <2>4
      <3> QED BY <3>1, ConcatElements
    <2> QED BY <2>3, <2>4, <2>5
  <1>12. w \in Seq(Messages) /\ Complete(w) /\ ToSet(w) = {Summary(S)}
    <2>1. Summary(S) \in Messages /\ Summary(S)[1] = "summary"
      BY <1>8, Spoken, Shapes DEF Messages
    <2>2. Complete(w)
      BY <2>1, CompleteSingle
    <2>3. w \in Seq(Messages) /\ ToSet(w) = {Summary(S)}
      BY <2>1 DEF ToSet
    <2> QED BY <2>2, <2>3
  <1> HIDE DEF w, z
  <1>13. g2 \in Seq(Messages) /\ ToSet(g2) \subseteq ToSet(g) \cup {Summary(S)}
    <2>1. w \o z \in Seq(Messages) /\ ToSet(w \o z) = ToSet(w) \cup ToSet(z)
      BY <1>11, <1>12, ConcatElements
    <2> QED BY <1>11, <1>12, <2>1
  <1>14. Complete(g2)
    BY <1>11, <1>12, CompleteConcat
  <1> HIDE DEF g2
  <1>15. InBatch(g2, b, td)
    <2>1. \A c : Result(c) \notin ToSet(g) => Result(c) \notin ToSet(g2)
      BY <1>13, Shapes
    <2> QED BY <1>2, <2>1 DEF InBatch
  <1> DEFINE h2 == ApplySummary(h, cut, S)
             l2 == l \o <<x>>
  <1>16. Replay(h, x) = h2
    BY <1>4, <1>5, ReplayCuts
  <1> HIDE DEF x
  <1>17. Rebuild(l2) = h2
    <2>1. x \in Entries
      BY <1>9 DEF Entries
    <2>2. Append(l, x) = l2
      BY <2>1
    <2> HIDE DEF l2, h2
    <2>3. Rebuild(Append(l, x)) = Replay(Rebuild(l), x)
      BY <2>1, RebuildGrows
    <2> QED BY <1>4, <1>16, <2>2, <2>3
  <1>18. Orphans(l2) = Orphans(l)
    <2>1. l \in Seq(Anything) /\ x \in Anything
      BY <1>9, SaidEverywhere DEF Anything
    <2> QED BY <1>9, <2>1, OrphansSay
  <1> HIDE DEF h2, l2
  <1>19. Recovered(g2, a) = g2
    BY <1>2, <1>13, RecoveredAlways
  <1>20. h2 = g2 \o b
    BY <1>10 DEF h2
  <1>21. \A c \in ToSet(a) : Owned(g2, c) /\ ~Owned(b, c)
    BY <1>2 DEF ToSet
  <1>22. OwesBy(m, l2, h2, td, a, g2, b)
    <2>1. a \in Seq(CallIds) /\ Asked(a)
      BY <1>2 DEF Asked
    <2>2. Rebuild(l2) = g2 \o b /\ Orphans(l2) = a \o td
      BY <1>2, <1>17, <1>18, <1>20
    <2>3. h2 = Recovered(g2, a) \o b /\ Complete(Recovered(g2, a))
      BY <1>14, <1>19, <1>20
    <2>4. a # <<>> => "kill" \in m
      BY <1>2
    <2> QED BY <1>2, <1>13, <1>15, <1>21, <2>1, <2>2, <2>3, <2>4 DEF OwesBy
  <1>23. Owes(m, l2, h2, td)
    BY <1>22 DEF Owes
  <1>24. h2 = <<Summary(S)>> \o SubSeq(h, cut, Len(h))
    <2>1. Snap(h, cut) = cut
      <3>1. h[cut][1] # "tool" /\ cut \in 1..(Len(h) + 1) /\ cut \in cut..(Len(h) + 1) /\ Len(h) \in Nat
        BY <1>5
      <3>2. \A j \in cut..(cut - 1) : h[j][1] = "tool"
        BY <1>5
      <3>3. PastResults(h, cut) = cut
        BY <3>1, <3>2, PastResultsFrom
      <3> QED BY <3>3 DEF Snap
    <2> QED BY <2>1 DEF ApplySummary, h2
  <1> QED BY <1>4, <1>8, <1>9, <1>23, <1>24 DEF cut, S, n, x, h2, l2

-----------------------------------------------------------------------------
(* The inductive invariant: besides what is owed, that every place         *)
(* where a revert or a resume may cut the log was sound when it was written.*)

Holds(m, l, h, td) == h \in Seq(Messages) /\ Owes(m, l, h, td) /\ Remembers(l, h)
\* The log l alone: opened, it gives a history that owes nothing.
Sound(m, l) == Holds(m, l, Full(l), <<>>)
\* What a record x behind the log p says of p.
PointIs(m, p, x, n, sent) ==
  /\ x[1] = "user" => Sound(m, p) /\ x[2] \in 1..n /\ sent[x[2]] = Full(p)
  /\ x[1] = "calls" => /\ Sound(m, p) /\ x[2] # <<>> /\ Distinct(x[2])
                       /\ \A c \in ToSet(x[2]) : ~Owned(p, c) /\ Result(c) \notin ToSet(p) /\ c[1] <= n
  /\ x[1] = "tool" => x[2][1] <= n
Points(m, l, n, sent) == \A i \in DOMAIN l : PointIs(m, SubSeq(l, 1, i - 1), l[i], n, sent)

\* A history that owes nothing is complete, and is what opening the log gives.
LEMMA SoundOpens ==
  ASSUME NEW m, NEW l \in Seq(Entries), NEW h, Holds(m, l, h, <<>>)
  PROVE /\ h = Full(l) /\ Sound(m, l) /\ Complete(h) /\ h \in Seq(Messages)
        /\ Asked(Orphans(l)) /\ Parked(l) = <<>> /\ Opened(l) = h
        /\ ("kill" \notin m => h = Rebuild(l))
  <1>1. PICK a, g, b : OwesBy(m, l, h, <<>>, a, g, b)
    BY DEF Holds, Owes
  <1>2. /\ b = <<>> /\ g = Rebuild(l) /\ a = Orphans(l) /\ h = Recovered(g, a)
        /\ h = Full(l) /\ h \in Seq(Messages) /\ Complete(h) /\ Asked(Orphans(l))
    BY <1>1, OwesNothing
  <1>3. Parked(l) = <<>> /\ Opened(l) = Full(l)
    BY <1>2, AskedOpens
  <1>4. ASSUME "kill" \notin m PROVE h = Rebuild(l)
    <2>1. a = <<>> /\ g \in Seq(Messages)
      BY <1>1, <1>4 DEF OwesBy
    <2>2. Recovered(g, <<>>) = g
      BY <2>1, RecoveredAlways
    <2> QED BY <1>2, <2>1, <2>2
  <1>5. Sound(m, l)
    BY <1>2 DEF Sound
  <1> QED BY <1>2, <1>3, <1>4, <1>5

\* What a record says stays true when more is numbered.
LEMMA PointLater ==
  ASSUME NEW m, NEW p, NEW x \in Entries, NEW n \in 0..MaxIds, NEW n2 \in 0..MaxIds, n <= n2, NEW sent, NEW sent2,
         \A k \in 1..n : sent2[k] = sent[k], PointIs(m, p, x, n, sent)
  PROVE PointIs(m, p, x, n2, sent2)
  <1>1. MaxIds \in Nat
    BY TranscriptAssumption
  <1>2. n \in Nat /\ n2 \in Nat /\ \A k \in 1..n : k \in 1..n2
    BY <1>1
  <1>3. \A c \in CallIds : c[1] \in Nat
    BY <1>1 DEF CallIds
  <1>4. \A c \in CallIds : c[1] <= n => c[1] <= n2
    BY <1>2, <1>3
  <1>5. ASSUME x[1] = "user" PROVE Sound(m, p) /\ x[2] \in 1..n2 /\ sent2[x[2]] = Full(p)
    BY <1>2, <1>5 DEF PointIs
  <1>6. ASSUME x[1] = "calls"
        PROVE /\ Sound(m, p) /\ x[2] # <<>> /\ Distinct(x[2])
              /\ \A c \in ToSet(x[2]) : ~Owned(p, c) /\ Result(c) \notin ToSet(p) /\ c[1] <= n2
    <2>1. /\ Sound(m, p) /\ x[2] # <<>> /\ Distinct(x[2])
          /\ \A c \in ToSet(x[2]) : ~Owned(p, c) /\ Result(c) \notin ToSet(p) /\ c[1] <= n
      BY <1>6 DEF PointIs
    <2>2. \A c \in ToSet(x[2]) : c \in CallIds
      BY <2>1 DEF Distinct, ToSet
    <2> QED BY <1>4, <2>1, <2>2
  <1>7. ASSUME x[1] = "tool" PROVE x[2][1] <= n2
    <2>1. x[2][1] <= n
      BY <1>7 DEF PointIs
    <2>2. x \in Said
      BY <1>7, OtherIs DEF Entries
    <2>3. x[2] \in CallIds
      BY <1>7, <2>2, SaidIs
    <2> QED BY <1>4, <2>1, <2>3
  <1> QED BY <1>5, <1>6, <1>7 DEF PointIs

\* What is behind a log does not change its beginnings.
LEMMA PrefixSame ==
  ASSUME NEW X, NEW l \in Seq(X), NEW q \in Seq(X)
  PROVE /\ \A i \in 1..Len(l) : SubSeq(l \o q, 1, i - 1) = SubSeq(l, 1, i - 1)
        /\ SubSeq(l \o q, 1, Len(l)) = l
  <1>1. Len(l) \in Nat
    OBVIOUS
  <1>2. \A p \in 1..(Len(l) + 1) : SubSeq(l \o q, 1, p - 1) = SubSeq(l, 1, p - 1)
    BY Cut
  <1>3. SubSeq(l \o q, 1, (Len(l) + 1) - 1) = SubSeq(l, 1, (Len(l) + 1) - 1)
    BY <1>1, <1>2
  <1>4. (Len(l) + 1) - 1 = Len(l) /\ SubSeq(l, 1, Len(l)) = l
    BY <1>1
  <1>5. \A i \in 1..Len(l) : i \in 1..(Len(l) + 1)
    BY <1>1
  <1> QED BY <1>2, <1>3, <1>4, <1>5

\* What the records say, with more records.
LEMMA PointsConcat ==
  ASSUME NEW m, NEW l \in Seq(Entries), NEW q \in Seq(Entries),
         NEW n \in 0..MaxIds, NEW n2 \in 0..MaxIds, n <= n2, NEW sent, NEW sent2,
         \A k \in 1..n : sent2[k] = sent[k], Points(m, l, n, sent),
         \A j \in DOMAIN q : PointIs(m, SubSeq(l \o q, 1, Len(l) + j - 1), q[j], n2, sent2)
  PROVE Points(m, l \o q, n2, sent2)
  <1> DEFINE k == l \o q
  <1>1. /\ k \in Seq(Entries) /\ Len(l) \in Nat /\ Len(q) \in Nat
        /\ DOMAIN k = 1..(Len(l) + Len(q)) /\ DOMAIN l = 1..Len(l) /\ DOMAIN q = 1..Len(q)
        /\ \A i \in 1..Len(l) : k[i] = l[i]
        /\ \A i \in 1..Len(q) : k[Len(l) + i] = q[i]
    BY ConcatIs
  <1>2. \A i \in 1..Len(l) : SubSeq(k, 1, i - 1) = SubSeq(l, 1, i - 1)
    BY PrefixSame
  <1>3. \A j \in DOMAIN q : PointIs(m, SubSeq(k, 1, Len(l) + j - 1), q[j], n2, sent2)
    OBVIOUS
  <1> HIDE DEF k
  <1>4. ASSUME NEW i \in 1..Len(l) PROVE PointIs(m, SubSeq(k, 1, i - 1), k[i], n2, sent2)
    <2>1. PointIs(m, SubSeq(l, 1, i - 1), l[i], n, sent) /\ l[i] \in Entries
      BY <1>1 DEF Points
    <2> DEFINE p == SubSeq(l, 1, i - 1)
               x == l[i]
    <2>2. PointIs(m, p, x, n, sent) /\ x \in Entries
      BY <2>1
    <2> HIDE DEF p, x
    <2>3. PointIs(m, p, x, n2, sent2)
      BY <2>2, PointLater
    <2> QED BY <1>1, <1>2, <2>3 DEF p, x
  <1>5. ASSUME NEW i \in DOMAIN k, ~(i \in 1..Len(l)) PROVE PointIs(m, SubSeq(k, 1, i - 1), k[i], n2, sent2)
    <2> DEFINE j == i - Len(l)
    <2>1. j \in 1..Len(q) /\ Len(l) + j = i
      BY <1>1, <1>5
    <2> HIDE DEF j
    <2>2. PointIs(m, SubSeq(k, 1, Len(l) + j - 1), q[j], n2, sent2) /\ q[j] = k[Len(l) + j]
      BY <1>1, <1>3, <2>1
    <2> QED BY <2>1, <2>2
  <1>6. Points(m, k, n2, sent2)
    BY <1>4, <1>5 DEF Points
  <1> QED BY <1>6 DEF k

\* What the records say, with one more.
LEMMA PointsOne ==
  ASSUME NEW m, NEW l \in Seq(Entries), NEW x \in Entries,
         NEW n \in 0..MaxIds, NEW n2 \in 0..MaxIds, n <= n2, NEW sent, NEW sent2,
         \A k \in 1..n : sent2[k] = sent[k], Points(m, l, n, sent),
         PointIs(m, l, x, n2, sent2)
  PROVE Points(m, l \o <<x>>, n2, sent2)
  <1> DEFINE q == <<x>>
  <1>1. q \in Seq(Entries) /\ DOMAIN q = {1} /\ q[1] = x
    OBVIOUS
  <1> HIDE DEF q
  <1>2. SubSeq(l \o q, 1, Len(l) + 1 - 1) = l
    <2>1. Len(l) \in Nat /\ Len(l) + 1 - 1 = Len(l)
      OBVIOUS
    <2> QED BY <1>1, <2>1, PrefixSame
  <1>3. \A j \in DOMAIN q : PointIs(m, SubSeq(l \o q, 1, Len(l) + j - 1), q[j], n2, sent2)
    BY <1>1, <1>2
  <1>4. Points(m, l \o q, n2, sent2)
    BY <1>1, <1>3, PointsConcat
  <1> QED BY <1>4 DEF q

\* What the records say, with more results.
LEMMA PointsResults ==
  ASSUME NEW m, NEW l \in Seq(Entries), NEW q \in Seq(Entries), NEW n \in 0..MaxIds, NEW sent,
         Points(m, l, n, sent), \A r \in ToSet(q) : r[1] = "tool" /\ r[2][1] <= n
  PROVE Points(m, l \o q, n, sent)
  <1>1. \A j \in DOMAIN q : q[j][1] = "tool" /\ q[j][2][1] <= n
    BY DEF ToSet
  <1>2. \A j \in DOMAIN q : PointIs(m, SubSeq(l \o q, 1, Len(l) + j - 1), q[j], n, sent)
    BY <1>1 DEF PointIs
  <1>3. n <= n /\ \A k \in 1..n : sent[k] = sent[k]
    BY TranscriptAssumption
  <1> QED BY <1>2, <1>3, PointsConcat

\* What the records say, when some are cut off.
LEMMA PointsPrefix ==
  ASSUME NEW m, NEW l \in Seq(Entries), NEW k \in 0..Len(l), NEW n, NEW sent, Points(m, l, n, sent)
  PROVE SubSeq(l, 1, k) \in Seq(Entries) /\ Points(m, SubSeq(l, 1, k), n, sent)
  <1> DEFINE s == SubSeq(l, 1, k)
             u == SubSeq(l, k + 1, Len(l))
  <1>1. /\ s \o u = l /\ s \in Seq(Entries) /\ u \in Seq(Entries) /\ Len(s) = k
        /\ \A i \in 1..k : s[i] = l[i]
    BY TwoParts
  <1> HIDE DEF s, u
  <1>2. \A i \in 1..Len(s) : SubSeq(s \o u, 1, i - 1) = SubSeq(s, 1, i - 1)
    BY <1>1, PrefixSame
  <1>3. Len(s) \in Nat /\ DOMAIN s = 1..Len(s) /\ DOMAIN l = 1..Len(l) /\ Len(l) \in Nat
    BY <1>1
  <1>4. \A i \in DOMAIN s : i \in DOMAIN l /\ s[i] = l[i] /\ SubSeq(l, 1, i - 1) = SubSeq(s, 1, i - 1)
    BY <1>1, <1>2, <1>3
  <1>5. Points(m, s, n, sent)
    BY <1>4 DEF Points
  <1> QED BY <1>1, <1>5 DEF s

\* What the records of a batch and its results say of the numbers of the calls.
LEMMA CallsNumbered ==
  ASSUME NEW m, NEW l \in Seq(Entries), NEW n, NEW sent, Points(m, l, n, sent)
  PROVE \A c \in CallIds : Owned(l, c) \/ Result(c) \in ToSet(l) => c[1] <= n
  <1>1. ASSUME NEW r \in ToSet(l), r[1] = "calls", NEW c \in ToSet(r[2]) PROVE c[1] <= n
    <2>1. PICK i \in DOMAIN l : l[i] = r
      BY DEF ToSet
    <2>2. PointIs(m, SubSeq(l, 1, i - 1), r, n, sent)
      BY <2>1 DEF Points
    <2> QED BY <1>1, <2>2 DEF PointIs
  <1>2. ASSUME NEW c \in CallIds, Result(c) \in ToSet(l) PROVE c[1] <= n
    <2>1. PICK i \in DOMAIN l : l[i] = Result(c)
      BY <1>2 DEF ToSet
    <2>2. PointIs(m, SubSeq(l, 1, i - 1), Result(c), n, sent)
      BY <2>1 DEF Points
    <2>3. Result(c)[1] = "tool" /\ Result(c)[2] = c
      BY Shapes
    <2> QED BY <2>2, <2>3 DEF PointIs
  <1> QED BY <1>1, <1>2 DEF Owned

\* What may happen in one behaviour.  Kills meet neither compaction, resumes nor
\* notices, resumes no notices, compactions no failing disk.
Compatible ==
  \A q \in Profiles :
    /\ "kill" \in q => q \cap {"compact", "resume", "notice"} = {}
    /\ ~({"resume", "notice"} \subseteq q)
    /\ ~({"compact", "disk"} \subseteq q)

TranscriptInv ==
  /\ log \in Seq(Entries) /\ ids \in 0..MaxIds /\ mode \in Modes /\ may \in Profiles
  /\ todo \in Seq(CallIds)
  /\ sentAt \in [1..MaxIds -> Seq(Messages)]
  /\ Points(may, log, ids, sentAt)
  /\ mode = "closed" => "kill" \in may /\ \E h, td : td \in Seq(CallIds) /\ Holds(may, log, h, td)
  /\ mode # "closed" => Holds(may, log, chat, todo)
  /\ mode \notin {"calls", "resume"} => todo = <<>>
  /\ mode = "resume" => "notice" \notin may

\* An empty session owes nothing.
LEMMA HoldsAtFirst == ASSUME NEW m PROVE Holds(m, <<>>, <<>>, <<>>)
  <1> DEFINE e == <<>>
  <1>1. e \in Seq(Messages) /\ e \in Seq(CallIds) /\ e \in Seq(Anything) /\ DOMAIN e = {} /\ e = <<>>
    OBVIOUS
  <1>2. e \o e = e
    OBVIOUS
  <1>3. \A T : Left(T, e) = e
    BY LeftGrows
  <1> HIDE DEF e
  <1>4. Rebuild(e) = e
    BY <1>1, RebuildGrows
  <1>5. Orphans(e) = e
    <2>1. Orphans(e) = Left(ToSet(e), AllCalls(e))
      BY <1>1, OrphansAre
    <2>2. AllCalls(e) = e
      BY <1>1, AllCallsGrows
    <2> QED BY <1>3, <2>1, <2>2
  <1>6. Recovered(e, e) = e
    BY <1>1, RecoveredAlways
  <1>7. Complete(e) /\ Asked(e) /\ InBatch(e, e, e) /\ ToSet(e) = {}
    BY <1>1 DEF Complete, Asked, InBatch, ToSet
  <1>8. OwesBy(m, e, e, e, e, e, e)
    <2>1. Complete(Recovered(e, e)) /\ Rebuild(e) = e \o e /\ Orphans(e) = e \o e /\ e = Recovered(e, e) \o e
      BY <1>2, <1>4, <1>5, <1>6, <1>7
    <2> QED BY <1>1, <1>7, <2>1 DEF OwesBy
  <1>9. Owes(m, e, e, e)
    BY <1>8 DEF Owes
  <1>10. Remembers(e, e)
    BY <1>1 DEF Remembers, Recent, Covers, InFront
  <1>11. Holds(m, e, e, e)
    BY <1>1, <1>9, <1>10 DEF Holds
  <1> QED BY <1>1, <1>11

\* The invariant holds at first.
LEMMA InvBegins == TranscriptInit => TranscriptInv
  <1> SUFFICES ASSUME TranscriptInit PROVE TranscriptInv
    OBVIOUS
  <1>1. Holds(may, log, chat, todo)
    BY HoldsAtFirst DEF TranscriptInit
  <1>2. MaxIds \in Nat
    BY TranscriptAssumption
  <1>3. log \in Seq(Entries) /\ todo \in Seq(CallIds) /\ <<>> \in Seq(Messages) /\ DOMAIN log = {}
    BY DEF TranscriptInit
  <1>4. sentAt \in [1..MaxIds -> Seq(Messages)]
    BY <1>3 DEF TranscriptInit
  <1>5. Points(may, log, ids, sentAt)
    BY <1>3 DEF Points
  <1>6. ids \in 0..MaxIds /\ mode \in Modes /\ may \in Profiles /\ mode = "idle" /\ todo = <<>>
    BY <1>2 DEF TranscriptInit, Modes
  <1> QED BY <1>1, <1>3, <1>4, <1>5, <1>6 DEF TranscriptInv

\* What is said keeps a history that owes nothing.
LEMMA HoldsSay ==
  ASSUME NEW m, NEW l \in Seq(Entries), NEW h, Holds(m, l, h, <<>>), NEW x \in Said, x[1] \in {"user", "text"}
  PROVE Holds(m, l \o <<x>>, h \o <<x>>, <<>>) /\ l \o <<x>> \in Seq(Entries)
  <1>1. h \in Seq(Messages) /\ Remembers(l, h)
    BY DEF Holds
  <1>2. PICK a, g, b : OwesBy(m, l, h, <<>>, a, g, b)
    BY DEF Holds, Owes
  <1>3. Owes(m, l \o <<x>>, h \o <<x>>, <<>>)
    <2>1. OwesBy(m, l \o <<x>>, h \o <<x>>, <<>>, a, g \o <<x>>, <<>>)
      BY <1>2, OwesSay
    <2> QED BY <2>1 DEF Owes
  <1> DEFINE q == <<x>>
  <1>4. q \in Seq(Said) /\ q \in Seq(Messages) /\ q \in Seq(Entries)
    BY SaidEverywhere
  <1> HIDE DEF q
  <1>5. Remembers(l \o q, h \o q)
    BY <1>1, <1>4, RememberMore
  <1>6. h \o q \in Seq(Messages) /\ l \o q \in Seq(Entries)
    BY <1>1, <1>4, ConcatElements
  <1> QED BY <1>3, <1>5, <1>6 DEF q, Holds

\* A message of the user, with what it was sent behind.
LEMMA HeardIsKept ==
  ASSUME TranscriptInv, mode # "closed", todo = <<>>, HearUser
  PROVE /\ log' \in Seq(Entries) /\ ids' \in 0..MaxIds /\ sentAt' \in [1..MaxIds -> Seq(Messages)]
        /\ Points(may, log', ids', sentAt') /\ Holds(may, log', chat', todo)
  <1> DEFINE x == User(ids + 1)
  <1>1. /\ log \in Seq(Entries) /\ ids \in 0..MaxIds /\ Holds(may, log, chat, <<>>)
        /\ sentAt \in [1..MaxIds -> Seq(Messages)] /\ Points(may, log, ids, sentAt)
    BY DEF TranscriptInv
  <1>2. MaxIds \in Nat
    BY TranscriptAssumption
  <1>3. /\ ids < MaxIds /\ ids' = ids + 1 /\ sentAt' = [sentAt EXCEPT ![ids + 1] = chat]
        /\ log' = log \o <<x>> /\ chat' = chat \o <<x>>
    BY DEF HearUser, Write
  <1>4. ids + 1 \in 1..MaxIds /\ ids + 1 \in 0..MaxIds /\ ids <= ids + 1 /\ \A k \in 1..ids : k # ids + 1
    BY <1>1, <1>2, <1>3
  <1>5. x \in Said /\ x[1] = "user" /\ x[2] = ids + 1 /\ x \in Entries
    <2>1. x \in Said
      BY <1>4, Spoken
    <2> QED BY <2>1, Shapes, SaidEverywhere
  <1> HIDE DEF x
  <1>6. Holds(may, log', chat', <<>>) /\ log' \in Seq(Entries)
    BY <1>1, <1>3, <1>5, HoldsSay
  <1>7. chat = Full(log) /\ Sound(may, log) /\ chat \in Seq(Messages)
    BY <1>1, SoundOpens
  <1>8. /\ sentAt' \in [1..MaxIds -> Seq(Messages)] /\ sentAt'[ids + 1] = chat
        /\ \A k \in 1..ids : sentAt'[k] = sentAt[k]
    <2>1. \A k \in 1..ids : k \in 1..MaxIds
      BY <1>1, <1>2
    <2> QED BY <1>1, <1>3, <1>4, <1>7, <2>1
  <1>9. PointIs(may, log, x, ids + 1, sentAt')
    <2>1. ids + 1 \in 1..(ids + 1)
      BY <1>1
    <2> QED BY <1>5, <1>7, <1>8, <2>1 DEF PointIs
  <1>10. Points(may, log \o <<x>>, ids + 1, sentAt')
    BY <1>1, <1>4, <1>5, <1>8, <1>9, PointsOne
  <1> QED BY <1>3, <1>4, <1>6, <1>8, <1>10

\* A prompt.
LEMMA PromptKeeps == ASSUME TranscriptInv, Prompt PROVE TranscriptInv'
  <1>1. mode = "idle" /\ mode' = "top" /\ HearUser /\ todo' = todo /\ may' = may
    BY DEF Prompt
  <1>2. todo = <<>>
    BY <1>1 DEF TranscriptInv
  <1>3. /\ log' \in Seq(Entries) /\ ids' \in 0..MaxIds /\ sentAt' \in [1..MaxIds -> Seq(Messages)]
        /\ Points(may, log', ids', sentAt') /\ Holds(may, log', chat', todo)
    BY <1>1, <1>2, HeardIsKept
  <1> QED BY <1>1, <1>2, <1>3 DEF TranscriptInv, Modes

\* A steer.
LEMMA DrainSteerKeeps == ASSUME TranscriptInv, DrainSteer PROVE TranscriptInv'
  <1>1. mode = "top" /\ HearUser /\ mode' = mode /\ todo' = todo /\ may' = may
    BY DEF DrainSteer, TranscriptInv
  <1>2. todo = <<>>
    BY <1>1 DEF TranscriptInv
  <1>3. /\ log' \in Seq(Entries) /\ ids' \in 0..MaxIds /\ sentAt' \in [1..MaxIds -> Seq(Messages)]
        /\ Points(may, log', ids', sentAt') /\ Holds(may, log', chat', todo)
    BY <1>1, <1>2, HeardIsKept
  <1> QED BY <1>1, <1>2, <1>3 DEF TranscriptInv

\* A text answer.
LEMMA AnswerTextKeeps == ASSUME TranscriptInv, AnswerText PROVE TranscriptInv'
  <1> DEFINE x == Text(ids + 1)
  <1>1. /\ mode = "ask" /\ ids < MaxIds /\ ids' = ids + 1 /\ log' = log \o <<x>> /\ chat' = chat \o <<x>>
        /\ mode' \in {"idle", "top"} /\ todo' = todo /\ sentAt' = sentAt /\ may' = may
    BY DEF AnswerText, Write
  <1>2. /\ log \in Seq(Entries) /\ ids \in 0..MaxIds /\ Holds(may, log, chat, <<>>) /\ todo = <<>>
        /\ Points(may, log, ids, sentAt)
    BY <1>1 DEF TranscriptInv
  <1>3. MaxIds \in Nat
    BY TranscriptAssumption
  <1>4. ids + 1 \in 1..MaxIds /\ ids + 1 \in 0..MaxIds /\ ids <= ids + 1
    BY <1>1, <1>2, <1>3
  <1>5. x \in Said /\ x[1] = "text" /\ x \in Entries
    <2>1. x \in Said
      BY <1>4, Spoken
    <2> QED BY <2>1, Shapes, SaidEverywhere
  <1> HIDE DEF x
  <1>6. Holds(may, log', chat', <<>>) /\ log' \in Seq(Entries)
    BY <1>1, <1>2, <1>5, HoldsSay
  <1>7. PointIs(may, log, x, ids + 1, sentAt)
    BY <1>5 DEF PointIs
  <1>8. \A k \in 1..ids : sentAt[k] = sentAt[k]
    OBVIOUS
  <1>9. Points(may, log \o <<x>>, ids + 1, sentAt)
    BY <1>2, <1>4, <1>5, <1>7, <1>8, PointsOne
  <1> QED BY <1>1, <1>2, <1>4, <1>6, <1>9 DEF TranscriptInv, Modes

\* An answer with calls, behind a history that owes nothing.
LEMMA HoldsCalls ==
  ASSUME NEW m, NEW l \in Seq(Entries), NEW h, Holds(m, l, h, <<>>), NEW cs, Distinct(cs), cs # <<>>,
         \A c \in ToSet(cs) : ~Owned(l, c) /\ Result(c) \notin ToSet(l)
  PROVE /\ Holds(m, l \o <<CallsOf(cs)>>, h \o <<CallsOf(cs)>>, cs)
        /\ l \o <<CallsOf(cs)>> \in Seq(Entries) /\ CallsOf(cs) \in Entries
  <1>1. h \in Seq(Messages) /\ Remembers(l, h)
    BY DEF Holds
  <1>2. PICK a, g, b : OwesBy(m, l, h, <<>>, a, g, b)
    BY DEF Holds, Owes
  <1> DEFINE x == CallsOf(cs)
             q == <<x>>
  <1>3. Owes(m, l \o q, h \o q, cs)
    <2>1. OwesBy(m, l \o <<CallsOf(cs)>>, h \o <<CallsOf(cs)>>, cs, a, g, <<CallsOf(cs)>>)
      BY <1>2, OwesCalls
    <2> QED BY <2>1 DEF Owes
  <1>4. x \in Said /\ x \in Entries
    <2>1. x \in Said
      BY Spoken DEF Distinct
    <2> QED BY <2>1, SaidEverywhere
  <1> HIDE DEF x
  <1>5. q \in Seq(Said) /\ q \in Seq(Messages) /\ q \in Seq(Entries)
    BY <1>4, SaidEverywhere
  <1> HIDE DEF q
  <1>6. Remembers(l \o q, h \o q)
    BY <1>1, <1>5, RememberMore
  <1>7. h \o q \in Seq(Messages) /\ l \o q \in Seq(Entries)
    BY <1>1, <1>5, ConcatElements
  <1> QED BY <1>3, <1>4, <1>6, <1>7 DEF q, x, Holds

\* An answer with calls: their number is new.
LEMMA AnswerCallsKeeps == ASSUME TranscriptInv, AnswerCalls PROVE TranscriptInv'
  <1> DEFINE cs == todo'
  <1>1. /\ mode = "ask" /\ ids < MaxIds /\ ids' = ids + 1
        /\ log' = log \o <<CallsOf(cs)>> /\ chat' = chat \o <<CallsOf(cs)>>
        /\ mode' = "calls" /\ sentAt' = sentAt /\ may' = may
    BY DEF AnswerCalls, Write
  <1>2. PICK n \in 1..BatchSize, kind \in {"work", "ask_user"} : cs = [i \in 1..n |-> <<ids + 1, kind, i>>]
    BY DEF AnswerCalls
  <1>3. /\ log \in Seq(Entries) /\ ids \in 0..MaxIds /\ Holds(may, log, chat, <<>>)
        /\ Points(may, log, ids, sentAt) /\ may \in Profiles /\ sentAt \in [1..MaxIds -> Seq(Messages)]
    BY <1>1 DEF TranscriptInv
  <1>4. MaxIds \in Nat /\ BatchSize \in Nat
    BY TranscriptAssumption
  <1>5. ids + 1 \in 1..MaxIds /\ ids + 1 \in 0..MaxIds /\ ids <= ids + 1 /\ ids \in Nat
    BY <1>1, <1>3, <1>4
  <1>6. cs \in Seq(CallIds) /\ DOMAIN cs = 1..n /\ cs # <<>> /\ n \in Nat
    <2>1. n \in Nat /\ n >= 1
      BY <1>4
    <2>2. \A i \in 1..n : <<ids + 1, kind, i>> \in CallIds
      BY <1>4, <1>5 DEF CallIds
    <2> DEFINE f == [i \in 1..n |-> <<ids + 1, kind, i>>]
    <2>3. \A i \in 1..n : f[i] \in CallIds
      BY <2>2
    <2>4. DOMAIN f = 1..n /\ f = [i \in 1..n |-> f[i]]
      OBVIOUS
    <2>5. cs = f
      BY <1>2
    <2> HIDE DEF f, cs
    <2>6. f \in [1..n -> CallIds]
      BY <2>3, <2>4
    <2>7. f \in Seq(CallIds)
      BY <2>1, <2>6
    <2>8. f # <<>>
      BY <2>1, <2>4
    <2> QED BY <2>1, <2>4, <2>5, <2>7, <2>8
  <1>7. \A i, j \in DOMAIN cs : cs[i] = cs[j] => i = j
    BY <1>2, <1>6
  <1>8. Distinct(cs)
    BY <1>6, <1>7 DEF Distinct
  <1>9. \A c \in ToSet(cs) : c \in CallIds /\ c[1] = ids + 1
    BY <1>2, <1>6 DEF ToSet
  <1>10. \A c \in ToSet(cs) : ~Owned(log, c) /\ Result(c) \notin ToSet(log)
    <2>1. \A c \in CallIds : Owned(log, c) \/ Result(c) \in ToSet(log) => c[1] <= ids
      BY <1>3, CallsNumbered
    <2>2. ~(ids + 1 <= ids)
      BY <1>5
    <2> QED BY <1>9, <2>1, <2>2
  <1> HIDE DEF cs
  <1>11. /\ Holds(may, log', chat', cs) /\ log' \in Seq(Entries) /\ CallsOf(cs) \in Entries
    BY <1>1, <1>3, <1>6, <1>8, <1>10, HoldsCalls
  <1>12. Sound(may, log)
    BY <1>3, SoundOpens
  <1>13. PointIs(may, log, CallsOf(cs), ids + 1, sentAt)
    <2>1. \A c \in ToSet(cs) : c[1] <= ids + 1
      BY <1>5, <1>9
    <2>2. CallsOf(cs)[1] = "calls" /\ CallsOf(cs)[2] = cs
      BY Shapes
    <2> QED BY <1>6, <1>8, <1>10, <1>12, <2>1, <2>2 DEF PointIs
  <1>14. \A k \in 1..ids : sentAt[k] = sentAt[k]
    OBVIOUS
  <1>15. Points(may, log \o <<CallsOf(cs)>>, ids + 1, sentAt)
    BY <1>3, <1>5, <1>11, <1>13, <1>14, PointsOne
  <1>16. todo' = cs
    BY DEF cs
  <1> QED BY <1>1, <1>3, <1>5, <1>6, <1>11, <1>15, <1>16 DEF TranscriptInv, Modes

\* The calls that are left are in the log.
LEMMA OwedNumbered ==
  ASSUME NEW m, NEW l \in Seq(Entries), NEW h, NEW td, Owes(m, l, h, td), NEW n, NEW sent, Points(m, l, n, sent)
  PROVE td \in Seq(CallIds) /\ \A c \in ToSet(td) : c \in CallIds /\ c[1] <= n
  <1>1. PICK a, g, b : OwesBy(m, l, h, td, a, g, b)
    BY DEF Owes
  <1>2. a \in Seq(CallIds) /\ td \in Seq(CallIds) /\ Orphans(l) = a \o td
    BY <1>1 DEF OwesBy
  <1>3. ToSet(td) \subseteq ToSet(Orphans(l))
    <2>1. ToSet(a \o td) = ToSet(a) \cup ToSet(td)
      BY <1>2, ConcatElements
    <2> QED BY <1>2, <2>1
  <1>4. \A c \in ToSet(td) : Owned(l, c)
    <2>1. l \in Seq(Anything)
      BY SaidEverywhere
    <2>2. \A c : c \in ToSet(Orphans(l)) <=> Owned(l, c) /\ Result(c) \notin ToSet(l)
      BY <2>1, OrphansAre
    <2> QED BY <1>3, <2>2
  <1>5. \A c \in ToSet(td) : c \in CallIds
    BY <1>2 DEF ToSet
  <1> QED BY <1>2, <1>4, <1>5, CallsNumbered

\* The results of some of the calls that are left, as the log gets them.
LEMMA ResultsKeep ==
  ASSUME NEW m, NEW l \in Seq(Entries), NEW h, NEW td, Holds(m, l, h, td),
         NEW n \in 0..MaxIds, NEW sent, Points(m, l, n, sent),
         NEW q \in Seq(CallIds), ToSet(q) \subseteq ToSet(td)
  PROVE /\ l \o ResultsOf(q) \in Seq(Entries) /\ h \o ResultsOf(q) \in Seq(Messages)
        /\ Remembers(l \o ResultsOf(q), h \o ResultsOf(q)) /\ Remembers(l, h \o ResultsOf(q))
        /\ Points(m, l \o ResultsOf(q), n, sent)
  <1> DEFINE r == ResultsOf(q)
  <1>1. h \in Seq(Messages) /\ Remembers(l, h) /\ Owes(m, l, h, td)
    BY DEF Holds
  <1>2. r \in Seq(Said) /\ ToSet(r) = {Result(c) : c \in ToSet(q)} /\ \A x \in ToSet(r) : x[1] = "tool"
    BY ResultsAre
  <1>3. \A c \in ToSet(td) : c[1] <= n
    BY <1>1, OwedNumbered
  <1>4. \A x \in ToSet(r) : x[1] = "tool" /\ x[2][1] <= n
    <2>1. \A c : Result(c)[2] = c
      BY Shapes
    <2> QED BY <1>2, <1>3, <2>1
  <1> HIDE DEF r
  <1>5. r \in Seq(Messages) /\ r \in Seq(Entries)
    BY <1>2, SaidEverywhere
  <1>6. h \o r \in Seq(Messages) /\ l \o r \in Seq(Entries)
    BY <1>1, <1>5, ConcatElements
  <1>7. Remembers(l \o r, h \o r)
    BY <1>1, <1>2, RememberMore
  <1>8. Remembers(l, h \o r)
    BY <1>1, <1>2, RememberHeard
  <1>9. Points(m, l \o r, n, sent)
    BY <1>4, <1>5, PointsResults
  <1> QED BY <1>6, <1>7, <1>8, <1>9 DEF r

\* One result, whether others are left or not.
LEMMA OwesTool ==
  ASSUME NEW m, NEW l \in Seq(Entries), NEW h, NEW td, Owes(m, l, h, td), td # <<>>
  PROVE Owes(m, l \o <<Result(Head(td))>>, h \o <<Result(Head(td))>>, Tail(td))
  <1>1. PICK a, g, b : OwesBy(m, l, h, td, a, g, b)
    BY DEF Owes
  <1>2. PICK cs, k : OwesPart(m, l, h, td, a, g, b, cs, k)
    BY <1>1, OwesSplit
  <1>3. cs \in Seq(CallIds) /\ k \in 0..Len(cs) /\ k < Len(cs) /\ td = Rest(cs, k)
    BY <1>2 DEF OwesPart, Distinct
  <1>4. CASE k + 1 < Len(cs)
    BY <1>2, <1>4, OwesRun DEF Owes
  <1>5. CASE ~(k + 1 < Len(cs))
    <2>0. Len(cs) \in Nat /\ k \in Nat /\ k + 1 = Len(cs) /\ k + 1 \in 0..Len(cs) /\ Len(cs) - k = 1
      BY <1>3, <1>5
    <2>1. td \in Seq(CallIds) /\ Len(td) = 1 /\ Tail(td) = Rest(cs, k + 1)
      BY <1>3, <2>0, RestIs
    <2>2. Tail(td) = <<>> /\ ResultsOf(td) = <<Result(Head(td))>>
      <3>1. Tail(td) = <<>>
        BY <1>3, <2>0, <2>1, RestIs
      <3>2. DOMAIN td = 1..1 /\ Head(td) = td[1]
        BY <2>1
      <3>3. ResultsOf(td) = [i \in 1..1 |-> Result(td[1])]
        BY <3>2 DEF ResultsOf
      <3> QED BY <3>1, <3>2, <3>3
    <2>3. Owes(m, l \o ResultsOf(td), h \o ResultsOf(td), <<>>)
      BY OwesStops
    <2> QED BY <2>2, <2>3
  <1> QED BY <1>4, <1>5

\* A call is run.
LEMMA RunToolKeeps == ASSUME TranscriptInv, RunTool PROVE TranscriptInv'
  <1> DEFINE q == <<Head(todo)>>
  <1>1. /\ mode = "calls" /\ todo # <<>> /\ log' = log \o <<Result(Head(todo))>>
        /\ chat' = chat \o <<Result(Head(todo))>> /\ todo' = Tail(todo)
        /\ mode' = (IF Len(todo) = 1 THEN "top" ELSE "calls")
        /\ ids' = ids /\ sentAt' = sentAt /\ may' = may
    BY DEF RunTool, Write
  <1>2. /\ log \in Seq(Entries) /\ ids \in 0..MaxIds /\ Holds(may, log, chat, todo)
        /\ Points(may, log, ids, sentAt) /\ todo \in Seq(CallIds)
    BY <1>1 DEF TranscriptInv
  <1>3. q \in Seq(CallIds) /\ ToSet(q) \subseteq ToSet(todo)
    <2>1. Head(todo) \in CallIds /\ 1 \in DOMAIN todo /\ Head(todo) = todo[1]
      BY <1>1, <1>2
    <2>2. q \in Seq(CallIds)
      BY <2>1
    <2>3. Head(todo) \in ToSet(todo)
      BY <2>1 DEF ToSet
    <2>4. ToSet(q) = {Head(todo)}
      BY DEF ToSet
    <2> QED BY <2>2, <2>3, <2>4
  <1>4. ResultsOf(q) = <<Result(Head(todo))>>
    BY DEF ResultsOf
  <1> HIDE DEF q
  <1>5. /\ log \o ResultsOf(q) \in Seq(Entries) /\ chat \o ResultsOf(q) \in Seq(Messages)
        /\ Remembers(log \o ResultsOf(q), chat \o ResultsOf(q))
        /\ Points(may, log \o ResultsOf(q), ids, sentAt)
    BY <1>2, <1>3, ResultsKeep
  <1>6. Owes(may, log', chat', Tail(todo))
    BY <1>1, <1>2, OwesTool DEF Holds
  <1>7. Holds(may, log', chat', Tail(todo))
    BY <1>1, <1>4, <1>5, <1>6 DEF Holds
  <1>8. Tail(todo) \in Seq(CallIds) /\ (Len(todo) = 1 => Tail(todo) = <<>>)
    BY <1>1, <1>2
  <1> QED BY <1>1, <1>2, <1>4, <1>5, <1>7, <1>8 DEF TranscriptInv, Modes

\* A turn that stops answers the calls that are left.
LEMMA TurnStopsKeeps == ASSUME TranscriptInv, TurnStops PROVE TranscriptInv'
  <1>1. /\ mode # "closed" /\ mode' = "idle" /\ todo' = <<>>
        /\ log' = log \o ResultsOf(Orphans(chat)) /\ chat' = chat \o ResultsOf(Orphans(chat))
        /\ ids' = ids /\ sentAt' = sentAt /\ may' = may
    BY DEF TurnStops, Turning, Write, ResultsOf
  <1>2. /\ log \in Seq(Entries) /\ ids \in 0..MaxIds /\ Holds(may, log, chat, todo)
        /\ Points(may, log, ids, sentAt) /\ todo \in Seq(CallIds)
    BY <1>1 DEF TranscriptInv
  <1>3. Orphans(chat) = todo /\ Owes(may, log \o ResultsOf(todo), chat \o ResultsOf(todo), <<>>)
    BY <1>2, OwesStops DEF Holds
  <1>4. /\ log \o ResultsOf(todo) \in Seq(Entries) /\ chat \o ResultsOf(todo) \in Seq(Messages)
        /\ Remembers(log \o ResultsOf(todo), chat \o ResultsOf(todo))
        /\ Points(may, log \o ResultsOf(todo), ids, sentAt)
    BY <1>2, ResultsKeep
  <1>5. Holds(may, log', chat', <<>>)
    BY <1>1, <1>3, <1>4 DEF Holds
  <1>6. <<>> \in Seq(CallIds)
    OBVIOUS
  <1> QED BY <1>1, <1>2, <1>3, <1>4, <1>5, <1>6 DEF TranscriptInv, Modes

\* The top of the loop: its record replays what the compaction did.
LEMMA BeginIterationKeeps == ASSUME Compatible, TranscriptInv, BeginIteration PROVE TranscriptInv'
  <1>1. /\ mode \in {"top", "resume"} /\ mode' = (IF mode = "top" THEN "ask" ELSE "calls")
        /\ todo' = todo /\ ids' = ids /\ sentAt' = sentAt /\ may' = may
    BY DEF BeginIteration
  <1>2. /\ log \in Seq(Entries) /\ ids \in 0..MaxIds /\ Holds(may, log, chat, todo)
        /\ Points(may, log, ids, sentAt) /\ todo \in Seq(CallIds) /\ may \in Profiles
    BY <1>1 DEF TranscriptInv
  <1>3. CASE log' = log /\ chat' = chat
    BY <1>1, <1>2, <1>3 DEF TranscriptInv, Modes
  <1>4. CASE Compact
    <2> DEFINE cut == FindCutoff(chat)
               S == Summarised(chat, cut)
               n == Len(chat) - cut + 1
               x == Compaction(S, n)
               h2 == ApplySummary(chat, cut, S)
    <2>1. "compact" \in may /\ Compactable(chat, cut) /\ chat' = h2
      BY <1>4 DEF Compact
    <2>2. "kill" \notin may /\ "disk" \notin may
      BY <1>2, <2>1 DEF Compatible
    <2>3. log' = Append(log, x)
      BY <1>4, <2>2 DEF Compact
    <2>4. chat \in Seq(Messages) /\ Owes(may, log, chat, todo) /\ Remembers(log, chat)
      BY <1>2 DEF Holds
    <2>5. /\ Owes(may, log \o <<x>>, h2, todo) /\ S \in SUBSET Said /\ n \in Nat
          /\ h2 = <<Summary(S)>> \o SubSeq(chat, cut, Len(chat))
      BY <1>2, <2>1, <2>2, <2>4, OwesCut
    <2>6. cut \in 2..Len(chat) /\ chat[cut][1] = "user" /\ Count(chat, cut) = Keep /\ Len(chat) \in Nat
      BY <2>1, <2>4, CutoffIs
    <2> DEFINE w == <<Summary(S)>> \o SubSeq(chat, cut, Len(chat))
    <2>7. Remembers(log, w)
      BY <1>2, <2>4, <2>6, RememberCut
    <2>8. h2 \in Seq(Messages)
      <3>1. cut \in 1..(Len(chat) + 1)
        BY <2>6
      <3> QED BY <2>4, <2>5, <3>1, ApplySummaryIs
    <2> HIDE DEF cut, S, n, h2, w
    <2>9. x \in Compactions /\ x[1] = "compaction"
      BY <2>5, Spoken, Shapes
    <2> HIDE DEF x
    <2>10. x \in Entries
      BY <2>9 DEF Entries
    <2>11. log \o <<x>> = Append(log, x) /\ Append(log, x) \in Seq(Entries)
      BY <1>2, <2>10
    <2>12. h2 = w
      BY <2>5 DEF w, S
    <2>13. Remembers(log', h2)
      BY <1>2, <2>3, <2>7, <2>8, <2>9, <2>12, RememberNote
    <2>14. Holds(may, log', h2, todo)
      BY <2>3, <2>5, <2>8, <2>11, <2>13 DEF Holds
    <2>15. PointIs(may, log, x, ids, sentAt)
      BY <2>9 DEF PointIs
    <2>16. ids <= ids /\ \A k \in 1..ids : sentAt[k] = sentAt[k]
      BY <1>2, TranscriptAssumption
    <2>17. Points(may, log \o <<x>>, ids, sentAt)
      BY <1>2, <2>10, <2>15, <2>16, PointsOne
    <2> QED BY <1>1, <1>2, <2>1, <2>3, <2>11, <2>14, <2>17 DEF TranscriptInv, Modes
  <1> QED BY <1>3, <1>4 DEF BeginIteration

\* The process dies: what the log owes is remembered.
LEMMA KillKeeps == ASSUME TranscriptInv, Kill PROVE TranscriptInv'
  <1>1. /\ "kill" \in may /\ mode # "closed" /\ mode' = "closed" /\ todo' = <<>>
        /\ log' = log /\ ids' = ids /\ sentAt' = sentAt /\ may' = may
    BY DEF Kill
  <1>2. todo \in Seq(CallIds) /\ Holds(may, log, chat, todo)
    BY <1>1 DEF TranscriptInv
  <1>3. \E h, td : td \in Seq(CallIds) /\ Holds(may', log', h, td)
    BY <1>1, <1>2
  <1>4. <<>> \in Seq(CallIds)
    OBVIOUS
  <1> QED BY <1>1, <1>3, <1>4 DEF TranscriptInv, Modes

\* The session is opened: questions are asked again, other calls recovered.
LEMMA OpenKeeps == ASSUME Compatible, TranscriptInv, Open PROVE TranscriptInv'
  <1>1. /\ mode = "closed" /\ chat' = Opened(log) /\ todo' = Parked(log)
        /\ mode' = (IF Parked(log) # <<>> THEN "resume" ELSE "idle")
        /\ log' = log /\ ids' = ids /\ sentAt' = sentAt /\ may' = may
    BY DEF Open, Mount
  <1>2. /\ log \in Seq(Entries) /\ ids \in 0..MaxIds /\ Points(may, log, ids, sentAt) /\ may \in Profiles
        /\ "kill" \in may /\ \E h, td : td \in Seq(CallIds) /\ Holds(may, log, h, td)
    BY <1>1 DEF TranscriptInv
  <1>3. PICK h, td : td \in Seq(CallIds) /\ Holds(may, log, h, td)
    BY <1>2
  <1>4. h \in Seq(Messages) /\ Owes(may, log, h, td) /\ Remembers(log, h)
    BY <1>3 DEF Holds
  <1>5. CASE Parked(log) = <<>>
    <2>1. Asked(Orphans(log))
      BY <1>2, <1>5, ParkedIs
    <2>2. Owes(may, log, Full(log), <<>>) /\ Full(log) = h \o ResultsOf(td)
      <3>1. log \in Seq(Entries) /\ Owes(may, log, h, td) /\ "kill" \in may
        BY <1>2, <1>4
      <3> QED BY <2>1, <3>1, OwesOpens
    <2>3. h \o ResultsOf(td) \in Seq(Messages) /\ Remembers(log, h \o ResultsOf(td))
      BY <1>2, <1>3, ResultsKeep
    <2>4. Holds(may, log, Full(log), <<>>)
      BY <2>2, <2>3 DEF Holds
    <2>5. Opened(log) = Full(log)
      BY <1>2, <2>1, AskedOpens
    <2>6. Holds(may, log, chat', <<>>) /\ mode' = "idle" /\ todo' = <<>>
      BY <1>1, <1>5, <2>4, <2>5
    <2>7. <<>> \in Seq(CallIds)
      OBVIOUS
    <2> QED BY <1>1, <1>2, <2>6, <2>7 DEF TranscriptInv, Modes
  <1>6. CASE Parked(log) # <<>>
    <2>1. Parked(log) = td /\ Opened(log) = h
      BY <1>2, <1>4, <1>6, OwesParked
    <2>2. Holds(may, log, chat', todo') /\ mode' = "resume" /\ todo' \in Seq(CallIds)
      BY <1>1, <1>3, <1>6, <2>1
    <2>3. "notice" \notin may
      BY <1>2 DEF Compatible
    <2> QED BY <1>1, <1>2, <2>2, <2>3 DEF TranscriptInv, Modes
  <1> QED BY <1>5, <1>6

\* The log is cut before a message: what is left was sound when it was sent.
LEMMA RevertKeeps ==
  ASSUME TranscriptInv, NEW i \in DOMAIN log, Revert(i)
  PROVE TranscriptInv'
  <1> DEFINE p == SubSeq(log, 1, i - 1)
  <1>1. /\ mode = "idle" /\ log[i][1] = "user" /\ log' = p /\ chat' = Opened(p) /\ todo' = Parked(p)
        /\ mode' = (IF Parked(p) # <<>> THEN "resume" ELSE "idle")
        /\ ids' = ids /\ sentAt' = sentAt /\ may' = may
    BY DEF Revert, Mount
  <1>2. log \in Seq(Entries) /\ Points(may, log, ids, sentAt)
    BY DEF TranscriptInv
  <1>3. p \in Seq(Entries) /\ Points(may, p, ids, sentAt)
    <2> DEFINE k == i - 1
    <2>1. k \in 0..Len(log)
      BY <1>2
    <2> HIDE DEF k
    <2>2. SubSeq(log, 1, k) \in Seq(Entries) /\ Points(may, SubSeq(log, 1, k), ids, sentAt)
      BY <1>2, <2>1, PointsPrefix
    <2> QED BY <2>2 DEF k
  <1>4. Sound(may, p)
    BY <1>1, <1>2 DEF Points, PointIs
  <1> HIDE DEF p
  <1>5. Parked(p) = <<>> /\ Opened(p) = Full(p)
    BY <1>3, <1>4, SoundOpens DEF Sound
  <1>6. Holds(may, p, chat', <<>>) /\ todo' = <<>> /\ mode' = "idle"
    BY <1>1, <1>4, <1>5 DEF Sound
  <1>7. <<>> \in Seq(CallIds)
    OBVIOUS
  <1> QED BY <1>1, <1>3, <1>6, <1>7 DEF TranscriptInv, Modes

\* The log is cut behind calls: what is before them was sound.
LEMMA ResumeKeeps ==
  ASSUME Compatible, TranscriptInv, NEW i \in DOMAIN log, Resume(i)
  PROVE TranscriptInv'
  <1> DEFINE p == SubSeq(log, 1, i - 1)
             l == SubSeq(log, 1, i)
             cs == log[i][2]
  <1>1. /\ "resume" \in may /\ mode = "idle" /\ log[i][1] = "calls" /\ log' = l /\ chat' = Rebuild(l)
        /\ mode' = "resume" /\ todo' = cs /\ ids' = ids /\ sentAt' = sentAt /\ may' = may
    BY DEF Resume
  <1>2. log \in Seq(Entries) /\ Points(may, log, ids, sentAt) /\ may \in Profiles
    BY DEF TranscriptInv
  <1>3. "kill" \notin may /\ "notice" \notin may
    BY <1>1, <1>2 DEF Compatible
  <1>4. DOMAIN log = 1..Len(log) /\ Len(log) \in Nat /\ log[i] \in Entries /\ i \in 1..Len(log)
    BY <1>2
  <1>5. p \in Seq(Entries) /\ l \in Seq(Entries) /\ Points(may, l, ids, sentAt)
    <2> DEFINE k == i - 1
    <2>1. k \in 0..Len(log) /\ i \in 0..Len(log)
      BY <1>4
    <2> HIDE DEF k
    <2>2. SubSeq(log, 1, k) \in Seq(Entries)
      BY <1>2, <2>1, PointsPrefix
    <2>3. SubSeq(log, 1, i) \in Seq(Entries) /\ Points(may, SubSeq(log, 1, i), ids, sentAt)
      BY <1>2, <2>1, PointsPrefix
    <2> QED BY <2>2, <2>3 DEF k
  <1>6. l = p \o <<log[i]>>
    BY <1>2, <1>4
  <1>7. log[i] = CallsOf(cs)
    <2>1. log[i] \in Said
      BY <1>1, <1>4, OtherIs DEF Entries
    <2> QED BY <1>1, <2>1, SaidIs
  <1>8. /\ Sound(may, p) /\ cs # <<>> /\ Distinct(cs)
        /\ \A c \in ToSet(cs) : ~Owned(p, c) /\ Result(c) \notin ToSet(p)
    BY <1>1, <1>2 DEF Points, PointIs
  <1> HIDE DEF p, l, cs
  <1>9. Full(p) = Rebuild(p)
    BY <1>3, <1>5, <1>8, SoundOpens DEF Sound
  <1>10. Holds(may, p \o <<CallsOf(cs)>>, Full(p) \o <<CallsOf(cs)>>, cs)
    <2>1. Holds(may, p, Full(p), <<>>)
      BY <1>8 DEF Sound
    <2> QED BY <1>5, <1>8, <2>1, HoldsCalls
  <1>11. Rebuild(l) = Rebuild(p) \o <<CallsOf(cs)>>
    <2>1. CallsOf(cs) \in Said
      BY <1>8, Spoken DEF Distinct
    <2>2. <<CallsOf(cs)>> \in Seq(Said)
      BY <2>1
    <2>3. Rebuild(p \o <<CallsOf(cs)>>) = Rebuild(p) \o <<CallsOf(cs)>>
      BY <1>5, <2>2, RebuildAlways
    <2> QED BY <1>6, <1>7, <2>3
  <1>12. Holds(may, log', chat', todo')
    BY <1>1, <1>6, <1>7, <1>9, <1>10, <1>11
  <1>13. todo' \in Seq(CallIds)
    BY <1>1, <1>8 DEF Distinct
  <1> QED BY <1>1, <1>3, <1>5, <1>12, <1>13 DEF TranscriptInv, Modes

\* Every step keeps the invariant.
LEMMA InvStays == ASSUME Compatible, TranscriptInv, [TranscriptNext]_transcriptVars PROVE TranscriptInv'
  <1>1. CASE UNCHANGED transcriptVars
    BY <1>1 DEF transcriptVars, TranscriptInv
  <1>2. CASE Prompt
    BY <1>2, PromptKeeps
  <1>3. CASE DrainSteer
    BY <1>3, DrainSteerKeeps
  <1>4. CASE BeginIteration
    BY <1>4, BeginIterationKeeps
  <1>5. CASE AnswerText
    BY <1>5, AnswerTextKeeps
  <1>6. CASE AnswerCalls
    BY <1>6, AnswerCallsKeeps
  <1>7. CASE RunTool
    BY <1>7, RunToolKeeps
  <1>8. CASE TurnStops
    BY <1>8, TurnStopsKeeps
  <1>9. CASE Kill
    BY <1>9, KillKeeps
  <1>10. CASE Open
    BY <1>10, OpenKeeps
  <1>11. CASE \E i \in DOMAIN log : Revert(i) \/ Resume(i)
    BY <1>11, RevertKeeps, ResumeKeeps
  <1> QED BY <1>1, <1>2, <1>3, <1>4, <1>5, <1>6, <1>7, <1>8, <1>9, <1>10, <1>11 DEF TranscriptNext

\* The model is asked with a complete history.
LEMMA InvFits == TranscriptInv => FitToAsk
  <1> SUFFICES ASSUME TranscriptInv, mode = "ask" PROVE WellFormed(chat)
    BY DEF FitToAsk
  <1>1. Holds(may, log, chat, <<>>) /\ log \in Seq(Entries)
    BY DEF TranscriptInv
  <1>2. Complete(chat) /\ chat \in Seq(Messages)
    BY <1>1, SoundOpens
  <1> QED BY <1>2, CompleteFits

\* The invariant gives the types.
LEMMA InvTyped == ASSUME TranscriptInv, mode # "closed" \/ chat = <<>> PROVE TranscriptTypeOK
  <1>1. /\ log \in Seq(Entries) /\ ids \in 0..MaxIds /\ mode \in Modes /\ may \in Profiles
        /\ todo \in Seq(CallIds) /\ (mode \notin {"calls", "resume"} => todo = <<>>)
    BY DEF TranscriptInv
  <1>2. ToSet(todo) \subseteq CallIds
    BY <1>1 DEF ToSet
  <1>3. \A i \in DOMAIN log : log[i][1] \in {"user", "text", "calls", "tool", "compaction"}
    <2>1. \A e \in Entries : e[1] \in {"user", "text", "calls", "tool", "compaction"}
      BY SaidIs, OtherIs DEF Entries
    <2> QED BY <1>1, <2>1
  <1>4. CASE chat = <<>>
    BY <1>1, <1>2, <1>3, <1>4 DEF TranscriptTypeOK
  <1>5. CASE mode # "closed"
    <2>1. chat \in Seq(Messages) /\ InFront(chat)
      BY <1>5 DEF TranscriptInv, Holds, Remembers
    <2>2. \A e \in Messages : e[1] \in {"user", "text", "calls", "tool", "summary"}
      BY SaidIs, OtherIs DEF Messages
    <2>3. \A i \in DOMAIN chat : chat[i][1] \in {"user", "text", "calls", "tool", "summary"}
      BY <2>1, <2>2
    <2> QED BY <1>1, <1>2, <1>3, <2>1, <2>3 DEF TranscriptTypeOK, InFront
  <1> QED BY <1>4, <1>5

\* The log before a message opens as the history it was sent with.
LEMMA InvReverts == TranscriptInv => RevertRestores
  <1> SUFFICES ASSUME TranscriptInv, NEW i \in DOMAIN log, log[i][1] = "user"
               PROVE Opened(SubSeq(log, 1, i - 1)) = sentAt[log[i][2]]
    BY DEF RevertRestores
  <1> DEFINE p == SubSeq(log, 1, i - 1)
  <1>1. log \in Seq(Entries) /\ Points(may, log, ids, sentAt)
    BY DEF TranscriptInv
  <1>2. p \in Seq(Entries)
    <2>1. i \in 1..Len(log) /\ Len(log) \in Nat
      BY <1>1
    <2> QED BY <1>1, <2>1
  <1>3. Sound(may, p) /\ sentAt[log[i][2]] = Full(p)
    BY <1>1 DEF Points, PointIs
  <1> HIDE DEF p
  <1>4. Opened(p) = Full(p)
    BY <1>2, <1>3, SoundOpens DEF Sound
  <1> QED BY <1>3, <1>4 DEF p

\* Nothing is forgotten, and the last messages are there word for word.
LEMMA InvRemembers == TranscriptInv => RecentKept /\ NothingUnsummarised
  <1> SUFFICES ASSUME TranscriptInv, mode # "closed" PROVE RecentKept /\ NothingUnsummarised
    BY DEF RecentKept, NothingUnsummarised
  <1>1. Recent(log, chat) /\ Covers(log, chat)
    BY DEF TranscriptInv, Holds, Remembers
  <1>2. NothingUnsummarised
    BY <1>1 DEF Covers, NothingUnsummarised
  <1>3. ASSUME NEW i \in DOMAIN log, log[i][1] = "user",
               Cardinality({j \in DOMAIN log : j >= i /\ log[j][1] = "user"}) <= Keep
        PROVE log[i] \in ToSet(chat)
    <2>1. Count(log, i) <= Keep
      BY <1>3 DEF Count, UsersFrom
    <2>2. PICK j \in DOMAIN chat : chat[j] = log[i]
      BY <1>1, <1>3, <2>1 DEF Recent
    <2> QED BY <2>2 DEF ToSet
  <1> QED BY <1>2, <1>3 DEF RecentKept

\* At rest the log opens as the history in memory.
LEMMA InvReplays == TranscriptInv => ReplayIsLive
  <1> SUFFICES ASSUME TranscriptInv, mode = "idle" PROVE Opened(log) = chat
    BY DEF ReplayIsLive
  <1>1. Holds(may, log, chat, <<>>) /\ log \in Seq(Entries)
    BY DEF TranscriptInv
  <1> QED BY <1>1, SoundOpens

\* A closed session has no history in memory.
ClosedIsEmpty == mode = "closed" => chat = <<>>

\* Nothing is in memory while the session is closed.
LEMMA ClosedStays ==
  /\ TranscriptInit => ClosedIsEmpty
  /\ ClosedIsEmpty /\ [TranscriptNext]_transcriptVars => ClosedIsEmpty'
  <1>1. TranscriptInit => ClosedIsEmpty
    BY DEF TranscriptInit, ClosedIsEmpty
  <1>2. ASSUME ClosedIsEmpty, [TranscriptNext]_transcriptVars PROVE ClosedIsEmpty'
    BY <1>2 DEF ClosedIsEmpty, TranscriptNext, transcriptVars, Prompt, DrainSteer, BeginIteration, AnswerText,
       AnswerCalls, RunTool, TurnStops, Kill, Open, Revert, Resume, Mount, Turning
  <1> QED BY <1>1, <1>2

\* Whatever was reverted, resumed, compacted, aborted, killed and opened again
\* before, the model is asked with a history that providers accept: each batch is
\* followed by its results, and no result stands alone.
THEOREM HistoryFits ==
  ASSUME Compatible
  PROVE TranscriptSpec => []FitToAsk
  <1>1. TranscriptInv /\ [TranscriptNext]_transcriptVars => TranscriptInv'
    BY InvStays
  <1> QED BY <1>1, InvBegins, InvFits, PTL DEF TranscriptSpec

\* A history is never damaged, and what was done to it survives a reload: a
\* revert restores what a message was sent with, nothing is lost between
\* summaries, the last messages stay word for word, and a session at rest opens as
\* it was.
THEOREM HistoryKept ==
  ASSUME Compatible
  PROVE TranscriptSpec => []ChatKept
  <1>1. TranscriptInv /\ [TranscriptNext]_transcriptVars => TranscriptInv'
    BY InvStays
  <1>2. TranscriptInv /\ ClosedIsEmpty => ChatKept
    BY InvTyped, InvReverts, InvRemembers, InvReplays DEF ChatKept, HistoryOK, ClosedIsEmpty
  <1> QED BY <1>1, <1>2, InvBegins, ClosedStays, PTL DEF TranscriptSpec
=============================================================================
