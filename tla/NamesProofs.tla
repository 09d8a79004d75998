---------------------------- MODULE NamesProofs ----------------------------
(***************************************************************************)
(* Proofs about Names, for all names and all commands.                     *)
(*                                                                         *)
(* The first half is about the operators: the positions that the string    *)
(* functions look for, FlattenSeq (its recursion is unfolded step by step, *)
(* since no induction theorem with an operator as its parameter can be     *)
(* used), paths without their blanks, and the lines of a listing.  The     *)
(* second half is the inductive invariant and the four properties.         *)
(***************************************************************************)
EXTENDS Names, FiniteSetTheorems, SequenceTheorems, WellFoundedInduction, TLAPS

-----------------------------------------------------------------------------
(* Sets of numbers *)

(* Induction, for a set of numbers.                                         *)
LEMMA Induction ==
    ASSUME NEW S, 0 \in S, \A n \in Nat : n \in S => n + 1 \in S
    PROVE  \A n \in Nat : n \in S
<1> DEFINE T == Nat \ S
           R == OpToRel(<, Nat)
<1> SUFFICES ASSUME T # {} PROVE FALSE
  OBVIOUS
<1>1. IsWellFoundedOn(R, Nat)
  BY NatLessThanWellFounded
<1>2. PICK x \in T : \A y \in T : ~(<<y, x>> \in R)
  <2> HIDE DEF T, R
  <2>1. T \subseteq Nat
    BY DEF T
  <2> QED BY <1>1, <2>1, WFMin
<1>3. x # 0 /\ x - 1 \in Nat /\ x - 1 \in T
  OBVIOUS
<1>4. <<x - 1, x>> \in R
  BY <1>3 DEF OpToRel
<1> QED BY <1>2, <1>3, <1>4

LEMMA HasLeast ==
    ASSUME NEW T \in SUBSET Nat, T # {}
    PROVE  \E x \in T : \A y \in T : x <= y
<1> DEFINE S == {n \in Nat : \A y \in T : n <= y}
<1> SUFFICES ASSUME \A x \in T : \E y \in T : ~(x <= y) PROVE FALSE
  OBVIOUS
<1>1. 0 \in S
  OBVIOUS
<1>2. ASSUME NEW n \in Nat, n \in S PROVE n + 1 \in S
  <2>1. n \notin T
    BY <1>2
  <2>2. \A y \in T : n + 1 <= y
    BY <1>2, <2>1
  <2> QED BY <2>2
<1>3. \A n \in Nat : n \in S
  <2> HIDE DEF S
  <2> QED BY <1>1, <1>2, Induction
<1>4. PICK y \in T : TRUE
  OBVIOUS
<1>5. y + 1 \in S
  BY <1>3
<1> QED BY <1>5

LEMMA MinIs ==
    ASSUME NEW T \in SUBSET Nat, T # {}
    PROVE  Min(T) \in T /\ \A y \in T : Min(T) <= y
BY HasLeast DEF Min

LEMMA MaxIs ==
    ASSUME NEW n \in Nat, NEW T \in SUBSET (0 .. n), T # {}
    PROVE  Max(T) \in T /\ \A y \in T : Max(T) >= y
<1> DEFINE Distances == {n - i : i \in T}
<1>0. \A i \in T : n - i \in Nat /\ i \in Nat
  OBVIOUS
<1>1. Distances \in SUBSET Nat /\ Distances # {}
  BY <1>0
<1>2. PICK d \in Distances : \A e \in Distances : d <= e
  BY <1>1, HasLeast
<1>3. PICK x \in T : d = n - x
  OBVIOUS
<1>4. ASSUME NEW y \in T PROVE x >= y
  <2>1. n - x <= n - y
    BY <1>2, <1>3
  <2> QED BY <1>0, <2>1
<1> QED BY <1>4 DEF Max

-----------------------------------------------------------------------------
(* Positions in a text *)

Text == Seq(Characters)
USE DEF Text

(* The characters that the program writes itself.                           *)
LEMMA Letters ==
    /\ Space \in Characters /\ "\n" \in Characters /\ "/" \in Characters
    /\ "~" \in Characters /\ "-" \in Characters /\ "C" \in Characters
    /\ ":" \in Characters /\ "h" \in Characters /\ "s" \in Characters
    /\ Space \notin {"\n", "/", "~", "-", "C", ":", "h", "s"}
<1>1. Space \notin {"\n", "/", "~", "-", "C", ":", "h", "s"}
  BY Zenon DEF Space
<1> QED BY <1>1, NamesAssumption

(* Until finds the first character of C.                                    *)
LEMMA UntilIs ==
    ASSUME NEW s \in Text, NEW i \in Nat \ {0}, NEW C
    PROVE  /\ Until(s, i, C) \in Nat
           /\ i <= Len(s) + 1 => Until(s, i, C) \in i .. (Len(s) + 1)
           /\ i > Len(s) => Until(s, i, C) = Len(s) + 1
           /\ Until(s, i, C) <= Len(s) =>
                 Until(s, i, C) >= i /\ s[Until(s, i, C)] \in C
           /\ \A j \in i .. Len(s) : j < Until(s, i, C) => s[j] \notin C
<1> DEFINE I == {j \in i .. Len(s) : s[j] \in C}
<1>1. Until(s, i, C) = OrEnd(IF I # {} THEN Min(I) ELSE 0, s)
  BY DEF Until, SelectInSubSeq
<1>2. I \in SUBSET Nat
  OBVIOUS
<1>3. CASE I = {}
  BY <1>1, <1>3 DEF OrEnd
<1>4. CASE I # {}
  <2>1. Min(I) \in I /\ \A y \in I : Min(I) <= y
    <3> HIDE DEF I
    <3> QED BY <1>2, <1>4, MinIs
  <2>2. Until(s, i, C) = Min(I)
    BY <1>1, <1>4, <2>1 DEF OrEnd
  <2>3. Until(s, i, C) \in i .. Len(s) /\ s[Until(s, i, C)] \in C
    BY <2>1, <2>2
  <2>4. \A j \in i .. Len(s) : s[j] \in C => Until(s, i, C) <= j
    BY <2>1, <2>2
  <2> QED BY <2>3, <2>4
<1> QED BY <1>3, <1>4

LEMMA PastIs ==
    ASSUME NEW s \in Text, NEW i \in Nat \ {0}, NEW C
    PROVE  Past(s, i, C) \in Nat \ {0}
<1> DEFINE I == {j \in i .. Len(s) : s[j] \notin C}
<1>1. Past(s, i, C) = OrEnd(IF I # {} THEN Min(I) ELSE 0, s)
  BY DEF Past, SelectInSubSeq
<1>2. I \in SUBSET Nat
  OBVIOUS
<1>3. CASE I = {}
  BY <1>1, <1>3 DEF OrEnd
<1>4. CASE I # {}
  <2>1. Min(I) \in I
    <3> HIDE DEF I
    <3> QED BY <1>2, <1>4, MinIs
  <2> QED BY <1>1, <1>4, <2>1 DEF OrEnd
<1> QED BY <1>3, <1>4

LEMMA LastDashIs ==
    ASSUME NEW s \in Text
    PROVE  /\ lastdash(s) \in 0 .. Len(s)
           /\ lastdash(s) # 0 => s[lastdash(s)] = "/"
           /\ \A j \in DOMAIN s : s[j] = "/" => j <= lastdash(s)
<1> DEFINE I == {j \in 1 .. Len(s) : s[j] = "/"}
<1>1. lastdash(s) = IF I # {} THEN Max(I) ELSE 0
  BY DEF lastdash, SelectLastInSeq
<1>2. I \in SUBSET (0 .. Len(s)) /\ Len(s) \in Nat
  OBVIOUS
<1>3. CASE I = {}
  BY <1>1, <1>3
<1>4. CASE I # {}
  <2>1. Max(I) \in I /\ \A y \in I : Max(I) >= y
    <3> HIDE DEF I
    <3> QED BY <1>2, <1>4, MaxIs
  <2> QED BY <1>1, <1>4, <2>1
<1> QED BY <1>3, <1>4

(* What follows the last slash of a path, and the directory before it.      *)
LEMMA Parts ==
    ASSUME NEW u \in Text, NEW n \in Text, ~Has(n, "/")
    PROVE  LET p == u \o <<"/">> \o n
           IN  /\ p \in Text
               /\ lastdash(p) = Len(u) + 1
               /\ pickFileNameFromPath(p) = n
               /\ DirOf(p) = u \o <<"/">>
<1> DEFINE p == u \o <<"/">> \o n
<1>0. Len(u) \in Nat /\ Len(n) \in Nat /\ <<"/">> \in Text
  <2>1. "/" \in Characters
    BY Letters
  <2> QED BY <2>1
<1>1. /\ p \in Text /\ Len(p) = Len(u) + 1 + Len(n) /\ p[Len(u) + 1] = "/"
      /\ DOMAIN p = 1 .. Len(p)
  BY <1>0
<1>2. \A j \in 1 .. Len(n) : p[Len(u) + 1 + j] = n[j]
  OBVIOUS
<1>3. ASSUME NEW j \in DOMAIN p, p[j] = "/" PROVE j <= Len(u) + 1
  <2> SUFFICES ASSUME j > Len(u) + 1 PROVE FALSE
    BY <1>1
  <2>1. j - (Len(u) + 1) \in 1 .. Len(n)
    BY <1>1
  <2>2. p[j] = n[j - (Len(u) + 1)]
    BY <1>1, <1>2, <2>1
  <2> QED BY <1>3, <2>1, <2>2 DEF Has
<1>4. lastdash(p) = Len(u) + 1
  <2>1. Len(u) + 1 \in DOMAIN p
    BY <1>0, <1>1
  <2> HIDE DEF p
  <2>2. lastdash(p) \in 0 .. Len(p) /\ Len(u) + 1 <= lastdash(p)
    BY <1>1, <2>1, LastDashIs
  <2>3. p[lastdash(p)] = "/"
    BY <1>0, <1>1, <2>2, LastDashIs
  <2> QED BY <1>0, <1>1, <1>3, <2>2, <2>3
<1>5. SubSeq(p, Len(u) + 2, Len(p)) = n
  <2>1. Len(SubSeq(p, Len(u) + 2, Len(p))) = Len(n)
    BY <1>1
  <2>2. \A j \in 1 .. Len(n) : SubSeq(p, Len(u) + 2, Len(p))[j] = n[j]
    BY <1>1, <1>2
  <2> QED BY <1>1, <2>1, <2>2, SeqEqual
<1>6. SubSeq(p, 1, Len(u) + 1) = u \o <<"/">>
  <2>1. Len(SubSeq(p, 1, Len(u) + 1)) = Len(u \o <<"/">>)
    BY <1>1
  <2>2. \A j \in 1 .. Len(u) + 1 : SubSeq(p, 1, Len(u) + 1)[j] = (u \o <<"/">>)[j]
    BY <1>1
  <2>3. SubSeq(p, 1, Len(u) + 1) \in Text /\ u \o <<"/">> \in Text
    BY <1>0, <1>1
  <2> HIDE DEF p
  <2> QED BY <1>0, <2>1, <2>2, <2>3, SeqEqual
<1>7. pickFileNameFromPath(p) = n
  <2>1. Len(u) + 1 # 0 /\ Len(u) + 1 + 1 = Len(u) + 2
    BY <1>0
  <2> HIDE DEF p
  <2> QED BY <1>4, <1>5, <2>1 DEF pickFileNameFromPath
<1> QED BY <1>1, <1>4, <1>6, <1>7 DEF DirOf

-----------------------------------------------------------------------------
(* Texts put together out of parts: FlattenSeq, whose recursion is unfolded *)
(* here once and for all.                                                   *)

Unfolds(f, q, n) == f = [i \in 1 .. n |-> IF i = 1 THEN q[i] ELSE f[i - 1] \o q[i]]

LEMMA UnfoldsExists ==
    ASSUME NEW q, NEW n \in Nat
    PROVE  \E f : Unfolds(f, q, n)
<1> DEFINE S == {k \in Nat : \E f : Unfolds(f, q, k)}
<1>1. 0 \in S
  <2>1. Unfolds([i \in 1 .. 0 |-> q[i]], q, 0)
    BY DEF Unfolds
  <2> QED BY <2>1
<1>2. ASSUME NEW k \in Nat, k \in S PROVE k + 1 \in S
  <2>1. PICK f : Unfolds(f, q, k)
    BY <1>2
  <2> DEFINE g == [i \in 1 .. k + 1 |->
                     IF i \in 1 .. k THEN f[i]
                     ELSE IF i = 1 THEN q[i] ELSE f[i - 1] \o q[i]]
  <2>2. \A i \in 1 .. k : f[i] = IF i = 1 THEN q[i] ELSE f[i - 1] \o q[i]
    BY <2>1 DEF Unfolds
  <2>3. \A i \in 1 .. k + 1 : g[i] = IF i = 1 THEN q[i] ELSE g[i - 1] \o q[i]
    <3> SUFFICES ASSUME NEW i \in 1 .. k + 1
                 PROVE  g[i] = IF i = 1 THEN q[i] ELSE g[i - 1] \o q[i]
      OBVIOUS
    <3>1. i # 1 => i - 1 \in 1 .. k
      OBVIOUS
    <3>2. i # 1 => g[i - 1] = f[i - 1]
      BY <3>1
    <3>3. g[i] = IF i \in 1 .. k THEN f[i] ELSE IF i = 1 THEN q[i] ELSE f[i - 1] \o q[i]
      OBVIOUS
    <3> HIDE DEF g
    <3> QED BY <2>2, <3>2, <3>3
  <2>4. Unfolds(g, q, k + 1)
    BY <2>3 DEF Unfolds
  <2> HIDE DEF g
  <2> QED BY <2>4
<1> HIDE DEF S
<1>3. n \in S
  BY <1>1, <1>2, Induction
<1> QED BY <1>3 DEF S

LEMMA UnfoldsAgree ==
    ASSUME NEW q, NEW n \in Nat, NEW f, Unfolds(f, q, n),
           NEW r, NEW m \in Nat, NEW g, Unfolds(g, r, m),
           n <= m, \A i \in 1 .. n : q[i] = r[i]
    PROVE  \A i \in 1 .. n : f[i] = g[i]
<1> DEFINE S == {k \in Nat : k \in 1 .. n => f[k] = g[k]}
<1>1. \A i \in 1 .. n : f[i] = IF i = 1 THEN q[i] ELSE f[i - 1] \o q[i]
  BY DEF Unfolds
<1>2. \A i \in 1 .. m : g[i] = IF i = 1 THEN r[i] ELSE g[i - 1] \o r[i]
  BY DEF Unfolds
<1>3. 0 \in S
  OBVIOUS
<1>4. ASSUME NEW k \in Nat, k \in S PROVE k + 1 \in S
  <2> SUFFICES ASSUME k + 1 \in 1 .. n PROVE f[k + 1] = g[k + 1]
    OBVIOUS
  <2>1. k + 1 # 1 => k \in 1 .. n /\ f[k] = g[k]
    BY <1>4
  <2>2. k + 1 \in 1 .. m /\ k + 1 - 1 = k
    OBVIOUS
  <2>3. f[k + 1] = IF k + 1 = 1 THEN q[k + 1] ELSE f[k] \o q[k + 1]
    BY <1>1, <2>2
  <2>4. g[k + 1] = IF k + 1 = 1 THEN r[k + 1] ELSE g[k] \o r[k + 1]
    BY <1>2, <2>2
  <2> QED BY <2>1, <2>3, <2>4
<1> HIDE DEF S
<1>5. \A k \in Nat : k \in S
  BY <1>3, <1>4, Induction
<1> QED BY <1>5 DEF S

LEMMA FlattenUnfolds ==
    ASSUME NEW S, NEW q \in Seq(Seq(S)), q # <<>>
    PROVE  \E f : Unfolds(f, q, Len(q)) /\ FlattenSeq(q) = f[Len(q)]
<1> DEFINE F == CHOOSE f : f = [i \in 1 .. Len(q) |-> IF i = 1 THEN q[i] ELSE f[i - 1] \o q[i]]
<1>1. Len(q) \in Nat /\ Len(q) # 0
  OBVIOUS
<1>2. FlattenSeq(q) = F[Len(q)]
  BY <1>1 DEF FlattenSeq
<1>3. \E f : f = [i \in 1 .. Len(q) |-> IF i = 1 THEN q[i] ELSE f[i - 1] \o q[i]]
  BY <1>1, UnfoldsExists DEF Unfolds
<1>4. F = [i \in 1 .. Len(q) |-> IF i = 1 THEN q[i] ELSE F[i - 1] \o q[i]]
  BY <1>3
<1> HIDE DEF F
<1> QED BY <1>2, <1>4 DEF Unfolds

LEMMA FlattenEmpty == FlattenSeq(<<>>) = <<>>
BY DEF FlattenSeq

LEMMA FlattenType ==
    ASSUME NEW S, NEW q \in Seq(Seq(S))
    PROVE  FlattenSeq(q) \in Seq(S)
<1>1. CASE q = <<>>
  <2>1. <<>> \in Seq(S)
    OBVIOUS
  <2> QED BY <1>1, <2>1, FlattenEmpty
<1>2. CASE q # <<>>
  <2>1. PICK f : Unfolds(f, q, Len(q)) /\ FlattenSeq(q) = f[Len(q)]
    BY <1>2, FlattenUnfolds
  <2>2. \A i \in 1 .. Len(q) : f[i] = IF i = 1 THEN q[i] ELSE f[i - 1] \o q[i]
    BY <2>1 DEF Unfolds
  <2> DEFINE T == {k \in Nat : k \in 1 .. Len(q) => f[k] \in Seq(S)}
  <2>3. 0 \in T
    OBVIOUS
  <2>4. ASSUME NEW k \in Nat, k \in T PROVE k + 1 \in T
    <3> SUFFICES ASSUME k + 1 \in 1 .. Len(q) PROVE f[k + 1] \in Seq(S)
      OBVIOUS
    <3>1. k + 1 # 1 => k \in 1 .. Len(q) /\ f[k] \in Seq(S)
      BY <2>4
    <3>2. f[k + 1] = IF k + 1 = 1 THEN q[k + 1] ELSE f[k] \o q[k + 1]
      BY <2>2
    <3>3. q[k + 1] \in Seq(S)
      OBVIOUS
    <3> QED BY <3>1, <3>2, <3>3
  <2> HIDE DEF T
  <2>5. \A k \in Nat : k \in T
    BY <2>3, <2>4, Induction
  <2>6. Len(q) \in 1 .. Len(q) /\ Len(q) \in Nat
    BY <1>2
  <2> QED BY <2>1, <2>5, <2>6 DEF T
<1> QED BY <1>1, <1>2

(* Adding a part at the end.                                                *)
LEMMA FlattenAppend ==
    ASSUME NEW S, NEW q \in Seq(Seq(S)), NEW e \in Seq(S)
    PROVE  FlattenSeq(Append(q, e)) = FlattenSeq(q) \o e
<1> DEFINE r == Append(q, e)
           n == Len(q)
<1>1. /\ r \in Seq(Seq(S)) /\ r # <<>> /\ Len(r) = n + 1 /\ r[n + 1] = e
      /\ n \in Nat /\ \A i \in 1 .. n : r[i] = q[i]
  BY AppendProperties
<1> HIDE DEF r, n
<1>2. PICK g : Unfolds(g, r, n + 1) /\ FlattenSeq(r) = g[n + 1]
  BY <1>1, FlattenUnfolds
<1>3. \A i \in 1 .. n + 1 : g[i] = IF i = 1 THEN r[i] ELSE g[i - 1] \o r[i]
  BY <1>2 DEF Unfolds
<1>4. g[n + 1] = IF n + 1 = 1 THEN e ELSE g[n] \o e
  BY <1>1, <1>3
<1>5. CASE q = <<>>
  <2>1. n = 0 /\ FlattenSeq(q) = <<>>
    BY <1>5, FlattenEmpty DEF n
  <2>2. FlattenSeq(r) = e
    BY <1>2, <1>4, <2>1
  <2> QED BY <2>1, <2>2, ConcatEmptySeq DEF r
<1>6. CASE q # <<>>
  <2>1. n # 0
    BY <1>6 DEF n
  <2>2. PICK f : Unfolds(f, q, n) /\ FlattenSeq(q) = f[n]
    BY <1>6, FlattenUnfolds DEF n
  <2>3. n + 1 \in Nat /\ n <= n + 1 /\ \A i \in 1 .. n : q[i] = r[i]
    BY <1>1
  <2>4. \A i \in 1 .. n : f[i] = g[i]
    <3>1. PICK m \in Nat : m = n + 1
      BY <1>1
    <3>2. n \in Nat /\ Unfolds(f, q, n) /\ Unfolds(g, r, m) /\ n <= m
      BY <1>1, <1>2, <2>2, <3>1
    <3> QED BY <2>3, <3>2, UnfoldsAgree
  <2>5. f[n] = g[n]
    BY <1>1, <2>1, <2>4
  <2> QED BY <1>1, <1>2, <1>4, <2>1, <2>2, <2>5 DEF r
<1> QED BY <1>5, <1>6

(* Putting two lists of parts together.                                     *)
LEMMA FlattenConcat ==
    ASSUME NEW S, NEW q \in Seq(Seq(S)), NEW r \in Seq(Seq(S))
    PROVE  FlattenSeq(q \o r) = FlattenSeq(q) \o FlattenSeq(r)
<1> DEFINE First(k) == SubSeq(r, 1, k)
           T == {k \in Nat : k <= Len(r) =>
                    FlattenSeq(q \o First(k)) = FlattenSeq(q) \o FlattenSeq(First(k))}
<1>1. 0 \in T
  <2>1. First(0) = <<>> /\ FlattenSeq(q) \in Seq(S)
    BY FlattenType
  <2>2. q \o <<>> = q /\ FlattenSeq(q) \o <<>> = FlattenSeq(q)
    BY <2>1, ConcatEmptySeq
  <2> QED BY <2>1, <2>2, FlattenEmpty
<1>2. ASSUME NEW k \in Nat, k \in T PROVE k + 1 \in T
  <2> SUFFICES ASSUME k + 1 <= Len(r)
               PROVE  FlattenSeq(q \o First(k + 1)) = FlattenSeq(q) \o FlattenSeq(First(k + 1))
    OBVIOUS
  <2>1. /\ First(k) \in Seq(Seq(S)) /\ r[k + 1] \in Seq(S)
        /\ q \o First(k) \in Seq(Seq(S))
    OBVIOUS
  <2>2. First(k + 1) = Append(First(k), r[k + 1])
    OBVIOUS
  <2>3. q \o First(k + 1) = Append(q \o First(k), r[k + 1])
    BY <2>1, <2>2
  <2>4. FlattenSeq(q \o First(k)) = FlattenSeq(q) \o FlattenSeq(First(k))
    BY <1>2
  <2> HIDE DEF First
  <2>5. FlattenSeq(q \o First(k + 1)) = FlattenSeq(q \o First(k)) \o r[k + 1]
    BY <2>1, <2>3, FlattenAppend
  <2>6. FlattenSeq(First(k + 1)) = FlattenSeq(First(k)) \o r[k + 1]
    BY <2>1, <2>2, FlattenAppend
  <2>7. FlattenSeq(q) \in Seq(S) /\ FlattenSeq(First(k)) \in Seq(S)
    BY <2>1, FlattenType
  <2>8. (FlattenSeq(q) \o FlattenSeq(First(k))) \o r[k + 1]
           = FlattenSeq(q) \o (FlattenSeq(First(k)) \o r[k + 1])
    <3>1. PICK a \in Seq(S) : a = FlattenSeq(q)
      BY <2>7
    <3>2. PICK b \in Seq(S) : b = FlattenSeq(First(k))
      BY <2>7
    <3>3. PICK c \in Seq(S) : c = r[k + 1]
      BY <2>1
    <3>4. (a \o b) \o c = a \o (b \o c)
      BY ONLY ConcatAssociative, a \in Seq(S), b \in Seq(S), c \in Seq(S)
    <3> QED BY <3>1, <3>2, <3>3, <3>4
  <2> QED BY <2>4, <2>5, <2>6, <2>8
<1> HIDE DEF T
<1>3. \A k \in Nat : k \in T
  BY <1>1, <1>2, Induction
<1>4. Len(r) \in Nat /\ Len(r) <= Len(r) /\ First(Len(r)) = r
  OBVIOUS
<1> HIDE DEF First
<1>5. Len(r) \in T
  BY <1>3, <1>4
<1> QED BY <1>4, <1>5 DEF T

LEMMA FlattenSingle ==
    ASSUME NEW S, NEW e \in Seq(S)
    PROVE  FlattenSeq(<<e>>) = e
<1>1. <<>> \in Seq(Seq(S)) /\ Append(<<>>, e) = <<e>> /\ <<>> \o e = e
  BY ConcatEmptySeq
<1>2. FlattenSeq(Append(<<>>, e)) = FlattenSeq(<<>>) \o e
  BY <1>1, FlattenAppend
<1> QED BY <1>1, <1>2, FlattenEmpty

-----------------------------------------------------------------------------
(* Paths without their blanks and tildes *)

LEMMA KeptType ==
    ASSUME NEW S, NEW c \in S
    PROVE  Kept(c) \in Seq(S)
BY DEF Kept

LEMMA SqueezeType ==
    ASSUME NEW S, NEW s \in Seq(S)
    PROVE  Squeeze(s) \in Seq(S)
<1> DEFINE parts == [i \in DOMAIN s |-> Kept(s[i])]
<1>1. \A i \in 1 .. Len(s) : Kept(s[i]) \in Seq(S)
  BY KeptType
<1>2. parts \in Seq(Seq(S))
  BY <1>1
<1> HIDE DEF parts
<1>3. FlattenSeq(parts) \in Seq(S)
  BY <1>2, FlattenType
<1> QED BY <1>3 DEF Squeeze, parts

LEMMA SqueezeConcat ==
    ASSUME NEW S, NEW s \in Seq(S), NEW t \in Seq(S)
    PROVE  Squeeze(s \o t) = Squeeze(s) \o Squeeze(t)
<1> DEFINE Pieces(w) == [i \in DOMAIN w |-> Kept(w[i])]
<1>1. ASSUME NEW w \in Seq(S)
      PROVE  Pieces(w) \in Seq(Seq(S)) /\ Len(Pieces(w)) = Len(w)
  <2>1. \A i \in 1 .. Len(w) : Kept(w[i]) \in Seq(S)
    BY KeptType
  <2> QED BY <2>1
<1>2. Pieces(s \o t) = Pieces(s) \o Pieces(t)
  <2>1. s \o t \in Seq(S) /\ Len(s \o t) = Len(s) + Len(t)
    OBVIOUS
  <2>2. \A i \in 1 .. Len(s) + Len(t) :
           (s \o t)[i] = IF i <= Len(s) THEN s[i] ELSE t[i - Len(s)]
    OBVIOUS
  <2>3. \A i \in 1 .. Len(s) + Len(t) : Pieces(s \o t)[i] = (Pieces(s) \o Pieces(t))[i]
    <3> TAKE i \in 1 .. Len(s) + Len(t)
    <3>1. CASE i <= Len(s)
      BY <2>1, <2>2, <3>1, <1>1
    <3>2. CASE i > Len(s)
      <4>1. i - Len(s) \in 1 .. Len(t)
        BY <3>2
      <4>2. Pieces(s \o t)[i] = Kept(t[i - Len(s)])
        BY <2>1, <2>2, <3>2
      <4>3. Pieces(t)[i - Len(s)] = Kept(t[i - Len(s)])
        BY <4>1
      <4> QED BY <4>1, <4>2, <4>3, <1>1, <3>2
    <3> QED BY <3>1, <3>2
  <2> HIDE DEF Pieces
  <2>4. Pieces(s) \in Seq(Seq(S)) /\ Pieces(t) \in Seq(Seq(S))
    BY <1>1
  <2>5. Pieces(s \o t) \in Seq(Seq(S)) /\ Len(Pieces(s \o t)) = Len(s) + Len(t)
    BY <1>1, <2>1
  <2>6. Pieces(s) \o Pieces(t) \in Seq(Seq(S))
    BY <2>4
  <2>7. Len(Pieces(s) \o Pieces(t)) = Len(s) + Len(t)
    <3>1. Len(Pieces(s)) = Len(s) /\ Len(Pieces(t)) = Len(t)
      BY <1>1
    <3>2. Len(Pieces(s) \o Pieces(t)) = Len(Pieces(s)) + Len(Pieces(t))
      BY <2>4, ConcatProperties
    <3> QED BY <3>1, <3>2
  <2> QED BY <2>3, <2>5, <2>6, <2>7, SeqEqual
<1>3. Pieces(s) \in Seq(Seq(S)) /\ Pieces(t) \in Seq(Seq(S))
  BY <1>1
<1> HIDE DEF Pieces
<1>4. FlattenSeq(Pieces(s \o t)) = FlattenSeq(Pieces(s)) \o FlattenSeq(Pieces(t))
  BY <1>2, <1>3, FlattenConcat
<1> QED BY <1>4 DEF Pieces, Squeeze

LEMMA SqueezeChar ==
    ASSUME NEW S, NEW c \in S
    PROVE  Squeeze(<<c>>) = Kept(c)
<1>1. [i \in DOMAIN <<c>> |-> Kept(<<c>>[i])] = <<Kept(c)>>
  OBVIOUS
<1>2. FlattenSeq(<<Kept(c)>>) = Kept(c)
  BY KeptType, FlattenSingle
<1> QED BY <1>1, <1>2 DEF Squeeze

(* A text without blanks and tildes stays as it is.                         *)
LEMMA SqueezeClean ==
    ASSUME NEW S, NEW s \in Seq(S), ~Has(s, Space), ~Has(s, "~")
    PROVE  Squeeze(s) = s
<1> DEFINE First(k) == SubSeq(s, 1, k)
           T == {k \in Nat : k <= Len(s) => Squeeze(First(k)) = First(k)}
<1>1. 0 \in T
  <2>1. First(0) = <<>>
    OBVIOUS
  <2>2. Squeeze(<<>>) = <<>>
    BY FlattenEmpty DEF Squeeze
  <2> QED BY <2>1, <2>2
<1>2. ASSUME NEW k \in Nat, k \in T PROVE k + 1 \in T
  <2> SUFFICES ASSUME k + 1 <= Len(s) PROVE Squeeze(First(k + 1)) = First(k + 1)
    OBVIOUS
  <2>1. First(k) \in Seq(S) /\ s[k + 1] \in S /\ <<s[k + 1]>> \in Seq(S)
    OBVIOUS
  <2>2. First(k + 1) = First(k) \o <<s[k + 1]>>
    OBVIOUS
  <2>3. Squeeze(First(k)) = First(k)
    BY <1>2
  <2>4. Kept(s[k + 1]) = <<s[k + 1]>>
    BY DEF Kept, Has
  <2> HIDE DEF First
  <2>5. Squeeze(<<s[k + 1]>>) = <<s[k + 1]>>
    BY <2>1, <2>4, SqueezeChar
  <2>6. Squeeze(First(k) \o <<s[k + 1]>>) = Squeeze(First(k)) \o Squeeze(<<s[k + 1]>>)
    BY <2>1, SqueezeConcat
  <2> QED BY <2>2, <2>3, <2>5, <2>6
<1> HIDE DEF T
<1>3. \A k \in Nat : k \in T
  BY <1>1, <1>2, Induction
<1>4. Len(s) \in Nat /\ Len(s) <= Len(s) /\ First(Len(s)) = s
  OBVIOUS
<1> HIDE DEF First
<1>5. Len(s) \in T
  BY <1>3, <1>4
<1> QED BY <1>4, <1>5 DEF T

LEMMA ConcatIs ==
    ASSUME NEW S, NEW a \in Seq(S), NEW b \in Seq(S), NEW c \in Seq(S),
           Len(c) = Len(a) + Len(b),
           \A i \in 1 .. Len(a) : c[i] = a[i],
           \A i \in 1 .. Len(b) : c[Len(a) + i] = b[i]
    PROVE  a \o b = c
<1>1. /\ a \o b \in Seq(S) /\ Len(a \o b) = Len(c)
      /\ \A i \in 1 .. Len(a) + Len(b) :
            (a \o b)[i] = IF i <= Len(a) THEN a[i] ELSE b[i - Len(a)]
  BY ConcatProperties
<1>2. ASSUME NEW i \in 1 .. Len(a) + Len(b) PROVE (a \o b)[i] = c[i]
  <2>1. CASE i <= Len(a)
    BY <1>1, <2>1
  <2>2. CASE i > Len(a)
    <3>1. i - Len(a) \in 1 .. Len(b) /\ Len(a) + (i - Len(a)) = i
      BY <2>2
    <3> QED BY <1>1, <2>2, <3>1
  <2> QED BY <2>1, <2>2
<1> QED BY <1>1, <1>2, SeqEqual

(* The texts of the program, put together.                                  *)
LEMMA Joined ==
    /\ <<"/", "h">> \o <<"/", "s", "/">> = <<"/", "h", "/", "s", "/">>
    /\ <<"/", "h", "/", "s">> \o <<"/">> = <<"/", "h", "/", "s", "/">>
    /\ <<"/", "h">> \o <<"/">> = <<"/", "h", "/">>
    /\ <<"~">> \o <<"/">> = <<"~", "/">>
    /\ <<"/", "h", "/">> \o <<"s", "/">> = <<"/", "h", "/", "s", "/">>
    /\ <<"~">> \o <<"/", "s", "/">> = <<"~", "/", "s", "/">>
    /\ <<"~", "/", "s">> \o <<"/">> = <<"~", "/", "s", "/">>
    /\ <<"~">> \o <<"/", "s">> = <<"~", "/", "s">>
    /\ <<"/", "h">> \o <<"/", "s">> = <<"/", "h", "/", "s">>
<1>1. <<"/", "h">> \o <<"/", "s", "/">> = <<"/", "h", "/", "s", "/">>
  <2> DEFINE l == <<"/", "h">> \o <<"/", "s", "/">>
  <2>1. l \in Text /\ Len(l) = 5 /\ l[1] = "/" /\ l[2] = "h" /\ l[3] = "/" /\ l[4] = "s" /\ l[5] = "/"
    BY Letters
  <2>2. \A i \in 1 .. 5 : l[i] = <<"/", "h", "/", "s", "/">>[i]
    BY <2>1
  <2>3. <<"/", "h", "/", "s", "/">> \in Text /\ Len(<<"/", "h", "/", "s", "/">>) = 5
    BY Letters
  <2> HIDE DEF l
  <2>4. l = <<"/", "h", "/", "s", "/">>
    BY <2>1, <2>2, <2>3, SeqEqual
  <2> QED BY <2>4 DEF l
<1>2. <<"/", "h", "/", "s">> \o <<"/">> = <<"/", "h", "/", "s", "/">>
  <2> DEFINE l == <<"/", "h", "/", "s">> \o <<"/">>
  <2>1. l \in Text /\ Len(l) = 5 /\ l[1] = "/" /\ l[2] = "h" /\ l[3] = "/" /\ l[4] = "s" /\ l[5] = "/"
    BY Letters
  <2>2. \A i \in 1 .. 5 : l[i] = <<"/", "h", "/", "s", "/">>[i]
    BY <2>1
  <2>3. <<"/", "h", "/", "s", "/">> \in Text /\ Len(<<"/", "h", "/", "s", "/">>) = 5
    BY Letters
  <2> HIDE DEF l
  <2>4. l = <<"/", "h", "/", "s", "/">>
    BY <2>1, <2>2, <2>3, SeqEqual
  <2> QED BY <2>4 DEF l
<1>3. <<"/", "h">> \o <<"/">> = <<"/", "h", "/">>
  <2> DEFINE l == <<"/", "h">> \o <<"/">>
  <2>1. l \in Text /\ Len(l) = 3 /\ l[1] = "/" /\ l[2] = "h" /\ l[3] = "/"
    BY Letters
  <2>2. \A i \in 1 .. 3 : l[i] = <<"/", "h", "/">>[i]
    BY <2>1
  <2>3. <<"/", "h", "/">> \in Text /\ Len(<<"/", "h", "/">>) = 3
    BY Letters
  <2> HIDE DEF l
  <2>4. l = <<"/", "h", "/">>
    BY <2>1, <2>2, <2>3, SeqEqual
  <2> QED BY <2>4 DEF l
<1>4. <<"~">> \o <<"/">> = <<"~", "/">>
  <2> DEFINE l == <<"~">> \o <<"/">>
  <2>1. l \in Text /\ Len(l) = 2 /\ l[1] = "~" /\ l[2] = "/"
    BY Letters
  <2>2. \A i \in 1 .. 2 : l[i] = <<"~", "/">>[i]
    BY <2>1
  <2>3. <<"~", "/">> \in Text /\ Len(<<"~", "/">>) = 2
    BY Letters
  <2> HIDE DEF l
  <2>4. l = <<"~", "/">>
    BY <2>1, <2>2, <2>3, SeqEqual
  <2> QED BY <2>4 DEF l
<1>5. <<"/", "h", "/">> \o <<"s", "/">> = <<"/", "h", "/", "s", "/">>
  <2> DEFINE l == <<"/", "h", "/">> \o <<"s", "/">>
  <2>1. l \in Text /\ Len(l) = 5 /\ l[1] = "/" /\ l[2] = "h" /\ l[3] = "/" /\ l[4] = "s" /\ l[5] = "/"
    BY Letters
  <2>2. \A i \in 1 .. 5 : l[i] = <<"/", "h", "/", "s", "/">>[i]
    BY <2>1
  <2>3. <<"/", "h", "/", "s", "/">> \in Text /\ Len(<<"/", "h", "/", "s", "/">>) = 5
    BY Letters
  <2> HIDE DEF l
  <2>4. l = <<"/", "h", "/", "s", "/">>
    BY <2>1, <2>2, <2>3, SeqEqual
  <2> QED BY <2>4 DEF l
<1>6. <<"~">> \o <<"/", "s", "/">> = <<"~", "/", "s", "/">>
  <2> DEFINE l == <<"~">> \o <<"/", "s", "/">>
  <2>1. l \in Text /\ Len(l) = 4 /\ l[1] = "~" /\ l[2] = "/" /\ l[3] = "s" /\ l[4] = "/"
    BY Letters
  <2>2. \A i \in 1 .. 4 : l[i] = <<"~", "/", "s", "/">>[i]
    BY <2>1
  <2>3. <<"~", "/", "s", "/">> \in Text /\ Len(<<"~", "/", "s", "/">>) = 4
    BY Letters
  <2> HIDE DEF l
  <2>4. l = <<"~", "/", "s", "/">>
    BY <2>1, <2>2, <2>3, SeqEqual
  <2> QED BY <2>4 DEF l
<1>7. <<"~", "/", "s">> \o <<"/">> = <<"~", "/", "s", "/">>
  <2> DEFINE l == <<"~", "/", "s">> \o <<"/">>
  <2>1. l \in Text /\ Len(l) = 4 /\ l[1] = "~" /\ l[2] = "/" /\ l[3] = "s" /\ l[4] = "/"
    BY Letters
  <2>2. \A i \in 1 .. 4 : l[i] = <<"~", "/", "s", "/">>[i]
    BY <2>1
  <2>3. <<"~", "/", "s", "/">> \in Text /\ Len(<<"~", "/", "s", "/">>) = 4
    BY Letters
  <2> HIDE DEF l
  <2>4. l = <<"~", "/", "s", "/">>
    BY <2>1, <2>2, <2>3, SeqEqual
  <2> QED BY <2>4 DEF l
<1>8. <<"~">> \o <<"/", "s">> = <<"~", "/", "s">>
  <2> DEFINE l == <<"~">> \o <<"/", "s">>
  <2>1. l \in Text /\ Len(l) = 3 /\ l[1] = "~" /\ l[2] = "/" /\ l[3] = "s"
    BY Letters
  <2>2. \A i \in 1 .. 3 : l[i] = <<"~", "/", "s">>[i]
    BY <2>1
  <2>3. <<"~", "/", "s">> \in Text /\ Len(<<"~", "/", "s">>) = 3
    BY Letters
  <2> HIDE DEF l
  <2>4. l = <<"~", "/", "s">>
    BY <2>1, <2>2, <2>3, SeqEqual
  <2> QED BY <2>4 DEF l
<1>9. <<"/", "h">> \o <<"/", "s">> = <<"/", "h", "/", "s">>
  <2> DEFINE l == <<"/", "h">> \o <<"/", "s">>
  <2>1. l \in Text /\ Len(l) = 4 /\ l[1] = "/" /\ l[2] = "h" /\ l[3] = "/" /\ l[4] = "s"
    BY Letters
  <2>2. \A i \in 1 .. 4 : l[i] = <<"/", "h", "/", "s">>[i]
    BY <2>1
  <2>3. <<"/", "h", "/", "s">> \in Text /\ Len(<<"/", "h", "/", "s">>) = 4
    BY Letters
  <2> HIDE DEF l
  <2>4. l = <<"/", "h", "/", "s">>
    BY <2>1, <2>2, <2>3, SeqEqual
  <2> QED BY <2>4 DEF l
<1> QED BY <1>1, <1>2, <1>3, <1>4, <1>5, <1>6, <1>7, <1>8, <1>9

(* Concatenation is associative, with the sequences' set given.              *)
LEMMA Associative ==
    ASSUME NEW S, NEW a \in Seq(S), NEW b \in Seq(S), NEW c \in Seq(S)
    PROVE  (a \o b) \o c = a \o (b \o c)
BY ConcatAssociative, SMTT(30)

LEMMA Regroup ==
    ASSUME NEW S, NEW a \in Seq(S), NEW b \in Seq(S), NEW c \in Seq(S), NEW d \in Seq(S)
    PROVE  a \o (b \o c \o d) = (a \o b) \o c \o d
<1>1. PICK bc \in Seq(S) : bc = b \o c
  BY ConcatProperties
<1>2. (a \o bc) \o d = a \o (bc \o d)
  BY Associative, SMTT(30)
<1>3. (a \o b) \o c = a \o (b \o c)
  BY Associative, SMTT(30)
<1> QED BY <1>1, <1>2, <1>3

-----------------------------------------------------------------------------
(* Paths *)

(* What a file's name consists of.                                          *)
NoSlash == Characters \ {"/"}
FileName == Seq(NoSlash)

LEMMA FileNameIs ==
    \A n : n \in FileName <=> n \in Text /\ ~Has(n, "/")
<1>1. ASSUME NEW n \in FileName PROVE n \in Text /\ ~Has(n, "/")
  BY DEF FileName, NoSlash, Has
<1>2. ASSUME NEW n \in Text, ~Has(n, "/") PROVE n \in FileName
  <2>1. \A i \in 1 .. Len(n) : n[i] \in NoSlash
    BY <1>2 DEF NoSlash, Has
  <2> QED BY <2>1 DEF FileName
<1> QED BY <1>1, <1>2

LEMMA Home ==
    /\ HOME = <<"/", "h">> /\ HOME \in Text
    /\ SyncDir = <<"/", "h", "/", "s", "/">> /\ SyncDir \in Text /\ Len(SyncDir) = 5
    /\ SyncDir = <<"/", "h", "/", "s">> \o <<"/">>
    /\ <<"/", "h", "/", "s">> \in Text
    /\ HOME \o <<"/">> = <<"/", "h", "/">>
    /\ Directories = {<<"/", "h", "/">>, <<"/", "h", "/", "s", "/">>}
<1>1. /\ <<"/", "h">> \in Text /\ <<"/", "s", "/">> \in Text /\ <<"/">> \in Text
      /\ <<"/", "h", "/", "s", "/">> \in Text /\ <<"/", "h", "/", "s">> \in Text
      /\ <<"/", "h", "/">> \in Text
  BY Letters
<1>2. <<"/", "h">> \o <<"/", "s", "/">> = <<"/", "h", "/", "s", "/">>
  BY Joined
<1>3. <<"/", "h", "/", "s">> \o <<"/">> = <<"/", "h", "/", "s", "/">>
  BY Joined
<1>4. <<"/", "h">> \o <<"/">> = <<"/", "h", "/">>
  BY Joined
<1> QED BY <1>1, <1>2, <1>3, <1>4 DEF HOME, SyncDir, SYNC, Directories

(* A path without a newline loses its blanks and tildes.                    *)
LEMMA RemoveBlankIs ==
    ASSUME NEW path \in Text, ~Has(path, "\n")
    PROVE  removeBlank(path) = HOME \o Squeeze(path)
<1>1. Until(path, 1, Newline) \in 1 .. (Len(path) + 1)
  BY UntilIs
<1>2. ~(Until(path, 1, Newline) <= Len(path))
  <2> SUFFICES ASSUME Until(path, 1, Newline) <= Len(path) PROVE FALSE
    OBVIOUS
  <2>1. path[Until(path, 1, Newline)] \in Newline
    BY UntilIs
  <2> QED BY <1>1, <2>1 DEF Has, Newline
<1>3. Until(path, 1, Newline) - 1 = Len(path)
  BY <1>1, <1>2
<1>4. SubSeq(path, 1, Len(path)) = path
  OBVIOUS
<1> QED BY <1>3, <1>4 DEF removeBlank

(* The last part of a path keeps its name, if that is plain.                *)
LEMMA RemoveBlankParts ==
    ASSUME NEW u \in Text, ~Has(u, "\n"), NEW n \in Text, Plain(n)
    PROVE  removeBlank(u \o <<"/">> \o n) = (HOME \o Squeeze(u)) \o <<"/">> \o n
<1> DEFINE p == u \o <<"/">> \o n
<1>0. <<"/">> \in Text /\ "/" \in Characters
  BY Letters
<1>1. p \in Text /\ u \o <<"/">> \in Text
  BY <1>0
<1>2. ~Has(p, "\n")
  <2>1. ~Has(u \o <<"/">>, "\n")
    BY <1>0 DEF Has
  <2>2. PICK v \in Text : v = u \o <<"/">> /\ ~Has(v, "\n")
    BY <1>1, <2>1
  <2>3. ~Has(v \o n, "\n")
    BY <2>2 DEF Has, Plain
  <2> QED BY <2>2, <2>3
<1>3. Squeeze(p) = Squeeze(u) \o <<"/">> \o n
  <2>1. Squeeze(n) = n
    BY SqueezeClean DEF Plain
  <2>2. Squeeze(<<"/">>) = <<"/">>
    BY <1>0, Letters, SqueezeChar DEF Kept
  <2>3. Squeeze(u \o <<"/">>) = Squeeze(u) \o <<"/">>
    BY <1>0, <2>2, SqueezeConcat
  <2>4. PICK v \in Text : v = u \o <<"/">>
    BY <1>1
  <2>5. Squeeze(v \o n) = Squeeze(v) \o Squeeze(n)
    BY SqueezeConcat
  <2> QED BY <2>1, <2>3, <2>4, <2>5
<1>4. PICK w \in Text : w = Squeeze(u)
  BY SqueezeType
<1>5. removeBlank(p) = HOME \o (w \o <<"/">> \o n)
  <2> HIDE DEF p
  <2> QED BY <1>1, <1>2, <1>3, <1>4, RemoveBlankIs
<1>6. HOME \o (w \o <<"/">> \o n) = (HOME \o w) \o <<"/">> \o n
  <2>1. PICK h \in Text : h = HOME
    BY Home
  <2>2. PICK d \in Text : d = <<"/">>
    BY <1>0
  <2> QED BY <2>1, <2>2, Regroup, SMTT(30)
<1> QED BY <1>4, <1>5, <1>6

(* The paths under which the program writes the synchronised directory.     *)
LEMMA SyncPaths ==
    /\ devolvePathSyncDir = SyncDir
    /\ devolvePathSyncDirBruto = <<"~", "/", "s">> \o <<"/">>
    /\ devolvePathSyncDirBruto = <<"~", "/", "s", "/">>
    /\ <<"~", "/", "s">> \in Text
    /\ removeBlank(<<"~", "/">>) = HOME \o <<"/">>
<1>1. removeBlank(<<"~", "/">>) = HOME \o <<"/">>
  <2>1. <<"~", "/">> \in Text /\ <<"~">> \in Text /\ <<"/">> \in Text
    BY Letters
  <2>2. ~Has(<<"~", "/">>, "\n")
    BY DEF Has
  <2>3. Squeeze(<<"~">>) = <<>> /\ Squeeze(<<"/">>) = <<"/">>
    BY Letters, SqueezeChar DEF Kept
  <2>4. Squeeze(<<"~">> \o <<"/">>) = Squeeze(<<"~">>) \o Squeeze(<<"/">>)
    BY <2>1, SqueezeConcat
  <2>5. <<"~">> \o <<"/">> = <<"~", "/">> /\ <<>> \o <<"/">> = <<"/">>
    BY <2>1, Joined, ConcatEmptySeq
  <2> QED BY <2>1, <2>2, <2>3, <2>4, <2>5, RemoveBlankIs
<1>2. devolvePathSyncDir = SyncDir
  <2>1. Tail(SYNC) = <<"s", "/">>
    BY DEF SYNC
  <2>2. <<"/", "h", "/">> \o <<"s", "/">> = <<"/", "h", "/", "s", "/">>
    BY Joined
  <2> QED BY <1>1, <2>1, <2>2, Home DEF devolvePathSyncDir
<1>3. /\ <<"~">> \o <<"/", "s", "/">> = <<"~", "/", "s", "/">>
      /\ <<"~", "/", "s">> \o <<"/">> = <<"~", "/", "s", "/">>
  BY Joined
<1>4. <<"~", "/", "s">> \in Text
  BY Letters
<1> QED BY <1>1, <1>2, <1>3, <1>4 DEF devolvePathSyncDirBruto, SYNC

LEMMA SyncPathOpened ==
    ASSUME NEW n \in Text, Plain(n)
    PROVE  removeBlank(devolvePathSyncDirBruto \o n) = SyncDir \o n
<1>1. ~Has(<<"~", "/", "s">>, "\n")
  BY DEF Has
<1>2. Squeeze(<<"~", "/", "s">>) = <<"/", "s">>
  <2>1. <<"~">> \in Text /\ <<"/", "s">> \in Text
    BY Letters
  <2>2. Squeeze(<<"~">>) = <<>>
    BY Letters, SqueezeChar DEF Kept
  <2>3. Squeeze(<<"/", "s">>) = <<"/", "s">>
    <3>1. ~Has(<<"/", "s">>, Space) /\ ~Has(<<"/", "s">>, "~")
      BY Letters DEF Has
    <3> QED BY <2>1, <3>1, SqueezeClean
  <2>4. Squeeze(<<"~">> \o <<"/", "s">>) = Squeeze(<<"~">>) \o Squeeze(<<"/", "s">>)
    BY <2>1, SqueezeConcat
  <2>5. <<"~">> \o <<"/", "s">> = <<"~", "/", "s">> /\ <<>> \o <<"/", "s">> = <<"/", "s">>
    BY <2>1, Joined, ConcatEmptySeq
  <2> QED BY <2>2, <2>3, <2>4, <2>5
<1>3. HOME \o <<"/", "s">> \o <<"/">> = SyncDir
  <2>1. <<"/", "h">> \o <<"/", "s">> = <<"/", "h", "/", "s">>
    BY Joined
  <2> QED BY <2>1, Home
<1> QED BY <1>1, <1>2, <1>3, SyncPaths, RemoveBlankParts

LEMMA WordIs ==
    ASSUME NEW s \in Text, NEW i \in Nat \ {0}
    PROVE  Word(s, i) \in Text /\ ~Has(Word(s, i), Space) /\ ~Has(Word(s, i), "\n")
<1> DEFINE k == Until(s, i, Blank \cup Newline)
<1>1. /\ k \in Nat /\ k <= Len(s) + 1
      /\ \A j \in i .. Len(s) : j < k => s[j] \notin {Space, "\n"}
  <2>1. i <= Len(s) + 1 \/ i > Len(s)
    OBVIOUS
  <2> QED BY <2>1, UntilIs DEF Blank, Newline
<1> HIDE DEF k
<1>2. \A j \in i .. k - 1 : s[j] \in Characters /\ s[j] \notin {Space, "\n"}
  BY <1>1
<1>3. /\ SubSeq(s, i, k - 1) \in Text
      /\ Len(SubSeq(s, i, k - 1)) = IF i <= k - 1 THEN k - 1 - i + 1 ELSE 0
      /\ \A j \in 1 .. k - 1 - i + 1 : SubSeq(s, i, k - 1)[j] = s[i + j - 1]
  BY <1>1, <1>2, SubSeqProperties
<1>4. \A j \in DOMAIN SubSeq(s, i, k - 1) : SubSeq(s, i, k - 1)[j] \notin {Space, "\n"}
  <2> TAKE j \in DOMAIN SubSeq(s, i, k - 1)
  <2>1. j \in 1 .. k - 1 - i + 1
    BY <1>1, <1>3
  <2>2. i + j - 1 \in i .. k - 1
    BY <1>1, <2>1
  <2> QED BY <1>2, <1>3, <2>1, <2>2
<1> QED BY <1>3, <1>4 DEF Word, Has, k

LEMMA ArgumentsAre ==
    ASSUME NEW command \in Text
    PROVE  /\ getArgument(command) \in Text /\ getSecondArgument(command) \in Text
           /\ ~Has(getArgument(command), "\n")
<1>1. ASSUME NEW i \in Nat \ {0} PROVE NextWord(command, i) \in Nat \ {0}
  <2>1. Until(command, i, Blank) \in Nat \ {0}
    <3>1. i <= Len(command) + 1 \/ i > Len(command)
      OBVIOUS
    <3> QED BY <3>1, UntilIs
  <2> QED BY <2>1, PastIs DEF NextWord
<1>2. 1 \in Nat \ {0}
  OBVIOUS
<1>3. PICK i \in Nat \ {0} : i = NextWord(command, 1)
  BY <1>1, <1>2
<1>4. PICK j \in Nat \ {0} : j = NextWord(command, i)
  BY <1>1
<1>5. /\ Word(command, i) \in Text /\ Word(command, j) \in Text
      /\ ~Has(Word(command, i), "\n")
  BY WordIs
<1> QED BY <1>3, <1>4, <1>5 DEF getArgument, getSecondArgument

-----------------------------------------------------------------------------
(* The listing *)

Lines(names) == [i \in DOMAIN names |-> Line(names[i])]
FirstLines(names, k) == FlattenSeq(Lines(SubSeq(names, 1, k)))

LEMMA LineType ==
    ASSUME NEW n \in Text
    PROVE  /\ Line(n) \in Text /\ Len(Line(n)) = Len(n) + 4
           /\ \A i \in 1 .. Len(n) : Line(n)[i + 3] = n[i]
           /\ Line(n)[Len(n) + 4] = "\n"
<1>1. <<Space, "-", Space>> \in Text /\ <<"\n">> \in Text
  BY Letters
<1>2. PICK a \in Text : a = <<Space, "-", Space>> /\ Len(a) = 3
  BY <1>1
<1>3. /\ a \o n \in Text /\ Len(a \o n) = Len(n) + 3
      /\ \A i \in 1 .. Len(n) : (a \o n)[i + 3] = n[i]
  BY <1>2
<1>4. PICK b \in Text : b = a \o n
  BY <1>3
<1>5. /\ b \o <<"\n">> \in Text /\ Len(b \o <<"\n">>) = Len(b) + 1
      /\ \A i \in 1 .. Len(b) : (b \o <<"\n">>)[i] = b[i]
      /\ (b \o <<"\n">>)[Len(b) + 1] = "\n"
  BY <1>1
<1>6. Line(n) = b \o <<"\n">>
  BY <1>2, <1>4 DEF Line
<1>7. Len(b) + 1 = Len(n) + 4 /\ \A i \in 1 .. Len(n) : i + 3 \in 1 .. Len(b)
  BY <1>3, <1>4
<1> QED BY <1>3, <1>4, <1>5, <1>6, <1>7

LEMMA LinesType ==
    ASSUME NEW names \in Seq(Text)
    PROVE  /\ Lines(names) \in Seq(Text) /\ Len(Lines(names)) = Len(names)
           /\ \A i \in 1 .. Len(names) : Lines(names)[i] = Line(names[i])
<1>1. \A i \in 1 .. Len(names) : Line(names[i]) \in Text
  BY LineType
<1>2. Lines(names) = [i \in 1 .. Len(names) |-> Line(names[i])]
  BY DEF Lines
<1>3. [i \in 1 .. Len(names) |-> Line(names[i])] \in Seq(Text)
  BY <1>1
<1>4. Len([i \in 1 .. Len(names) |-> Line(names[i])]) = Len(names)
  OBVIOUS
<1> QED BY <1>2, <1>3, <1>4

LEMMA FirstLinesType ==
    ASSUME NEW names \in Seq(Text), NEW k \in 0 .. Len(names)
    PROVE  FirstLines(names, k) \in Text
<1>1. SubSeq(names, 1, k) \in Seq(Text)
  OBVIOUS
<1>2. Lines(SubSeq(names, 1, k)) \in Seq(Text)
  BY <1>1, LinesType
<1> QED BY <1>2, FlattenType DEF FirstLines

LEMMA FirstLinesNext ==
    ASSUME NEW names \in Seq(Text), NEW k \in 0 .. Len(names), k < Len(names)
    PROVE  /\ FirstLines(names, k + 1) = FirstLines(names, k) \o Line(names[k + 1])
           /\ FirstLines(names, k + 1) \in Text
           /\ Len(FirstLines(names, k + 1)) = Len(FirstLines(names, k)) + Len(names[k + 1]) + 4
<1>1. PICK q \in Seq(Text) :
         /\ q = SubSeq(names, 1, k) /\ Len(q) = k
         /\ \A i \in 1 .. k : q[i] = names[i]
  <2>1. SubSeq(names, 1, k) \in Seq(Text)
    OBVIOUS
  <2>2. Len(SubSeq(names, 1, k)) = k
    OBVIOUS
  <2>3. \A i \in 1 .. k : SubSeq(names, 1, k)[i] = names[i]
    OBVIOUS
  <2> QED BY <2>1, <2>2, <2>3
<1>2. PICK n \in Text : n = names[k + 1]
  OBVIOUS
<1>3. PICK m \in 0 .. Len(names) : m = k + 1
  OBVIOUS
<1>4. PICK r \in Seq(Text) :
         /\ r = SubSeq(names, 1, m) /\ Len(r) = k + 1
         /\ r[k + 1] = n /\ \A i \in 1 .. k : r[i] = q[i]
  <2>1. PICK r \in Seq(Text) :
           /\ r = SubSeq(names, 1, m) /\ Len(r) = m
           /\ \A i \in 1 .. m : r[i] = names[i]
    <3>1. SubSeq(names, 1, m) \in Seq(Text)
      OBVIOUS
    <3>2. Len(SubSeq(names, 1, m)) = m
      OBVIOUS
    <3>3. \A i \in 1 .. m : SubSeq(names, 1, m)[i] = names[i]
      OBVIOUS
    <3> QED BY <3>1, <3>2, <3>3
  <2>2. r[k + 1] = n
    BY <1>2, <1>3, <2>1
  <2>3. \A i \in 1 .. k : i \in 1 .. m /\ r[i] = q[i]
    BY <1>1, <1>3, <2>1
  <2> QED BY <1>3, <2>1, <2>2, <2>3
<1>5. PICK a \in Seq(Text) :
         /\ a = Lines(q) /\ Len(a) = k /\ \A i \in 1 .. k : a[i] = Line(q[i])
  <2>1. /\ Lines(q) \in Seq(Text) /\ Len(Lines(q)) = Len(q)
        /\ \A i \in 1 .. Len(q) : Lines(q)[i] = Line(q[i])
    BY LinesType
  <2> HIDE DEF Text
  <2> QED BY <1>1, <2>1
<1>6. PICK b \in Seq(Text) :
         /\ b = Lines(r) /\ Len(b) = k + 1
         /\ \A i \in 1 .. k + 1 : b[i] = Line(r[i])
  <2>1. /\ Lines(r) \in Seq(Text) /\ Len(Lines(r)) = Len(r)
        /\ \A i \in 1 .. Len(r) : Lines(r)[i] = Line(r[i])
    BY LinesType
  <2> HIDE DEF Text
  <2> QED BY <1>4, <2>1
<1>7. PICK l \in Text : l = Line(n) /\ Len(l) = Len(n) + 4
  BY LineType
<1>8. b = Append(a, l)
  <2>1. /\ Append(a, l) \in Seq(Text) /\ Len(Append(a, l)) = k + 1
        /\ \A i \in 1 .. k : Append(a, l)[i] = a[i]
        /\ Append(a, l)[k + 1] = l
    BY <1>5
  <2>2. \A i \in 1 .. k + 1 : b[i] = Append(a, l)[i]
    <3> TAKE i \in 1 .. k + 1
    <3>1. CASE i \in 1 .. k
      BY <1>4, <1>5, <1>6, <2>1, <3>1
    <3>2. CASE i = k + 1
      BY <1>4, <1>6, <1>7, <2>1, <3>2
    <3>3. i \in 1 .. k \/ i = k + 1
      OBVIOUS
    <3> QED BY <3>1, <3>2, <3>3
  <2> QED BY <1>6, <2>1, <2>2, SeqEqual
<1>9. FlattenSeq(Append(a, l)) = FlattenSeq(a) \o l
  BY FlattenAppend
<1>10. PICK f \in Text : f = FlattenSeq(a)
  BY FlattenType
<1>11. f \o l \in Text /\ Len(f \o l) = Len(f) + Len(l)
  OBVIOUS
<1>12. FirstLines(names, k) = f
  BY <1>1, <1>5, <1>10 DEF FirstLines
<1>13. FirstLines(names, k + 1) = f \o l
  <2>1. FlattenSeq(b) = f \o l
    BY <1>8, <1>9, <1>10
  <2> QED BY <1>3, <1>4, <1>6, <2>1 DEF FirstLines
<1>14. Len(f \o l) = Len(f) + Len(n) + 4
  <2>1. Len(f) \in Nat /\ Len(n) \in Nat
    OBVIOUS
  <2> QED BY <1>7, <1>11, <2>1
<1> QED BY <1>2, <1>7, <1>11, <1>12, <1>13, <1>14

(* Where line k + 1 begins in the listing.                                  *)
LineStart(names, k) == Len(Heading) + Len(FirstLines(names, k)) + 1

LEMMA HeadingIs ==
    /\ Heading \in Text /\ Len(Heading) = 3
    /\ Heading[1] = "C" /\ Heading[2] = ":" /\ Heading[3] = "\n"
BY Letters DEF Heading

LEMMA ListIs ==
    ASSUME NEW names \in Seq(Text)
    PROVE  /\ list_files(names) = Heading \o FirstLines(names, Len(names))
           /\ list_files(names) \in Text
           /\ Len(list_files(names)) = 3 + Len(FirstLines(names, Len(names)))
<1>1. SubSeq(names, 1, Len(names)) = names /\ Len(names) \in 0 .. Len(names)
  OBVIOUS
<1>2. PICK f \in Text : f = FirstLines(names, Len(names))
  BY <1>1, FirstLinesType
<1>3. list_files(names) = Heading \o f
  BY <1>1, <1>2 DEF list_files, FirstLines, Lines
<1>4. PICK h \in Text : h = Heading /\ Len(h) = 3
  BY HeadingIs
<1>5. h \o f \in Text /\ Len(h \o f) = 3 + Len(f)
  <2>1. h \o f \in Text
    OBVIOUS
  <2>2. Len(h \o f) = Len(h) + Len(f)
    OBVIOUS
  <2> QED BY <1>4, <2>1, <2>2
<1> QED BY <1>2, <1>3, <1>4, <1>5

(* The listing, up to some line, is a prefix of it.                         *)
LEMMA FirstLinesPrefix ==
    ASSUME NEW names \in Seq(Text), NEW k \in 0 .. Len(names), NEW m \in 0 .. Len(names), k <= m
    PROVE  /\ Len(FirstLines(names, k)) <= Len(FirstLines(names, m))
           /\ \A i \in 1 .. Len(FirstLines(names, k)) :
                 FirstLines(names, m)[i] = FirstLines(names, k)[i]
<1> DEFINE P(d) == /\ Len(FirstLines(names, k)) <= Len(FirstLines(names, d))
                   /\ \A i \in 1 .. Len(FirstLines(names, k)) :
                         FirstLines(names, d)[i] = FirstLines(names, k)[i]
           T == {d \in Nat : k <= d /\ d <= Len(names) => P(d)}
<1>1. 0 \in T
  <2>1. k <= 0 => k = 0
    OBVIOUS
  <2>2. k = 0 => P(0)
    <3>1. Len(FirstLines(names, k)) \in Nat
      BY FirstLinesType
    <3> QED BY <3>1
  <2> HIDE DEF P
  <2> QED BY <2>1, <2>2
<1>2. ASSUME NEW d \in Nat, d \in T PROVE d + 1 \in T
  <2> SUFFICES ASSUME k <= d + 1, d + 1 <= Len(names) PROVE P(d + 1)
    OBVIOUS
  <2>1. CASE k = d + 1
    <3>1. Len(FirstLines(names, k)) \in Nat
      BY FirstLinesType
    <3> QED BY <2>1, <3>1
  <2>2. CASE k <= d
    <3>1. P(d)
      BY <1>2, <2>2
    <3>2. d \in 0 .. Len(names) /\ d < Len(names)
      OBVIOUS
    <3>3. PICK f \in Text : f = FirstLines(names, d)
      BY <3>2, FirstLinesType
    <3>4. PICK l \in Text : l = Line(names[d + 1])
      <4>1. names[d + 1] \in Text
        BY <3>2
      <4> QED BY <4>1, LineType
    <3>5. FirstLines(names, d + 1) = f \o l
      BY <3>2, <3>3, <3>4, FirstLinesNext
    <3>6. /\ Len(f \o l) = Len(f) + Len(l)
          /\ \A i \in 1 .. Len(f) : (f \o l)[i] = f[i]
      OBVIOUS
    <3>7. Len(FirstLines(names, k)) \in Nat
      BY FirstLinesType
    <3> QED BY <3>1, <3>3, <3>5, <3>6, <3>7
  <2> QED BY <2>1, <2>2
<1> HIDE DEF T
<1>3. \A d \in Nat : d \in T
  BY <1>1, <1>2, Induction
<1> QED BY <1>3 DEF T

(* The line of a name, in its place in the listing.                         *)
LEMMA LineInList ==
    ASSUME NEW names \in Seq(Text), NEW k \in 0 .. Len(names), k < Len(names)
    PROVE  LET n == names[k + 1]
               i == LineStart(names, k)
               list == list_files(names)
           IN  /\ i \in Nat /\ i >= 4
               /\ \A j \in 1 .. Len(n) : list[i + 2 + j] = n[j]
               /\ list[i + 3 + Len(n)] = "\n"
               /\ i + 3 + Len(n) <= Len(list)
               /\ LineStart(names, k + 1) = i + 4 + Len(n)
<1>1. PICK n \in Text : n = names[k + 1] /\ Len(n) \in Nat
  OBVIOUS
<1>2. PICK f \in Text : f = FirstLines(names, k) /\ Len(f) \in Nat
  BY FirstLinesType
<1>3. PICK l \in Text : /\ l = Line(n) /\ Len(l) = Len(n) + 4
                        /\ \A i \in 1 .. Len(n) : l[i + 3] = n[i]
                        /\ l[Len(n) + 4] = "\n"
  BY LineType
<1>4. PICK m \in 0 .. Len(names) : m = k + 1
  OBVIOUS
<1>5. PICK g \in Text : g = FirstLines(names, m) /\ g = f \o l /\ Len(g) = Len(f) + Len(l)
  <2>1. PICK g \in Text : g = FirstLines(names, m)
    BY FirstLinesType
  <2>2. FirstLines(names, k + 1) = FirstLines(names, k) \o Line(names[k + 1])
    BY FirstLinesNext
  <2>3. g = f \o l
    BY <1>1, <1>2, <1>3, <1>4, <2>1, <2>2
  <2>4. Len(f \o l) = Len(f) + Len(l)
    BY ConcatProperties
  <2> QED BY <2>1, <2>3, <2>4
<1>6. PICK e \in Text : e = FirstLines(names, Len(names)) /\ Len(e) \in Nat
  <2>1. Len(names) \in 0 .. Len(names)
    OBVIOUS
  <2> QED BY <2>1, FirstLinesType
<1>7. Len(g) <= Len(e) /\ \A i \in 1 .. Len(g) : e[i] = g[i]
  <2>1. PICK t \in 0 .. Len(names) : t = Len(names) /\ m <= t
    OBVIOUS
  <2>2. /\ Len(FirstLines(names, m)) <= Len(FirstLines(names, t))
        /\ \A i \in 1 .. Len(FirstLines(names, m)) :
              FirstLines(names, t)[i] = FirstLines(names, m)[i]
    BY <2>1, FirstLinesPrefix
  <2> QED BY <1>5, <1>6, <2>1, <2>2
<1>8. PICK h \in Text : h = Heading /\ Len(h) = 3
  BY HeadingIs
<1>9. /\ list_files(names) = h \o e
      /\ Len(list_files(names)) = 3 + Len(e)
      /\ \A i \in 1 .. Len(e) : list_files(names)[3 + i] = e[i]
  <2>1. list_files(names) = h \o e
    BY <1>6, <1>8, ListIs
  <2>2. Len(h \o e) = 3 + Len(e)
    <3>1. Len(h \o e) = Len(h) + Len(e)
      OBVIOUS
    <3> QED BY <1>8, <3>1
  <2>3. \A i \in 1 .. Len(e) : (h \o e)[3 + i] = e[i]
    <3>1. \A i \in 1 .. Len(e) : (h \o e)[Len(h) + i] = e[i]
      OBVIOUS
    <3> QED BY <1>8, <3>1
  <2> QED BY <2>1, <2>2, <2>3
<1>10. \A i \in 1 .. Len(l) : g[Len(f) + i] = l[i]
  BY <1>5
<1>11. \A i \in 1 .. Len(l) : list_files(names)[3 + Len(f) + i] = l[i]
  <2> TAKE i \in 1 .. Len(l)
  <2>1. PICK j \in 1 .. Len(g) : j = Len(f) + i
    BY <1>2, <1>5
  <2>2. j \in 1 .. Len(e)
    BY <1>6, <1>7
  <2>3. 3 + Len(f) + i = 3 + j
    BY <1>2, <2>1
  <2> QED BY <1>7, <1>9, <1>10, <2>1, <2>2, <2>3
<1>12. LineStart(names, k) = 4 + Len(f) /\ LineStart(names, k + 1) = 4 + Len(g)
  BY <1>2, <1>4, <1>5, <1>8 DEF LineStart
<1>13. \A j \in 1 .. Len(n) : list_files(names)[4 + Len(f) + 2 + j] = n[j]
  <2> TAKE j \in 1 .. Len(n)
  <2>1. j + 3 \in 1 .. Len(l) /\ 4 + Len(f) + 2 + j = 3 + Len(f) + (j + 3)
    BY <1>1, <1>2, <1>3, SMTT(30)
  <2> QED BY <1>3, <1>11, <2>1
<1>14. list_files(names)[4 + Len(f) + 3 + Len(n)] = "\n"
  <2>1. /\ Len(n) + 4 \in 1 .. Len(l)
        /\ 4 + Len(f) + 3 + Len(n) = 3 + Len(f) + (Len(n) + 4)
    <3>1. PICK a \in Nat, b \in Nat : a = Len(n) /\ b = Len(f)
      BY <1>1, <1>2
    <3>2. a + 4 \in 1 .. a + 4 /\ 4 + b + 3 + a = 3 + b + (a + 4)
      OBVIOUS
    <3> QED BY <1>3, <3>1, <3>2
  <2> QED BY <1>3, <1>11, <2>1
<1>15. 4 + Len(f) + 3 + Len(n) <= Len(list_files(names))
  <2>1. PICK a \in Nat, b \in Nat, c \in Nat : a = Len(n) /\ b = Len(f) /\ c = Len(e)
    BY <1>1, <1>2, <1>6
  <2>2. b + (a + 4) <= c
    BY <1>3, <1>5, <1>7, <2>1
  <2>3. 4 + b + 3 + a <= 3 + c
    BY <2>2
  <2> QED BY <1>9, <2>1, <2>3
<1>16. 4 + Len(f) \in Nat /\ 4 + Len(f) >= 4 /\ 4 + Len(g) = 4 + Len(f) + 4 + Len(n)
  <2>1. PICK a \in Nat, b \in Nat : a = Len(n) /\ b = Len(f)
    BY <1>1, <1>2
  <2>2. Len(g) = b + (a + 4)
    BY <1>3, <1>5, <2>1
  <2> QED BY <2>1, <2>2
<1> QED BY <1>1, <1>12, <1>13, <1>14, <1>15, <1>16

(* What findnext returns, whatever the text.                                *)
LEMMA FindnextType ==
    ASSUME NEW list \in FileName, NEW contador \in Nat, NEW contstr \in 1 .. (Len(list) + 1)
    PROVE  /\ findnext(list, contador, contstr).name \in FileName
           /\ findnext(list, contador, contstr).contstr \in 1 .. (Len(list) + 1)
<1> DEFINE i == IF contador = 0 THEN Until(list, 1, Newline) + 1 ELSE contstr
           j == Until(list, i + 3, Newline)
<1>0. list \in Text /\ Len(list) \in Nat
  BY FileNameIs
<1>1. i \in Nat \ {0}
  <2>1. Until(list, 1, Newline) \in Nat
    BY <1>0, UntilIs
  <2> QED BY <1>0, <2>1
<1> HIDE DEF i
<1>2. j \in Nat \ {0} /\ j <= Len(list) + 1
  <2>1. PICK k \in Nat \ {0} : k = i + 3
    BY <1>1
  <2>2. k <= Len(list) + 1 \/ k > Len(list)
    BY <1>0
  <2> QED BY <1>0, <2>1, <2>2, UntilIs
<1> HIDE DEF j
<1>3. SubSeq(list, i + 3, j - 1) \in FileName
  <2>1. i + 3 \in Int /\ j - 1 \in Int
    BY <1>1, <1>2
  <2>2. \A k \in i + 3 .. j - 1 : list[k] \in NoSlash
    BY <1>0, <1>1, <1>2 DEF FileName
  <2> QED BY <2>1, <2>2, SubSeqProperties DEF FileName
<1>4. <<>> \in FileName
  BY DEF FileName
<1>5. findnext(list, contador, contstr) =
         IF i > Len(list) THEN [name |-> <<>>, contstr |-> contstr]
         ELSE [name |-> SubSeq(list, i + 3, j - 1),
               contstr |-> IF j > Len(list) THEN j ELSE j + 1]
  BY DEF findnext, i, j
<1>6. CASE i > Len(list)
  BY <1>4, <1>5, <1>6
<1>7. CASE ~(i > Len(list))
  <2>1. (IF j > Len(list) THEN j ELSE j + 1) \in 1 .. (Len(list) + 1)
    BY <1>0, <1>2
  <2> QED BY <1>3, <1>5, <1>7, <2>1
<1> QED BY <1>6, <1>7

LEMMA LineStartType ==
    ASSUME NEW names \in Seq(Text), NEW k \in 0 .. Len(names)
    PROVE  /\ LineStart(names, k) \in Nat /\ LineStart(names, k) >= 4
           /\ LineStart(names, 0) = 4
           /\ LineStart(names, Len(names)) = Len(list_files(names)) + 1
<1>1. 0 \in 0 .. Len(names) /\ Len(names) \in 0 .. Len(names)
  OBVIOUS
<1>2. /\ Len(FirstLines(names, k)) \in Nat
      /\ Len(FirstLines(names, Len(names))) \in Nat
  BY <1>1, FirstLinesType
<1>3. FirstLines(names, 0) = <<>>
  <2>1. SubSeq(names, 1, 0) = <<>>
    OBVIOUS
  <2>2. Lines(<<>>) = <<>>
    BY DEF Lines
  <2> QED BY <2>1, <2>2, FlattenEmpty DEF FirstLines
<1>4. Len(<<>>) = 0
  OBVIOUS
<1> QED BY <1>2, <1>3, <1>4, HeadingIs, ListIs DEF LineStart

(* The heading ends at its newline.                                         *)
LEMMA HeadingEnds ==
    ASSUME NEW names \in Seq(Text)
    PROVE  Until(list_files(names), 1, Newline) = 3
<1>1. PICK f \in Text : f = FirstLines(names, Len(names))
  <2>1. Len(names) \in 0 .. Len(names)
    OBVIOUS
  <2> QED BY <2>1, FirstLinesType
<1>2. PICK h \in Text : h = Heading
  BY HeadingIs
<1>3. PICK l \in Text : l = list_files(names) /\ l = h \o f
  BY <1>1, <1>2, ListIs
<1>4. Len(l) = Len(h) + Len(f) /\ \A i \in 1 .. Len(h) : l[i] = h[i]
  BY <1>3, ConcatProperties
<1>5. Len(h) = 3 /\ h[1] = "C" /\ h[2] = ":" /\ h[3] = "\n"
  BY <1>2, HeadingIs
<1>6. Len(l) >= 3 /\ l[1] = "C" /\ l[2] = ":" /\ l[3] = "\n"
  <2>1. Len(f) \in Nat
    OBVIOUS
  <2> QED BY <1>4, <1>5, <2>1
<1>7. PICK u \in Nat : u = Until(l, 1, Newline)
  BY UntilIs
<1>8. /\ u \in 1 .. (Len(l) + 1)
      /\ u <= Len(l) => l[u] \in Newline
      /\ \A j \in 1 .. Len(l) : j < u => l[j] \notin Newline
  <2>1. 1 \in Nat \ {0} /\ 1 <= Len(l) + 1
    BY <1>6
  <2> QED BY <1>7, <2>1, UntilIs
<1>9. ~(3 < u)
  <2>1. 3 \in 1 .. Len(l) /\ l[3] \in Newline
    BY <1>6 DEF Newline
  <2> QED BY <1>8, <2>1
<1>10. u # 1 /\ u # 2
  <2>1. l[1] \notin Newline /\ l[2] \notin Newline
    BY <1>6 DEF Newline
  <2> QED BY <1>6, <1>8, <2>1
<1> QED BY <1>3, <1>7, <1>8, <1>9, <1>10

(* From the beginning of a line, findnext reads its name and goes on to the *)
(* next line; at the end of the text there is nothing.                      *)
LEMMA FindnextIs ==
    ASSUME NEW names \in Seq(Text), NEW k \in 0 .. Len(names), NEW contstr \in Nat,
           k # 0 => contstr = LineStart(names, k),
           \A n \in ToSet(names) : ~Has(n, "\n")
    PROVE  /\ k < Len(names) =>
                 findnext(list_files(names), k, contstr) =
                    [name |-> names[k + 1], contstr |-> LineStart(names, k + 1)]
           /\ k = Len(names) => findnext(list_files(names), k, contstr).name = <<>>
<1>1. PICK list \in Text : list = list_files(names) /\ Len(list) \in Nat
  BY ListIs
<1>2. PICK i \in Nat : i = LineStart(names, k) /\ i >= 4
  BY LineStartType
<1>3. (IF k = 0 THEN Until(list, 1, Newline) + 1 ELSE contstr) = i
  BY <1>1, <1>2, HeadingEnds, LineStartType
<1>4. findnext(list, k, contstr) =
         IF i > Len(list) THEN [name |-> <<>>, contstr |-> contstr]
         ELSE [name |-> SubSeq(list, i + 3, Until(list, i + 3, Newline) - 1),
               contstr |-> IF Until(list, i + 3, Newline) > Len(list)
                           THEN Until(list, i + 3, Newline)
                           ELSE Until(list, i + 3, Newline) + 1]
  BY <1>3 DEF findnext
<1>5. CASE k = Len(names)
  <2>1. i = Len(list) + 1
    BY <1>1, <1>2, <1>5, LineStartType
  <2> QED BY <1>1, <1>4, <1>5, <2>1
<1>6. CASE k < Len(names)
  <2>1. PICK n \in Text : n = names[k + 1] /\ Len(n) \in Nat /\ ~Has(n, "\n")
    <3>1. k + 1 \in DOMAIN names
      BY <1>6
    <3> QED BY <3>1 DEF ToSet
  <2>0. PICK d \in Nat : d = Len(n)
    BY <2>1
  <2>2. /\ \A j \in 1 .. d : list[i + 2 + j] = n[j]
        /\ list[i + 3 + d] = "\n"
        /\ i + 3 + d <= Len(list)
        /\ LineStart(names, k + 1) = i + 4 + d
    BY <1>1, <1>2, <1>6, <2>0, <2>1, LineInList
  <2>3. PICK b \in Nat \ {0} : b = i + 3
    BY <1>2
  <2>4. PICK u \in Nat : u = Until(list, b, Newline)
    BY UntilIs
  <2>5. /\ u \in b .. (Len(list) + 1)
        /\ u <= Len(list) => list[u] \in Newline
        /\ \A j \in b .. Len(list) : j < u => list[j] \notin Newline
    <3>1. b <= Len(list) + 1
      BY <1>1, <2>1, <2>2, <2>3
    <3> QED BY <2>4, <3>1, UntilIs
  <2>6. \A j \in b .. b + d - 1 : list[j] = n[j - b + 1] /\ j - b + 1 \in 1 .. d
    <3> TAKE j \in b .. b + d - 1
    <3>1. PICK m \in 1 .. d : m = j - b + 1
      BY <2>1
    <3>2. i + 2 + m = j
      BY <2>3, <3>1
    <3> QED BY <2>2, <3>1, <3>2
  <2>7. u = b + d
    <3>1. ~(b + d < u)
      <4>1. b + d \in b .. Len(list) /\ list[b + d] \in Newline
        BY <1>1, <1>2, <2>1, <2>2, <2>3, SMTT(30) DEF Newline
      <4> QED BY <2>5, <4>1
    <3>2. ~(u < b + d)
      <4> SUFFICES ASSUME u < b + d PROVE FALSE
        OBVIOUS
      <4>1. u \in b .. b + d - 1 /\ u <= Len(list)
        BY <1>1, <2>1, <2>2, <2>3, <2>5
      <4>2. n[u - b + 1] = "\n" /\ u - b + 1 \in 1 .. d
        BY <2>5, <2>6, <4>1 DEF Newline
      <4> QED BY <2>0, <2>1, <4>2 DEF Has
    <3> QED BY <2>1, <2>5, <3>1, <3>2
  <2>8. ~(i > Len(list)) /\ ~(u > Len(list)) /\ u + 1 = LineStart(names, k + 1)
    <3>1. PICK e \in Nat : e = LineStart(names, k + 1) /\ e = i + 4 + d
      BY <1>2, <2>0, <2>2
    <3>2. PICK l \in Nat : l = Len(list) /\ i + 3 + d <= l
      BY <1>1, <2>2
    <3>3. ~(i > l) /\ ~(u > l) /\ u + 1 = e
      <4>1. i \in Nat /\ d \in Nat /\ u = i + 3 + d
        BY <1>2, <2>0, <2>3, <2>7
      <4>2. l \in Nat /\ e = i + 4 + d /\ i + 3 + d <= l
        BY <3>1, <3>2
      <4> QED BY ONLY <4>1, <4>2
    <3> QED BY <3>1, <3>2, <3>3
  <2>9. SubSeq(list, b, u - 1) = n
    <3>1. PICK c \in Int : c = u - 1
      BY <2>4
    <3>2. /\ SubSeq(list, b, c) \in Text
          /\ Len(SubSeq(list, b, c)) = IF b <= c THEN c - b + 1 ELSE 0
          /\ \A j \in 1 .. c - b + 1 : SubSeq(list, b, c)[j] = list[b + j - 1]
      <4>1. \A j \in b .. c : list[j] \in Characters
        BY <1>1, <2>3, <2>4, <2>8, <3>1
      <4> QED BY <3>1, <4>1, SubSeqProperties
    <3>3. c - b + 1 = d
      BY <2>1, <2>3, <2>7, <3>1
    <3>4. Len(SubSeq(list, b, c)) = Len(n)
      BY <2>0, <2>3, <3>1, <3>2, <3>3
    <3>5. \A j \in 1 .. Len(n) : SubSeq(list, b, c)[j] = n[j]
      <4> TAKE j \in 1 .. Len(n)
      <4>1. b + j - 1 = i + 2 + j
        BY <1>2, <2>3
      <4> QED BY <2>0, <2>2, <3>2, <3>3, <4>1
    <3> HIDE DEF Text
    <3> QED BY <3>1, <3>2, <3>4, <3>5, SeqEqual DEF Text
  <2>10. findnext(list, k, contstr) = [name |-> n, contstr |-> u + 1]
    BY <1>4, <2>3, <2>4, <2>8, <2>9
  <2> QED BY <1>1, <1>6, <2>1, <2>8, <2>10
<1> QED BY <1>5, <1>6

(* A listing of names without slashes holds none.                           *)
LEMMA ListNoSlash ==
    ASSUME NEW names \in Seq(FileName)
    PROVE  list_files(names) \in FileName
<1>1. {Space, "\n", "-", "C", ":"} \subseteq NoSlash
  BY Letters DEF NoSlash
<1>2. \A i \in 1 .. Len(names) : Line(names[i]) \in FileName
  <2> TAKE i \in 1 .. Len(names)
  <2>1. PICK n \in FileName : n = names[i]
    OBVIOUS
  <2>2. <<Space, "-", Space>> \in FileName /\ <<"\n">> \in FileName
    BY <1>1 DEF FileName
  <2> QED BY <2>1, <2>2 DEF FileName, Line
<1>3. PICK q \in Seq(FileName) : q = [i \in DOMAIN names |-> Line(names[i])]
  <2>1. [i \in 1 .. Len(names) |-> Line(names[i])] \in Seq(FileName)
    BY <1>2
  <2>2. DOMAIN names = 1 .. Len(names)
    OBVIOUS
  <2> QED BY <2>1, <2>2
<1>4. PICK f \in FileName : f = FlattenSeq(q)
  BY FlattenType DEF FileName
<1>5. Heading \in FileName
  BY <1>1 DEF FileName, Heading
<1>6. Heading \o f \in FileName
  BY <1>5, ConcatProperties DEF FileName
<1> QED BY <1>3, <1>4, <1>6 DEF list_files

-----------------------------------------------------------------------------
(* The inductive invariant *)

Content == Created \cup {Empty}

DiskOK ==
    /\ DOMAIN disk \subseteq Text /\ IsFiniteSet(DOMAIN disk)
    /\ \A p \in DOMAIN disk : DirOf(p) \in Directories /\ disk[p] \in Content

RemoteOK ==
    /\ DOMAIN remote \subseteq FileName /\ IsFiniteSet(DOMAIN remote)
    /\ \A n \in DOMAIN remote : remote[n] \in Content

SyncType ==
    [pc : {"idle", "upload", "download"}, todo : Seq(Text), names : Seq(FileName),
     list : FileName, contador : Nat, contstr : Nat \ {0}]

SyncOK ==
    /\ sync \in SyncType
    /\ sync.pc = "upload" => ToSet(sync.todo) \subseteq Local \cup removed
    /\ sync.pc = "download" => /\ sync.list = list_files(sync.names)
                               /\ sync.contstr \in 1 .. (Len(sync.list) + 1)
                               /\ ToSet(sync.names) \subseteq DOMAIN remote \cup removed

(* Where findnext is in the listing, unless a newline has broken its lines. *)
PositionOK ==
    sync.pc = "download" /\ (\A n \in ToSet(sync.names) : ~Has(n, "\n")) =>
        /\ sync.contador <= Len(sync.names)
        /\ sync.contador # 0 => sync.contstr = LineStart(sync.names, sync.contador)

RestOK == stuck \in BOOLEAN /\ removed \subseteq FileName /\ changes \in 0 .. MaxChanges

Inv == DiskOK /\ RemoteOK /\ SyncOK /\ PositionOK /\ RestOK

-----------------------------------------------------------------------------
(* Parts of a path, and what is stored where *)

LEMMA FileNameOf ==
    ASSUME NEW path \in Text
    PROVE  pickFileNameFromPath(path) \in FileName
<1>1. lastdash(path) \in 0 .. Len(path) /\ \A j \in DOMAIN path : path[j] = "/" => j <= lastdash(path)
  BY LastDashIs
<1>2. PICK i \in Int : /\ i = IF lastdash(path) = 0 THEN 2 ELSE lastdash(path) + 1
                       /\ i > lastdash(path) /\ i >= 1
  BY <1>1
<1>3. \A j \in i .. Len(path) : path[j] \in NoSlash
  BY <1>1, <1>2 DEF NoSlash
<1>4. SubSeq(path, i, Len(path)) \in FileName
  BY <1>3, SubSeqProperties DEF FileName
<1> QED BY <1>2, <1>4 DEF pickFileNameFromPath

(* A path with a slash ends in its file's name.                             *)
LEMMA SplitPath ==
    ASSUME NEW path \in Text, Has(path, "/")
    PROVE  \E u \in Text : /\ path = u \o <<"/">> \o pickFileNameFromPath(path)
                           /\ \A c : Has(u, c) => Has(path, c)
<1>1. PICK k \in 1 .. Len(path) : k = lastdash(path) /\ path[k] = "/"
  BY LastDashIs DEF Has
<1>2. PICK u \in Text : /\ Len(u) = k - 1 /\ \A i \in 1 .. k - 1 : u[i] = path[i]
  <2>1. SubSeq(path, 1, k - 1) \in Text
    OBVIOUS
  <2>2. Len(SubSeq(path, 1, k - 1)) = k - 1
    OBVIOUS
  <2>3. \A i \in 1 .. k - 1 : SubSeq(path, 1, k - 1)[i] = path[i]
    OBVIOUS
  <2> QED BY <2>1, <2>2, <2>3
<1>3. PICK n \in Text : /\ n = pickFileNameFromPath(path)
                        /\ Len(n) = Len(path) - k /\ \A i \in 1 .. Len(path) - k : n[i] = path[k + i]
  <2>1. PICK m \in Nat : m = k + 1
    OBVIOUS
  <2>2. /\ SubSeq(path, m, Len(path)) \in Text
        /\ Len(SubSeq(path, m, Len(path))) = IF m <= Len(path) THEN Len(path) - m + 1 ELSE 0
        /\ \A i \in 1 .. Len(path) - m + 1 : SubSeq(path, m, Len(path))[i] = path[m + i - 1]
    <3>1. \A i \in m .. Len(path) : path[i] \in Characters
      BY <2>1
    <3>2. m \in Int /\ Len(path) \in Int
      OBVIOUS
    <3> QED BY <3>1, <3>2, SubSeqProperties
  <2>3. pickFileNameFromPath(path) = SubSeq(path, m, Len(path))
    <3>1. lastdash(path) # 0 /\ lastdash(path) + 1 = m
      BY <1>1, <2>1
    <3> QED BY <3>1 DEF pickFileNameFromPath
  <2>4. \A i \in 1 .. Len(path) - k : m + i - 1 = k + i /\ i \in 1 .. Len(path) - m + 1
    BY <2>1
  <2>5. (IF m <= Len(path) THEN Len(path) - m + 1 ELSE 0) = Len(path) - k
    BY <1>1, <2>1
  <2> QED BY <2>2, <2>3, <2>4, <2>5
<1>4. PICK a \in Text : /\ a = u \o <<"/">> /\ Len(a) = k /\ \A i \in 1 .. k : a[i] = path[i]
  <2>1. <<"/">> \in Text
    BY Letters
  <2>2. /\ u \o <<"/">> \in Text
        /\ Len(u \o <<"/">>) = Len(u) + 1
        /\ \A i \in 1 .. Len(u) : (u \o <<"/">>)[i] = u[i]
        /\ (u \o <<"/">>)[Len(u) + 1] = "/"
    BY <2>1
  <2>3. \A i \in 1 .. k : i \in 1 .. k - 1 \/ i = k
    OBVIOUS
  <2>4. Len(u) + 1 = k
    BY <1>2
  <2> QED BY <1>1, <1>2, <2>2, <2>3, <2>4
<1>5. path = a \o n
  <2>1. Len(path) = Len(a) + Len(n)
    <3>1. PICK l \in Nat : l = Len(path)
      OBVIOUS
    <3>2. Len(n) = l - k /\ Len(a) = k
      BY <1>3, <1>4, <3>1
    <3>3. k + (l - k) = l
      OBVIOUS
    <3> QED BY <3>1, <3>2, <3>3
  <2>2. \A i \in 1 .. Len(a) : path[i] = a[i]
    BY <1>4
  <2>3. \A i \in 1 .. Len(n) : path[Len(a) + i] = n[i]
    BY <1>3, <1>4
  <2> QED BY <2>1, <2>2, <2>3, ConcatIs
<1>6. \A c : Has(u, c) => Has(path, c)
  <2>1. DOMAIN u \subseteq DOMAIN path /\ \A i \in DOMAIN u : u[i] = path[i]
    BY <1>2
  <2> QED BY <2>1 DEF Has
<1> QED BY <1>3, <1>4, <1>5, <1>6

(* Without a slash, send_file opens no path in one of the directories.      *)
LEMMA NoDirectory ==
    ASSUME NEW path \in Text, ~Has(path, "/")
    PROVE  DirOf(removeBlank(path)) \notin Directories
<1>1. path \in FileName
  BY FileNameIs
<1>2. PICK k \in Int : k = Until(path, 1, Newline) - 1 /\ k <= Len(path)
  <2>1. Until(path, 1, Newline) \in 1 .. (Len(path) + 1)
    BY UntilIs
  <2> QED BY <2>1
<1>3. SubSeq(path, 1, k) \in FileName
  BY <1>1, <1>2 DEF FileName
<1>4. PICK t \in FileName : t = Squeeze(SubSeq(path, 1, k))
  BY <1>3, SqueezeType DEF FileName
<1>5. PICK n \in FileName : n = <<"h">> \o t
  <2>1. <<"h">> \in FileName
    BY Letters DEF FileName, NoSlash
  <2> QED BY <2>1, ConcatProperties DEF FileName
<1>6. HOME \o t = <<>> \o <<"/">> \o n
  <2>1. t \in Text /\ <<"/">> \in Text /\ <<"h">> \in Text
    BY Letters, FileNameIs
  <2>2. PICK a \in Text, b \in Text : a = <<"/">> /\ b = <<"h">>
    BY <2>1
  <2>3. (a \o b) \o t = a \o (b \o t)
    BY <2>1, Associative
  <2>4. <<"/">> \o <<"h">> = HOME
    <3> DEFINE l == <<"/">> \o <<"h">>
    <3>1. l \in Text /\ Len(l) = 2 /\ l[1] = "/" /\ l[2] = "h"
      BY Letters
    <3>2. \A i \in 1 .. 2 : l[i] = <<"/", "h">>[i]
      BY <3>1
    <3>3. <<"/", "h">> \in Text /\ Len(<<"/", "h">>) = 2
      BY Letters
    <3> HIDE DEF l
    <3>4. l = <<"/", "h">>
      BY <3>1, <3>2, <3>3, SeqEqual
    <3> QED BY <3>4, Home DEF l
  <2>5. <<>> \o <<"/">> = <<"/">>
    BY <2>1, ConcatEmptySeq
  <2> QED BY <1>5, <2>2, <2>3, <2>4, <2>5
<1>7. removeBlank(path) = <<>> \o <<"/">> \o n
  BY <1>2, <1>4, <1>6 DEF removeBlank
<1>8. DirOf(<<>> \o <<"/">> \o n) = <<>> \o <<"/">>
  <2>1. <<>> \in Text
    OBVIOUS
  <2>2. n \in Text /\ ~Has(n, "/")
    BY FileNameIs
  <2> QED BY <2>1, <2>2, Parts
<1>9. Len(DirOf(removeBlank(path))) = 1
  <2>1. <<"/">> \in Text
    BY Letters
  <2>2. <<>> \o <<"/">> = <<"/">>
    BY <2>1, ConcatEmptySeq
  <2> QED BY <1>7, <1>8, <2>2
<1>10. \A d \in Directories : Len(d) # 1
  <2>1. Len(<<"/", "h", "/">>) = 3 /\ Len(<<"/", "h", "/", "s", "/">>) = 5
    OBVIOUS
  <2> QED BY <2>1, Home
<1> QED BY <1>9, <1>10

LEMMA DropPrefix ==
    ASSUME NEW d \in Text, NEW n \in Text
    PROVE  IsPrefix(d, d \o n) /\ SubSeq(d \o n, Len(d) + 1, Len(d \o n)) = n
<1>1. PICK q \in Text : /\ q = d \o n /\ Len(q) = Len(d) + Len(n)
                        /\ \A i \in 1 .. Len(d) : q[i] = d[i]
                        /\ \A i \in 1 .. Len(n) : q[Len(d) + i] = n[i]
  <2>1. /\ d \o n \in Text /\ Len(d \o n) = Len(d) + Len(n)
        /\ \A i \in 1 .. Len(d) : (d \o n)[i] = d[i]
        /\ \A i \in 1 .. Len(n) : (d \o n)[Len(d) + i] = n[i]
    OBVIOUS
  <2> QED BY <2>1
<1>2. PICK a \in Nat, b \in Nat : a = Len(d) /\ b = Len(n) /\ Len(q) = a + b
  BY <1>1
<1>3. /\ SubSeq(q, a + 1, a + b) \in Text
      /\ Len(SubSeq(q, a + 1, a + b)) = b
      /\ \A i \in 1 .. b : SubSeq(q, a + 1, a + b)[i] = q[a + i]
  <2>1. PICK m \in Nat, l \in Nat : m = a + 1 /\ l = a + b
    OBVIOUS
  <2>2. \A i \in m .. l : q[i] \in Characters
    BY <1>2, <2>1
  <2>3. /\ SubSeq(q, m, l) \in Text
        /\ Len(SubSeq(q, m, l)) = IF m <= l THEN l - m + 1 ELSE 0
        /\ \A i \in 1 .. l - m + 1 : SubSeq(q, m, l)[i] = q[m + i - 1]
    BY <2>2, SubSeqProperties
  <2>4. l - m + 1 = b /\ (IF m <= l THEN l - m + 1 ELSE 0) = b
    BY <2>1
  <2>5. \A i \in 1 .. b : m + i - 1 = a + i
    BY <2>1
  <2> QED BY <2>1, <2>3, <2>4, <2>5
<1>4. SubSeq(q, a + 1, a + b) = n
  <2>1. \A i \in 1 .. Len(n) : SubSeq(q, a + 1, a + b)[i] = n[i]
    BY <1>1, <1>2, <1>3
  <2> HIDE DEF Text
  <2> QED BY <1>2, <1>3, <2>1, SeqEqual DEF Text
<1>5. IsPrefix(d, q)
  <2>1. SubSeq(d, 1, a) \in Text /\ Len(SubSeq(d, 1, a)) = a
        /\ \A i \in 1 .. a : SubSeq(d, 1, a)[i] = d[i]
    BY <1>2
  <2>2. SubSeq(q, 1, a) \in Text /\ Len(SubSeq(q, 1, a)) = a
        /\ \A i \in 1 .. a : SubSeq(q, 1, a)[i] = q[i]
    BY <1>2
  <2>3. \A i \in 1 .. a : SubSeq(d, 1, a)[i] = SubSeq(q, 1, a)[i]
    BY <1>1, <1>2, <2>1, <2>2
  <2>4. SubSeq(d, 1, a) = SubSeq(q, 1, a)
    <3> HIDE DEF Text
    <3> QED BY <2>1, <2>2, <2>3, SeqEqual DEF Text
  <2> QED BY <1>2, <2>4 DEF IsPrefix
<1> QED BY <1>1, <1>2, <1>4, <1>5

(* The names in the synchronised directory hold no slash, and lead back.    *)
LEMMA LocalIs ==
    ASSUME DiskOK, NEW n \in Local
    PROVE  n \in FileName /\ SyncDir \o n \in DOMAIN disk
<1>1. PICK p \in DOMAIN disk : IsPrefix(SyncDir, p) /\ n = SubSeq(p, Len(SyncDir) + 1, Len(p))
  BY SyncPaths DEF Local
<1>2. p \in Text /\ DirOf(p) \in Directories
  BY DEF DiskOK
<1>3. PICK d \in Text : d = SyncDir /\ Len(d) = 5
  BY Home
<1>4. Len(p) \in Nat /\ 5 <= Len(p) /\ SubSeq(d, 1, 5) = SubSeq(p, 1, 5)
  BY <1>1, <1>2, <1>3 DEF IsPrefix
<1>5. \A i \in 1 .. 5 : d[i] = p[i]
  <2>1. \A i \in 1 .. 5 : SubSeq(d, 1, 5)[i] = d[i]
    BY <1>3
  <2>2. \A i \in 1 .. 5 : SubSeq(p, 1, 5)[i] = p[i]
    BY <1>2, <1>4
  <2> QED BY <1>4, <2>1, <2>2
<1>6. /\ n \in Text /\ Len(n) = Len(p) - 5 /\ \A i \in 1 .. Len(p) - 5 : n[i] = p[5 + i]
  <2>1. n = SubSeq(p, 6, Len(p))
    BY <1>1, <1>3
  <2>2. /\ SubSeq(p, 6, Len(p)) \in Text
        /\ Len(SubSeq(p, 6, Len(p))) = IF 6 <= Len(p) THEN Len(p) - 6 + 1 ELSE 0
        /\ \A i \in 1 .. Len(p) - 6 + 1 : SubSeq(p, 6, Len(p))[i] = p[6 + i - 1]
    <3>1. \A i \in 6 .. Len(p) : p[i] \in Characters
      BY <1>2
    <3> QED BY <1>4, <3>1, SubSeqProperties
  <2>3. (IF 6 <= Len(p) THEN Len(p) - 6 + 1 ELSE 0) = Len(p) - 5
    <3>1. PICK l \in Nat : l = Len(p) /\ 5 <= l
      BY <1>4
    <3>2. (IF 6 <= l THEN l - 6 + 1 ELSE 0) = l - 5
      BY <3>1
    <3> QED BY <3>1, <3>2
  <2>4. \A i \in 1 .. Len(p) - 5 : 6 + i - 1 = 5 + i /\ i \in 1 .. Len(p) - 6 + 1
    BY <1>4
  <2> QED BY <2>1, <2>2, <2>3, <2>4
<1>7. d \o n = p
  <2>1. Len(p) = Len(d) + Len(n)
    <3>1. PICK l \in Nat : l = Len(p)
      BY <1>4
    <3>2. Len(n) = l - 5 /\ Len(d) = 5
      BY <1>3, <1>6, <3>1
    <3>3. 5 + (l - 5) = l
      OBVIOUS
    <3> QED BY <3>1, <3>2, <3>3
  <2>2. \A i \in 1 .. Len(d) : p[i] = d[i]
    BY <1>3, <1>5
  <2>3. \A i \in 1 .. Len(n) : p[Len(d) + i] = n[i]
    BY <1>3, <1>6
  <2> QED BY <1>2, <1>6, <2>1, <2>2, <2>3, ConcatIs
<1>8. lastdash(p) <= 5
  <2>1. lastdash(p) \in 0 .. Len(p)
    BY <1>2, LastDashIs
  <2>2. Len(SubSeq(p, 1, lastdash(p))) = lastdash(p)
    BY <1>2, <2>1
  <2>3. \A e \in Directories : Len(e) <= 5
    <3>1. Len(<<"/", "h", "/">>) <= 5 /\ Len(<<"/", "h", "/", "s", "/">>) <= 5
      OBVIOUS
    <3> QED BY <3>1, Home
  <2> QED BY <1>2, <2>2, <2>3 DEF DirOf
<1>9. ~Has(n, "/")
  <2> SUFFICES ASSUME NEW i \in DOMAIN n, n[i] = "/" PROVE FALSE
    BY DEF Has
  <2>1. i \in 1 .. Len(p) - 5
    BY <1>6
  <2>2. p[5 + i] = "/" /\ 5 + i \in DOMAIN p
    BY <1>2, <1>4, <1>6, <2>1
  <2>3. 5 + i <= lastdash(p) /\ lastdash(p) \in 0 .. Len(p)
    BY <1>2, <2>2, LastDashIs
  <2> QED BY <1>8, <2>1, <2>3
<1> QED BY <1>1, <1>3, <1>6, <1>7, <1>9, FileNameIs

LEMMA NamedIs ==
    ASSUME DiskOK, NEW n \in Text, n # <<>>, devolvePathSyncDir \o n \in DOMAIN disk
    PROVE  n \in FileName
<1>1. PICK d \in Text : d = devolvePathSyncDir
  BY SyncPaths, Home, Letters
<1>2. IsPrefix(d, d \o n) /\ SubSeq(d \o n, Len(d) + 1, Len(d \o n)) = n
  BY DropPrefix
<1>3. n \in Local
  BY <1>1, <1>2 DEF Local
<1> QED BY <1>3, LocalIs

-----------------------------------------------------------------------------
(* What a transfer changes *)

(* The files, with one of them written.                                     *)
Written(files, name, content) ==
    [n \in DOMAIN files \cup {name} |-> IF n # name THEN files[n] ELSE content]

(* A transfer ends unless its file is missing or its content may strand it. *)
LEMMA OutcomeIs ==
    ASSUME NEW files, NEW f, NEW outcome \in Outcomes(files, f)
    PROVE  /\ outcome \in BOOLEAN
           /\ ~outcome => f \in DOMAIN files
           /\ outcome => f \notin DOMAIN files \/ Before(files, f) \in Strandable
BY Zenon DEF Outcomes, Before

LEMMA SendFileIs ==
    ASSUME DiskOK, RemoteOK, NEW path \in Text, send_file(path)
    PROVE  /\ disk' = disk
           /\ stuck' \in Outcomes(disk, removeBlank(path))
           /\ \E content \in Content :
                 /\ remote' = Written(remote, pickFileNameFromPath(path), content)
                 /\ removeBlank(path) \in DOMAIN disk => content = disk[removeBlank(path)]
<1> DEFINE name == pickFileNameFromPath(path)
           opened == removeBlank(path)
           content == IF opened \in DOMAIN disk THEN disk[opened] ELSE Before(remote, name)
<1>1. content \in Content
  <2>1. opened \in DOMAIN disk => disk[opened] \in Content
    BY DEF DiskOK
  <2>2. Before(remote, name) \in Content
    BY DEF RemoteOK, Before, Content
  <2> QED BY <2>1, <2>2
<1>2. remote' = Written(remote, name, content)
  BY DEF send_file, Written
<1>3. disk' = disk /\ stuck' \in Outcomes(disk, opened)
  BY DEF send_file
<1> QED BY <1>1, <1>2, <1>3

LEMMA GetFileIs ==
    ASSUME DiskOK, RemoteOK, NEW name \in Text, NEW finalpath \in Text,
           get_file(name, finalpath)
    PROVE  LET path == (HOME \o <<"/">>) \o SubSeq(finalpath, 3, Len(finalpath)) \o name
           IN  /\ remote' = remote
               /\ stuck' \in Outcomes(remote, name)
               /\ path \in Text
               /\ \E content \in Content :
                     /\ disk' = Stored(disk, path, content)
                     /\ name \in DOMAIN remote => content = remote[name]
<1> DEFINE path == (HOME \o <<"/">>) \o SubSeq(finalpath, 3, Len(finalpath)) \o name
           content == IF name \in DOMAIN remote THEN remote[name] ELSE Before(disk, path)
<1>1. content \in Content
  <2>1. name \in DOMAIN remote => remote[name] \in Content
    BY DEF RemoteOK
  <2>2. Before(disk, path) \in Content
    BY DEF DiskOK, Before, Content
  <2> QED BY <2>1, <2>2
<1>2. path \in Text
  <2>1. HOME \o <<"/">> \in Text /\ SubSeq(finalpath, 3, Len(finalpath)) \in Text
    <3>1. <<"/">> \in Text /\ HOME \in Text
      BY Letters, Home
    <3> QED BY <3>1, ConcatProperties
  <2> QED BY <2>1, ConcatProperties
<1>3. disk' = Stored(disk, path, content)
  BY SyncPaths DEF get_file
<1>4. remote' = remote /\ stuck' \in Outcomes(remote, name)
  BY DEF get_file
<1> HIDE DEF path
<1>5. \E c \in Content : disk' = Stored(disk, path, c) /\ (name \in DOMAIN remote => c = remote[name])
  BY <1>1, <1>3
<1> QED BY <1>2, <1>4, <1>5 DEF path

LEMMA StoredOK ==
    ASSUME DiskOK, NEW path \in Text, NEW content \in Content, disk' = Stored(disk, path, content)
    PROVE  DiskOK' /\ DOMAIN disk \subseteq DOMAIN disk'
<1>1. CASE DirOf(path) \notin Directories
  BY <1>1 DEF Stored, DiskOK
<1>2. CASE DirOf(path) \in Directories
  <2>1. disk' = [p \in DOMAIN disk \cup {path} |-> IF p = path THEN content ELSE disk[p]]
    BY <1>2 DEF Stored
  <2>2. DOMAIN disk' = DOMAIN disk \cup {path}
    BY <2>1
  <2>3. IsFiniteSet(DOMAIN disk')
    BY <2>2, FS_AddElement DEF DiskOK
  <2>4. \A p \in DOMAIN disk' : disk'[p] \in Content
    BY <2>1 DEF DiskOK
  <2>5. \A p \in DOMAIN disk' : DirOf(p) \in Directories
    BY <1>2, <2>2 DEF DiskOK
  <2> QED BY <2>2, <2>3, <2>4, <2>5 DEF DiskOK
<1> QED BY <1>1, <1>2

LEMMA WrittenOK ==
    ASSUME RemoteOK, NEW name \in FileName, NEW content \in Content,
           remote' = Written(remote, name, content)
    PROVE  RemoteOK' /\ DOMAIN remote \subseteq DOMAIN remote'
<1>1. DOMAIN remote' = DOMAIN remote \cup {name}
  BY DEF Written
<1>2. IsFiniteSet(DOMAIN remote')
  BY <1>1, FS_AddElement DEF RemoteOK
<1>3. \A n \in DOMAIN remote' : remote'[n] \in Content
  BY DEF RemoteOK, Written
<1> QED BY <1>1, <1>2, <1>3 DEF RemoteOK

LEMMA LocalGrows ==
    ASSUME DOMAIN disk \subseteq DOMAIN disk'
    PROVE  Local \subseteq Local'
BY DEF Local

LEMMA LocalFinite ==
    ASSUME DiskOK
    PROVE  IsFiniteSet(Local)
<1> DEFINE Q == {q \in DOMAIN disk : IsPrefix(devolvePathSyncDir, q)}
           f == [p \in Q |-> SubSeq(p, Len(devolvePathSyncDir) + 1, Len(p))]
           T == {f[p] : p \in Q}
<1>1. IsFiniteSet(Q)
  BY FS_Subset DEF DiskOK
<1>2. f \in Surjection(Q, T)
  BY DEF Surjection
<1>3. IsFiniteSet(T)
  <2> HIDE DEF Q, f, T
  <2> QED BY <1>1, <1>2, FS_Surjection
<1>4. Local \subseteq T
  BY DEF Local
<1> HIDE DEF T
<1> QED BY <1>3, <1>4, FS_Subset

(* Readdir's order is a sequence of what it enumerates.                     *)
LEMMA OrderIs ==
    ASSUME NEW S, IsFiniteSet(S), NEW order \in SetToSeqs(S)
    PROVE  order \in Seq(S) /\ ToSet(order) \subseteq S
<1>1. PICK n \in Nat : n = Cardinality(S)
  BY FS_CardinalityType
<1>2. order \in [1 .. n -> S]
  BY <1>1 DEF SetToSeqs
<1> QED BY <1>2 DEF ToSet

-----------------------------------------------------------------------------
(* Every step keeps the invariant *)

LEMMA InitInv == Init => Inv
<1> SUFFICES ASSUME Init PROVE Inv
  OBVIOUS
<1>1. DOMAIN disk = {} /\ DOMAIN remote = {}
  BY DEF Init
<1>2. DiskOK /\ RemoteOK
  BY <1>1, FS_EmptySet DEF DiskOK, RemoteOK
<1>3. NotSyncing \in SyncType
  <2>1. <<>> \in Seq(Text) /\ <<>> \in Seq(FileName) /\ <<>> \in FileName
    BY DEF FileName
  <2> HIDE DEF Text
  <2> QED BY <2>1 DEF NotSyncing, SyncType
<1>4. SyncOK /\ PositionOK
  BY <1>3 DEF Init, SyncOK, PositionOK, NotSyncing
<1>5. RestOK
  <2>1. MaxChanges \in Nat
    BY NamesAssumption
  <2>2. changes = 0 /\ stuck = FALSE /\ removed = {}
    BY DEF Init
  <2>3. changes \in 0 .. MaxChanges
    BY <2>1, <2>2
  <2>4. stuck \in BOOLEAN
    BY <2>2, Zenon
  <2> QED BY <2>2, <2>3, <2>4 DEF RestOK
<1> QED BY <1>2, <1>4, <1>5 DEF Inv

LEMMA NotSyncingOK ==
    NotSyncing \in SyncType /\ NotSyncing.pc = "idle"
<1>1. <<>> \in Seq(Text) /\ <<>> \in Seq(FileName) /\ <<>> \in FileName
  BY DEF FileName
<1> HIDE DEF Text
<1> QED BY <1>1 DEF NotSyncing, SyncType

(* A step that leaves sync alone disturbs nothing in it, if it remembers    *)
(* what it removes.                                                         *)
LEMMA SyncKept ==
    ASSUME SyncOK, PositionOK, sync' = sync, removed \subseteq removed',
           sync.pc = "upload" => Local \subseteq Local' \cup removed',
           sync.pc = "download" => DOMAIN remote \subseteq DOMAIN remote' \cup removed'
    PROVE  SyncOK' /\ PositionOK'
<1>1. SyncOK'
  BY DEF SyncOK
<1>2. PositionOK'
  BY DEF PositionOK
<1> QED BY <1>1, <1>2

LEMMA BeginSyncInv ==
    ASSUME Inv, BeginSync PROVE Inv'
<1>1. PICK order \in SetToSeqs(Local) : sync' = [sync EXCEPT !.pc = "upload", !.todo = order]
  BY DEF BeginSync
<1>2. UNCHANGED <<disk, remote, stuck, changes>>
  BY DEF BeginSync
<1>3. order \in Seq(Local) /\ ToSet(order) \subseteq Local
  BY LocalFinite, OrderIs DEF Inv
<1>4. Local' = Local /\ removed' = {}
  BY <1>2 DEF Local, BeginSync
<1>5. order \in Seq(Text)
  <2>1. \A n \in Local : n \in Text
    BY LocalIs, FileNameIs DEF Inv
  <2> HIDE DEF Text
  <2> QED BY <1>3, <2>1
<1>6. sync' \in SyncType
  BY <1>1, <1>5 DEF Inv, SyncOK, SyncType
<1>7. sync'.pc = "upload" /\ sync'.todo = order
  BY <1>1 DEF Inv, SyncOK, SyncType
<1>8. SyncOK'
  BY <1>3, <1>4, <1>6, <1>7 DEF SyncOK
<1>9. PositionOK'
  BY <1>7 DEF PositionOK
<1>10. DiskOK' /\ RemoteOK' /\ RestOK'
  BY <1>2, <1>4 DEF Inv, DiskOK, RemoteOK, RestOK
<1> QED BY <1>8, <1>9, <1>10 DEF Inv

(* The next file to be uploaded.                                            *)
LEMMA HeadOfTodo ==
    ASSUME Inv, sync.pc = "upload", sync.todo # <<>>
    PROVE  /\ Head(sync.todo) \in Local \cup removed /\ Head(sync.todo) \in Text
           /\ devolvePathSyncDirBruto \o Head(sync.todo) \in Text
           /\ Tail(sync.todo) \in Seq(Text)
           /\ ToSet(Tail(sync.todo)) \subseteq Local \cup removed
<1>1. sync.todo \in Seq(Text) /\ ToSet(sync.todo) \subseteq Local \cup removed
  BY DEF Inv, SyncOK, SyncType
<1>2. PICK todo \in Seq(Text) : todo = sync.todo /\ todo # <<>>
  BY <1>1
<1>3. /\ Head(todo) \in Text /\ Tail(todo) \in Seq(Text)
      /\ Len(Tail(todo)) = Len(todo) - 1
      /\ \A i \in 1 .. Len(Tail(todo)) : Tail(todo)[i] = todo[i + 1]
  <2> HIDE DEF Text
  <2> QED BY <1>2, HeadTailProperties
<1>4. Head(todo) \in ToSet(todo)
  <2>1. 1 \in DOMAIN todo /\ Head(todo) = todo[1]
    BY <1>2
  <2> QED BY <2>1 DEF ToSet
<1>5. ToSet(Tail(todo)) \subseteq ToSet(todo)
  <2>1. \A i \in DOMAIN Tail(todo) : i + 1 \in DOMAIN todo /\ Tail(todo)[i] = todo[i + 1]
    BY <1>3
  <2> QED BY <2>1 DEF ToSet
<1>6. devolvePathSyncDirBruto \in Text
  BY SyncPaths, Letters
<1>7. devolvePathSyncDirBruto \o Head(todo) \in Text
  BY <1>3, <1>6, ConcatProperties
<1> QED BY <1>1, <1>2, <1>3, <1>4, <1>5, <1>7

LEMMA NextUploadInv ==
    ASSUME Inv, NextUpload PROVE Inv'
<1> DEFINE path == devolvePathSyncDirBruto \o Head(sync.todo)
<1>1. sync.pc = "upload" /\ sync.todo # <<>> /\ sync' = [sync EXCEPT !.todo = Tail(sync.todo)]
  BY DEF NextUpload
<1>2. send_file(path) /\ changes' = changes /\ removed' = removed
  BY DEF NextUpload
<1>3. path \in Text
  BY <1>1, HeadOfTodo
<1> HIDE DEF path
<1>4. PICK content \in Content : remote' = Written(remote, pickFileNameFromPath(path), content)
  BY <1>2, <1>3, SendFileIs DEF Inv
<1>5. disk' = disk /\ stuck' \in BOOLEAN
  BY <1>2, <1>3, SendFileIs, OutcomeIs DEF Inv
<1>6. RemoteOK'
  BY <1>3, <1>4, FileNameOf, WrittenOK DEF Inv
<1>7. sync' \in SyncType /\ sync'.pc = "upload" /\ sync'.todo = Tail(sync.todo)
  BY <1>1, HeadOfTodo DEF Inv, SyncOK, SyncType
<1>8. Local' = Local
  BY <1>5 DEF Local
<1>9. SyncOK'
  BY <1>1, <1>2, <1>7, <1>8, HeadOfTodo DEF SyncOK
<1>10. PositionOK'
  BY <1>7 DEF PositionOK
<1>11. DiskOK' /\ RestOK'
  BY <1>2, <1>5 DEF Inv, DiskOK, RestOK
<1> QED BY <1>6, <1>9, <1>10, <1>11 DEF Inv

LEMMA ListInv ==
    ASSUME Inv, List PROVE Inv'
<1>1. PICK order \in SetToSeqs(DOMAIN remote) :
         sync' = [NotSyncing EXCEPT !.pc = "download", !.names = order, !.list = list_files(order)]
  BY DEF List
<1>2. UNCHANGED <<disk, remote, stuck, changes>>
  BY DEF List
<1>3. order \in Seq(DOMAIN remote) /\ ToSet(order) \subseteq DOMAIN remote
  BY OrderIs DEF Inv, RemoteOK
<1>4. order \in Seq(FileName) /\ order \in Seq(Text)
  <2>1. \A n \in DOMAIN remote : n \in FileName /\ n \in Text
    BY FileNameIs DEF Inv, RemoteOK
  <2> HIDE DEF Text
  <2> QED BY <1>3, <2>1
<1>5. list_files(order) \in FileName /\ Len(list_files(order)) \in Nat
  BY <1>4, ListNoSlash DEF FileName
<1>6. /\ sync' \in SyncType /\ sync'.pc = "download" /\ sync'.names = order
      /\ sync'.list = list_files(order) /\ sync'.contador = 0 /\ sync'.contstr = 1
  <2>1. sync' = [pc |-> "download", todo |-> <<>>, names |-> order, list |-> list_files(order),
                 contador |-> 0, contstr |-> 1]
    BY <1>1 DEF NotSyncing
  <2>2. <<>> \in Seq(Text)
    OBVIOUS
  <2> HIDE DEF Text
  <2> QED BY <1>4, <1>5, <2>1, <2>2 DEF SyncType
<1>7. SyncOK'
  BY <1>2, <1>3, <1>5, <1>6 DEF SyncOK
<1>8. PositionOK'
  <2>1. Len(order) \in Nat /\ 0 <= Len(order)
    BY <1>4
  <2> QED BY <1>6, <2>1 DEF PositionOK
<1>9. DiskOK' /\ RemoteOK' /\ RestOK'
  BY <1>2 DEF List, Inv, DiskOK, RemoteOK, RestOK
<1> QED BY <1>7, <1>8, <1>9 DEF Inv

(* What findnext finds for sync_client.                                     *)
LEMMA NextName ==
    ASSUME Inv, sync.pc = "download"
    PROVE  LET next == findnext(sync.list, sync.contador, sync.contstr)
           IN  /\ next.name \in FileName /\ next.name \in Text
               /\ next.contstr \in 1 .. (Len(sync.list) + 1)
<1>1. /\ sync.list \in FileName /\ sync.contador \in Nat
      /\ sync.contstr \in 1 .. (Len(sync.list) + 1)
  BY DEF Inv, SyncOK, SyncType
<1>2. PICK list \in FileName : list = sync.list
  BY <1>1
<1>3. PICK k \in Nat : k = sync.contador
  BY <1>1
<1>4. PICK i \in 1 .. (Len(list) + 1) : i = sync.contstr
  BY <1>1, <1>2
<1>5. /\ findnext(list, k, i).name \in FileName
      /\ findnext(list, k, i).contstr \in 1 .. (Len(list) + 1)
  BY FindnextType
<1>6. findnext(list, k, i).name \in Text
  BY <1>5, FileNameIs
<1> QED BY <1>2, <1>3, <1>4, <1>5, <1>6

(* Every name of the listing in turn, and then nothing, if none of them     *)
(* contains a newline.                                                      *)
LEMMA NextNameIs ==
    ASSUME Inv, sync.pc = "download", \A n \in ToSet(sync.names) : ~Has(n, "\n")
    PROVE  LET next == findnext(sync.list, sync.contador, sync.contstr)
           IN  /\ sync.contador \in 0 .. Len(sync.names)
               /\ sync.contador < Len(sync.names) =>
                     /\ next.name = sync.names[sync.contador + 1]
                     /\ next.contstr = LineStart(sync.names, sync.contador + 1)
               /\ sync.contador = Len(sync.names) => next.name = <<>>
<1>1. sync.names \in Seq(Text)
  <2>1. sync.names \in Seq(FileName)
    BY DEF Inv, SyncOK, SyncType
  <2>2. \A n \in FileName : n \in Text
    BY FileNameIs
  <2> HIDE DEF Text
  <2> QED BY <2>1, <2>2
<1>2. /\ sync.contador \in Nat /\ sync.contstr \in Nat
      /\ sync.contador <= Len(sync.names)
      /\ sync.contador # 0 => sync.contstr = LineStart(sync.names, sync.contador)
      /\ sync.list = list_files(sync.names)
  BY DEF Inv, SyncOK, SyncType, PositionOK
<1>3. PICK names \in Seq(Text) : names = sync.names
  BY <1>1
<1>4. PICK k \in 0 .. Len(names) : k = sync.contador
  BY <1>2, <1>3
<1>5. PICK i \in Nat : i = sync.contstr
  BY <1>2
<1>6. (k # 0 => i = LineStart(names, k)) /\ \A n \in ToSet(names) : ~Has(n, "\n")
  BY <1>2, <1>3, <1>4, <1>5
<1>7. /\ k < Len(names) =>
            findnext(list_files(names), k, i) =
               [name |-> names[k + 1], contstr |-> LineStart(names, k + 1)]
      /\ k = Len(names) => findnext(list_files(names), k, i).name = <<>>
  BY <1>6, FindnextIs
<1>8. k < Len(names) => /\ findnext(list_files(names), k, i).name = names[k + 1]
                        /\ findnext(list_files(names), k, i).contstr = LineStart(names, k + 1)
  BY <1>7
<1> QED BY <1>2, <1>3, <1>4, <1>5, <1>7, <1>8

LEMMA NextDownloadInv ==
    ASSUME Inv, NextDownload PROVE Inv'
<1> DEFINE next == findnext(sync.list, sync.contador, sync.contstr)
<1>1. sync.pc = "download" /\ changes' = changes /\ removed' = removed
  BY DEF NextDownload
<1>2. CASE next.name = <<>>
  <2>1. sync' = NotSyncing /\ UNCHANGED <<disk, remote, stuck, changes>>
    BY <1>2 DEF NextDownload
  <2>2. SyncOK' /\ PositionOK'
    BY <2>1, NotSyncingOK DEF SyncOK, PositionOK
  <2> QED BY <1>1, <2>1, <2>2 DEF Inv, DiskOK, RemoteOK, RestOK
<1>3. CASE next.name # <<>>
  <2>1. /\ sync' = [sync EXCEPT !.contador = sync.contador + 1, !.contstr = next.contstr]
        /\ get_file(next.name, devolvePathSyncDirBruto)
    BY <1>3 DEF NextDownload
  <2>2. /\ next.name \in Text
        /\ next.contstr \in 1 .. (Len(sync.list) + 1)
    BY <1>1, NextName
  <2>3. devolvePathSyncDirBruto \in Text
    BY SyncPaths, Letters
  <2>4. PICK path \in Text, content \in Content : disk' = Stored(disk, path, content)
    BY <2>1, <2>2, <2>3, GetFileIs DEF Inv
  <2>5. remote' = remote /\ stuck' \in BOOLEAN
    BY <2>1, <2>2, <2>3, GetFileIs, OutcomeIs DEF Inv
  <2>6. DiskOK' /\ DOMAIN disk \subseteq DOMAIN disk'
    BY <2>4, StoredOK DEF Inv
  <2>7. /\ sync' \in SyncType /\ sync'.pc = "download" /\ sync'.names = sync.names
        /\ sync'.list = sync.list /\ sync'.contstr = next.contstr
        /\ sync'.contador = sync.contador + 1
    <3>1. sync \in SyncType /\ next.contstr \in Nat \ {0}
      BY <2>2 DEF Inv, SyncOK
    <3>2. PICK c \in Nat : c = sync.contador + 1
      BY <3>1 DEF SyncType
    <3>3. PICK d \in Nat \ {0} : d = next.contstr
      BY <3>1
    <3>4. sync' = [sync EXCEPT !.contador = c, !.contstr = d]
      BY <2>1, <3>2, <3>3
    <3> HIDE DEF next, Text
    <3> QED BY <1>1, <3>1, <3>2, <3>3, <3>4 DEF SyncType
  <2>8. SyncOK'
    BY <1>1, <2>2, <2>5, <2>7 DEF Inv, SyncOK
  <2>9. PositionOK'
    <3> SUFFICES ASSUME \A n \in ToSet(sync.names) : ~Has(n, "\n")
                 PROVE  /\ sync'.contador <= Len(sync'.names)
                        /\ sync'.contstr = LineStart(sync'.names, sync'.contador)
      BY <2>7 DEF PositionOK
    <3>1. /\ sync.contador \in 0 .. Len(sync.names)
          /\ sync.contador < Len(sync.names) =>
                next.contstr = LineStart(sync.names, sync.contador + 1)
          /\ sync.contador = Len(sync.names) => next.name = <<>>
      BY <1>1, NextNameIs
    <3>2. Len(sync.names) \in Nat
      BY DEF Inv, SyncOK, SyncType
    <3>3. sync.contador < Len(sync.names)
      BY <1>3, <3>1, <3>2
    <3> QED BY <2>7, <3>1, <3>2, <3>3
  <2>10. RemoteOK' /\ RestOK'
    BY <1>1, <2>5 DEF Inv, RemoteOK, RestOK
  <2> QED BY <2>6, <2>8, <2>9, <2>10 DEF Inv
<1> QED BY <1>2, <1>3

LEMMA ChangeOK ==
    ASSUME RestOK, Change
    PROVE  changes' \in 0 .. MaxChanges
<1>1. MaxChanges \in Nat
  BY NamesAssumption
<1> QED BY <1>1 DEF RestOK, Change

LEMMA CommandIs ==
    ASSUME NEW command \in Commands
    PROVE  command \in Text
BY NamesAssumption

LEMMA UploadInv ==
    ASSUME Inv, NEW command \in Commands, Upload(command) PROVE Inv'
<1>1. PICK path \in Text : path = getArgument(command)
  BY CommandIs, ArgumentsAre
<1>2. send_file(path) /\ Change /\ sync' = sync /\ removed' = removed
  BY <1>1 DEF Upload
<1>3. PICK content \in Content : remote' = Written(remote, pickFileNameFromPath(path), content)
  BY <1>2, SendFileIs DEF Inv
<1>4. disk' = disk /\ stuck' \in BOOLEAN
  BY <1>2, SendFileIs, OutcomeIs DEF Inv
<1>5. RemoteOK' /\ DOMAIN remote \subseteq DOMAIN remote'
  BY <1>3, FileNameOf, WrittenOK DEF Inv
<1>6. SyncOK' /\ PositionOK'
  BY <1>2, <1>4, <1>5, LocalGrows, SyncKept DEF Inv
<1>7. DiskOK' /\ RestOK'
  BY <1>2, <1>4, ChangeOK DEF Inv, DiskOK, RestOK
<1> QED BY <1>5, <1>6, <1>7 DEF Inv

LEMMA DownloadInv ==
    ASSUME Inv, NEW command \in Commands, Download(command) PROVE Inv'
<1>1. PICK name \in Text, finalpath \in Text :
         name = getArgument(command) /\ finalpath = getSecondArgument(command)
  BY CommandIs, ArgumentsAre
<1>2. get_file(name, finalpath) /\ Change /\ sync' = sync /\ removed' = removed
  BY <1>1 DEF Download
<1>3. PICK path \in Text, content \in Content : disk' = Stored(disk, path, content)
  BY <1>2, GetFileIs DEF Inv
<1>4. remote' = remote /\ stuck' \in BOOLEAN
  BY <1>2, GetFileIs, OutcomeIs DEF Inv
<1>5. DiskOK' /\ DOMAIN disk \subseteq DOMAIN disk'
  BY <1>3, StoredOK DEF Inv
<1>6. SyncOK' /\ PositionOK'
  BY <1>2, <1>4, <1>5, LocalGrows, SyncKept DEF Inv
<1>7. RemoteOK' /\ RestOK'
  BY <1>2, <1>4, ChangeOK DEF Inv, RemoteOK, RestOK
<1> QED BY <1>5, <1>6, <1>7 DEF Inv

(* The names under which users create files.                                *)
LEMMA CreatedIs ==
    ASSUME NEW n \in Created
    PROVE  n \in Text /\ ~Has(n, "/") /\ n \in FileName /\ n \in Content
<1>1. n \in Text /\ ~Has(n, "/")
  BY NamesAssumption
<1> QED BY <1>1, FileNameIs DEF Content

LEMMA CreateInv ==
    ASSUME Inv, NEW n \in Created, Create(n) PROVE Inv'
<1>1. PICK dir \in Directories : disk' = Stored(disk, dir \o n, n)
  BY DEF Create
<1>2. Change /\ UNCHANGED <<remote, sync, stuck, removed>>
  BY DEF Create
<1>3. dir \o n \in Text
  <2>1. dir \in Text
    <3>1. <<"/", "h", "/">> \in Text /\ <<"/", "h", "/", "s", "/">> \in Text
      BY Letters
    <3> QED BY <3>1, Home
  <2> QED BY <2>1, CreatedIs, ConcatProperties
<1>4. DiskOK' /\ DOMAIN disk \subseteq DOMAIN disk'
  BY <1>1, <1>3, CreatedIs, StoredOK DEF Inv
<1>5. SyncOK' /\ PositionOK'
  BY <1>2, <1>4, LocalGrows, SyncKept DEF Inv
<1>6. RemoteOK' /\ RestOK'
  BY <1>2, ChangeOK DEF Inv, RemoteOK, RestOK
<1> QED BY <1>4, <1>5, <1>6 DEF Inv

LEMMA OtherInv ==
    ASSUME Inv, NEW n \in Created, Other(n) PROVE Inv'
<1>1. remote' = [m \in DOMAIN remote \cup {n} |-> IF m = n THEN n ELSE remote[m]]
  BY DEF Other
<1>2. Change /\ UNCHANGED <<disk, sync, stuck, removed>>
  BY DEF Other
<1>3. remote' = Written(remote, n, n)
  BY <1>1 DEF Written
<1>4. RemoteOK' /\ DOMAIN remote \subseteq DOMAIN remote'
  BY <1>3, CreatedIs, WrittenOK DEF Inv
<1>5. SyncOK' /\ PositionOK'
  BY <1>2, <1>4, LocalGrows, SyncKept DEF Inv
<1>6. DiskOK' /\ RestOK'
  BY <1>2, ChangeOK DEF Inv, DiskOK, RestOK
<1> QED BY <1>4, <1>5, <1>6 DEF Inv

(* What is left when one file has been removed.                             *)
LEMMA WithoutIs ==
    ASSUME NEW files, NEW f
    PROVE  /\ DOMAIN Without(files, f) = DOMAIN files \ {f}
           /\ \A p \in DOMAIN files \ {f} : Without(files, f)[p] = files[p]
BY DEF Without, Restrict

LEMMA ErasedOK ==
    ASSUME DiskOK, NEW path, disk' = Without(disk, path)
    PROVE  DiskOK'
<1>1. DOMAIN disk' \subseteq DOMAIN disk /\ \A p \in DOMAIN disk' : disk'[p] = disk[p]
  BY WithoutIs
<1>2. IsFiniteSet(DOMAIN disk')
  BY <1>1, FS_Subset DEF DiskOK
<1>3. \A p \in DOMAIN disk' : DirOf(p) \in Directories /\ disk'[p] \in Content
  BY <1>1 DEF DiskOK
<1> QED BY <1>1, <1>2, <1>3 DEF DiskOK

LEMMA DeletedOK ==
    ASSUME RemoteOK, NEW name, remote' = Without(remote, name)
    PROVE  RemoteOK' /\ DOMAIN remote \subseteq DOMAIN remote' \cup {name}
<1>1. /\ DOMAIN remote' \subseteq DOMAIN remote
      /\ DOMAIN remote \subseteq DOMAIN remote' \cup {name}
      /\ \A n \in DOMAIN remote' : remote'[n] = remote[n]
  BY WithoutIs
<1>2. IsFiniteSet(DOMAIN remote')
  BY <1>1, FS_Subset DEF RemoteOK
<1>3. \A n \in DOMAIN remote' : remote'[n] \in Content
  BY <1>1 DEF RemoteOK
<1> QED BY <1>1, <1>2, <1>3 DEF RemoteOK

(* One path, one name.                                                      *)
LEMMA LocalShrinks ==
    ASSUME NEW n \in Text, disk' = Without(disk, devolvePathSyncDir \o n)
    PROVE  Local \subseteq Local' \cup {n}
<1> DEFINE k == Len(devolvePathSyncDir) + 1
<1> SUFFICES ASSUME NEW p \in DOMAIN disk, IsPrefix(devolvePathSyncDir, p),
                    SubSeq(p, k, Len(p)) # <<>>, SubSeq(p, k, Len(p)) # n
             PROVE  p \in DOMAIN disk'
  BY DEF Local
<1>1. CASE p = devolvePathSyncDir \o n
  <2>1. PICK d \in Text : d = devolvePathSyncDir
    BY SyncPaths, Home, Letters
  <2> QED BY <1>1, <2>1, DropPrefix
<1>2. CASE p # devolvePathSyncDir \o n
  BY <1>2, WithoutIs
<1> QED BY <1>1, <1>2

LEMMA RememberIs ==
    ASSUME RestOK, NEW n \in FileName, NEW pcs, Remember(n, pcs)
    PROVE  /\ removed \subseteq removed' /\ removed' \subseteq FileName
           /\ sync.pc \in pcs => n \in removed'
BY DEF RestOK, Remember

LEMMA DeleteInv ==
    ASSUME Inv, NEW command \in Commands, Delete(command) PROVE Inv'
<1>1. PICK name \in Text : name = getArgument(command)
  BY CommandIs, ArgumentsAre
<1> DEFINE path == devolvePathSyncDir \o name
<1>2. Change /\ sync' = sync /\ stuck' = stuck
  BY <1>1 DEF Delete
<1>3. CASE path \notin DOMAIN disk
  <2>1. UNCHANGED <<disk, remote, removed>>
    BY <1>1, <1>3 DEF Delete
  <2>2. SyncOK' /\ PositionOK'
    BY <1>2, <2>1, LocalGrows, SyncKept DEF Inv
  <2>3. DiskOK' /\ RemoteOK' /\ RestOK'
    BY <1>2, <2>1, ChangeOK DEF Inv, DiskOK, RemoteOK, RestOK
  <2> QED BY <2>2, <2>3 DEF Inv
<1>4. CASE path \in DOMAIN disk
  <2>1. /\ disk' = Without(disk, path) /\ remote' = Without(remote, name)
        /\ Remember(name, {"upload", "download"}) /\ name # <<>>
    BY <1>1, <1>4 DEF Delete
  <2>2. name \in FileName
    BY <1>1, <1>4, <2>1, NamedIs DEF Inv
  <2>3. DiskOK'
    BY <2>1, ErasedOK DEF Inv
  <2>4. RemoteOK' /\ DOMAIN remote \subseteq DOMAIN remote' \cup {name}
    BY <2>1, DeletedOK DEF Inv
  <2>5. Local \subseteq Local' \cup {name}
    BY <2>1, LocalShrinks
  <2>6. /\ removed \subseteq removed' /\ removed' \subseteq FileName
        /\ sync.pc \in {"upload", "download"} => name \in removed'
    BY <2>1, <2>2, RememberIs DEF Inv
  <2>7. SyncOK' /\ PositionOK'
    BY <1>2, <2>4, <2>5, <2>6, SyncKept DEF Inv
  <2>8. RestOK'
    BY <1>2, <2>6, ChangeOK DEF Inv, RestOK
  <2> QED BY <2>3, <2>4, <2>7, <2>8 DEF Inv
<1> QED BY <1>3, <1>4

LEMMA EraseInv ==
    ASSUME Inv, NEW n \in Local, Erase(n) PROVE Inv'
<1>1. n \in FileName /\ n \in Text
  BY LocalIs, FileNameIs DEF Inv
<1>2. /\ Change /\ disk' = Without(disk, devolvePathSyncDir \o n)
      /\ Remember(n, {"upload"}) /\ UNCHANGED <<remote, sync, stuck>>
  BY DEF Erase
<1>3. DiskOK'
  BY <1>2, ErasedOK DEF Inv
<1>4. Local \subseteq Local' \cup {n}
  BY <1>1, <1>2, LocalShrinks
<1>5. /\ removed \subseteq removed' /\ removed' \subseteq FileName
      /\ sync.pc \in {"upload"} => n \in removed'
  BY <1>1, <1>2, RememberIs DEF Inv
<1>6. SyncOK' /\ PositionOK'
  BY <1>2, <1>4, <1>5, SyncKept DEF Inv
<1>7. RemoteOK' /\ RestOK'
  BY <1>2, <1>5, ChangeOK DEF Inv, RemoteOK, RestOK
<1> QED BY <1>3, <1>6, <1>7 DEF Inv

LEMMA OtherDeleteInv ==
    ASSUME Inv, NEW n \in DOMAIN remote, OtherDelete(n) PROVE Inv'
<1>1. n \in FileName
  BY DEF Inv, RemoteOK
<1>2. /\ Change /\ remote' = Without(remote, n)
      /\ Remember(n, {"download"}) /\ UNCHANGED <<disk, sync, stuck>>
  BY DEF OtherDelete
<1>3. RemoteOK' /\ DOMAIN remote \subseteq DOMAIN remote' \cup {n}
  BY <1>2, DeletedOK DEF Inv
<1>4. /\ removed \subseteq removed' /\ removed' \subseteq FileName
      /\ sync.pc \in {"download"} => n \in removed'
  BY <1>1, <1>2, RememberIs DEF Inv
<1>5. SyncOK' /\ PositionOK'
  BY <1>2, <1>3, <1>4, LocalGrows, SyncKept DEF Inv
<1>6. DiskOK' /\ RestOK'
  BY <1>2, <1>4, ChangeOK DEF Inv, DiskOK, RestOK
<1> QED BY <1>3, <1>5, <1>6 DEF Inv

LEMMA StutterInv ==
    ASSUME Inv, UNCHANGED vars PROVE Inv'
BY DEF vars, Inv, DiskOK, RemoteOK, SyncOK, PositionOK, RestOK, Local

THEOREM Invariance == Spec => []Inv
<1>1. ASSUME Inv, [Next]_vars PROVE Inv'
  <2>1. CASE BeginSync
    BY <1>1, <2>1, BeginSyncInv
  <2>2. CASE NextUpload
    BY <1>1, <2>2, NextUploadInv
  <2>3. CASE List
    BY <1>1, <2>3, ListInv
  <2>4. CASE NextDownload
    BY <1>1, <2>4, NextDownloadInv
  <2>5. ASSUME NEW command \in Commands, Upload(command) PROVE Inv'
    BY <1>1, <2>5, UploadInv
  <2>6. ASSUME NEW command \in Commands, Download(command) PROVE Inv'
    BY <1>1, <2>6, DownloadInv
  <2>7. ASSUME NEW n \in Created, Create(n) PROVE Inv'
    BY <1>1, <2>7, CreateInv
  <2>8. ASSUME NEW n \in Created, Other(n) PROVE Inv'
    BY <1>1, <2>8, OtherInv
  <2>9. ASSUME NEW command \in Commands, Delete(command) PROVE Inv'
    BY <1>1, <2>9, DeleteInv
  <2>10. ASSUME NEW n \in Local, Erase(n) PROVE Inv'
    BY <1>1, <2>10, EraseInv
  <2>11. ASSUME NEW n \in DOMAIN remote, OtherDelete(n) PROVE Inv'
    BY <1>1, <2>11, OtherDeleteInv
  <2>12. CASE UNCHANGED vars
    BY <1>1, <2>12, StutterInv
  <2> QED BY <1>1, <2>1, <2>2, <2>3, <2>4, <2>5, <2>6, <2>7, <2>8, <2>9, <2>10, <2>11,
             <2>12 DEF Next
<1> QED BY <1>1, InitInv, PTL DEF Spec

-----------------------------------------------------------------------------
(* Theorems *)

(* Files lie in the two directories, uploads are of files that are there,   *)
(* and the listing being worked through is that of its names (TypeOK).      *)
THEOREM TypeCorrect == Spec => []TypeOK
<1>1. Inv => TypeOK
  BY DEF Inv, DiskOK, RemoteOK, SyncOK, RestOK, SyncType, Content, TypeOK
<1> QED BY <1>1, Invariance, PTL

(* findnext reads out of the server's text every name that list_files put   *)
(* into it, and then nothing, unless a name contains a newline.             *)
THEOREM ListingCorrect == Spec => []EnumeratesListing
<1>1. Inv => EnumeratesListing
  <2> SUFFICES ASSUME Inv, sync.pc = "download", \A n \in ToSet(sync.names) : ~Has(n, "\n")
               PROVE  findnext(sync.list, sync.contador, sync.contstr).name =
                         IF sync.contador < Len(sync.names) THEN sync.names[sync.contador + 1]
                         ELSE <<>>
    BY DEF EnumeratesListing
  <2> DEFINE next == findnext(sync.list, sync.contador, sync.contstr)
  <2>1. /\ sync.contador \in 0 .. Len(sync.names)
        /\ sync.contador < Len(sync.names) => next.name = sync.names[sync.contador + 1]
        /\ sync.contador = Len(sync.names) => next.name = <<>>
    BY NextNameIs
  <2>2. Len(sync.names) \in Nat
    BY DEF Inv, SyncOK, SyncType
  <2>3. sync.contador < Len(sync.names) \/ sync.contador = Len(sync.names)
    BY <2>1, <2>2
  <2>4. ~(sync.contador < Len(sync.names)) => next.name = <<>>
    BY <2>1, <2>3
  <2> HIDE DEF next
  <2>5. next.name = IF sync.contador < Len(sync.names) THEN sync.names[sync.contador + 1]
                    ELSE <<>>
    BY <2>1, <2>4
  <2> QED BY <2>5 DEF next
<1> QED BY <1>1, Invariance, PTL

(* A synchronisation that leaves a receiver waiting has met an odd name, a  *)
(* file that was removed since it was listed, or a content that strands.    *)
THEOREM StrandsCorrect == Spec => SyncStrandsForAReason
<1> DEFINE B == \/ sync.pc = "upload" /\
                      LET n == Head(sync.todo)
                      IN  ~Plain(n) \/ n \in removed \/ Before(disk, SyncDir \o n) \in Strandable
                \/ sync.pc = "download" /\
                      LET n == findnext(sync.list, sync.contador, sync.contstr).name
                      IN  \/ \E m \in ToSet(sync.names) : Has(m, "\n")
                          \/ n \in removed \/ Before(remote, n) \in Strandable
           A == ~stuck /\ stuck' /\ sync' # sync => B
<1>1. ASSUME Inv, [Next]_vars PROVE A
  <2> SUFFICES ASSUME ~stuck, stuck', sync' # sync PROVE B
    OBVIOUS
  <2>1. CASE BeginSync
    BY <2>1 DEF BeginSync
  <2>2. CASE NextUpload
    <3>1. sync.pc = "upload" /\ sync.todo # <<>>
      BY <2>2 DEF NextUpload
    <3>2. PICK n \in Text : n = Head(sync.todo) /\ n \in Local \cup removed
      BY <1>1, <3>1, HeadOfTodo
    <3> SUFFICES ASSUME Plain(n), n \notin removed
                 PROVE  Before(disk, SyncDir \o n) \in Strandable
      BY <3>1, <3>2
    <3>3. PICK path \in Text : path = devolvePathSyncDirBruto \o n
      BY <1>1, <3>1, <3>2, HeadOfTodo
    <3>4. send_file(path)
      BY <2>2, <3>2, <3>3 DEF NextUpload
    <3>5. stuck' \in Outcomes(disk, removeBlank(path))
      BY <1>1, <3>4, SendFileIs DEF Inv
    <3>6. removeBlank(path) = SyncDir \o n
      BY <3>2, <3>3, SyncPathOpened
    <3>7. SyncDir \o n \in DOMAIN disk
      BY <1>1, <3>2, LocalIs DEF Inv
    <3> QED BY <3>5, <3>6, <3>7, OutcomeIs
  <2>3. CASE List
    BY <2>3 DEF List
  <2>4. CASE NextDownload
    <3> DEFINE next == findnext(sync.list, sync.contador, sync.contstr)
    <3>1. sync.pc = "download"
      BY <2>4 DEF NextDownload
    <3> SUFFICES ASSUME \A m \in ToSet(sync.names) : ~Has(m, "\n"), next.name \notin removed
                 PROVE  Before(remote, next.name) \in Strandable
      BY <3>1
    <3>2. next.name # <<>>
      BY <2>4 DEF NextDownload
    <3>3. get_file(next.name, devolvePathSyncDirBruto)
      BY <2>4, <3>2 DEF NextDownload
    <3>4. stuck' \in Outcomes(remote, next.name)
      BY <3>3 DEF get_file
    <3>5. /\ sync.contador \in 0 .. Len(sync.names)
          /\ sync.contador < Len(sync.names) => next.name = sync.names[sync.contador + 1]
          /\ sync.contador = Len(sync.names) => next.name = <<>>
      BY <1>1, <3>1, NextNameIs
    <3>6. sync.names \in Seq(FileName) /\ ToSet(sync.names) \subseteq DOMAIN remote \cup removed
      BY <1>1, <3>1 DEF Inv, SyncOK, SyncType
    <3>7. sync.contador + 1 \in DOMAIN sync.names /\ next.name = sync.names[sync.contador + 1]
      BY <3>2, <3>5, <3>6
    <3>8. next.name \in ToSet(sync.names)
      BY <3>7 DEF ToSet
    <3>9. next.name \in DOMAIN remote
      BY <3>6, <3>8
    <3> QED BY <3>4, <3>9, OutcomeIs
  <2>5. ASSUME NEW command \in Commands, Upload(command) \/ Download(command) \/ Delete(command)
        PROVE FALSE
    BY <2>5 DEF Upload, Download, Delete
  <2>6. ASSUME NEW n \in Created, Create(n) \/ Other(n) PROVE FALSE
    BY <2>6 DEF Create, Other
  <2>7. ASSUME NEW n, Erase(n) \/ OtherDelete(n) PROVE FALSE
    BY <2>7 DEF Erase, OtherDelete
  <2>8. CASE UNCHANGED vars
    BY <2>8 DEF vars
  <2> QED BY <1>1, <2>1, <2>2, <2>3, <2>4, <2>5, <2>6, <2>7, <2>8 DEF Next
<1>2. Spec => [][A]_vars
  <2>1. Inv /\ [Next]_vars => [A]_vars
    BY <1>1
  <2> HIDE DEF A
  <2> QED BY <2>1, Invariance, PTL DEF Spec
<1> QED BY <1>2 DEF SyncStrandsForAReason, A, B

-----------------------------------------------------------------------------
(* Content follows the name *)

(* What is stored under dir/n, for a plain n that is what n was created as. *)
LEMMA StoredFollows ==
    ASSUME ~stuck => \A p \in DOMAIN disk :
              Plain(pickFileNameFromPath(p)) => disk[p] = pickFileNameFromPath(p),
           NEW path \in Text, NEW content, disk' = Stored(disk, path, content),
           Plain(pickFileNameFromPath(path)) /\ ~stuck => content = pickFileNameFromPath(path)
    PROVE  ~stuck => \A p \in DOMAIN disk' :
              Plain(pickFileNameFromPath(p)) => disk'[p] = pickFileNameFromPath(p)
<1>1. CASE DirOf(path) \notin Directories
  BY <1>1 DEF Stored
<1>2. CASE DirOf(path) \in Directories
  <2>1. disk' = [p \in DOMAIN disk \cup {path} |-> IF p = path THEN content ELSE disk[p]]
    BY <1>2 DEF Stored
  <2> QED BY <2>1
<1> QED BY <1>1, <1>2

LEMMA SendFollows ==
    ASSUME Inv, ContentFollowsName, ~stuck,
           NEW path \in Text, ~Has(path, "\n"), send_file(path)
    PROVE  ContentFollowsName'
<1> SUFFICES ASSUME ~stuck' PROVE ContentFollowsName'
  BY DEF ContentFollowsName
<1>1. PICK name \in FileName : name = pickFileNameFromPath(path) /\ name \in Text /\ ~Has(name, "/")
  BY FileNameOf, FileNameIs
<1>2. disk' = disk /\ removeBlank(path) \in DOMAIN disk
  BY SendFileIs, OutcomeIs DEF Inv
<1>3. PICK content : /\ remote' = Written(remote, name, content)
                     /\ content = disk[removeBlank(path)]
  BY <1>1, <1>2, SendFileIs DEF Inv
<1>4. Plain(name) => content = name
  <2> SUFFICES ASSUME Plain(name) PROVE content = name
    OBVIOUS
  <2>1. Has(path, "/")
    <3>1. DirOf(removeBlank(path)) \in Directories
      BY <1>2 DEF Inv, DiskOK
    <3> QED BY <3>1, NoDirectory
  <2>2. PICK u \in Text : path = u \o <<"/">> \o name /\ ~Has(u, "\n")
    BY <1>1, <2>1, SplitPath
  <2>3. removeBlank(path) = (HOME \o Squeeze(u)) \o <<"/">> \o name
    BY <1>1, <2>2, RemoveBlankParts
  <2>4. PICK v \in Text : v = HOME \o Squeeze(u)
    BY SqueezeType, Home, ConcatProperties
  <2>5. pickFileNameFromPath(v \o <<"/">> \o name) = name
    BY <1>1, Parts
  <2>6. pickFileNameFromPath(removeBlank(path)) = name
    BY <2>3, <2>4, <2>5
  <2> QED BY <1>2, <1>3, <2>6 DEF ContentFollowsName
<1> QED BY <1>2, <1>3, <1>4 DEF ContentFollowsName, Written

(* A download into a directory.                                             *)
LEMMA GetFollows ==
    ASSUME Inv, ContentFollowsName, ~stuck,
           NEW name \in Text, NEW finalpath \in Text, get_file(name, finalpath),
           Len(finalpath) <= 2 \/ finalpath[Len(finalpath)] = "/"
    PROVE  ContentFollowsName'
<1> SUFFICES ASSUME ~stuck' PROVE ContentFollowsName'
  BY DEF ContentFollowsName
<1> DEFINE rest == SubSeq(finalpath, 3, Len(finalpath))
           path == (HOME \o <<"/">>) \o rest \o name
<1>1. remote' = remote /\ name \in DOMAIN remote /\ path \in Text
  BY GetFileIs, OutcomeIs DEF Inv
<1>2. PICK content : disk' = Stored(disk, path, content) /\ content = remote[name]
  BY <1>1, GetFileIs DEF Inv
<1>3. ~Has(name, "/")
  BY <1>1, FileNameIs DEF Inv, RemoteOK
<1>4. \E u \in Text : (HOME \o <<"/">>) \o rest = u \o <<"/">>
  <2>0. PICK l \in Nat : l = Len(finalpath)
    OBVIOUS
  <2>1. CASE l <= 2
    <3>1. rest = <<>>
      BY <2>0, <2>1
    <3>2. HOME \o <<"/">> \in Text
      BY Home, Letters, ConcatProperties
    <3> QED BY <3>1, <3>2, Home, ConcatEmptySeq
  <2>2. CASE l > 2
    <3>1. PICK r \in Text : /\ Len(r) = l - 3
                            /\ \A i \in 1 .. l - 3 : r[i] = finalpath[2 + i]
      <4>1. SubSeq(finalpath, 3, l - 1) \in Text
        BY <2>0, <2>2
      <4>2. Len(SubSeq(finalpath, 3, l - 1)) = l - 3
        BY <2>2
      <4>3. \A i \in 1 .. l - 3 : SubSeq(finalpath, 3, l - 1)[i] = finalpath[2 + i]
        BY <2>0, <2>2
      <4> QED BY <4>1, <4>2, <4>3
    <3>2. rest = r \o <<"/">>
      <4>1. /\ rest \in Text /\ Len(rest) = l - 2 /\ \A i \in 1 .. l - 2 : rest[i] = finalpath[2 + i]
        BY <2>0, <2>2
      <4>2. Len(r) = l - 3 /\ \A i \in 1 .. l - 3 : r[i] = finalpath[2 + i]
        BY <3>1
      <4>3. <<"/">> \in Text /\ Len(<<"/">>) = 1 /\ <<"/">>[1] = "/"
        BY Letters
      <4>4. Len(rest) = Len(r) + Len(<<"/">>)
        BY <4>1, <4>2, <4>3
      <4>5. \A i \in 1 .. Len(r) : rest[i] = r[i]
        BY <4>1, <4>2
      <4>6. \A i \in 1 .. Len(<<"/">>) : rest[Len(r) + i] = <<"/">>[i]
        BY <2>0, <2>2, <4>1, <4>2, <4>3
      <4> HIDE DEF rest
      <4> QED BY <3>1, <4>1, <4>3, <4>4, <4>5, <4>6, ConcatIs
    <3>3. PICK a \in Text : a = HOME \o <<"/">>
      <4>1. <<"/", "h", "/">> \in Text
        BY Letters
      <4> QED BY <4>1, Home
    <3>4. <<"/">> \in Text
      BY Letters
    <3>5. (a \o r) \o <<"/">> = a \o (r \o <<"/">>)
      BY <3>4, Associative
    <3>6. a \o r \in Text
      BY ConcatProperties
    <3>7. (HOME \o <<"/">>) \o rest = (a \o r) \o <<"/">>
      BY <3>2, <3>3, <3>5
    <3> HIDE DEF rest
    <3> QED BY <3>6, <3>7
  <2>3. l <= 2 \/ l > 2
    BY <2>0
  <2> HIDE DEF rest
  <2> QED BY <2>1, <2>2, <2>3
<1>5. PICK u \in Text : path = u \o <<"/">> \o name
  BY <1>4
<1>6. pickFileNameFromPath(path) = name
  BY <1>3, <1>5, Parts
<1>7. Plain(name) => content = name
  BY <1>1, <1>2 DEF ContentFollowsName
<1>8. \A p \in DOMAIN disk :
         Plain(pickFileNameFromPath(p)) => disk[p] = pickFileNameFromPath(p)
  BY DEF ContentFollowsName
<1> HIDE DEF path
<1>9. \A p \in DOMAIN disk' :
         Plain(pickFileNameFromPath(p)) => disk'[p] = pickFileNameFromPath(p)
  BY <1>1, <1>2, <1>6, <1>7, <1>8, StoredFollows
<1> QED BY <1>1, <1>9 DEF ContentFollowsName

(* What is found under a plain name was created under it, if the user names *)
(* a directory for every download.                                          *)
THEOREM ContentCorrect ==
    ASSUME DownloadsToDirectories
    PROVE  Spec => []ContentFollowsName
<1>1. Init => ContentFollowsName
  BY DEF Init, ContentFollowsName
<1>2. ASSUME Inv, ContentFollowsName, [Next]_vars PROVE ContentFollowsName'
  <2>1. CASE BeginSync
    BY <1>2, <2>1 DEF BeginSync, ContentFollowsName
  <2>2. CASE NextUpload
    <3>1. sync.pc = "upload" /\ sync.todo # <<>> /\ ~stuck
      BY <2>2 DEF NextUpload
    <3>2. PICK n \in Text : n = Head(sync.todo)
      BY <1>2, <3>1, HeadOfTodo
    <3>3. PICK path \in Text : path = devolvePathSyncDirBruto \o n
      BY <1>2, <3>1, <3>2, HeadOfTodo
    <3>4. send_file(path)
      BY <2>2, <3>2, <3>3 DEF NextUpload
    <3>5. CASE ~Has(n, "\n")
      <4>1. devolvePathSyncDirBruto \in Text /\ ~Has(devolvePathSyncDirBruto, "\n")
        BY SyncPaths, Letters DEF Has
      <4>2. PICK d \in Text : d = devolvePathSyncDirBruto /\ ~Has(d, "\n")
        BY <4>1
      <4>3. ~Has(d \o n, "\n")
        BY <3>5, <4>2 DEF Has
      <4>4. ~Has(path, "\n")
        BY <3>3, <4>2, <4>3
      <4> QED BY <1>2, <3>1, <3>4, <4>4, SendFollows
    <3>6. CASE Has(n, "\n")
      <4>1. n \in FileName
        BY <1>2, <3>1, <3>2, HeadOfTodo, LocalIs DEF Inv, RestOK
      <4>2. pickFileNameFromPath(path) = n
        <5>1. n \in Text /\ ~Has(n, "/")
          BY <4>1, FileNameIs
        <5>2. <<"~", "/", "s">> \in Text
          BY SyncPaths
        <5> QED BY <3>3, <5>1, <5>2, SyncPaths, Parts
      <4>3. PICK content : remote' = Written(remote, n, content)
        BY <1>2, <3>4, <4>2, SendFileIs DEF Inv
      <4>4. disk' = disk
        BY <3>4 DEF send_file
      <4> QED BY <1>2, <3>1, <3>6, <4>3, <4>4 DEF ContentFollowsName, Written, Plain
    <3> QED BY <3>5, <3>6
  <2>3. CASE List
    BY <1>2, <2>3 DEF List, ContentFollowsName
  <2>4. CASE NextDownload
    <3> DEFINE next == findnext(sync.list, sync.contador, sync.contstr)
    <3>1. sync.pc = "download" /\ ~stuck
      BY <2>4 DEF NextDownload
    <3>2. CASE next.name = <<>>
      BY <1>2, <2>4, <3>2 DEF NextDownload, ContentFollowsName
    <3>3. CASE next.name # <<>>
      <4>1. get_file(next.name, devolvePathSyncDirBruto)
        BY <2>4, <3>3 DEF NextDownload
      <4>2. next.name \in Text
        BY <1>2, <3>1, NextName
      <4>3. PICK d \in Text : d = devolvePathSyncDirBruto /\ d[Len(d)] = "/"
        <5>1. devolvePathSyncDirBruto = <<"~", "/", "s", "/">>
          BY SyncPaths
        <5>3. <<"~", "/", "s", "/">> \in Text
          BY Letters
        <5>2. Len(<<"~", "/", "s", "/">>) = 4 /\ <<"~", "/", "s", "/">>[4] = "/"
          OBVIOUS
        <5> QED BY <5>1, <5>2, <5>3
      <4> HIDE DEF next
      <4> QED BY <1>2, <3>1, <4>1, <4>2, <4>3, GetFollows
    <3> QED BY <3>2, <3>3
  <2>5. ASSUME NEW command \in Commands, Upload(command) PROVE ContentFollowsName'
    <3>1. PICK path \in Text : path = getArgument(command) /\ ~Has(path, "\n")
      BY CommandIs, ArgumentsAre
    <3>2. send_file(path) /\ ~stuck
      BY <2>5, <3>1 DEF Upload
    <3> QED BY <1>2, <3>1, <3>2, SendFollows
  <2>6. ASSUME NEW command \in Commands, Download(command) PROVE ContentFollowsName'
    <3>1. PICK name \in Text, finalpath \in Text :
             name = getArgument(command) /\ finalpath = getSecondArgument(command)
      BY CommandIs, ArgumentsAre
    <3>2. get_file(name, finalpath) /\ ~stuck /\ command[1] = "d"
      BY <2>6, <3>1 DEF Download
    <3>3. Len(finalpath) <= 2 \/ finalpath[Len(finalpath)] = "/"
      BY <3>1, <3>2 DEF DownloadsToDirectories
    <3> QED BY <1>2, <3>2, <3>3, GetFollows
  <2>7. ASSUME NEW n \in Created, Create(n) PROVE ContentFollowsName'
    <3>1. PICK dir \in Directories : disk' = Stored(disk, dir \o n, n)
      BY <2>7 DEF Create
    <3>2. remote' = remote /\ stuck' = stuck
      BY <2>7 DEF Create
    <3>3. PICK u \in Text : dir = u \o <<"/">>
      <4>1. HOME \in Text /\ <<"/", "h", "/", "s">> \in Text
        BY Home
      <4> QED BY <4>1, Home
    <3>4. dir \o n \in Text /\ pickFileNameFromPath(dir \o n) = n
      BY <3>3, CreatedIs, Parts
    <3>5. ~stuck => \A p \in DOMAIN disk :
             Plain(pickFileNameFromPath(p)) => disk[p] = pickFileNameFromPath(p)
      BY <1>2 DEF ContentFollowsName
    <3>6. ~stuck => \A p \in DOMAIN disk' :
             Plain(pickFileNameFromPath(p)) => disk'[p] = pickFileNameFromPath(p)
      BY <3>1, <3>4, <3>5, StoredFollows
    <3> QED BY <1>2, <3>2, <3>6 DEF ContentFollowsName
  <2>8. ASSUME NEW n \in Created, Other(n) PROVE ContentFollowsName'
    <3>1. remote' = [m \in DOMAIN remote \cup {n} |-> IF m = n THEN n ELSE remote[m]]
      BY <2>8 DEF Other
    <3>2. disk' = disk /\ stuck' = stuck
      BY <2>8 DEF Other
    <3> QED BY <1>2, <3>1, <3>2 DEF ContentFollowsName
  <2>9. ASSUME NEW command \in Commands, Delete(command) PROVE ContentFollowsName'
    <3>1. stuck' = stuck
      BY <2>9 DEF Delete
    <3>2. /\ DOMAIN disk' \subseteq DOMAIN disk /\ \A p \in DOMAIN disk' : disk'[p] = disk[p]
          /\ DOMAIN remote' \subseteq DOMAIN remote
          /\ \A m \in DOMAIN remote' : remote'[m] = remote[m]
      <4> DEFINE path == devolvePathSyncDir \o getArgument(command)
      <4>1. CASE path \in DOMAIN disk
        <5>1. /\ disk' = Without(disk, path)
              /\ remote' = Without(remote, getArgument(command))
          BY <2>9, <4>1 DEF Delete
        <5> HIDE DEF path
        <5> QED BY <5>1, WithoutIs
      <4>2. CASE path \notin DOMAIN disk
        BY <2>9, <4>2 DEF Delete
      <4> QED BY <4>1, <4>2
    <3> QED BY <1>2, <3>1, <3>2 DEF ContentFollowsName
  <2>10. ASSUME NEW n \in Local, Erase(n) PROVE ContentFollowsName'
    <3>1. UNCHANGED <<remote, stuck>>
      BY <2>10 DEF Erase
    <3>2. DOMAIN disk' \subseteq DOMAIN disk /\ \A p \in DOMAIN disk' : disk'[p] = disk[p]
      BY <2>10, WithoutIs DEF Erase
    <3> QED BY <1>2, <3>1, <3>2 DEF ContentFollowsName
  <2>11. ASSUME NEW n \in DOMAIN remote, OtherDelete(n) PROVE ContentFollowsName'
    <3>1. UNCHANGED <<disk, stuck>>
      BY <2>11 DEF OtherDelete
    <3>2. DOMAIN remote' \subseteq DOMAIN remote /\ \A m \in DOMAIN remote' : remote'[m] = remote[m]
      BY <2>11, WithoutIs DEF OtherDelete
    <3> QED BY <1>2, <3>1, <3>2 DEF ContentFollowsName
  <2>12. CASE UNCHANGED vars
    BY <1>2, <2>12 DEF vars, ContentFollowsName
  <2> QED BY <1>2, <2>1, <2>2, <2>3, <2>4, <2>5, <2>6, <2>7, <2>8, <2>9, <2>10, <2>11,
             <2>12 DEF Next
<1> QED BY <1>1, <1>2, Invariance, PTL DEF Spec

=============================================================================
