---------------------------- MODULE Documents_proofs ----------------------------
(***************************************************************************)
(* The shared documents, for every number of requests, cap and set of facts. *)
(* The edits by index do what they mean, position by position; and a         *)
(* document that never was in two hands at once is what its edits make, in   *)
(* their order, through loads, cuts, writes and crashes.                     *)
(*                                                                           *)
(* Forgetting a fact is a recursive function over the places of a list.  A   *)
(* claim about it holds at every place because there is no first place at    *)
(* which it fails (LeastNumber, from the library's well-founded order on     *)
(* finite sets: its induction theorems take an operator, this needs none).   *)
(***************************************************************************)
EXTENDS Documents, FiniteSetTheorems, TLAPS

USE DocumentsAssumption

\* Numbers up to n, if there are any, have a least one.
LEMMA LeastNumber ==
  ASSUME NEW n \in Nat, NEW T, T \subseteq 0..n, T # {}
  PROVE  \E x \in T : \A y \in T : x <= y
<1> DEFINE R == StrictSubsetOrdering(0..n)
           I == {0..x : x \in T}
<1>1. IsWellFoundedOn(R, SUBSET (0..n))
  <2>1. IsFiniteSet(0..n)
    BY FS_Interval
  <2> QED
    BY <2>1, FS_StrictSubsetOrderingWellFounded, FS_FiniteSubsetsOfFinite
<1>2. I \subseteq SUBSET (0..n) /\ I # {}
  <2>1. \A x \in T : 0..x \subseteq 0..n
    OBVIOUS
  <2> QED
    BY <2>1
<1>3. PICK s \in I : \A r \in I : ~ (<<r, s>> \in R)
  <2> HIDE DEF R, I
  <2> QED
    BY <1>1, <1>2, WFMin
<1>4. PICK x \in T : s = 0..x
  BY <1>3
<1>5. ASSUME NEW y \in T PROVE x <= y
  <2> SUFFICES ASSUME y < x PROVE FALSE
    OBVIOUS
  <2>1. 0..y \in I /\ 0..y \subseteq 0..x /\ x \in 0..x /\ x \notin 0..y
    OBVIOUS
  <2>2. <<0..y, 0..x>> \in R
    BY <1>2, <1>3, <1>4, <2>1 DEF StrictSubsetOrdering
  <2> QED
    BY <1>3, <1>4, <2>1, <2>2
<1> QED
  BY <1>5

LEMMA LastOfIs ==
  ASSUME NEW S, NEW s \in Seq(S), NEW n \in Nat
  PROVE  LastOf(s, n) \in Seq(S) /\ Len(LastOf(s, n)) <= n
BY DEF LastOf

\* The facts left of the first n, for every n.
Lefts(facts, f, left) ==
  left = [n \in 0..Len(facts) |->
            IF n = 0 THEN <<>>
            ELSE IF facts[n] = f THEN left[n - 1] ELSE Append(left[n - 1], facts[n])]

LEMMA LeftsExist ==
  ASSUME NEW S, NEW facts \in Seq(S), NEW f
  PROVE  \E left : Lefts(facts, f, left)
<1> DEFINE Next(l, n) == IF facts[n] = f THEN l ELSE Append(l, facts[n])
           Upto(m, g) == /\ g \in [0..m -> Seq(S)] /\ g[0] = <<>>
                         /\ \A n \in 1..m : g[n] = Next(g[n - 1], n)
           N == Len(facts)
           T == {m \in 0..N : ~\E g : Upto(m, g)}
<1>1. N \in Nat
  OBVIOUS
<1>2. T = {}
  <2> SUFFICES ASSUME T # {} PROVE FALSE
    OBVIOUS
  <2>1. PICK m \in T : \A y \in T : m <= y
    <3>1. T \subseteq 0..N
      OBVIOUS
    <3> HIDE DEF T
    <3> QED
      BY <1>1, <3>1, LeastNumber
  <2>2. m # 0
    <3>1. Upto(0, [n \in 0..0 |-> <<>>])
      OBVIOUS
    <3> QED
      BY <3>1
  <2>3. m \in 1..N /\ m - 1 \in 0..N /\ ~(m <= m - 1)
    BY <1>1, <2>2
  <2>4. PICK g : Upto(m - 1, g)
    BY <2>1, <2>3
  <2> DEFINE h == [n \in 0..m |-> IF n = m THEN Next(g[m - 1], m) ELSE g[n]]
  <2>5. \A n \in 0..(m - 1) : g[n] \in Seq(S)
    BY <2>4
  <2>6. facts[m] \in S /\ g[m - 1] \in Seq(S)
    BY <2>3, <2>5
  <2>7. Next(g[m - 1], m) \in Seq(S)
    BY <2>6
  <2>8. \A n \in 0..m : n = m \/ n \in 0..(m - 1)
    BY <2>3
  <2>9. h \in [0..m -> Seq(S)]
    BY <2>5, <2>7, <2>8
  <2>10. h[0] = <<>>
    BY <2>2, <2>3, <2>4
  <2>11. ASSUME NEW n \in 1..m PROVE h[n] = Next(h[n - 1], n)
    <3>1. n \in 0..m /\ n - 1 \in 0..m /\ n - 1 # m
      BY <2>3
    <3>2. h[n - 1] = g[n - 1]
      BY <3>1
    <3>3. CASE n = m
      BY <3>1, <3>2, <3>3
    <3>4. CASE n # m
      <4>1. n \in 1..(m - 1)
        BY <3>4, <2>3
      <4>2. g[n] = Next(g[n - 1], n)
        BY <4>1, <2>4
      <4> QED
        BY <3>1, <3>2, <3>4, <4>2
    <3> QED
      BY <3>3, <3>4
  <2>12. Upto(m, h)
    <3> HIDE DEF h, Next
    <3> QED
      BY <2>9, <2>10, <2>11
  <2> QED
    BY <2>1, <2>12
<1>3. PICK g : Upto(N, g)
  BY <1>1, <1>2
<1>4. g = [n \in 0..N |-> g[n]]
  BY <1>3
<1>5. ASSUME NEW n \in 0..N
      PROVE  g[n] = IF n = 0 THEN <<>> ELSE IF facts[n] = f THEN g[n - 1]
                                      ELSE Append(g[n - 1], facts[n])
  <2>1. CASE n = 0
    BY <1>3, <2>1
  <2>2. CASE n # 0
    <3>1. n \in 1..N
      BY <1>1, <2>2
    <3>2. g[n] = Next(g[n - 1], n)
      BY <1>3, <3>1
    <3> QED
      BY <2>2, <3>2
  <2> QED
    BY <2>1, <2>2
<1>6. Lefts(facts, f, g)
  BY <1>4, <1>5 DEF Lefts
<1> QED
  BY <1>6

LEMMA ForgottenIs ==
  ASSUME NEW S, NEW facts \in Seq(S), NEW f
  PROVE  Forgotten(facts, f) \in Seq(S) /\ Len(Forgotten(facts, f)) <= Len(facts)
<1> DEFINE N == Len(facts)
           left == CHOOSE l : Lefts(facts, f, l)
           T == {n \in 0..N : ~(left[n] \in Seq(S) /\ Len(left[n]) <= n)}
<1>1. Lefts(facts, f, left)
  BY LeftsExist
<1>2. Forgotten(facts, f) = left[N]
  BY DEF Forgotten, Lefts
<1> HIDE DEF left
<1>3. T = {}
  <2> SUFFICES ASSUME T # {} PROVE FALSE
    OBVIOUS
  <2>1. PICK m \in T : \A y \in T : m <= y
    <3>1. T \subseteq 0..N /\ N \in Nat
      OBVIOUS
    <3> HIDE DEF T
    <3> QED
      BY <3>1, LeastNumber
  <2>2. left[m] = IF m = 0 THEN <<>> ELSE IF facts[m] = f THEN left[m - 1]
                                     ELSE Append(left[m - 1], facts[m])
    BY <1>1 DEF Lefts
  <2>3. m # 0
    <3>1. <<>> \in Seq(S) /\ Len(<<>>) <= 0
      OBVIOUS
    <3> QED
      BY <2>2, <3>1
  <2>4. m \in 1..N /\ m - 1 \in 0..N /\ ~(m <= m - 1) /\ facts[m] \in S
    BY <2>3
  <2>5. left[m - 1] \in Seq(S) /\ Len(left[m - 1]) <= m - 1
    BY <2>1, <2>4
  <2>6. Len(left[m - 1]) \in Nat
    BY <2>5
  <2>7. CASE facts[m] = f
    BY <2>2, <2>3, <2>4, <2>5, <2>6, <2>7
  <2>8. CASE facts[m] # f
    <3>1. left[m] = Append(left[m - 1], facts[m])
      BY <2>2, <2>3, <2>8
    <3>2. left[m] \in Seq(S) /\ Len(left[m]) = Len(left[m - 1]) + 1
      BY <2>4, <2>5, <3>1
    <3> QED
      BY <2>4, <2>5, <2>6, <3>2
  <2> QED
    BY <2>7, <2>8
<1>4. N \in 0..N
  OBVIOUS
<1> QED
  BY <1>2, <1>3, <1>4

-----------------------------------------------------------------------------
(* The edits by index *)

LEMMA RemovedIs ==
  ASSUME NEW S, NEW s \in Seq(S), NEW i \in 1..Len(s)
  PROVE  /\ RemoveAt(s, i) \in Seq(S) /\ Len(RemoveAt(s, i)) = Len(s) - 1
         /\ RemoveAt(s, i) = [k \in 1..(Len(s) - 1) |-> s[IF k < i THEN k ELSE k + 1]]
<1> DEFINE a == SubSeq(s, 1, i - 1)
           b == SubSeq(s, i + 1, Len(s))
<1>1. a \in Seq(S) /\ Len(a) = i - 1 /\ \A k \in 1..(i - 1) : a[k] = s[k]
  OBVIOUS
<1>2. b \in Seq(S) /\ Len(b) = Len(s) - i /\ \A k \in 1..(Len(s) - i) : b[k] = s[k + i]
  OBVIOUS
<1>3. RemoveAt(s, i) = a \o b
  BY DEF RemoveAt
<1> HIDE DEF a, b
<1>4. RemoveAt(s, i) \in Seq(S) /\ Len(RemoveAt(s, i)) = Len(s) - 1
  BY <1>1, <1>2, <1>3
<1>5. ASSUME NEW k \in 1..(Len(s) - 1)
      PROVE  RemoveAt(s, i)[k] = s[IF k < i THEN k ELSE k + 1]
  <2>1. CASE k < i
    BY <1>1, <1>2, <1>3, <2>1
  <2>2. CASE ~(k < i)
    <3>1. k - Len(a) \in 1..(Len(s) - i) /\ (k - Len(a)) + i = k + 1
      BY <1>1, <2>2
    <3>2. RemoveAt(s, i)[k] = b[k - Len(a)]
      BY <1>1, <1>2, <1>3, <2>2
    <3> QED
      BY <1>2, <2>2, <3>1, <3>2
  <2> QED
    BY <2>1, <2>2
<1>6. RemoveAt(s, i) = [k \in 1..(Len(s) - 1) |-> RemoveAt(s, i)[k]]
  BY <1>4
<1> QED
  BY <1>4, <1>5, <1>6

\* What stands at k when x has been put in before the j-th, and from where a moved fact came.
Put(s, j, x, k) == IF k < j THEN s[k] ELSE IF k = j THEN x ELSE s[k - 1]
From(i, j, k) == CASE k = j -> i
                   [] i <= k /\ k < j -> k + 1
                   [] j < k /\ k <= i -> k - 1
                   [] OTHER -> k

LEMMA InsertedIs ==
  ASSUME NEW S, NEW s \in Seq(S), NEW j \in 1..(Len(s) + 1), NEW x \in S
  PROVE  /\ InsertAt(s, j, x) \in Seq(S) /\ Len(InsertAt(s, j, x)) = Len(s) + 1
         /\ \A k \in 1..(Len(s) + 1) : InsertAt(s, j, x)[k] = Put(s, j, x, k)
<1> DEFINE a == SubSeq(s, 1, j - 1)
           b == SubSeq(s, j, Len(s))
           c == Append(a, x)
<1>1. a \in Seq(S) /\ Len(a) = j - 1 /\ \A k \in 1..(j - 1) : a[k] = s[k]
  OBVIOUS
<1>2. /\ b \in Seq(S) /\ Len(b) = Len(s) - j + 1
      /\ \A k \in 1..(Len(s) - j + 1) : b[k] = s[k + j - 1]
  OBVIOUS
<1>3. InsertAt(s, j, x) = a \o <<x>> \o b
  BY DEF InsertAt
<1> HIDE DEF a, b
<1>4. a \o <<x>> = c
  BY <1>1
<1>5. c \in Seq(S) /\ Len(c) = j /\ c[j] = x /\ \A k \in 1..(j - 1) : c[k] = s[k]
  BY <1>1
<1>6. InsertAt(s, j, x) = c \o b
  BY <1>3, <1>4
<1> HIDE DEF c
<1>7. InsertAt(s, j, x) \in Seq(S) /\ Len(InsertAt(s, j, x)) = Len(s) + 1
  BY <1>2, <1>5, <1>6
<1>8. ASSUME NEW k \in 1..(Len(s) + 1)
      PROVE  InsertAt(s, j, x)[k] = Put(s, j, x, k)
  <2>1. CASE k <= j
    BY <1>2, <1>5, <1>6, <2>1 DEF Put
  <2>2. CASE ~(k <= j)
    <3>1. k - Len(c) \in 1..(Len(s) - j + 1) /\ (k - Len(c)) + j - 1 = k - 1
      BY <1>5, <2>2
    <3>2. InsertAt(s, j, x)[k] = b[k - Len(c)]
      BY <1>2, <1>5, <1>6, <2>2
    <3> QED
      BY <1>2, <2>2, <3>1, <3>2 DEF Put
  <2> QED
    BY <2>1, <2>2
<1> QED
  BY <1>7, <1>8

\* Taking a fact out and putting it in again moves those between by one place.
LEMMA MovedIs ==
  ASSUME NEW S, NEW s \in Seq(S), NEW i \in 1..Len(s), NEW j \in 1..Len(s)
  PROVE  /\ MoveFact(s, i, j) \in Seq(S) /\ Len(MoveFact(s, i, j)) = Len(s)
         /\ \A k \in 1..Len(s) : MoveFact(s, i, j)[k] = s[From(i, j, k)]
<1>1. CASE i = j
  BY <1>1 DEF MoveFact, From
<1>2. CASE i # j
  <2> DEFINE r == RemoveAt(s, i)
  <2>1. /\ r \in Seq(S) /\ Len(r) = Len(s) - 1 /\ s[i] \in S
        /\ \A k \in 1..(Len(s) - 1) : r[k] = s[IF k < i THEN k ELSE k + 1]
    BY RemovedIs
  <2>2. MoveFact(s, i, j) = InsertAt(r, j, s[i])
    BY <1>2 DEF MoveFact
  <2>3. j \in 1..(Len(r) + 1)
    BY <2>1
  <2> HIDE DEF r
  <2>4. /\ InsertAt(r, j, s[i]) \in Seq(S) /\ Len(InsertAt(r, j, s[i])) = Len(s)
        /\ \A k \in 1..Len(s) : InsertAt(r, j, s[i])[k] = Put(r, j, s[i], k)
    <3>1. Len(r) + 1 = Len(s)
      BY <2>1
    <3>2. s[i] \in S
      BY <2>1
    <3>3. /\ InsertAt(r, j, s[i]) \in Seq(S) /\ Len(InsertAt(r, j, s[i])) = Len(r) + 1
          /\ \A k \in 1..(Len(r) + 1) : InsertAt(r, j, s[i])[k] = Put(r, j, s[i], k)
      BY <2>1, <2>3, <3>2, InsertedIs
    <3> QED
      BY <3>1, <3>3
  <2>5. ASSUME NEW k \in 1..Len(s)
        PROVE  InsertAt(r, j, s[i])[k] = s[From(i, j, k)]
    <3>1. CASE k < j
      <4>1. k \in 1..(Len(s) - 1)
        BY <3>1
      <4>2. InsertAt(r, j, s[i])[k] = r[k] /\ r[k] = s[IF k < i THEN k ELSE k + 1]
        BY <2>1, <2>4, <3>1, <4>1 DEF Put
      <4>3. From(i, j, k) = IF k < i THEN k ELSE k + 1
        BY <3>1 DEF From
      <4> QED
        BY <4>2, <4>3
    <3>2. CASE k = j
      BY <2>4, <3>2 DEF Put, From
    <3>3. CASE k > j
      <4>1. k - 1 \in 1..(Len(s) - 1) /\ k - 1 + 1 = k
        BY <3>3
      <4>2. r[k - 1] = s[IF k - 1 < i THEN k - 1 ELSE k]
        BY <2>1, <4>1
      <4>3. From(i, j, k) = IF k - 1 < i THEN k - 1 ELSE k
        BY <3>3 DEF From
      <4> QED
        BY <2>4, <3>3, <4>2, <4>3 DEF Put
    <3> QED
      BY <3>1, <3>2, <3>3
  <2> QED
    BY <2>2, <2>4, <2>5
<1> QED
  BY <1>1, <1>2

Whole(d, doc) == doc \in (CASE d = "memory" -> Memories
                             [] d = "profile" -> Profiles
                             [] d = "settings" -> [model : BOOLEAN, key : BOOLEAN])

\* The edits of facts do what they mean, position by position.
LEMMA FactsAreEdited ==
  ASSUME NEW doc \in Profiles, NEW e \in Edits, ~Refused(doc, e), e.of = "profile",
         e.do \notin {"clear", "name"}
  PROVE  /\ Edit(doc, e) = [doc EXCEPT !.facts = EditFacts(doc.facts, e)]
         /\ EditFacts(doc.facts, e) \in Seq(Facts)
         /\ Len(EditFacts(doc.facts, e)) <= MaxFacts
         /\ Means(doc, e) = Edit(doc, e)
<1> DEFINE facts == doc.facts
           n == Len(facts)
<1>1. facts \in Seq(Facts) /\ n <= MaxFacts /\ n \in Nat
  BY DEF Profiles
<1>2. e.do \in {"fact", "forget", "remove", "update", "move", "reorder", "clear_facts"}
  BY DEF Edits
<1>3. Edit(doc, e) = [doc EXCEPT !.facts = EditFacts(facts, e)]
  BY <1>2 DEF Edit
<1>4. CASE e.do = "fact"
  <2>1. e.fact \in Facts
    BY <1>4 DEF Edits
  <2>2. EditFacts(facts, e) = AddFact(facts, e.fact)
    BY <1>4 DEF EditFacts
  <2>3. CASE e.fact \in Range(facts)
    <3>1. AddFact(facts, e.fact) = facts
      BY <1>1, <2>3 DEF AddFact, LastOf
    <3>2. Means(doc, e) = doc
      BY <1>4, <2>3 DEF Means
    <3>3. [doc EXCEPT !.facts = facts] = doc
      BY DEF Profiles
    <3> QED
      BY <1>1, <1>3, <2>2, <3>1, <3>2, <3>3
  <2>4. CASE e.fact \notin Range(facts) /\ n = MaxFacts
    <3> DEFINE more == Append(facts, e.fact)
               kept == Append(Tail(facts), e.fact)
    <3>1. more \in Seq(Facts) /\ Len(more) = n + 1 /\ facts # <<>>
      BY <1>1, <2>1, <2>4
    <3>2. AddFact(facts, e.fact) = SubSeq(more, 2, n + 1)
      BY <1>1, <2>4, <3>1 DEF AddFact, LastOf
    <3>3. /\ Tail(facts) \in Seq(Facts) /\ Len(Tail(facts)) = n - 1
          /\ \A k \in 1..(n - 1) : Tail(facts)[k] = facts[k + 1]
      BY <1>1, <3>1
    <3>4. kept \in Seq(Facts) /\ Len(kept) = n
      BY <2>1, <3>3
    <3>5. SubSeq(more, 2, n + 1) \in Seq(Facts) /\ Len(SubSeq(more, 2, n + 1)) = n
      BY <1>1, <3>1
    <3>6. \A k \in 1..n : SubSeq(more, 2, n + 1)[k] = kept[k]
      <4> TAKE k \in 1..n
      <4>1. SubSeq(more, 2, n + 1)[k] = more[k + 1]
        BY <1>1, <3>1
      <4> QED
        BY <1>1, <2>1, <3>3, <4>1
    <3>7. SubSeq(more, 2, n + 1) = kept
      BY <3>4, <3>5, <3>6
    <3>8. Means(doc, e) = [doc EXCEPT !.facts = kept]
      BY <1>4, <2>4 DEF Means
    <3> HIDE DEF kept, more
    <3> QED
      BY <1>1, <1>3, <2>2, <2>4, <3>2, <3>4, <3>7, <3>8
  <2>5. CASE e.fact \notin Range(facts) /\ n # MaxFacts
    <3>1. AddFact(facts, e.fact) = Append(facts, e.fact)
      BY <1>1, <2>5 DEF AddFact, LastOf
    <3>2. Means(doc, e) = Edit(doc, e)
      BY <1>4, <2>5 DEF Means
    <3>3. /\ Append(facts, e.fact) \in Seq(Facts) /\ Len(Append(facts, e.fact)) = n + 1
          /\ n + 1 <= MaxFacts
      BY <1>1, <2>1, <2>5
    <3> QED
      BY <1>3, <2>2, <3>1, <3>2, <3>3
  <2> QED
    BY <2>3, <2>4, <2>5
<1>5. CASE e.do = "forget"
  <2>1. EditFacts(facts, e) = Forgotten(facts, e.fact)
    BY <1>5 DEF EditFacts
  <2>2. Means(doc, e) = Edit(doc, e)
    BY <1>5 DEF Means
  <2>3. EditFacts(facts, e) \in Seq(Facts) /\ Len(EditFacts(facts, e)) <= n
    BY <1>1, <2>1, ForgottenIs
  <2>4. Len(EditFacts(facts, e)) \in Nat
    BY <2>3
  <2> QED
    BY <1>1, <1>3, <2>2, <2>3, <2>4
<1>6. CASE e.do = "remove"
  <2>1. e.i \in 1..n
    BY <1>6 DEF Refused
  <2>2. EditFacts(facts, e) = RemoveAt(facts, e.i)
    BY <1>6 DEF EditFacts
  <2>3. /\ RemoveAt(facts, e.i) \in Seq(Facts) /\ Len(RemoveAt(facts, e.i)) = n - 1
        /\ RemoveAt(facts, e.i) = [k \in 1..(n - 1) |-> facts[IF k < e.i THEN k ELSE k + 1]]
    BY <1>1, <2>1, RemovedIs
  <2>4. Means(doc, e) =
          [doc EXCEPT !.facts = [k \in 1..(n - 1) |-> facts[IF k < e.i THEN k ELSE k + 1]]]
    BY <1>6 DEF Means
  <2> QED
    BY <1>1, <1>3, <2>2, <2>3, <2>4
<1>7. CASE e.do = "update"
  <2>1. e.i \in 1..n /\ e.fact \in Facts
    BY <1>7 DEF Refused, Edits
  <2>2. EditFacts(facts, e) = [facts EXCEPT ![e.i] = e.fact]
    BY <1>7 DEF EditFacts, ReplaceAt
  <2>3. Means(doc, e) = Edit(doc, e)
    BY <1>7 DEF Means
  <2>4. [facts EXCEPT ![e.i] = e.fact] \in Seq(Facts) /\ Len([facts EXCEPT ![e.i] = e.fact]) = n
    BY <1>1, <2>1
  <2> QED
    BY <1>1, <1>3, <2>2, <2>3, <2>4
<1>8. CASE e.do = "move"
  <2>1. e.i \in 1..n /\ e.j \in 1..n
    BY <1>8 DEF Refused
  <2> DEFINE from(k) == From(e.i, e.j, k)
             moved == MoveFact(facts, e.i, e.j)
  <2>2. EditFacts(facts, e) = moved
    BY <1>8 DEF EditFacts
  <2>3. /\ moved \in Seq(Facts) /\ Len(moved) = n
        /\ \A k \in 1..n : moved[k] = facts[from(k)]
    BY <1>1, <2>1, MovedIs
  <2>4. moved = [k \in 1..n |-> moved[k]]
    BY <2>3
  <2>5. moved = [k \in 1..n |-> facts[from(k)]]
    BY <2>3, <2>4
  <2>6. Means(doc, e) = [doc EXCEPT !.facts = [k \in 1..n |-> facts[from(k)]]]
    BY <1>8 DEF Means, From
  <2> HIDE DEF from, moved
  <2> QED
    BY <1>1, <1>3, <2>2, <2>3, <2>5, <2>6
<1>9. CASE e.do = "reorder"
  <2>1. IsOrder(e.order, n)
    BY <1>9 DEF Refused
  <2>2. DOMAIN facts = 1..n
    BY <1>1
  <2>3. EditFacts(facts, e) = [k \in 1..n |-> facts[e.order[k]]]
    BY <1>9, <2>2 DEF EditFacts
  <2>4. Means(doc, e) = [doc EXCEPT !.facts = [k \in 1..n |-> facts[e.order[k]]]]
    BY <1>9 DEF Means
  <2>5. \A k \in 1..n : facts[e.order[k]] \in Facts
    BY <1>1, <2>1 DEF IsOrder
  <2>6. /\ [k \in 1..n |-> facts[e.order[k]]] \in Seq(Facts)
        /\ Len([k \in 1..n |-> facts[e.order[k]]]) = n
    BY <1>1, <2>5
  <2> QED
    BY <1>1, <1>3, <2>3, <2>4, <2>6
<1>10. CASE e.do = "clear_facts"
  <2>1. EditFacts(facts, e) = <<>> /\ Means(doc, e) = Edit(doc, e)
    BY <1>10 DEF EditFacts, Means
  <2> QED
    BY <1>3, <2>1
<1> QED
  BY <1>2, <1>4, <1>5, <1>6, <1>7, <1>8, <1>9, <1>10

-----------------------------------------------------------------------------
(* The edits of each kind of document *)

LEMMA BlankIsWhole ==
  /\ DOMAIN Blank = Kinds
  /\ \A d \in Kinds : Whole(d, Blank[d])
<1>1. Blank["memory"] = <<>> /\ Blank["profile"] = [name |-> "none", facts |-> <<>>]
      /\ Blank["settings"] = [model |-> FALSE, key |-> FALSE] /\ DOMAIN Blank = Kinds
  BY DEF Blank, Kinds
<1>2. \A S : <<>> \in Seq(S) /\ Len(<<>>) = 0
  OBVIOUS
<1>3. <<>> \in Memories
  BY <1>2 DEF Memories
<1>4. [name |-> "none", facts |-> <<>>] \in Profiles
  <2>1. "none" \in Names
    BY DEF Names
  <2>2. <<>> \in {f \in Seq(Facts) : Len(f) <= MaxFacts}
    BY <1>2
  <2> HIDE <1>2
  <2> QED
    BY <2>1, <2>2 DEF Profiles
<1>5. \A d : d \in Kinds <=> (d = "memory" \/ d = "profile" \/ d = "settings")
  BY DEF Kinds
<1>6. Whole("memory", Blank["memory"]) /\ Whole("profile", Blank["profile"])
  BY <1>1, <1>3, <1>4 DEF Whole
<1>7. Whole("settings", Blank["settings"])
  BY <1>1 DEF Whole
<1> QED
  BY <1>1, <1>5, <1>6, <1>7

\* Means: an edit that is not refused does to a whole document of its kind what it means,
\* and leaves one within its caps (append_memory, add_fact, move_fact, reorder_facts).
THEOREM EditsMean ==
  ASSUME NEW doc, NEW e \in Edits, Whole(e.of, doc), ~Refused(doc, e)
  PROVE  Edit(doc, e) = Means(doc, e) /\ Whole(e.of, Edit(doc, e))
<1>1. CASE e.of = "profile" /\ e.do \notin {"clear", "name"}
  <2>1. doc \in Profiles
    BY <1>1 DEF Whole
  <2>2. /\ Edit(doc, e) = [doc EXCEPT !.facts = EditFacts(doc.facts, e)]
        /\ EditFacts(doc.facts, e) \in Seq(Facts)
        /\ Len(EditFacts(doc.facts, e)) <= MaxFacts
        /\ Means(doc, e) = Edit(doc, e)
    BY <1>1, <2>1, FactsAreEdited
  <2>3. [doc EXCEPT !.facts = EditFacts(doc.facts, e)] \in Profiles
    BY <2>1, <2>2 DEF Profiles
  <2> QED
    BY <1>1, <2>2, <2>3 DEF Whole
<1>2. CASE e.do = "clear"
  <2>1. e.of \in {"memory", "profile"}
    BY <1>2 DEF Edits
  <2>2. Edit(doc, e) = Blank[e.of] /\ Means(doc, e) = Edit(doc, e)
    BY <1>2, <2>1 DEF Edit, Means
  <2>3. Whole(e.of, Blank[e.of])
    BY <2>1, BlankIsWhole DEF Kinds
  <2> QED
    BY <2>2, <2>3
<1>3. CASE e.do = "append"
  <2>1. e.of = "memory" /\ Entry(e) \in [by : Nat, role : Roles]
    BY <1>3 DEF Edits, Entry
  <2>2. Edit(doc, e) = LastOf(Append(doc, Entry(e)), MaxEntries) /\ Means(doc, e) = Edit(doc, e)
    BY <1>3, <2>1 DEF Edit, Means
  <2>3. doc \in Seq([by : Nat, role : Roles])
    BY <2>1 DEF Whole, Memories
  <2>4. Append(doc, Entry(e)) \in Seq([by : Nat, role : Roles])
    BY <2>1, <2>3
  <2>5. LastOf(Append(doc, Entry(e)), MaxEntries) \in Memories
    BY <2>4, LastOfIs DEF Memories
  <2> QED
    BY <2>1, <2>2, <2>5 DEF Whole
<1>4. CASE e.do = "name"
  <2>1. e.of = "profile" /\ e.name \in Names
    BY <1>4 DEF Edits
  <2>2. Edit(doc, e) = [doc EXCEPT !.name = e.name] /\ Means(doc, e) = Edit(doc, e)
    BY <1>4, <2>1 DEF Edit, Means
  <2> QED
    BY <2>1, <2>2 DEF Whole, Profiles
<1>5. CASE e.of = "settings"
  <2>1. e.do \in {"model", "key"}
    BY <1>5 DEF Edits
  <2>2. Edit(doc, e) = [doc EXCEPT ![e.do] = TRUE] /\ Means(doc, e) = Edit(doc, e)
    BY <1>5, <2>1 DEF Edit, Means
  <2> QED
    BY <1>5, <2>1, <2>2 DEF Whole
<1>6. /\ e.of = "memory" => e.do \in {"append", "clear"}
      /\ e.of \in {"memory", "profile", "settings"}
  BY DEF Edits
<1> QED
  BY <1>1, <1>2, <1>3, <1>4, <1>5, <1>6
-----------------------------------------------------------------------------
(* The documents in the requests' hands *)

FileOK(d, f) == DOMAIN f = {"whole", "doc"} /\ f.whole \in BOOLEAN /\ Whole(d, f.doc)
HandOK(h) ==
  /\ DOMAIN h = {"at", "edit", "draft"} /\ h.at \in {"free", "edited", "opened"}
  /\ h.at # "free" => h.edit \in Edits /\ Whole(h.edit.of, h.draft[h.edit.of])
  /\ h.at = "opened" => h.edit.of # "settings"

Opened(d) == \E r \in Requests : Holds(r, d) /\ hand[r].at = "opened"

\* A document that was never in two hands: it is in one hand at most, which holds what its
\* edit makes of the document; the file is cut while it is written, and else has it.
Calm(d) ==
  /\ \A r, o \in Requests : Holds(r, d) /\ Holds(o, d) => r = o
  /\ \A r \in Requests : Holds(r, d) =>
       /\ hand[r].draft[d] = Edit(ledger[d], hand[r].edit) /\ ~Refused(ledger[d], hand[r].edit)
       /\ hand[r].at = "opened" => ~file[d].whole
  /\ ~Opened(d) => Stored(d) = ledger[d]

DocsShape ==
  /\ file = [d \in Kinds |-> file[d]] /\ \A d \in Kinds : FileOK(d, file[d])
  /\ hand = [r \in Requests |-> hand[r]] /\ \A r \in Requests : HandOK(hand[r])
  /\ calm \in [Kinds -> BOOLEAN]
  /\ ledger = [d \in Kinds |-> ledger[d]] /\ \A d \in Kinds : Whole(d, ledger[d])
  /\ file["settings"].whole
DocsOK == DocsShape /\ \A d \in Kinds : calm[d] => Calm(d)

LEMMA EditsAreOf == \A e \in Edits : e.of \in Kinds
BY DEF Edits, Kinds

LEMMA StoredIsWhole ==
  ASSUME DocsShape, NEW d \in Kinds
  PROVE  Whole(d, Stored(d))
BY BlankIsWhole DEF DocsShape, FileOK, Stored

\* A document that a step of r does not concern.
LEMMA OthersStayCalm ==
  ASSUME DocsOK, NEW r \in Requests, NEW d \in Kinds, ~Holds(r, d), ~Holds(r, d)',
         \A o \in Requests \ {r} : hand'[o] = hand[o],
         file'[d] = file[d], ledger'[d] = ledger[d], calm[d]
  PROVE  Calm(d)'
<1>1. \A o \in Requests : Holds(o, d)' <=> Holds(o, d)
  BY DEF Holds
<1>2. \A o \in Requests : Holds(o, d) => hand'[o] = hand[o]
  OBVIOUS
<1>3. Opened(d)' <=> Opened(d)
  BY <1>1, <1>2 DEF Opened, Holds
<1>4. Calm(d)
  BY DEF DocsOK
<1>5. Stored(d)' = Stored(d)
  BY DEF Stored
<1>6. \A o \in Requests : Holds(o, d)' =>
        /\ hand'[o].draft[d] = Edit(ledger[d], hand'[o].edit)
        /\ ~Refused(ledger[d], hand'[o].edit)
        /\ hand'[o].at = "opened" => ~file[d].whole
  BY <1>1, <1>2, <1>4 DEF Calm
<1>7. \A o, s \in Requests : Holds(o, d)' /\ Holds(s, d)' => o = s
  BY <1>1, <1>4 DEF Calm
<1> QED
  BY <1>3, <1>4, <1>5, <1>6, <1>7 DEF Calm

-----------------------------------------------------------------------------
(* The steps *)

LEMMA DocsStay ==
  ASSUME DocsOK, UNCHANGED docVars
  PROVE  DocsOK'
BY DEF docVars, DocsOK, DocsShape, Calm, Opened, Holds, Stored, FileOK, HandOK

\* Whoever loads a document that another has in hand ends its calm.
LEMMA LoadKeeps ==
  ASSUME DocsOK, NEW r \in Requests, NEW e \in Edits, Load(r, e)
  PROVE  DocsOK'
<1> DEFINE d == e.of
<1>1. d \in Kinds /\ DocsShape
  BY EditsAreOf DEF DocsOK
<1>2. CASE Refused(Stored(d), e)
  BY <1>2, DocsStay DEF Load, docVars
<1>3. CASE ~Refused(Stored(d), e)
  <2> DEFINE draft == [Blank EXCEPT ![d] = Edit(Stored(d), e)]
             held == [at |-> "edited", edit |-> e, draft |-> draft]
  <2>1. /\ hand[r].at = "free" /\ hand' = [hand EXCEPT ![r] = held]
        /\ calm' = [calm EXCEPT ![d] = @ /\ ~\E o \in Requests \ {r} : Holds(o, d)]
        /\ UNCHANGED <<file, ledger>>
    BY <1>3 DEF Load
  <2>2. draft[d] = Edit(Stored(d), e) /\ Whole(d, draft[d])
    BY <1>1, <1>3, BlankIsWhole, StoredIsWhole, EditsMean
  <2> HIDE DEF draft
  <2>3. HandOK(held)
    BY <2>2 DEF HandOK
  <2>4. /\ hand' = [o \in Requests |-> hand'[o]] /\ hand'[r] = held
        /\ \A o \in Requests \ {r} : hand'[o] = hand[o]
    BY <1>1, <2>1 DEF DocsShape
  <2>5. calm' \in [Kinds -> BOOLEAN] /\ \A k \in Kinds : calm'[k] => calm[k]
    BY <1>1, <2>1 DEF DocsShape
  <2>6. DocsShape'
    <3>1. \A o \in Requests : HandOK(hand'[o])
      BY <1>1, <2>3, <2>4 DEF DocsShape
    <3>2. (\A o \in Requests : HandOK(hand[o]))'
      BY <3>1 DEF HandOK
    <3> QED
      BY <1>1, <2>1, <2>4, <2>5, <3>2 DEF DocsShape
  <2>7. ASSUME NEW k \in Kinds, k # d, calm'[k] PROVE Calm(k)'
    <3>1. ~Holds(r, k) /\ ~Holds(r, k)'
      BY <2>1, <2>4, <2>7 DEF Holds
    <3> QED
      BY <2>1, <2>4, <2>5, <2>7, <3>1, OthersStayCalm
  <2>8. ASSUME calm'[d] PROVE Calm(d)'
    <3>1. calm[d] /\ \A o \in Requests : ~Holds(o, d)
      BY <1>1, <2>1, <2>8 DEF DocsShape, Holds
    <3>2. Stored(d) = ledger[d]
      BY <1>1, <3>1 DEF DocsOK, Calm, Opened
    <3>3. \A o \in Requests : Holds(o, d)' => o = r
      BY <2>4, <3>1 DEF Holds
    <3>4. ~Opened(d)'
      BY <2>4, <3>3 DEF Opened
    <3>5. Stored(d)' = ledger'[d]
      BY <2>1, <3>2 DEF Stored
    <3>6. /\ hand'[r].draft[d] = Edit(ledger'[d], hand'[r].edit) /\ hand'[r].at = "edited"
          /\ ~Refused(ledger'[d], hand'[r].edit)
      BY <1>3, <2>1, <2>2, <2>4, <3>2
    <3> QED
      BY <3>3, <3>4, <3>5, <3>6 DEF Calm
  <2> QED
    BY <2>6, <2>7, <2>8 DEF DocsOK
<1> QED
  BY <1>2, <1>3

LEMMA TruncateKeeps ==
  ASSUME DocsOK, NEW r \in Requests, Truncate(r)
  PROVE  DocsOK'
<1>2. PICK d \in Kinds : d = hand[r].edit.of
  BY EditsAreOf DEF Truncate, HandOK, DocsOK, DocsShape
<1> DEFINE held == [hand[r] EXCEPT !.at = "opened"]
           cut == [whole |-> FALSE, doc |-> Blank[d]]
<1>1. /\ DocsShape /\ HandOK(hand[r]) /\ hand[r].at = "edited" /\ d # "settings"
      /\ hand' = [hand EXCEPT ![r].at = "opened"] /\ file' = [file EXCEPT ![d] = cut]
      /\ UNCHANGED <<calm, ledger>>
  BY <1>2 DEF Truncate, DocsOK, DocsShape
<1>3. /\ hand' = [o \in Requests |-> hand'[o]] /\ hand'[r] = held
      /\ \A o \in Requests \ {r} : hand'[o] = hand[o]
  BY <1>1 DEF DocsShape
<1>4. /\ held.at = "opened" /\ held.edit = hand[r].edit /\ held.draft = hand[r].draft
      /\ DOMAIN held = {"at", "edit", "draft"}
  BY <1>1 DEF HandOK
<1> HIDE DEF held
<1>5. /\ file' = [k \in Kinds |-> file'[k]] /\ file'[d] = cut
      /\ \A k \in Kinds \ {d} : file'[k] = file[k]
  BY <1>1, <1>2 DEF DocsShape
<1>6. DocsShape'
  <2>1. HandOK(held)
    BY <1>1, <1>2, <1>4 DEF HandOK
  <2>2. (\A o \in Requests : HandOK(hand[o]))'
    BY <1>1, <1>3, <2>1 DEF DocsShape, HandOK
  <2>3. FileOK(d, cut)
    BY <1>2, BlankIsWhole DEF FileOK
  <2>4. (\A k \in Kinds : FileOK(k, file[k]))'
    BY <1>1, <1>5, <2>3 DEF DocsShape, FileOK
  <2>5. file'["settings"].whole
    BY <1>1, <1>5 DEF DocsShape, Kinds
  <2> QED
    BY <1>1, <1>3, <1>5, <2>2, <2>4, <2>5 DEF DocsShape
<1>7. ASSUME NEW k \in Kinds, k # d, calm[k] PROVE Calm(k)'
  <2>1. ~Holds(r, k) /\ ~Holds(r, k)'
    BY <1>2, <1>3, <1>4, <1>7 DEF Holds
  <2> QED
    BY <1>1, <1>3, <1>5, <1>7, <2>1, OthersStayCalm
<1>8. ASSUME calm[d] PROVE Calm(d)'
  <2>1. Calm(d) /\ Holds(r, d)
    BY <1>1, <1>2, <1>8 DEF DocsOK, Holds
  <2>2. \A o \in Requests : Holds(o, d)' => o = r
    BY <1>2, <1>3, <2>1 DEF Calm, Holds
  <2>3. /\ hand'[r].draft[d] = Edit(ledger'[d], hand'[r].edit)
        /\ ~Refused(ledger'[d], hand'[r].edit) /\ ~file'[d].whole
    BY <1>1, <1>2, <1>3, <1>4, <1>5, <2>1 DEF Calm
  <2>4. Opened(d)'
    BY <1>2, <1>3, <1>4 DEF Opened, Holds
  <2> QED
    BY <2>2, <2>3, <2>4 DEF Calm
<1> QED
  BY <1>1, <1>6, <1>7, <1>8 DEF DocsOK

\* The draft of a calm document is what its edit makes of the ledger.
LEMMA WriteKeeps ==
  ASSUME DocsOK, NEW r \in Requests, Write(r)
  PROVE  DocsOK'
<1>0. PICK e, d : e = hand[r].edit /\ d = e.of
  OBVIOUS
<1> DEFINE draft == hand[r].draft[d]
<1>1. /\ DocsShape /\ HandOK(hand[r]) /\ hand[r].at = IF d = "settings" THEN "edited" ELSE "opened"
      /\ hand' = [hand EXCEPT ![r] = Free] /\ UNCHANGED calm
      /\ ledger' = [ledger EXCEPT ![d] = IF calm[d] THEN Means(@, e) ELSE Blank[d]]
  BY <1>0 DEF Write, DocsOK, DocsShape
<1>2. PICK whole \in BOOLEAN :
        /\ ~whole => d # "settings" /\ file[d].whole
        /\ file' = [file EXCEPT ![d] =
             [whole |-> whole, doc |-> IF whole THEN draft ELSE Blank[d]]]
  BY <1>0 DEF Write
<1> DEFINE put == [whole |-> whole, doc |-> IF whole THEN draft ELSE Blank[d]]
<1>3. d \in Kinds /\ e \in Edits /\ Whole(d, draft) /\ Holds(r, d)
  BY <1>0, <1>1, EditsAreOf DEF HandOK, Holds
<1>4. /\ hand' = [o \in Requests |-> hand'[o]] /\ hand'[r] = Free
      /\ \A o \in Requests \ {r} : hand'[o] = hand[o]
  BY <1>1 DEF DocsShape
<1>5. /\ file' = [k \in Kinds |-> file'[k]] /\ file'[d] = put
      /\ \A k \in Kinds \ {d} : file'[k] = file[k]
  BY <1>1, <1>2, <1>3 DEF DocsShape
<1>6. /\ ledger' = [k \in Kinds |-> ledger'[k]]
      /\ ledger'[d] = IF calm[d] THEN Means(ledger[d], e) ELSE Blank[d]
      /\ \A k \in Kinds \ {d} : ledger'[k] = ledger[k]
  BY <1>1, <1>3 DEF DocsShape
<1>7. calm[d] => /\ Calm(d) /\ draft = Edit(ledger[d], e) /\ ~Refused(ledger[d], e)
                 /\ draft = Means(ledger[d], e)
  <2>1. calm[d] => /\ Calm(d) /\ draft = Edit(ledger[d], e) /\ ~Refused(ledger[d], e)
    BY <1>0, <1>3 DEF DocsOK, Calm
  <2>2. Whole(d, ledger[d])
    BY <1>1, <1>3 DEF DocsShape
  <2> QED
    BY <1>0, <1>3, <2>1, <2>2, EditsMean
<1>8. put.whole = whole /\ put.doc = (IF whole THEN draft ELSE Blank[d])
      /\ DOMAIN put = {"whole", "doc"}
  OBVIOUS
<1> HIDE DEF put
<1>9. DocsShape'
  <2>1. HandOK(Free)
    BY DEF HandOK, Free
  <2>2. (\A o \in Requests : HandOK(hand[o]))'
    BY <1>1, <1>4, <2>1 DEF DocsShape, HandOK
  <2>3. FileOK(d, put)
    BY <1>3, <1>8, BlankIsWhole DEF FileOK
  <2>4. (\A k \in Kinds : FileOK(k, file[k]))'
    BY <1>1, <1>5, <2>3 DEF DocsShape, FileOK
  <2>5. file'["settings"].whole
    BY <1>1, <1>2, <1>5, <1>8 DEF DocsShape, Kinds
  <2>6. Whole(d, ledger'[d])
    BY <1>3, <1>6, <1>7, BlankIsWhole
  <2>7. (\A k \in Kinds : Whole(k, ledger[k]))'
    BY <1>1, <1>6, <2>6 DEF DocsShape, Whole
  <2> QED
    BY <1>1, <1>4, <1>5, <1>6, <2>2, <2>4, <2>5, <2>7 DEF DocsShape
<1>10. ASSUME NEW k \in Kinds, k # d, calm[k] PROVE Calm(k)'
  <2>1. ~Holds(r, k) /\ ~Holds(r, k)'
    BY <1>0, <1>4, <1>10 DEF Holds, Free
  <2> QED
    BY <1>4, <1>5, <1>6, <1>10, <2>1, OthersStayCalm
<1>11. ASSUME calm[d] PROVE Calm(d)'
  <2>1. \A o \in Requests : ~Holds(o, d)'
    BY <1>3, <1>4, <1>7, <1>11 DEF Calm, Holds, Free
  <2>2. whole
    <3>1. d # "settings" => hand[r].at = "opened"
      BY <1>1
    <3>2. d # "settings" => ~file[d].whole
      BY <1>3, <1>7, <1>11, <3>1 DEF Calm
    <3> QED
      BY <1>2, <3>2
  <2>3. Stored(d)' = draft /\ ledger'[d] = draft
    BY <1>5, <1>6, <1>7, <1>8, <1>11, <2>2 DEF Stored
  <2> QED
    BY <2>1, <2>3 DEF Calm, Opened
<1> QED
  BY <1>1, <1>9, <1>10, <1>11 DEF DocsOK

LEMMA DocsCrashKeeps ==
  ASSUME DocsOK, NEW settings, Whole("settings", settings), DocsCrash(settings)
  PROVE  DocsOK'
<1>1. /\ DocsShape /\ hand' = [r \in Requests |-> Free]
      /\ calm' = [d \in Kinds |-> d = "settings" \/ (calm[d] /\ ~Opened(d))]
      /\ file' = [file EXCEPT !["settings"].doc = settings]
      /\ ledger' = [d \in Kinds |-> IF d = "settings" THEN settings
                                    ELSE IF calm'[d] THEN ledger[d] ELSE Blank[d]]
  BY DEF DocsCrash, DocsOK, Opened
<1>2. /\ file' = [k \in Kinds |-> file'[k]]
      /\ file'["settings"] = [file["settings"] EXCEPT !.doc = settings]
      /\ \A k \in Kinds \ {"settings"} : file'[k] = file[k]
  BY <1>1 DEF DocsShape, Kinds
<1>3. /\ DOMAIN file'["settings"] = {"whole", "doc"} /\ file'["settings"].doc = settings
      /\ file'["settings"].whole = file["settings"].whole /\ file["settings"].whole
      /\ file["settings"].whole \in BOOLEAN
  BY <1>1, <1>2 DEF DocsShape, FileOK, Kinds
<1>4. DocsShape'
  <2>1. (\A o \in Requests : HandOK(hand[o]))'
    BY <1>1 DEF HandOK, Free
  <2>2. FileOK("settings", file'["settings"])
    BY <1>3 DEF FileOK
  <2>3. (\A k \in Kinds : FileOK(k, file[k]))'
    BY <1>1, <1>2, <2>2 DEF DocsShape, FileOK
  <2>4. \A k \in Kinds : Whole(k, ledger'[k])
    BY <1>1, BlankIsWhole DEF DocsShape
  <2>5. (\A k \in Kinds : Whole(k, ledger[k]))'
    BY <2>4 DEF Whole
  <2>6. calm' \in [Kinds -> BOOLEAN]
    BY <1>1 DEF DocsShape
  <2>7. hand' = [r \in Requests |-> hand'[r]] /\ ledger' = [d \in Kinds |-> ledger'[d]]
    BY <1>1
  <2> QED
    BY <1>2, <1>3, <2>1, <2>3, <2>5, <2>6, <2>7 DEF DocsShape
<1>5. ASSUME NEW d \in Kinds, calm'[d] PROVE Calm(d)'
  <2>1. \A o \in Requests : ~Holds(o, d)'
    BY <1>1 DEF Holds, Free
  <2>2. CASE d = "settings"
    BY <1>1, <1>3, <2>1, <2>2 DEF Calm, Opened, Stored
  <2>3. CASE d # "settings"
    <3>1. calm[d] /\ ~Opened(d)
      BY <1>1, <1>5, <2>3
    <3>2. Stored(d) = ledger[d]
      BY <3>1 DEF DocsOK, Calm
    <3>3. Stored(d)' = Stored(d) /\ ledger'[d] = ledger[d]
      BY <1>1, <1>2, <1>5, <2>3 DEF Stored
    <3> QED
      BY <2>1, <3>2, <3>3 DEF Calm, Opened
  <2> QED
    BY <2>2, <2>3
<1> QED
  BY <1>4, <1>5 DEF DocsOK

LEMMA DocsBegin ==
  ASSUME NEW docs \in Shelves, DocsInit(docs)
  PROVE  DocsOK
<1>1. /\ ledger = docs /\ file = [d \in Kinds |-> [whole |-> TRUE, doc |-> docs[d]]]
      /\ hand = [r \in Requests |-> Free] /\ calm = [d \in Kinds |-> TRUE]
  BY DEF DocsInit
<1>2. docs = [d \in Kinds |-> docs[d]]
  BY DEF Shelves, Kinds
<1>3. \A d \in Kinds : Whole(d, docs[d])
  BY DEF Shelves, Kinds, Whole
<1>4. DocsShape
  <2>1. \A r \in Requests : HandOK(hand[r])
    BY <1>1 DEF HandOK, Free
  <2>2. \A d \in Kinds : FileOK(d, file[d]) /\ file[d].whole
    BY <1>1, <1>3 DEF FileOK
  <2>3. "settings" \in Kinds
    BY DEF Kinds
  <2> QED
    BY <1>1, <1>2, <1>3, <2>1, <2>2, <2>3 DEF DocsShape
<1>5. \A d \in Kinds : Calm(d)
  BY <1>1 DEF Calm, Holds, Free, Opened, Stored
<1> QED
  BY <1>4, <1>5 DEF DocsOK

-----------------------------------------------------------------------------
LEMMA CalmLosesNothing == DocsOK => LossNeedsOverlap
BY DEF DocsOK, Calm, Opened, LossNeedsOverlap
=============================================================================
