------------------------- MODULE ReplayEngineProofs -------------------------
(***************************************************************************)
(* What holds of the walk of ReplayEngine for every spec and every history *)
(* of any length: that resuming from a saved state comes to what replaying *)
(* from scratch comes to, and what a decision may contain.                 *)
(*                                                                         *)
(* The walk and the loop over the events are recursive functions; a proof  *)
(* takes one value of theirs apart at a time (InOrderUnfolds, IsWalk) and  *)
(* makes an induction of the least counterexample (LeastNatural,           *)
(* UpwardInduction).                                                       *)
(***************************************************************************)
EXTENDS ReplayReference, FiniteSetTheorems, SequenceTheorems, WellFoundedInduction,
        TLAPS

LEMMA LeastNatural ==
  ASSUME NEW S, S \subseteq Nat, S # {}
  PROVE  \E n \in S : \A k \in S : n <= k
<1>1. PICK x \in S : \A y \in S : ~ (<<y, x>> \in OpToRel(<, Nat))
  BY NatLessThanWellFounded, WFMin
<1>2. \A y \in S : ~ (y < x)
  BY <1>1 DEF OpToRel
<1> QED
  BY <1>2

IdsUpTo(ids, S, k) == IF k = 0 THEN << >>
                      ELSE IF k \in S THEN Append(ids[k - 1], k) ELSE ids[k - 1]

IsIdList(ids, S, n) == ids = [k \in 0..n |-> IdsUpTo(ids, S, k)]

LEMMA IdListAt ==
  ASSUME NEW S, NEW n \in Nat, NEW ids, IsIdList(ids, S, n), NEW k \in 0..n
  PROVE  ids[k] = IdsUpTo(ids, S, k)
  BY DEF IsIdList

LEMMA IdListExists ==
  ASSUME NEW S, NEW n \in Nat
  PROVE  \E ids : IsIdList(ids, S, n)
<1> DEFINE Bad == {m \in Nat : ~ \E ids : IsIdList(ids, S, m)}
<1> SUFFICES ASSUME Bad # {} PROVE FALSE
  OBVIOUS
<1>1. PICK m \in Bad : \A k \in Bad : m <= k
  BY LeastNatural
<1>2. CASE m = 0
  <2> DEFINE f == [k \in 0..0 |-> << >>]
  <2>1. IsIdList(f, S, 0)
    BY DEF IsIdList
  <2> QED
    BY <2>1, <1>2
<1>3. CASE m # 0
  <2>1. m - 1 \in Nat /\ m - 1 \notin Bad
    BY <1>1, <1>3
  <2>2. PICK f : IsIdList(f, S, m - 1)
    BY <2>1
  <2> DEFINE g == [k \in 0..m |-> IF k < m THEN f[k] ELSE
                       IF m \in S THEN Append(f[m - 1], m) ELSE f[m - 1]]
  <2>3. \A k \in 0..m : g[k] = IF k = 0 THEN << >>
                        ELSE IF k \in S THEN Append(g[k - 1], k) ELSE g[k - 1]
    <3> TAKE k \in 0..m
    <3>1. CASE k = m
      BY <3>1, <1>3, <2>1
    <3>2. CASE k # m
      <4>1. k \in 0..(m - 1) /\ (k # 0 => k - 1 \in 0..(m - 1) /\ g[k - 1] = f[k - 1])
        BY <3>2
      <4>2. f[k] = IF k = 0 THEN << >>
                   ELSE IF k \in S THEN Append(f[k - 1], k) ELSE f[k - 1]
        BY <4>1, <2>1, <2>2 DEF IsIdList, IdsUpTo
      <4> QED
        BY <3>2, <4>1, <4>2
    <3> QED BY <3>1, <3>2
  <2>4. IsIdList(g, S, m)
    BY <2>3 DEF IsIdList, IdsUpTo
  <2> QED
    BY <2>4
<1> QED
  BY <1>2, <1>3

LEMMA InOrderIsList ==
  ASSUME NEW S, NEW n \in Nat
  PROVE  \E ids : IsIdList(ids, S, n) /\ InOrder(S, n) = ids[n]
<1> DEFINE ids == CHOOSE ids : IsIdList(ids, S, n)
<1>1. IsIdList(ids, S, n)
  BY IdListExists
<1>2. InOrder(S, n) = ids[n]
  BY DEF InOrder, IsIdList, IdsUpTo
<1> QED
  BY <1>1, <1>2

\* Two such lists agree wherever both are defined, and on sets that agree there.
LEMMA IdListsAgree ==
  ASSUME NEW S, NEW T, NEW a \in Nat, NEW b \in Nat, NEW f, NEW g,
         IsIdList(f, S, a), IsIdList(g, T, b), a <= b,
         \A k \in 1..a : k \in S <=> k \in T
  PROVE  \A k \in 0..a : f[k] = g[k]
<1> SUFFICES ASSUME \E k \in 0..a : f[k] # g[k] PROVE FALSE
  OBVIOUS
<1>1. PICK k \in 0..a : f[k] # g[k] /\ \A j \in 0..a : f[j] # g[j] => k <= j
  <2> DEFINE Bad == {k \in 0..a : f[k] # g[k]}
  <2>1. Bad \subseteq Nat /\ Bad # {}
    OBVIOUS
  <2> HIDE DEF Bad
  <2>2. PICK k \in Bad : \A j \in Bad : k <= j
    BY <2>1, LeastNatural
  <2> QED
    BY <2>2 DEF Bad
<1>2. f[k] = IdsUpTo(f, S, k)
  BY IdListAt
<1>3. g[k] = IdsUpTo(g, T, k)
  <2>1. k \in 0..b
    OBVIOUS
  <2> QED
    BY <2>1, IdListAt
<1>4. k # 0 => k - 1 \in 0..a /\ k \in 1..a /\ f[k - 1] = g[k - 1]
  BY <1>1
<1> QED
  BY <1>1, <1>2, <1>3, <1>4 DEF IdsUpTo

LEMMA InOrderAgrees ==
  ASSUME NEW S, NEW T, NEW n \in Nat, \A k \in 1..n : k \in S <=> k \in T
  PROVE  InOrder(S, n) = InOrder(T, n)
<1>1. PICK f : IsIdList(f, S, n) /\ InOrder(S, n) = f[n]
  BY InOrderIsList
<1>2. PICK g : IsIdList(g, T, n) /\ InOrder(T, n) = g[n]
  BY InOrderIsList
<1>3. f[n] = g[n]
  BY <1>1, <1>2, IdListsAgree
<1> QED
  BY <1>1, <1>2, <1>3

LEMMA InOrderUnfolds ==
  ASSUME NEW S
  PROVE  /\ InOrder(S, 0) = << >>
         /\ \A n \in Nat \ {0} :
              InOrder(S, n) = IF n \in S THEN Append(InOrder(S, n - 1), n)
                                         ELSE InOrder(S, n - 1)
<1>1. InOrder(S, 0) = << >>
  <2>1. PICK f : IsIdList(f, S, 0) /\ InOrder(S, 0) = f[0]
    BY InOrderIsList
  <2> QED
    BY <2>1 DEF IsIdList
<1>2. ASSUME NEW n \in Nat \ {0}
      PROVE  InOrder(S, n) = IF n \in S THEN Append(InOrder(S, n - 1), n)
                                        ELSE InOrder(S, n - 1)
  <2>1. PICK f : IsIdList(f, S, n) /\ InOrder(S, n) = f[n]
    BY InOrderIsList
  <2>2. PICK g : IsIdList(g, S, n - 1) /\ InOrder(S, n - 1) = g[n - 1]
    BY InOrderIsList
  <2>3. f[n - 1] = g[n - 1]
    BY <2>1, <2>2, IdListsAgree
  <2>4. f[n] = IdsUpTo(f, S, n)
    <3>1. n \in 0..n
      OBVIOUS
    <3> QED
      BY <2>1, <3>1, IdListAt
  <2> QED
    BY <2>1, <2>2, <2>3, <2>4 DEF IdsUpTo
<1> QED
  BY <1>1, <1>2


\* q lists the members of S up to n, each once, smallest first.
Lists(q, S, n) ==
  /\ q \in Seq(Nat)
  /\ \A i \in 1..Len(q) : q[i] \in S \cap 1..n
  /\ \A e \in S \cap 1..n : \E i \in 1..Len(q) : q[i] = e
  /\ \A i, j \in 1..Len(q) : i < j => q[i] < q[j]

LEMMA ListsAppend ==
  ASSUME NEW S, NEW n \in Nat \ {0}, n \in S, NEW q, Lists(q, S, n - 1)
  PROVE  Lists(Append(q, n), S, n)
<1> DEFINE r == Append(q, n)
<1>1. /\ r \in Seq(Nat) /\ Len(r) = Len(q) + 1 /\ Len(q) \in Nat
      /\ r[Len(q) + 1] = n /\ \A i \in 1..Len(q) : r[i] = q[i]
  BY DEF Lists
<1> HIDE DEF r
<1>2. \A i \in 1..Len(q) : q[i] \in S \cap 1..(n - 1)
  BY DEF Lists
<1>3. \A i \in 1..Len(r) : r[i] \in S \cap 1..n
  BY <1>1, <1>2
<1>4. ASSUME NEW e \in S \cap 1..n PROVE \E i \in 1..Len(r) : r[i] = e
  <2>1. CASE e = n
    BY <2>1, <1>1
  <2>2. CASE e # n
    <3>1. e \in S \cap 1..(n - 1)
      BY <2>2
    <3>2. PICK i \in 1..Len(q) : q[i] = e
      BY <3>1 DEF Lists
    <3> QED
      BY <3>2, <1>1
  <2> QED
    BY <2>1, <2>2
<1>5. ASSUME NEW i \in 1..Len(r), NEW j \in 1..Len(r), i < j PROVE r[i] < r[j]
  <2>1. i \in 1..Len(q) /\ r[i] = q[i] /\ q[i] \in 1..(n - 1)
    BY <1>1, <1>2, <1>5
  <2>2. CASE j = Len(q) + 1
    BY <2>1, <2>2, <1>1
  <2>3. CASE j # Len(q) + 1
    <3>1. j \in 1..Len(q) /\ r[j] = q[j]
      BY <2>3, <1>1
    <3>2. q[i] < q[j]
      BY <3>1, <2>1, <1>5 DEF Lists
    <3> QED
      BY <3>1, <3>2, <2>1
  <2> QED
    BY <2>2, <2>3
<1>6. Lists(r, S, n)
  BY <1>1, <1>3, <1>4, <1>5 DEF Lists
<1> QED
  BY <1>6 DEF r

LEMMA InOrderLists ==
  ASSUME NEW S, NEW n \in Nat
  PROVE  Lists(InOrder(S, n), S, n)
<1> DEFINE Bad == {m \in Nat : ~ Lists(InOrder(S, m), S, m)}
<1> SUFFICES ASSUME Bad # {} PROVE FALSE
  OBVIOUS
<1>1. PICK m \in Bad : \A k \in Bad : m <= k
  BY LeastNatural
<1>2. CASE m = 0
  <2>1. Lists(<< >>, S, 0)
    BY DEF Lists
  <2> QED
    BY <2>1, <1>2, InOrderUnfolds
<1>3. CASE m # 0
  <2>1. m \in Nat \ {0} /\ m - 1 \in Nat /\ m - 1 \notin Bad
    BY <1>1, <1>3
  <2>2. Lists(InOrder(S, m - 1), S, m - 1)
    BY <2>1
  <2>3. CASE m \in S
    <3>1. Lists(Append(InOrder(S, m - 1), m), S, m)
      BY <2>1, <2>2, <2>3, ListsAppend
    <3> QED
      BY <3>1, <2>1, <2>3, InOrderUnfolds
  <2>4. CASE m \notin S
    <3>1. Lists(InOrder(S, m - 1), S, m)
      <4>1. S \cap 1..m = S \cap 1..(m - 1)
        BY <2>4, <2>1
      <4> QED
        BY <4>1, <2>2 DEF Lists
    <3> QED
      BY <3>1, <2>1, <2>4, InOrderUnfolds
  <2> QED
    BY <2>3, <2>4
<1> QED
  BY <1>2, <1>3

LEMMA AppendToConcat ==
  ASSUME NEW a \in Seq(Nat), NEW b \in Seq(Nat), NEW x \in Nat
  PROVE  Append(a \o b, x) = a \o Append(b, x)
<1>1. a \o b \in Seq(Nat) /\ <<x>> \in Seq(Nat)
  BY ConcatProperties
<1>2. Append(a \o b, x) = (a \o b) \o <<x>>
  BY <1>1, AppendIsConcat
<1>3. (a \o b) \o <<x>> = a \o (b \o <<x>>)
  BY <1>1, ConcatAssociative
<1>4. b \o <<x>> = Append(b, x)
  BY AppendIsConcat
<1> QED
  BY <1>2, <1>3, <1>4

LEMMA InOrderCounts ==
  ASSUME NEW S, NEW n \in Nat
  PROVE  /\ Len(InOrder(S, n)) = Cardinality(S \cap 1..n)
         /\ IsFiniteSet(S \cap 1..n)
<1> DEFINE q == InOrder(S, n)
           T == S \cap 1..n
<1>1. Lists(q, S, n)
  BY InOrderLists
<1> HIDE DEF q
<1>2. q \in [1..Len(q) -> T] /\ Len(q) \in Nat
  BY <1>1 DEF Lists
<1>3. \A i, j \in 1..Len(q) : q[i] = q[j] => i = j
  <2> TAKE i, j \in 1..Len(q)
  <2>1. q[i] \in Nat /\ q[j] \in Nat /\ (i < j => q[i] < q[j]) /\ (j < i => q[j] < q[i])
    BY <1>1 DEF Lists
  <2> QED
    BY <2>1, <1>2
<1>4. \A e \in T : \E i \in 1..Len(q) : q[i] = e
  BY <1>1 DEF Lists
<1>5. q \in Bijection(1..Len(q), T)
  BY <1>2, <1>3, <1>4 DEF Bijection, Injection, Surjection, IsInjective
<1>6. ExistsBijection(1..Len(q), T)
  BY <1>5 DEF ExistsBijection
<1> QED
  BY <1>2, <1>6, FS_CountingElements, FS_NatBijection DEF q

\* The list up to n is the list up to m, followed by what lies past m.
Splits(S, T, m, n) == InOrder(S, n) = InOrder(S, m) \o InOrder(T, n)

LEMMA InOrderSplits ==
  ASSUME NEW S, NEW T, NEW m \in Nat, NEW n \in Nat, m <= n,
         \A k \in 1..m : k \notin T,
         \A k \in (m + 1)..n : k \in T <=> k \in S
  PROVE  Splits(S, T, m, n)
<1> DEFINE P(k) == InOrder(S, k) = InOrder(S, m) \o InOrder(T, k)
           Bad == {k \in m..n : ~ P(k)}
<1> SUFFICES ASSUME Bad # {} PROVE FALSE
  BY DEF Splits
<1>1. PICK k \in Bad : \A j \in Bad : k <= j
  <2>1. Bad \subseteq Nat
    OBVIOUS
  <2> QED
    BY <2>1, LeastNatural
<1>s. InOrder(S, m) \in Seq(Nat)
  BY InOrderLists DEF Lists
<1>2. CASE k = m
  <2>1. Lists(InOrder(T, m), T, m)
    BY InOrderLists
  <2>2. InOrder(T, m) \in Seq(Nat) /\ Len(InOrder(T, m)) = 0
    <3> DEFINE q == InOrder(T, m)
    <3> HIDE DEF q
    <3>1. q \in Seq(Nat) /\ \A i \in 1..Len(q) : q[i] \in T \cap 1..m
      BY <2>1 DEF Lists, q
    <3>2. Len(q) \in Nat /\ (Len(q) # 0 => 1 \in 1..Len(q))
      BY <3>1
    <3> QED
      BY <3>1, <3>2 DEF q
  <2>3. InOrder(T, m) = << >>
    BY <2>2, EmptySeq
  <2>4. InOrder(S, m) \o << >> = InOrder(S, m)
    BY <1>s, ConcatEmptySeq
  <2>5. InOrder(S, m) = InOrder(S, m) \o InOrder(T, m)
    BY <2>3, <2>4
  <2> QED
    BY <1>2, <2>5
<1>3. CASE k # m
  <2>0. k \in m..n /\ \A j \in Bad : k <= j
    BY <1>1
  <2>1. /\ k \in Nat \ {0} /\ k - 1 \in Nat /\ k - 1 \notin Bad /\ k - 1 \in m..n
        /\ k \in (m + 1)..n
    <3> HIDE DEF Bad
    <3> QED
      BY <1>3, <2>0
  <2>2. InOrder(S, k - 1) = InOrder(S, m) \o InOrder(T, k - 1)
    BY <2>1
  <2>3. k \in T <=> k \in S
    BY <2>1
  <2>4. InOrder(T, k - 1) \in Seq(Nat)
    BY <2>1, InOrderLists DEF Lists
  <2>5. InOrder(S, k) = IF k \in S THEN Append(InOrder(S, k - 1), k) ELSE InOrder(S, k - 1)
    BY <2>1, InOrderUnfolds
  <2>6. InOrder(T, k) = IF k \in S THEN Append(InOrder(T, k - 1), k) ELSE InOrder(T, k - 1)
    BY <2>1, <2>3, InOrderUnfolds
  <2>7. Append(InOrder(S, m) \o InOrder(T, k - 1), k)
          = InOrder(S, m) \o Append(InOrder(T, k - 1), k)
    <3>1. k \in Nat
      BY <2>1
    <3> QED
      BY ONLY <1>s, <2>4, <3>1, AppendToConcat
  <2> QED
    BY <2>2, <2>5, <2>6, <2>7
<1> QED
  BY <1>2, <1>3

-----------------------------------------------------------------------------
(* Sequences whose elements have no type of their own.                      *)

\* s is a sequence, of whatever elements.
IsList(s) == Len(s) \in Nat /\ s = [i \in 1..Len(s) |-> s[i]]

Members(s) == {s[i] : i \in 1..Len(s)}

LEMMA ListIsSeq ==
  ASSUME NEW s, NEW S, IsList(s), \A i \in 1..Len(s) : s[i] \in S
  PROVE  s \in Seq(S)
<1>1. s \in [1..Len(s) -> S] /\ Len(s) \in Nat
  BY DEF IsList
<1> QED
  BY <1>1, SeqDef

LEMMA SeqIsList ==
  ASSUME NEW S, NEW s \in Seq(S)
  PROVE  IsList(s) /\ \A i \in 1..Len(s) : s[i] \in S
  BY DEF IsList

LEMMA FunctionIsList ==
  ASSUME NEW n \in Nat, NEW s, s = [i \in 1..n |-> s[i]]
  PROVE  IsList(s) /\ Len(s) = n
<1>1. s \in Seq({s[i] : i \in 1..n})
  <2>1. s \in [1..n -> {s[i] : i \in 1..n}]
    OBVIOUS
  <2> QED
    BY <2>1, SeqDef
<1>2. Len(s) = n
  BY <1>1
<1> QED
  BY <1>1, <1>2, SeqIsList

LEMMA ListConcat ==
  ASSUME NEW s, NEW t, IsList(s), IsList(t)
  PROVE  /\ IsList(s \o t)
         /\ Len(s \o t) = Len(s) + Len(t)
         /\ \A i \in 1..Len(s) : (s \o t)[i] = s[i]
         /\ \A i \in 1..Len(t) : (s \o t)[Len(s) + i] = t[i]
<1> DEFINE S == Members(s) \cup Members(t)
<1>1. s \in Seq(S)
  BY ListIsSeq DEF Members
<1>2. t \in Seq(S)
  BY ListIsSeq DEF Members
<1> HIDE DEF S
<1>3. /\ s \o t \in Seq(S)
      /\ Len(s \o t) = Len(s) + Len(t)
      /\ \A i \in 1..Len(s) + Len(t) :
           (s \o t)[i] = IF i <= Len(s) THEN s[i] ELSE t[i - Len(s)]
  BY <1>1, <1>2, ConcatProperties
<1>4. Len(s) \in Nat /\ Len(t) \in Nat
  BY DEF IsList
<1>5. IsList(s \o t)
  BY <1>3, SeqIsList
<1> QED
  BY <1>3, <1>4, <1>5

LEMMA ListAppend ==
  ASSUME NEW s, IsList(s), NEW x
  PROVE  /\ IsList(Append(s, x))
         /\ Len(Append(s, x)) = Len(s) + 1
         /\ \A i \in 1..Len(s) : Append(s, x)[i] = s[i]
         /\ Append(s, x)[Len(s) + 1] = x
<1> DEFINE S == Members(s) \cup {x}
<1>1. s \in Seq(S)
  BY ListIsSeq DEF Members
<1>2. x \in S
  OBVIOUS
<1> HIDE DEF S
<1>3. Append(s, x) \in Seq(S)
  BY <1>1, <1>2
<1>4. /\ Len(Append(s, x)) = Len(s) + 1
      /\ \A i \in 1..Len(s) : Append(s, x)[i] = s[i]
      /\ Append(s, x)[Len(s) + 1] = x
  BY <1>1, <1>2
<1> QED
  BY <1>3, <1>4, SeqIsList

LEMMA ListSub ==
  ASSUME NEW s, IsList(s), NEW n \in 0..Len(s)
  PROVE  /\ IsList(SubSeq(s, 1, n))
         /\ Len(SubSeq(s, 1, n)) = n
         /\ \A i \in 1..n : SubSeq(s, 1, n)[i] = s[i]
<1> DEFINE S == Members(s)
<1>1. s \in Seq(S)
  BY ListIsSeq DEF Members
<1> HIDE DEF S
<1>2. Len(s) \in Nat
  BY DEF IsList
<1>3. \A i \in 1..n : s[i] \in S
  BY <1>1, <1>2
<1>4. /\ SubSeq(s, 1, n) \in Seq(S)
      /\ Len(SubSeq(s, 1, n)) = IF 1 <= n THEN n - 1 + 1 ELSE 0
      /\ \A i \in 1..(n - 1 + 1) : SubSeq(s, 1, n)[i] = s[1 + i - 1]
  BY <1>2, <1>3, SubSeqProperties
<1>5. /\ Len(SubSeq(s, 1, n)) = n
      /\ \A i \in 1..n : SubSeq(s, 1, n)[i] = s[i]
  BY <1>2, <1>4
<1> QED
  BY <1>4, <1>5, SeqIsList

LEMMA ListsEqual ==
  ASSUME NEW s, NEW t, IsList(s), IsList(t), Len(s) = Len(t),
         \A i \in 1..Len(s) : s[i] = t[i]
  PROVE  s = t
  BY DEF IsList

-----------------------------------------------------------------------------
(* The walk, one step at a time.                                           *)

LEMMA UpwardInduction ==
  ASSUME NEW S, NEW a \in Nat, NEW b \in Nat, a \in S,
         \A k \in a..(b - 1) : k \in S => k + 1 \in S
  PROVE  \A k \in a..b : k \in S
<1> SUFFICES ASSUME \E k \in a..b : k \notin S PROVE FALSE
  OBVIOUS
<1>1. PICK k \in a..b : k \notin S /\ \A j \in a..b : j \notin S => k <= j
  <2> DEFINE Bad == {k \in a..b : k \notin S}
  <2>1. Bad \subseteq Nat /\ Bad # {}
    OBVIOUS
  <2> HIDE DEF Bad
  <2>2. PICK k \in Bad : \A j \in Bad : k <= j
    BY <2>1, LeastNatural
  <2> QED
    BY <2>2 DEF Bad
<1>2. k # a /\ k - 1 \in a..(b - 1)
  BY <1>1
<1>3. k - 1 \in S
  BY <1>1, <1>2
<1> QED
  BY <1>1, <1>2, <1>3

WalkUpTo(w, spec, run, ctx0, i) ==
  IF i = 0 THEN ctx0 ELSE Visit(spec, run, w[i - 1], i)

\* w is the walk over the first n steps.
IsWalkOf(w, spec, run, ctx0, n) == w = [i \in 0..n |-> WalkUpTo(w, spec, run, ctx0, i)]

\* w[i] is the context after the first i steps.
IsWalk(w, spec, run, ctx0) ==
  /\ w[0] = ctx0
  /\ \A i \in 1..Len(spec) : w[i] = Visit(spec, run, w[i - 1], i)

LEMMA WalkOfExists ==
  ASSUME NEW spec, NEW run, NEW ctx0, NEW n \in Nat
  PROVE  \E w : IsWalkOf(w, spec, run, ctx0, n)
<1> DEFINE Good == {m \in 0..n : \E w : IsWalkOf(w, spec, run, ctx0, m)}
<1>1. 0 \in Good
  <2> DEFINE f == [i \in 0..0 |-> ctx0]
  <2>1. IsWalkOf(f, spec, run, ctx0, 0)
    BY DEF IsWalkOf, WalkUpTo
  <2> QED
    BY <2>1
<1>2. ASSUME NEW m \in 0..(n - 1), m \in Good PROVE m + 1 \in Good
  <2>1. PICK f : IsWalkOf(f, spec, run, ctx0, m)
    BY <1>2
  <2> DEFINE g == [i \in 0..(m + 1) |->
                     IF i <= m THEN f[i] ELSE Visit(spec, run, f[m], m + 1)]
  <2>2. ASSUME NEW i \in 0..(m + 1) PROVE g[i] = WalkUpTo(g, spec, run, ctx0, i)
    <3>1. CASE i = m + 1
      BY <3>1 DEF WalkUpTo
    <3>2. CASE i # m + 1
      <4>1. i \in 0..m /\ (i # 0 => i - 1 \in 0..m /\ g[i - 1] = f[i - 1])
        BY <3>2
      <4>2. f[i] = WalkUpTo(f, spec, run, ctx0, i)
        BY <4>1, <2>1 DEF IsWalkOf
      <4> QED
        BY <3>2, <4>1, <4>2 DEF WalkUpTo
    <3> QED
      BY <3>1, <3>2
  <2>3. IsWalkOf(g, spec, run, ctx0, m + 1)
    BY <2>2 DEF IsWalkOf
  <2>4. m + 1 \in 0..n
    OBVIOUS
  <2> QED
    BY <2>3, <2>4
<1> HIDE DEF Good
<1>3. n \in Good
  BY <1>1, <1>2, UpwardInduction
<1> QED
  BY <1>3 DEF Good

LEMMA WalkExists ==
  ASSUME NEW spec, Len(spec) \in Nat, NEW run, NEW ctx0
  PROVE  \E w : /\ IsWalk(w, spec, run, ctx0)
                /\ WalkSteps(spec, run, ctx0) = w[Len(spec)]
<1> DEFINE w == CHOOSE w : IsWalkOf(w, spec, run, ctx0, Len(spec))
<1>1. IsWalkOf(w, spec, run, ctx0, Len(spec))
  BY WalkOfExists
<1>2. WalkSteps(spec, run, ctx0) = w[Len(spec)]
  BY DEF WalkSteps, IsWalkOf, WalkUpTo
<1> HIDE DEF w
<1>3. \A i \in 0..Len(spec) : w[i] = WalkUpTo(w, spec, run, ctx0, i)
  BY <1>1 DEF IsWalkOf
<1>4. IsWalk(w, spec, run, ctx0)
  BY <1>3 DEF IsWalk, WalkUpTo
<1> QED
  BY <1>2, <1>4

\* Where the walk has halted it stays.
LEMMA WalkHalts ==
  ASSUME NEW spec, Len(spec) \in Nat, NEW run, NEW ctx0, NEW w, IsWalk(w, spec, run, ctx0),
         NEW i \in 0..Len(spec), w[i].outcome # "Continue"
  PROVE  \A j \in i..Len(spec) : w[j] = w[i]
<1> DEFINE Same == {j \in i..Len(spec) : w[j] = w[i]}
<1>1. i \in Same
  OBVIOUS
<1>2. ASSUME NEW j \in i..(Len(spec) - 1), j \in Same PROVE j + 1 \in Same
  <2>1. j + 1 \in 1..Len(spec) /\ j + 1 \in i..Len(spec) /\ (j + 1) - 1 = j
    OBVIOUS
  <2>2. w[j + 1] = Visit(spec, run, w[j], j + 1)
    BY <2>1 DEF IsWalk
  <2> QED
    BY <1>2, <2>1, <2>2 DEF Visit
<1>3. i \in Nat
  OBVIOUS
<1> HIDE DEF Same
<1>4. \A j \in i..Len(spec) : j \in Same
  BY <1>1, <1>2, <1>3, UpwardInduction
<1> QED
  BY <1>4 DEF Same

\* A walk that does not go on to the end halts at one step.
LEMMA WalkHaltsAt ==
  ASSUME NEW spec, Len(spec) \in Nat, NEW run, NEW ctx0, NEW w, IsWalk(w, spec, run, ctx0),
         ctx0.outcome = "Continue", w[Len(spec)].outcome # "Continue"
  PROVE  \E p \in 1..Len(spec) :
            /\ \A i \in 0..(p - 1) : w[i].outcome = "Continue"
            /\ w[p - 1].at = p
            /\ w[p] = WalkStep(spec[p], run, w[p - 1])
            /\ w[p] = w[Len(spec)]
<1> DEFINE Halted == {i \in 0..Len(spec) : w[i].outcome # "Continue"}
<1>1. PICK p \in Halted : \A i \in Halted : p <= i
  <2>1. Halted \subseteq Nat /\ Len(spec) \in Halted
    OBVIOUS
  <2> QED
    BY <2>1, LeastNatural
<1>2. p \in 0..Len(spec) /\ w[p].outcome # "Continue"
  OBVIOUS
<1>3. p # 0
  BY <1>2 DEF IsWalk
<1>4. p \in 1..Len(spec) /\ p - 1 \in 0..Len(spec)
  BY <1>2, <1>3
<1>5. \A i \in 0..(p - 1) : w[i].outcome = "Continue"
  BY <1>1, <1>4
<1> HIDE DEF Halted
<1>6. w[p] = Visit(spec, run, w[p - 1], p) /\ w[p - 1].outcome = "Continue"
  BY <1>4, <1>5 DEF IsWalk
<1>7. w[p] = WalkStep(spec[p], run, w[p - 1]) /\ w[p - 1].at = p
  BY <1>2, <1>6 DEF Visit
<1>8. w[Len(spec)] = w[p]
  BY <1>2, <1>4, WalkHalts
<1> QED
  BY <1>4, <1>5, <1>7, <1>8

-----------------------------------------------------------------------------
(* What one step does to the context.                                      *)

CtxFields == {"at", "outcome", "cursor", "claim", "input", "results", "nextSeq",
              "consumed", "pending", "commands", "waiting"}

IsCtx(c) ==
  /\ DOMAIN c = CtxFields
  /\ c = [f \in CtxFields |-> c[f]]
  /\ c.outcome \in {"Continue", "Stop", "Error"}
  /\ c.cursor \in Nat
  /\ c.nextSeq \in Nat
  /\ \A key \in DOMAIN c.claim : c.claim[key] \in Nat

Statuses == ActivityEnds \cup {"InFlight"}

\* What a walk reads of a history that has not closed.
IsOpenRun(run) ==
  /\ ~ run.finished
  /\ Len(run.records) \in Nat
  /\ \A k \in 1..Len(run.records) : run.records[k].status \in Statuses
  /\ \A name : Len(SignalsNamed(run.history, name)) \in Nat
  /\ \A key \in DOMAIN run.base : run.base[key] \in Nat

LEMMA CountIsNat ==
  ASSUME NEW map, \A key \in DOMAIN map : map[key] \in Nat, NEW key
  PROVE  Count(map, key) \in Nat
  BY DEF Count

LEMMA PutCounts ==
  ASSUME NEW map, NEW key, NEW val
  PROVE  /\ DOMAIN Put(map, key, val) = DOMAIN map \cup {key}
         /\ \A k : Count(Put(map, key, val), k) = IF k = key THEN val ELSE Count(map, k)
         /\ \A k \in DOMAIN map \cup {key} :
              Put(map, key, val)[k] = IF k = key THEN val ELSE map[k]
  BY DEF Put, Count

LEMMA CtxEqual ==
  ASSUME NEW c, NEW d, IsCtx(c), IsCtx(d),
         c.at = d.at, c.outcome = d.outcome, c.cursor = d.cursor, c.claim = d.claim,
         c.input = d.input, c.results = d.results, c.nextSeq = d.nextSeq,
         c.consumed = d.consumed, c.pending = d.pending, c.commands = d.commands,
         c.waiting = d.waiting
  PROVE  c = d
  BY DEF IsCtx, CtxFields

LEMMA AdvanceCtx ==
  ASSUME NEW c, IsCtx(c), NEW i
  PROVE  /\ IsCtx(Advance(c, i))
         /\ Advance(c, i).at = i
         /\ \A f \in CtxFields \ {"at"} : Advance(c, i)[f] = c[f]
  BY DEF IsCtx, CtxFields, Advance

LEMMA StopCtx ==
  ASSUME NEW c, IsCtx(c)
  PROVE  /\ IsCtx(Stop(c))
         /\ Stop(c).outcome = "Stop"
         /\ \A f \in CtxFields \ {"outcome"} : Stop(c)[f] = c[f]
  BY DEF IsCtx, CtxFields, Stop

LEMMA ErrorCtx ==
  ASSUME NEW c, IsCtx(c)
  PROVE  /\ IsCtx(Error(c))
         /\ Error(c).outcome = "Error"
         /\ \A f \in CtxFields \ {"outcome"} : Error(c)[f] = c[f]
  BY DEF IsCtx, CtxFields, Error

LEMMA EmitCtx ==
  ASSUME NEW c, IsCtx(c), NEW run, ~ run.finished, NEW cmd
  PROVE  /\ IsCtx(Emit(c, run, cmd))
         /\ Emit(c, run, cmd).commands = Append(c.commands, cmd)
         /\ \A f \in CtxFields \ {"commands"} : Emit(c, run, cmd)[f] = c[f]
  BY DEF IsCtx, CtxFields, Emit

LEMMA BindCtx ==
  ASSUME NEW c, IsCtx(c), NEW key, NEW val
  PROVE  /\ IsCtx(BindResult(c, key, val))
         /\ BindResult(c, key, val).results = Put(c.results, key, val)
         /\ \A f \in CtxFields \ {"results"} : BindResult(c, key, val)[f] = c[f]
  BY DEF IsCtx, CtxFields, BindResult

LEMMA ClaimRecordCtx ==
  ASSUME NEW c, IsCtx(c), NEW rec
  PROVE  /\ IsCtx(ClaimRecord(c, rec))
         /\ ClaimRecord(c, rec).cursor = c.cursor + 1
         /\ ClaimRecord(c, rec).nextSeq = IF rec.counted THEN c.nextSeq ELSE c.nextSeq + 1
         /\ \A f \in CtxFields \ {"cursor", "nextSeq"} : ClaimRecord(c, rec)[f] = c[f]
<1> DEFINE d == ClaimRecord(c, rec)
           n == IF rec.counted THEN c.nextSeq ELSE c.nextSeq + 1
           m == c.cursor + 1
<1>1. n \in Nat /\ m \in Nat
  BY DEF IsCtx
<1>2. d = [c EXCEPT !.cursor = m, !.nextSeq = n]
  BY DEF ClaimRecord
<1> HIDE DEF n, m, d
<1>3. /\ DOMAIN d = CtxFields /\ d = [f \in CtxFields |-> d[f]]
      /\ d.cursor = m /\ d.nextSeq = n
      /\ \A f \in CtxFields \ {"cursor", "nextSeq"} : d[f] = c[f]
  BY <1>2 DEF IsCtx, CtxFields
<1>4. IsCtx(d)
  BY <1>1, <1>3 DEF IsCtx, CtxFields
<1> QED
  BY <1>3, <1>4 DEF n, m, d

LEMMA AwaitCtx ==
  ASSUME NEW c, IsCtx(c), NEW rec
  PROVE  /\ IsCtx(AwaitRecord(c, rec))
         /\ AwaitRecord(c, rec).outcome = "Stop"
         /\ AwaitRecord(c, rec).pending = [sched |-> rec.sched, name |-> rec.name]
         /\ \A f \in CtxFields \ {"outcome", "pending"} : AwaitRecord(c, rec)[f] = c[f]
  BY DEF IsCtx, CtxFields, AwaitRecord, Stop

LEMMA ClaimSignalCtx ==
  ASSUME NEW c, IsCtx(c), NEW name, NEW idx
  PROVE  /\ IsCtx(ClaimSignal(c, name, idx))
         /\ ClaimSignal(c, name, idx).claim = Put(c.claim, name, Count(c.claim, name) + 1)
         /\ ClaimSignal(c, name, idx).consumed = Put(c.consumed, name, idx + 1)
         /\ \A f \in CtxFields \ {"claim", "consumed"} : ClaimSignal(c, name, idx)[f] = c[f]
<1> DEFINE d == ClaimSignal(c, name, idx)
           cl == Put(c.claim, name, Count(c.claim, name) + 1)
<1>1. Count(c.claim, name) \in Nat
  BY CountIsNat DEF IsCtx
<1>2. \A key \in DOMAIN cl : cl[key] \in Nat
  <2>1. DOMAIN cl = DOMAIN c.claim \cup {name}
    BY DEF Put
  <2>2. ASSUME NEW key \in DOMAIN cl
        PROVE  cl[key] = IF key = name THEN Count(c.claim, name) + 1 ELSE c.claim[key]
    BY <2>1 DEF Put
  <2>3. \A key \in DOMAIN c.claim : c.claim[key] \in Nat
    BY DEF IsCtx
  <2> QED
    BY <1>1, <2>1, <2>2, <2>3
<1> HIDE DEF cl
<1>3. d = [c EXCEPT !.claim = cl, !.consumed = Put(@, name, idx + 1)]
  BY DEF ClaimSignal, cl
<1> HIDE DEF d
<1>4. /\ DOMAIN d = CtxFields /\ d = [f \in CtxFields |-> d[f]]
      /\ d.claim = cl /\ d.consumed = Put(c.consumed, name, idx + 1)
      /\ \A f \in CtxFields \ {"claim", "consumed"} : d[f] = c[f]
  BY <1>3 DEF IsCtx, CtxFields
<1>5. IsCtx(d)
  BY <1>2, <1>4 DEF IsCtx, CtxFields
<1> QED
  BY <1>4, <1>5 DEF d, cl

WaitFor(c, name) == [c EXCEPT !.waiting = name]

LEMMA WaitForCtx ==
  ASSUME NEW c, IsCtx(c), NEW name
  PROVE  /\ IsCtx(WaitFor(c, name))
         /\ WaitFor(c, name).waiting = name
         /\ \A f \in CtxFields \ {"waiting"} : WaitFor(c, name)[f] = c[f]
  BY DEF IsCtx, CtxFields, WaitFor

-----------------------------------------------------------------------------
(* WalkStep as a relation: what each kind of step may make of the context  *)
(* c, and when.                                                            *)

SameBut(d, c, changed) == \A f \in CtxFields \ changed : d[f] = c[f]

NextRecord(run, c) == run.records[c.cursor + 1]

AtActivity(step, c) == step.kind = "activity" /\ step.id \notin DOMAIN c.results

\* The next record belongs to this step.
AtRecord(step, run, c) ==
  /\ AtActivity(step, c)
  /\ c.cursor < Len(run.records)
  /\ NextRecord(run, c).name = step.name

NextSeqAfter(run, c) == IF NextRecord(run, c).counted THEN c.nextSeq ELSE c.nextSeq + 1

Passes(step, c, d) ==
  /\ IsBinding(step) /\ step.id \in DOMAIN c.results
  /\ d.at = step.next
  /\ SameBut(d, c, {"at"})

Takes(step, run, c, d) ==
  /\ AtRecord(step, run, c)
  /\ NextRecord(run, c).status = "ActivityCompleted"
  /\ NextRecord(run, c).value # BadJson
  /\ d.at = step.next
  /\ d.cursor = c.cursor + 1
  /\ d.nextSeq = NextSeqAfter(run, c)
  /\ d.results = Put(c.results, step.id, NextRecord(run, c).value)
  /\ SameBut(d, c, {"at", "cursor", "nextSeq", "results"})

Awaits(step, run, c, d) ==
  /\ AtRecord(step, run, c)
  /\ NextRecord(run, c).status = "InFlight"
  /\ d.outcome = "Stop"
  /\ d.cursor = c.cursor + 1
  /\ d.nextSeq = NextSeqAfter(run, c)
  /\ d.pending = [sched |-> NextRecord(run, c).sched, name |-> NextRecord(run, c).name]
  /\ SameBut(d, c, {"outcome", "cursor", "nextSeq", "pending"})

Fails(step, run, c, d) ==
  /\ AtRecord(step, run, c)
  /\ NextRecord(run, c).status = "ActivityFailed"
  /\ d.outcome = "Stop"
  /\ d.cursor = c.cursor + 1
  /\ d.nextSeq = NextSeqAfter(run, c)
  /\ d.commands = Append(c.commands, FailWorkflow)
  /\ SameBut(d, c, {"outcome", "cursor", "nextSeq", "commands"})

Schedules(step, run, c, d) ==
  /\ AtActivity(step, c)
  /\ c.cursor >= Len(run.records)
  /\ HasValue(c, step.arg)
  /\ d.outcome = "Stop"
  /\ d.commands = Append(c.commands, ScheduleActivity(c.nextSeq, step.name,
                                                      ValueOf(c, step.arg)))
  /\ SameBut(d, c, {"outcome", "commands"})

AtWait(step, c) == step.kind = "wait_signal" /\ step.id \notin DOMAIN c.results

NextSignal(step, run, c) == Count(run.base, step.name) + Count(c.claim, step.name)

SignalPayload(step, run, c) ==
  Payload(run.history[SignalsNamed(run.history, step.name)[NextSignal(step, run, c) + 1]].value)

HasSignal(step, run, c) ==
  NextSignal(step, run, c) < Len(SignalsNamed(run.history, step.name))

Binding(step, run, c) ==
  LET bound == Put(c.results, step.id, SignalPayload(step, run, c))
  IN  IF step.bindTo = Nothing THEN bound
                               ELSE Put(bound, step.bindTo, SignalPayload(step, run, c))

TakesSignal(step, run, c, d) ==
  /\ AtWait(step, c) /\ HasSignal(step, run, c)
  /\ SignalPayload(step, run, c) # BadJson
  /\ d.at = step.next
  /\ d.claim = Put(c.claim, step.name, Count(c.claim, step.name) + 1)
  /\ d.consumed = Put(c.consumed, step.name, NextSignal(step, run, c) + 1)
  /\ d.results = Binding(step, run, c)
  /\ SameBut(d, c, {"at", "claim", "consumed", "results"})

Waits(step, run, c, d) ==
  /\ AtWait(step, c) /\ ~ HasSignal(step, run, c)
  /\ d.outcome = "Stop"
  /\ d.waiting = step.name
  /\ SameBut(d, c, {"outcome", "waiting"})

Branches(step, c, d) ==
  /\ step.kind = "conditional"
  /\ ~ PredicateFails(step, c)
  /\ d.at = IF PredicateHolds(step, c) THEN step.then ELSE step.else
  /\ SameBut(d, c, {"at"})

Completes(step, c, d) ==
  /\ step.kind = "complete"
  /\ HasValue(c, step.result)
  /\ d.outcome = "Stop"
  /\ d.commands = Append(c.commands, CompleteWorkflow(ValueOf(c, step.result)))
  /\ SameBut(d, c, {"outcome", "commands"})

Cannot(step, run, c) ==
  \/ /\ AtActivity(step, c) /\ c.cursor < Len(run.records)
     /\ \/ NextRecord(run, c).name # step.name
        \/ /\ NextRecord(run, c).status = "ActivityCompleted"
           /\ NextRecord(run, c).value = BadJson
  \/ AtActivity(step, c) /\ c.cursor >= Len(run.records) /\ ~ HasValue(c, step.arg)
  \/ /\ AtWait(step, c) /\ HasSignal(step, run, c)
     /\ SignalPayload(step, run, c) = BadJson
  \/ step.kind = "conditional" /\ PredicateFails(step, c)
  \/ step.kind = "complete" /\ ~ HasValue(c, step.result)
  \/ step.kind \notin {"activity", "wait_signal", "conditional", "complete"}

Errs(step, run, c, d) ==
  /\ Cannot(step, run, c)
  /\ d.outcome = "Error"
  /\ SameBut(d, c, {"outcome"})

StepMakes(step, run, c, d) ==
  /\ IsCtx(d)
  /\ \/ Passes(step, c, d)
     \/ Takes(step, run, c, d)
     \/ Awaits(step, run, c, d)
     \/ Fails(step, run, c, d)
     \/ Schedules(step, run, c, d)
     \/ TakesSignal(step, run, c, d)
     \/ Waits(step, run, c, d)
     \/ Branches(step, c, d)
     \/ Completes(step, c, d)
     \/ Errs(step, run, c, d)

LEMMA ScheduledMakes ==
  ASSUME NEW step, NEW run, NEW c, IsCtx(c), IsOpenRun(run),
         AtActivity(step, c), c.cursor < Len(run.records)
  PROVE  StepMakes(step, run, c, WalkScheduled(step, run, c, NextRecord(run, c)))
<1> DEFINE rec == NextRecord(run, c)
           d == WalkScheduled(step, run, c, rec)
           k == ClaimRecord(c, rec)
<1>1. rec.status \in Statuses
  <2>1. c.cursor + 1 \in 1..Len(run.records)
    BY DEF IsCtx, IsOpenRun
  <2> QED
    BY <2>1 DEF IsOpenRun, NextRecord
<1>2. /\ IsCtx(k) /\ k.cursor = c.cursor + 1 /\ k.nextSeq = NextSeqAfter(run, c)
      /\ SameBut(k, c, {"cursor", "nextSeq"})
  BY ClaimRecordCtx DEF NextSeqAfter, SameBut
<1> HIDE DEF k
<1>3. CASE rec.name # step.name
  <2>1. d = Error(c)
    BY <1>3 DEF WalkScheduled
  <2>2. IsCtx(d) /\ d.outcome = "Error" /\ SameBut(d, c, {"outcome"})
    BY <2>1, ErrorCtx DEF SameBut
  <2> QED
    BY <1>3, <2>2 DEF StepMakes, Errs, Cannot
<1>4. CASE rec.name = step.name /\ rec.status = "ActivityCompleted" /\ rec.value = BadJson
  <2>1. d = Error(c)
    BY <1>4 DEF WalkScheduled
  <2>2. IsCtx(d) /\ d.outcome = "Error" /\ SameBut(d, c, {"outcome"})
    BY <2>1, ErrorCtx DEF SameBut
  <2> QED
    BY <1>4, <2>2 DEF StepMakes, Errs, Cannot
<1>5. CASE rec.name = step.name /\ rec.status = "ActivityCompleted" /\ rec.value # BadJson
  <2> DEFINE b == BindResult(k, step.id, rec.value)
  <2>1. d = Advance(b, step.next)
    BY <1>5 DEF WalkScheduled, k
  <2>2. IsCtx(b) /\ b.results = Put(k.results, step.id, rec.value) /\ SameBut(b, k, {"results"})
    BY <1>2, BindCtx DEF SameBut
  <2> HIDE DEF b, d, rec
  <2>3. IsCtx(d) /\ d.at = step.next /\ SameBut(d, b, {"at"})
    BY <2>1, <2>2, AdvanceCtx DEF SameBut
  <2>4. /\ d.cursor = c.cursor + 1 /\ d.nextSeq = NextSeqAfter(run, c)
        /\ d.results = Put(c.results, step.id, rec.value)
        /\ SameBut(d, c, {"at", "cursor", "nextSeq", "results"})
    BY <1>2, <2>2, <2>3 DEF SameBut, CtxFields
  <2> QED
    BY <1>5, <2>3, <2>4 DEF StepMakes, Takes, AtRecord, rec, d
<1>6. CASE rec.name = step.name /\ rec.status = "ActivityFailed"
  <2> DEFINE b == Emit(k, run, FailWorkflow)
  <2>1. d = Stop(b)
    BY <1>6 DEF WalkScheduled, k
  <2>2. IsCtx(b) /\ b.commands = Append(k.commands, FailWorkflow) /\ SameBut(b, k, {"commands"})
    <3>1. ~ run.finished
      BY DEF IsOpenRun
    <3> QED
      BY <1>2, <3>1, EmitCtx DEF SameBut
  <2> HIDE DEF b, d, rec
  <2>3. IsCtx(d) /\ d.outcome = "Stop" /\ SameBut(d, b, {"outcome"})
    BY <2>1, <2>2, StopCtx DEF SameBut
  <2>4. /\ d.cursor = c.cursor + 1 /\ d.nextSeq = NextSeqAfter(run, c)
        /\ d.commands = Append(c.commands, FailWorkflow)
        /\ SameBut(d, c, {"outcome", "cursor", "nextSeq", "commands"})
    BY <1>2, <2>2, <2>3 DEF SameBut, CtxFields
  <2> QED
    BY <1>6, <2>3, <2>4 DEF StepMakes, Fails, AtRecord, rec, d
<1>7. CASE rec.name = step.name /\ rec.status = "InFlight"
  <2>1. d = AwaitRecord(k, rec)
    BY <1>7 DEF WalkScheduled, k
  <2> HIDE DEF d, rec
  <2>2. /\ IsCtx(d) /\ d.outcome = "Stop" /\ SameBut(d, k, {"outcome", "pending"})
        /\ d.pending = [sched |-> rec.sched, name |-> rec.name]
    BY <1>2, <2>1, AwaitCtx DEF SameBut
  <2>4. /\ d.cursor = c.cursor + 1 /\ d.nextSeq = NextSeqAfter(run, c)
        /\ SameBut(d, c, {"outcome", "cursor", "nextSeq", "pending"})
    BY <1>2, <2>2 DEF SameBut, CtxFields
  <2> QED
    BY <1>7, <2>2, <2>4 DEF StepMakes, Awaits, AtRecord, rec, d
<1> QED
  BY <1>1, <1>3, <1>4, <1>5, <1>6, <1>7 DEF Statuses, ActivityEnds

LEMMA ActivityMakes ==
  ASSUME NEW step, NEW run, NEW c, IsCtx(c), IsOpenRun(run), step.kind = "activity"
  PROVE  StepMakes(step, run, c, WalkActivity(step, run, c))
<1> DEFINE d == WalkActivity(step, run, c)
<1>0. c.cursor \in Nat /\ Len(run.records) \in Nat /\ ~ run.finished
  BY DEF IsCtx, IsOpenRun
<1>1. CASE step.id \in DOMAIN c.results
  <2>1. d = Advance(c, step.next)
    BY <1>1, <1>0 DEF WalkActivity
  <2>2. IsCtx(d) /\ d.at = step.next /\ SameBut(d, c, {"at"})
    BY <2>1, AdvanceCtx DEF SameBut
  <2> QED
    BY <1>1, <2>2 DEF StepMakes, Passes, IsBinding
<1>2. CASE step.id \notin DOMAIN c.results /\ c.cursor < Len(run.records)
  <2>1. d = WalkScheduled(step, run, c, NextRecord(run, c))
    BY <1>2, <1>0 DEF WalkActivity, NextRecord
  <2>2. AtActivity(step, c)
    BY <1>2 DEF AtActivity
  <2> QED
    BY <1>2, <2>1, <2>2, ScheduledMakes
<1>3. CASE step.id \notin DOMAIN c.results /\ c.cursor >= Len(run.records)
  <2>1. CASE ~ HasValue(c, step.arg)
    <3>1. d = Error(c)
      BY <1>3, <1>0, <2>1 DEF WalkActivity
    <3>2. IsCtx(d) /\ d.outcome = "Error" /\ SameBut(d, c, {"outcome"})
      BY <3>1, ErrorCtx DEF SameBut
    <3> QED
      BY <1>3, <2>1, <3>2 DEF StepMakes, Errs, Cannot, AtActivity
  <2>2. CASE HasValue(c, step.arg)
    <3> DEFINE cmd == ScheduleActivity(c.nextSeq, step.name, ValueOf(c, step.arg))
               b == Emit(c, run, cmd)
    <3>1. d = Stop(b)
      BY <1>3, <1>0, <2>2 DEF WalkActivity
    <3> HIDE DEF cmd
    <3>2. IsCtx(b) /\ b.commands = Append(c.commands, cmd) /\ SameBut(b, c, {"commands"})
      BY <1>0, EmitCtx DEF SameBut
    <3> HIDE DEF b, d
    <3>3. IsCtx(d) /\ d.outcome = "Stop" /\ SameBut(d, b, {"outcome"})
      BY <3>1, <3>2, StopCtx DEF SameBut
    <3>4. d.commands = Append(c.commands, cmd) /\ SameBut(d, c, {"outcome", "commands"})
      BY <3>2, <3>3 DEF SameBut, CtxFields
    <3> QED
      BY <1>3, <2>2, <3>3, <3>4 DEF StepMakes, Schedules, AtActivity, d, cmd
  <2> QED
    BY <2>1, <2>2
<1> QED
  BY <1>0, <1>1, <1>2, <1>3

LEMMA WaitMakes ==
  ASSUME NEW step, NEW run, NEW c, IsCtx(c), IsOpenRun(run), step.kind = "wait_signal"
  PROVE  StepMakes(step, run, c, WalkWaitSignal(step, run, c))
<1> DEFINE d == WalkWaitSignal(step, run, c)
           idx == NextSignal(step, run, c)
           payload == SignalPayload(step, run, c)
<1>0. /\ idx \in Nat /\ Len(SignalsNamed(run.history, step.name)) \in Nat
      /\ ~ run.finished
  <2>1. Count(run.base, step.name) \in Nat
    BY CountIsNat DEF IsOpenRun
  <2>2. Count(c.claim, step.name) \in Nat
    BY CountIsNat DEF IsCtx
  <2> QED
    BY <2>1, <2>2 DEF IsOpenRun, NextSignal
<1>1. CASE step.id \in DOMAIN c.results
  <2>1. d = Advance(c, step.next)
    BY <1>1 DEF WalkWaitSignal
  <2>2. IsCtx(d) /\ d.at = step.next /\ SameBut(d, c, {"at"})
    BY <2>1, AdvanceCtx DEF SameBut
  <2> QED
    BY <1>1, <2>2 DEF StepMakes, Passes, IsBinding
<1>2. CASE step.id \notin DOMAIN c.results /\ ~ HasSignal(step, run, c)
  <2>1. d = Stop(WaitFor(c, step.name))
    BY <1>2, <1>0 DEF WalkWaitSignal, WaitFor, HasSignal, NextSignal
  <2> DEFINE b == WaitFor(c, step.name)
  <2>2. IsCtx(b) /\ b.waiting = step.name /\ SameBut(b, c, {"waiting"})
    BY WaitForCtx DEF SameBut
  <2> HIDE DEF b, d
  <2>3. IsCtx(d) /\ d.outcome = "Stop" /\ SameBut(d, b, {"outcome"})
    BY <2>1, <2>2, StopCtx DEF SameBut, b
  <2>4. d.waiting = step.name /\ SameBut(d, c, {"outcome", "waiting"})
    BY <2>2, <2>3 DEF SameBut, CtxFields
  <2> QED
    BY <1>2, <2>3, <2>4 DEF StepMakes, Waits, AtWait, d
<1>3. CASE step.id \notin DOMAIN c.results /\ HasSignal(step, run, c) /\ payload = BadJson
  <2>1. d = Error(c)
    BY <1>3, <1>0 DEF WalkWaitSignal, HasSignal, NextSignal, SignalPayload
  <2>2. IsCtx(d) /\ d.outcome = "Error" /\ SameBut(d, c, {"outcome"})
    BY <2>1, ErrorCtx DEF SameBut
  <2> QED
    BY <1>3, <2>2 DEF StepMakes, Errs, Cannot, AtWait
<1>4. CASE step.id \notin DOMAIN c.results /\ HasSignal(step, run, c) /\ payload # BadJson
  <2> DEFINE k == ClaimSignal(c, step.name, idx)
             b == BindResult(k, step.id, payload)
             e == IF step.bindTo = Nothing THEN b ELSE BindResult(b, step.bindTo, payload)
  <2>1. d = Advance(e, step.next)
    BY <1>4, <1>0 DEF WalkWaitSignal, HasSignal, NextSignal, SignalPayload
  <2>2. /\ IsCtx(k) /\ k.claim = Put(c.claim, step.name, Count(c.claim, step.name) + 1)
        /\ k.consumed = Put(c.consumed, step.name, idx + 1)
        /\ SameBut(k, c, {"claim", "consumed"})
    BY ClaimSignalCtx DEF SameBut
  <2> HIDE DEF k, idx, payload, d
  <2>3. /\ IsCtx(b) /\ b.results = Put(k.results, step.id, payload)
        /\ SameBut(b, k, {"results"})
    BY <2>2, BindCtx DEF SameBut
  <2> HIDE DEF b
  <2>4. /\ IsCtx(e) /\ SameBut(e, b, {"results"})
        /\ e.results = IF step.bindTo = Nothing THEN b.results
                       ELSE Put(b.results, step.bindTo, payload)
    BY <2>3, BindCtx DEF SameBut
  <2> HIDE DEF e
  <2>5. IsCtx(d) /\ d.at = step.next /\ SameBut(d, e, {"at"})
    BY <2>1, <2>4, AdvanceCtx DEF SameBut
  <2>6. /\ d.claim = Put(c.claim, step.name, Count(c.claim, step.name) + 1)
        /\ d.consumed = Put(c.consumed, step.name, idx + 1)
        /\ SameBut(d, c, {"at", "claim", "consumed", "results"})
    BY <2>2, <2>3, <2>4, <2>5 DEF SameBut, CtxFields
  <2>7. d.results = Binding(step, run, c)
    <3>1. d.results = e.results /\ k.results = c.results
      BY <2>2, <2>5 DEF SameBut, CtxFields
    <3> QED
      BY <2>3, <2>4, <3>1 DEF Binding, payload
  <2> QED
    BY <1>4, <2>5, <2>6, <2>7 DEF StepMakes, TakesSignal, AtWait, d, idx, payload
<1> QED
  BY <1>1, <1>2, <1>3, <1>4

LEMMA StepIs ==
  ASSUME NEW step, NEW run, NEW c, IsCtx(c), IsOpenRun(run)
  PROVE  StepMakes(step, run, c, WalkStep(step, run, c))
<1> DEFINE d == WalkStep(step, run, c)
<1>1. CASE step.kind = "activity"
  BY <1>1, ActivityMakes DEF WalkStep
<1>2. CASE step.kind = "wait_signal"
  BY <1>2, WaitMakes DEF WalkStep
<1>3. CASE step.kind = "conditional"
  <2>1. d = WalkConditional(step, c)
    BY <1>3 DEF WalkStep
  <2>2. CASE PredicateFails(step, c)
    <3>1. d = Error(c)
      BY <2>1, <2>2 DEF WalkConditional
    <3>2. IsCtx(d) /\ d.outcome = "Error" /\ SameBut(d, c, {"outcome"})
      BY <3>1, ErrorCtx DEF SameBut
    <3> QED
      BY <1>3, <2>2, <3>2 DEF StepMakes, Errs, Cannot
  <2>3. CASE ~ PredicateFails(step, c)
    <3> DEFINE i == IF PredicateHolds(step, c) THEN step.then ELSE step.else
    <3>1. d = Advance(c, i)
      BY <2>1, <2>3 DEF WalkConditional
    <3> HIDE DEF i
    <3>2. IsCtx(d) /\ d.at = i /\ SameBut(d, c, {"at"})
      BY <3>1, AdvanceCtx DEF SameBut
    <3> QED
      BY <1>3, <2>3, <3>2 DEF StepMakes, Branches, i
  <2> QED
    BY <2>2, <2>3
<1>4. CASE step.kind = "complete"
  <2>0. ~ run.finished
    BY DEF IsOpenRun
  <2>1. d = WalkComplete(step, run, c)
    BY <1>4 DEF WalkStep
  <2>2. CASE ~ HasValue(c, step.result)
    <3>1. d = Error(c)
      BY <2>0, <2>1, <2>2 DEF WalkComplete
    <3>2. IsCtx(d) /\ d.outcome = "Error" /\ SameBut(d, c, {"outcome"})
      BY <3>1, ErrorCtx DEF SameBut
    <3> QED
      BY <1>4, <2>2, <3>2 DEF StepMakes, Errs, Cannot
  <2>3. CASE HasValue(c, step.result)
    <3> DEFINE cmd == CompleteWorkflow(ValueOf(c, step.result))
               b == Emit(c, run, cmd)
    <3>1. d = Stop(b)
      BY <2>0, <2>1, <2>3 DEF WalkComplete
    <3> HIDE DEF cmd
    <3>2. IsCtx(b) /\ b.commands = Append(c.commands, cmd) /\ SameBut(b, c, {"commands"})
      BY <2>0, EmitCtx DEF SameBut
    <3> HIDE DEF b, d
    <3>3. IsCtx(d) /\ d.outcome = "Stop" /\ SameBut(d, b, {"outcome"})
      BY <3>1, <3>2, StopCtx DEF SameBut
    <3>4. d.commands = Append(c.commands, cmd) /\ SameBut(d, c, {"outcome", "commands"})
      BY <3>2, <3>3 DEF SameBut, CtxFields
    <3> QED
      BY <1>4, <2>3, <3>3, <3>4 DEF StepMakes, Completes, d, cmd
  <2> QED
    BY <2>2, <2>3
<1>5. CASE step.kind \notin {"activity", "wait_signal", "conditional", "complete"}
  <2>1. d = Error(c)
    BY <1>5 DEF WalkStep
  <2>2. IsCtx(d) /\ d.outcome = "Error" /\ SameBut(d, c, {"outcome"})
    BY <2>1, ErrorCtx DEF SameBut
  <2> QED
    BY <1>5, <2>2 DEF StepMakes, Errs, Cannot
<1> QED
  BY <1>1, <1>2, <1>3, <1>4, <1>5

-----------------------------------------------------------------------------
(* The same walk over a longer history.                                    *)

\* ext is run with more records, more signals, and ends for some activities
\* that had none.
Extends(run, ext) ==
  /\ Len(run.records) <= Len(ext.records)
  /\ \A k \in 1..Len(run.records) :
       /\ ext.records[k].name = run.records[k].name
       /\ run.records[k].status # "InFlight" => ext.records[k] = run.records[k]
  /\ ext.base = run.base
  /\ \A name :
       LET signals == SignalsNamed(run.history, name)
           others  == SignalsNamed(ext.history, name)
       IN  /\ Len(signals) <= Len(others)
           /\ \A k \in 1..Len(signals) :
                ext.history[others[k]].value = run.history[signals[k]].value

LEMMA StepExtends ==
  ASSUME NEW step, NEW run, NEW ext, NEW c, IsCtx(c), IsOpenRun(run), IsOpenRun(ext),
         Extends(run, ext), c.outcome = "Continue",
         WalkStep(step, run, c).outcome = "Continue"
  PROVE  WalkStep(step, ext, c) = WalkStep(step, run, c)
<1> DEFINE d == WalkStep(step, run, c)
           e == WalkStep(step, ext, c)
<1>1. StepMakes(step, run, c, d) /\ StepMakes(step, ext, c, e) /\ d.outcome = "Continue"
  BY StepIs
<1> HIDE DEF d, e
<1>2. IsCtx(d) /\ IsCtx(e)
  BY <1>1 DEF StepMakes
<1>3. CASE Passes(step, c, d)
  <2>1. Passes(step, c, e)
    BY <1>1, <1>3 DEF StepMakes, Passes, Takes, Awaits, Fails, Schedules, TakesSignal, Waits,
       Branches, Completes, Errs, Cannot, AtRecord, AtActivity, AtWait, IsBinding
  <2> QED
    BY <1>2, <1>3, <2>1, CtxEqual DEF Passes, SameBut, CtxFields, d, e
<1>4. CASE Takes(step, run, c, d)
  <2>1. /\ c.cursor < Len(ext.records)
        /\ NextRecord(ext, c) = NextRecord(run, c)
    <3>1. c.cursor + 1 \in 1..Len(run.records)
      BY <1>4 DEF Takes, AtRecord, IsCtx, IsOpenRun
    <3>2. NextRecord(run, c).status # "InFlight"
      BY <1>4 DEF Takes
    <3>3. Len(run.records) <= Len(ext.records)
      BY DEF Extends
    <3>4. NextRecord(ext, c) = NextRecord(run, c)
      BY <3>1, <3>2 DEF Extends, NextRecord
    <3> QED
      BY <3>1, <3>3, <3>4 DEF IsOpenRun, IsCtx
  <2>2. Takes(step, ext, c, e)
    <3>1. Len(ext.records) \in Nat /\ c.cursor \in Nat
      BY DEF IsOpenRun, IsCtx
    <3> QED
      BY <1>1, <1>4, <2>1, <3>1 DEF StepMakes, Passes, Takes, Awaits, Fails, Schedules,
         TakesSignal, Waits, Branches, Completes, Errs, Cannot, AtRecord, AtActivity, AtWait,
         IsBinding
  <2> QED
    BY <1>2, <1>4, <2>1, <2>2, CtxEqual
       DEF Takes, SameBut, CtxFields, NextSeqAfter, d, e
<1>5. CASE TakesSignal(step, run, c, d)
  <2>1. /\ HasSignal(step, ext, c)
        /\ NextSignal(step, ext, c) = NextSignal(step, run, c)
        /\ SignalPayload(step, ext, c) = SignalPayload(step, run, c)
    <3>1. NextSignal(step, ext, c) = NextSignal(step, run, c)
      BY DEF NextSignal, Extends
    <3>2. NextSignal(step, run, c) \in Nat
      <4>1. Count(run.base, step.name) \in Nat
        BY CountIsNat DEF IsOpenRun
      <4>2. Count(c.claim, step.name) \in Nat
        BY CountIsNat DEF IsCtx
      <4> QED
        BY <4>1, <4>2 DEF NextSignal
    <3>3. /\ Len(SignalsNamed(run.history, step.name)) \in Nat
          /\ Len(SignalsNamed(ext.history, step.name)) \in Nat
      BY DEF IsOpenRun
    <3>4. NextSignal(step, run, c) + 1 \in 1..Len(SignalsNamed(run.history, step.name))
      BY <1>5, <3>2, <3>3 DEF TakesSignal, HasSignal
    <3>5. HasSignal(step, ext, c)
      BY <3>1, <3>2, <3>3, <3>4 DEF Extends, HasSignal
    <3>6. SignalPayload(step, ext, c) = SignalPayload(step, run, c)
      BY <3>1, <3>4 DEF Extends, SignalPayload
    <3> QED
      BY <3>1, <3>5, <3>6
  <2>2. TakesSignal(step, ext, c, e)
    BY <1>1, <1>5, <2>1 DEF StepMakes, Passes, Takes, Awaits, Fails, Schedules,
       TakesSignal, Waits, Branches, Completes, Errs, Cannot, AtRecord, AtActivity, AtWait,
       IsBinding
  <2>3. Binding(step, ext, c) = Binding(step, run, c)
    BY <2>1 DEF Binding
  <2> QED
    BY <1>2, <1>5, <2>1, <2>2, <2>3, CtxEqual DEF TakesSignal, SameBut, CtxFields, d, e
<1>6. CASE Branches(step, c, d)
  <2>1. Branches(step, c, e)
    BY <1>1, <1>6 DEF StepMakes, Passes, Takes, Awaits, Fails, Schedules,
       TakesSignal, Waits, Branches, Completes, Errs, Cannot, AtRecord, AtActivity, AtWait,
       IsBinding
  <2> QED
    BY <1>2, <1>6, <2>1, CtxEqual DEF Branches, SameBut, CtxFields, d, e
<1> QED
  BY <1>1, <1>3, <1>4, <1>5, <1>6 DEF StepMakes, Awaits, Fails, Schedules, Waits, Completes, Errs

-----------------------------------------------------------------------------
(* The walk as a sequence of steps.                                        *)

\* Step i leaves the context alone, or makes d of it.
StepTakes(spec, run, c, d, i) ==
  IF c.at = i /\ c.outcome = "Continue"
  THEN d = WalkStep(spec[i], run, c) /\ StepMakes(spec[i], run, c, d)
  ELSE d = c

LEMMA WalkGoes ==
  ASSUME NEW spec, Len(spec) \in Nat, NEW run, IsOpenRun(run), NEW ctx0, IsCtx(ctx0),
         NEW w, IsWalk(w, spec, run, ctx0)
  PROVE  /\ \A i \in 0..Len(spec) : IsCtx(w[i])
         /\ \A i \in 1..Len(spec) : StepTakes(spec, run, w[i - 1], w[i], i)
<1>1. ASSUME NEW i \in 1..Len(spec), IsCtx(w[i - 1])
      PROVE  IsCtx(w[i]) /\ StepTakes(spec, run, w[i - 1], w[i], i)
  <2>1. w[i] = Visit(spec, run, w[i - 1], i)
    BY DEF IsWalk
  <2>2. CASE w[i - 1].at = i /\ w[i - 1].outcome = "Continue"
    <3>1. w[i] = WalkStep(spec[i], run, w[i - 1])
      BY <2>1, <2>2 DEF Visit
    <3>2. StepMakes(spec[i], run, w[i - 1], w[i])
      BY <1>1, <3>1, StepIs
    <3> QED
      BY <2>2, <3>1, <3>2 DEF StepTakes, StepMakes
  <2>3. CASE ~ (w[i - 1].at = i /\ w[i - 1].outcome = "Continue")
    <3>1. w[i] = w[i - 1]
      BY <2>1, <2>3 DEF Visit
    <3> QED
      BY <1>1, <2>3, <3>1 DEF StepTakes
  <2> QED
    BY <2>2, <2>3
<1> DEFINE Good == {i \in 0..Len(spec) : IsCtx(w[i])}
<1>2. 0 \in Good
  BY DEF IsWalk
<1>3. ASSUME NEW i \in 0..(Len(spec) - 1), i \in Good PROVE i + 1 \in Good
  <2>1. i + 1 \in 1..Len(spec) /\ (i + 1) - 1 = i /\ IsCtx(w[i])
    BY <1>3
  <2> QED
    BY <1>1, <2>1
<1> HIDE DEF Good
<1>4. \A i \in 0..Len(spec) : i \in Good
  BY <1>2, <1>3, UpwardInduction
<1>5. \A i \in 0..Len(spec) : IsCtx(w[i])
  BY <1>4 DEF Good
<1>6. ASSUME NEW i \in 1..Len(spec) PROVE StepTakes(spec, run, w[i - 1], w[i], i)
  <2>1. i - 1 \in 0..Len(spec)
    OBVIOUS
  <2> QED
    BY <1>1, <1>5, <2>1
<1> QED
  BY <1>5, <1>6

\* WalkFrom's two arguments, and DecideFrom's answer to the context it ends with.
RunFrom(history, st) ==
  [records |-> ActRecords(history, st), history |-> history,
   finished |-> HistoryFinished(history, st), base |-> SignalBase(st)]

StartFrom(history, st) ==
  [at |-> 1, outcome |-> "Continue", cursor |-> 0, claim |-> EmptyMap,
   input |-> InputOf(history, st), results |-> st.results,
   nextSeq |-> st.nextSeq, consumed |-> st.consumed,
   pending |-> NoPending, commands |-> << >>, waiting |-> Nothing]

Refuses(history, st, ctx) ==
  DanglingEnd(history, st) \/ InputOf(history, st) = BadJson \/ ctx.outcome # "Stop"

AnswerOf(spec, history, st, ctx) ==
  [ok |-> TRUE, commands |-> ctx.commands, waiting |-> ctx.waiting,
   finished |-> HistoryFinished(history, st),
   state |-> [spec |-> spec, watermark |-> NextWatermark(history, st),
              nextSeq |-> ctx.nextSeq, input |-> ctx.input,
              results |-> ctx.results, consumed |-> ctx.consumed,
              pending |-> ctx.pending]]

IsWalkFrom(w, spec, history, st) ==
  IsWalk(w, spec, RunFrom(history, st), StartFrom(history, st))

LEMMA DecideWalks ==
  ASSUME NEW spec, Len(spec) \in Nat, NEW history, NEW st
  PROVE  \E w : /\ IsWalkFrom(w, spec, history, st)
                /\ DecideFrom(spec, history, st) =
                     IF Refuses(history, st, w[Len(spec)]) THEN Failure
                     ELSE AnswerOf(spec, history, st, w[Len(spec)])
<1>1. PICK w : /\ IsWalk(w, spec, RunFrom(history, st), StartFrom(history, st))
               /\ WalkSteps(spec, RunFrom(history, st), StartFrom(history, st)) = w[Len(spec)]
  BY WalkExists
<1>2. WalkFrom(spec, history, st) = w[Len(spec)]
  BY <1>1 DEF WalkFrom, RunFrom, StartFrom
<1>3. DecideFrom(spec, history, st) =
        IF Refuses(history, st, w[Len(spec)]) THEN Failure
        ELSE AnswerOf(spec, history, st, w[Len(spec)])
  BY <1>2 DEF DecideFrom, Refuses, AnswerOf
<1> QED
  BY <1>1, <1>3 DEF IsWalkFrom

LEMMA StartIsCtx ==
  ASSUME NEW history, NEW st, st.nextSeq \in Nat
  PROVE  IsCtx(StartFrom(history, st))
  BY DEF IsCtx, CtxFields, StartFrom, EmptyMap

-----------------------------------------------------------------------------
(* The records a walk reads.                                               *)

LEMMA MaxIsIn ==
  ASSUME NEW n \in Nat, NEW S, S \subseteq 1..n, S # {}
  PROVE  Max(S) \in S /\ \A k \in S : k <= Max(S)
<1> DEFINE T == {n - k : k \in S}
<1>1. T \subseteq Nat /\ T # {}
  <2>1. \A k \in S : n - k \in Nat
    OBVIOUS
  <2>2. T # {}
    OBVIOUS
  <2> QED
    BY <2>1, <2>2
<1> HIDE DEF T
<1>2. PICK m \in T : \A k \in T : m <= k
  BY <1>1, LeastNatural
<1>3. PICK x \in S : m = n - x
  BY <1>2 DEF T
<1>4. ASSUME NEW k \in S PROVE x >= k
  <2>1. m <= n - k
    BY <1>2 DEF T
  <2> QED
    BY <1>3, <2>1
<1>5. Max(S) \in S /\ \A k \in S : Max(S) >= k
  BY <1>3, <1>4 DEF Max
<1> QED
  BY <1>5

EndsIn(history, st, sched) ==
  {e \in InSuffix(history, st, ActivityEnds) : history[e].ref = sched}

LastEnd(history, st, sched) == history[Max(EndsIn(history, st, sched))]

StatusIn(history, st, sched) ==
  IF EndsIn(history, st, sched) = {} THEN "InFlight" ELSE LastEnd(history, st, sched).type

ValueIn(history, st, sched) ==
  IF EndsIn(history, st, sched) = {} THEN Nothing
                                     ELSE Payload(LastEnd(history, st, sched).value)

LEMMA StatusIs ==
  ASSUME NEW history, Len(history) \in Nat, NEW st, st.watermark \in Nat, NEW sched
  PROVE  /\ StatusIn(history, st, sched) \in Statuses
         /\ EndsIn(history, st, sched) = {} <=> StatusIn(history, st, sched) = "InFlight"
<1> DEFINE ends == EndsIn(history, st, sched)
<1>1. ends # {} => LastEnd(history, st, sched).type \in ActivityEnds
  <2>1. ends \subseteq 1..Len(history) /\ \A e \in ends : history[e].type \in ActivityEnds
    BY DEF EndsIn, InSuffix, Suffix
  <2> QED
    BY <2>1, MaxIsIn DEF LastEnd
<1> QED
  BY <1>1 DEF Statuses, ActivityEnds, StatusIn

\* The two uses of ActRecord: a restored record, and one of the suffix.
PendingRecord(history, st) ==
  ActRecord(history, st, st.pending.sched, st.pending.name, TRUE)

FreshRecord(history, st, id) == ActRecord(history, st, id, history[id].name, FALSE)

LEMMA FreshRecordIs ==
  ASSUME NEW history, NEW st, NEW id
  PROVE  FreshRecord(history, st, id) =
           [sched |-> id, name |-> history[id].name, counted |-> FALSE,
            status |-> StatusIn(history, st, id), value |-> ValueIn(history, st, id)]
  BY DEF FreshRecord, ActRecord, EndsIn, LastEnd, StatusIn, ValueIn

LEMMA PendingRecordIs ==
  ASSUME NEW history, NEW st
  PROVE  PendingRecord(history, st) =
           [sched |-> st.pending.sched, name |-> st.pending.name, counted |-> TRUE,
            status |-> StatusIn(history, st, st.pending.sched),
            value |-> ValueIn(history, st, st.pending.sched)]
  BY DEF PendingRecord, ActRecord, EndsIn, LastEnd, StatusIn, ValueIn

\* The activities scheduled past the watermark, in order.
FreshIds(history, st) ==
  InOrder(InSuffix(history, st, {"ActivityScheduled"}), Len(history))

LEMMA FreshIdsList ==
  ASSUME NEW history, Len(history) \in Nat, NEW st, st.watermark \in Nat
  PROVE  /\ Lists(FreshIds(history, st), InSuffix(history, st, {"ActivityScheduled"}),
                  Len(history))
         /\ IsList(FreshIds(history, st))
         /\ \A k \in 1..Len(FreshIds(history, st)) :
              /\ FreshIds(history, st)[k] \in (st.watermark + 1)..Len(history)
              /\ history[FreshIds(history, st)[k]].type = "ActivityScheduled"
<1> DEFINE S == InSuffix(history, st, {"ActivityScheduled"})
           q == FreshIds(history, st)
<1>1. Lists(q, S, Len(history))
  BY InOrderLists DEF FreshIds
<1> HIDE DEF q
<1>2. IsList(q)
  <2>1. q \in Seq(Nat)
    BY <1>1 DEF Lists
  <2> QED
    BY <2>1, SeqIsList
<1>3. \A k \in 1..Len(q) : q[k] \in S
  BY <1>1 DEF Lists
<1>4. \A k \in 1..Len(q) : /\ q[k] \in (st.watermark + 1)..Len(history)
                           /\ history[q[k]].type = "ActivityScheduled"
  BY <1>3 DEF InSuffix, Suffix
<1> HIDE DEF S
<1> QED
  BY <1>1, <1>2, <1>4 DEF q, S

LEMMA FreshRecordsAre ==
  ASSUME NEW history, Len(history) \in Nat, NEW st, st.watermark \in Nat
  PROVE  /\ IsList(FreshRecords(history, st))
         /\ Len(FreshRecords(history, st)) = Len(FreshIds(history, st))
         /\ \A k \in 1..Len(FreshIds(history, st)) :
              FreshRecords(history, st)[k] = FreshRecord(history, st, FreshIds(history, st)[k])
<1> DEFINE n == Len(FreshIds(history, st))
           recs == FreshRecords(history, st)
           rec(k) == FreshRecord(history, st, FreshIds(history, st)[k])
<1>1. n \in Nat
  BY FreshIdsList DEF IsList
<1>2. recs = [k \in 1..n |-> rec(k)]
  BY DEF FreshRecords, FreshIds, FreshRecord
<1> HIDE DEF n, recs, rec
<1>3. recs = [k \in 1..n |-> recs[k]] /\ \A k \in 1..n : recs[k] = rec(k)
  BY <1>2
<1>4. IsList(recs) /\ Len(recs) = n
  BY <1>1, <1>3, FunctionIsList
<1> QED
  BY <1>3, <1>4 DEF recs, n, rec

\* How many of the records are restored ones.
Restored(st) == IF st.pending = NoPending THEN 0 ELSE 1

LEMMA ActRecordsAre ==
  ASSUME NEW history, Len(history) \in Nat, NEW st, st.watermark \in Nat
  PROVE  /\ IsList(ActRecords(history, st))
         /\ Len(ActRecords(history, st)) = Restored(st) + Len(FreshIds(history, st))
         /\ Len(FreshIds(history, st)) \in Nat
         /\ st.pending # NoPending => ActRecords(history, st)[1] = PendingRecord(history, st)
         /\ \A k \in 1..Len(FreshIds(history, st)) :
              ActRecords(history, st)[Restored(st) + k] =
                FreshRecord(history, st, FreshIds(history, st)[k])
<1> DEFINE recs == FreshRecords(history, st)
           ids == FreshIds(history, st)
           rec(k) == FreshRecord(history, st, ids[k])
           first == IF st.pending = NoPending THEN << >>
                                              ELSE <<PendingRecord(history, st)>>
<1>1. ActRecords(history, st) = first \o recs
  BY DEF ActRecords, PendingRecord
<1>2. IsList(recs) /\ Len(recs) = Len(ids) /\ \A k \in 1..Len(ids) : recs[k] = rec(k)
  BY FreshRecordsAre
<1>3. IsList(ids) /\ Len(ids) \in Nat
  BY FreshIdsList DEF IsList
<1> HIDE DEF recs, ids, rec
<1>4. /\ IsList(first) /\ Len(first) = Restored(st)
      /\ st.pending # NoPending => first[1] = PendingRecord(history, st)
  BY DEF IsList, Restored
<1>5. Restored(st) \in {0, 1} /\ (st.pending # NoPending => Restored(st) = 1)
  BY DEF Restored
<1> HIDE DEF first
<1>6. /\ IsList(first \o recs)
      /\ Len(first \o recs) = Len(first) + Len(recs)
      /\ \A i \in 1..Len(first) : (first \o recs)[i] = first[i]
      /\ \A i \in 1..Len(recs) : (first \o recs)[Len(first) + i] = recs[i]
  BY <1>2, <1>4, ListConcat
<1>7. /\ IsList(first \o recs)
      /\ Len(first \o recs) = Restored(st) + Len(ids)
      /\ st.pending # NoPending => (first \o recs)[1] = PendingRecord(history, st)
      /\ \A k \in 1..Len(ids) : (first \o recs)[Restored(st) + k] = rec(k)
  BY <1>2, <1>4, <1>5, <1>6
<1> QED
  BY <1>1, <1>3, <1>7 DEF ids, rec

LEMMA RecordsHaveStatus ==
  ASSUME NEW history, Len(history) \in Nat, NEW st, st.watermark \in Nat,
         NEW k \in 1..Len(ActRecords(history, st))
  PROVE  /\ ActRecords(history, st)[k].status \in Statuses
         /\ \/ ActRecords(history, st)[k].sched = st.pending.sched /\ st.pending # NoPending
            \/ /\ ActRecords(history, st)[k].sched \in (st.watermark + 1)..Len(history)
               /\ history[ActRecords(history, st)[k].sched].type = "ActivityScheduled"
<1> DEFINE recs == ActRecords(history, st)
           ids == FreshIds(history, st)
           rec(i) == FreshRecord(history, st, ids[i])
<1>1. /\ Len(recs) = Restored(st) + Len(ids)
      /\ Len(ids) \in Nat
      /\ st.pending # NoPending => recs[1] = PendingRecord(history, st)
      /\ \A i \in 1..Len(ids) : recs[Restored(st) + i] = rec(i)
  <2>1. Len(recs) = Restored(st) + Len(ids) /\ Len(ids) \in Nat
    BY ActRecordsAre
  <2>2. st.pending # NoPending => recs[1] = PendingRecord(history, st)
    BY ActRecordsAre
  <2>3. \A i \in 1..Len(ids) : recs[Restored(st) + i] = rec(i)
    BY ActRecordsAre
  <2> QED
    BY <2>1, <2>2, <2>3
<1>2. Restored(st) \in {0, 1} /\ (st.pending # NoPending <=> Restored(st) = 1)
  BY DEF Restored
<1>3. k \in 1..Len(recs)
  OBVIOUS
<1>p. PendingRecord(history, st).status \in Statuses
      /\ PendingRecord(history, st).sched = st.pending.sched
  BY PendingRecordIs, StatusIs
<1>r. \A i : rec(i).status \in Statuses /\ rec(i).sched = ids[i]
  BY FreshRecordIs, StatusIs
<1>i. \A i \in 1..Len(ids) : /\ ids[i] \in (st.watermark + 1)..Len(history)
                             /\ history[ids[i]].type = "ActivityScheduled"
  BY FreshIdsList
<1> HIDE DEF recs, ids, rec
<1>4. CASE st.pending # NoPending /\ k = 1
  BY <1>1, <1>4, <1>p DEF recs
<1>5. CASE ~ (st.pending # NoPending /\ k = 1)
  <2>1. k - Restored(st) \in 1..Len(ids)
    BY <1>1, <1>2, <1>3, <1>5
  <2>2. recs[k] = rec(k - Restored(st))
    <3>1. Restored(st) + (k - Restored(st)) = k
      BY <1>2, <1>3
    <3> QED
      BY <1>1, <2>1, <3>1
  <2> QED
    BY <2>1, <2>2, <1>r, <1>i DEF recs
<1> QED
  BY <1>4, <1>5

-----------------------------------------------------------------------------
(* What a walk over an open history may answer.                            *)

NeverClosed(history) == \A e \in 1..Len(history) : history[e].type \notin TerminalEvents

\* What decideImpl relies on in a state it resumes from.
IsPrior(st) ==
  /\ st.watermark \in Nat
  /\ st.nextSeq \in Nat \ {0}
  /\ \A key \in DOMAIN st.consumed : st.consumed[key] \in Nat

LEMMA RunIsOpen ==
  ASSUME NEW history, Len(history) \in Nat, NeverClosed(history), NEW st, IsPrior(st)
  PROVE  IsOpenRun(RunFrom(history, st)) /\ ~ HistoryFinished(history, st)
<1> DEFINE run == RunFrom(history, st)
<1>1. ~ HistoryFinished(history, st)
  BY DEF HistoryFinished, InSuffix, Suffix, NeverClosed, IsPrior
<1>2. /\ run.records = ActRecords(history, st) /\ run.history = history
      /\ run.finished = HistoryFinished(history, st) /\ run.base = st.consumed
  BY DEF RunFrom, SignalBase
<1> HIDE DEF run
<1>3. st.watermark \in Nat
  BY DEF IsPrior
<1>4. Len(run.records) \in Nat
  BY <1>2, <1>3, ActRecordsAre DEF IsList
<1>5. \A k \in 1..Len(run.records) : run.records[k].status \in Statuses
  BY <1>2, <1>3, RecordsHaveStatus
<1>6. ASSUME NEW name PROVE Len(SignalsNamed(run.history, name)) \in Nat
  <2>1. Lists(SignalsNamed(history, name), SignalIds(history, name), Len(history))
    BY InOrderLists DEF SignalsNamed
  <2> QED
    BY <1>2, <2>1 DEF Lists
<1>7. \A key \in DOMAIN run.base : run.base[key] \in Nat
  BY <1>2 DEF IsPrior
<1>8. ~ run.finished
  BY <1>1, <1>2
<1>9. IsOpenRun(run)
  BY <1>4, <1>5, <1>6, <1>7, <1>8 DEF IsOpenRun
<1> QED
  BY <1>1, <1>9 DEF run

\* The next record exists.
LEMMA NextRecordExists ==
  ASSUME NEW step, NEW run, NEW c, IsCtx(c), IsOpenRun(run), c.cursor < Len(run.records)
  PROVE  /\ c.cursor + 1 \in 1..Len(run.records)
         /\ NextRecord(run, c) = run.records[c.cursor + 1]
         /\ NextSeqAfter(run, c) \in {c.nextSeq, c.nextSeq + 1}
  BY DEF IsCtx, IsOpenRun, NextRecord, NextSeqAfter

LEMMA NextSignalIsNat ==
  ASSUME NEW step, NEW run, NEW c, IsCtx(c), IsOpenRun(run)
  PROVE  NextSignal(step, run, c) \in Nat
<1>1. Count(run.base, step.name) \in Nat
  BY CountIsNat DEF IsOpenRun
<1>2. Count(c.claim, step.name) \in Nat
  BY CountIsNat DEF IsCtx
<1> QED
  BY <1>1, <1>2 DEF NextSignal

\* A context holds at most one command, and none while it goes on; it counts
\* signals from any incarnation, and waits for no activity but a recorded one.
IsAnswering(run, c) ==
  /\ c.nextSeq # 0
  /\ \A key \in DOMAIN c.consumed : c.consumed[key] \in Nat
  /\ IsList(c.commands) /\ Len(c.commands) <= 1
  /\ c.outcome = "Continue" => c.commands = << >>
  /\ \/ c.pending = NoPending
     \/ \E k \in 1..Len(run.records) :
          c.pending = [sched |-> run.records[k].sched, name |-> run.records[k].name]

LEMMA OneCommand ==
  ASSUME NEW cmd
  PROVE  IsList(Append(<< >>, cmd)) /\ Len(Append(<< >>, cmd)) = 1
         /\ Append(<< >>, cmd)[1] = cmd
<1> DEFINE s == << >>
<1>1. IsList(s) /\ Len(s) = 0 /\ Len(s) + 1 = 1
  BY DEF IsList
<1> HIDE DEF s
<1>2. IsList(Append(s, cmd))
  BY <1>1, ListAppend
<1>3. Len(Append(s, cmd)) = Len(s) + 1 /\ Append(s, cmd)[Len(s) + 1] = cmd
  BY <1>1, ListAppend
<1> QED
  BY <1>1, <1>2, <1>3 DEF s

LEMMA AppendsOne ==
  ASSUME NEW q, q = << >>, NEW cmd, NEW r, r = Append(q, cmd)
  PROVE  IsList(r) /\ Len(r) = 1
<1>1. r = Append(<< >>, cmd)
  OBVIOUS
<1> QED
  BY <1>1, OneCommand

LEMMA StepAnswers ==
  ASSUME NEW step, NEW run, NEW c, IsCtx(c), IsOpenRun(run), NEW d,
         StepMakes(step, run, c, d), c.outcome = "Continue", IsAnswering(run, c)
  PROVE  IsAnswering(run, d)
<1>0. /\ c.nextSeq \in Nat /\ c.nextSeq # 0 /\ c.commands = << >>
      /\ IsList(c.commands) /\ Len(c.commands) <= 1
  BY DEF IsAnswering, IsCtx
<1>1. CASE Passes(step, c, d)
  BY <1>1 DEF IsAnswering, Passes, SameBut, CtxFields
<1>2. CASE Takes(step, run, c, d)
  <2>1. d.nextSeq # 0
    BY <1>0, <1>2, NextRecordExists DEF Takes, AtRecord
  <2> QED
    BY <1>2, <2>1 DEF IsAnswering, Takes, SameBut, CtxFields
<1>3. CASE Awaits(step, run, c, d)
  <2>1. d.nextSeq # 0 /\ c.cursor + 1 \in 1..Len(run.records)
    BY <1>0, <1>3, NextRecordExists DEF Awaits, AtRecord
  <2>2. d.pending = [sched |-> run.records[c.cursor + 1].sched,
                     name |-> run.records[c.cursor + 1].name]
    BY <1>3 DEF Awaits, NextRecord
  <2>3. d.consumed = c.consumed /\ d.commands = c.commands /\ d.outcome # "Continue"
    BY <1>3 DEF Awaits, SameBut, CtxFields
  <2> QED
    BY <1>0, <2>1, <2>2, <2>3 DEF IsAnswering
<1>4. CASE Fails(step, run, c, d)
  <2>1. d.nextSeq # 0
    BY <1>0, <1>4, NextRecordExists DEF Fails, AtRecord
  <2>2. IsList(d.commands) /\ Len(d.commands) = 1
    BY <1>0, <1>4, AppendsOne DEF Fails
  <2>3. d.consumed = c.consumed /\ d.pending = c.pending /\ d.outcome # "Continue"
    BY <1>4 DEF Fails, SameBut, CtxFields
  <2> QED
    BY <2>1, <2>2, <2>3 DEF IsAnswering
<1>5. CASE Schedules(step, run, c, d) \/ Completes(step, c, d)
  <2>1. \E cmd : d.commands = Append(c.commands, cmd)
    BY <1>5 DEF Schedules, Completes
  <2>2. IsList(d.commands) /\ Len(d.commands) = 1
    BY <1>0, <2>1, AppendsOne
  <2>3. /\ d.consumed = c.consumed /\ d.pending = c.pending /\ d.outcome # "Continue"
        /\ d.nextSeq = c.nextSeq
    BY <1>5 DEF Schedules, Completes, SameBut, CtxFields
  <2> QED
    BY <1>0, <2>2, <2>3 DEF IsAnswering
<1>6. CASE TakesSignal(step, run, c, d)
  <2>1. \A key \in DOMAIN d.consumed : d.consumed[key] \in Nat
    <3>1. NextSignal(step, run, c) + 1 \in Nat
      BY NextSignalIsNat
    <3>2. d.consumed = Put(c.consumed, step.name, NextSignal(step, run, c) + 1)
      BY <1>6 DEF TakesSignal
    <3>3. \A key \in DOMAIN c.consumed : c.consumed[key] \in Nat
      BY DEF IsAnswering
    <3> QED
      BY <3>1, <3>2, <3>3 DEF Put
  <2>2. /\ d.pending = c.pending /\ d.nextSeq = c.nextSeq /\ d.commands = c.commands
    BY <1>6 DEF TakesSignal, SameBut, CtxFields
  <2> QED
    BY <1>0, <2>1, <2>2 DEF IsAnswering
<1>7. CASE Waits(step, run, c, d) \/ Branches(step, c, d) \/ Errs(step, run, c, d)
  <2>1. /\ d.consumed = c.consumed /\ d.pending = c.pending /\ d.nextSeq = c.nextSeq
        /\ d.commands = c.commands
    BY <1>7 DEF Waits, Branches, Errs, SameBut, CtxFields
  <2> QED
    BY <1>0, <2>1 DEF IsAnswering
<1> QED
  BY <1>1, <1>2, <1>3, <1>4, <1>5, <1>6, <1>7 DEF StepMakes

LEMMA WalkAnswers ==
  ASSUME NEW spec, Len(spec) \in Nat, NEW run, IsOpenRun(run), NEW ctx0, IsCtx(ctx0),
         NEW w, IsWalk(w, spec, run, ctx0), IsAnswering(run, ctx0)
  PROVE  \A i \in 0..Len(spec) : IsAnswering(run, w[i])
<1> DEFINE Good == {i \in 0..Len(spec) : IsAnswering(run, w[i])}
<1>1. 0 \in Good
  BY DEF IsWalk
<1>2. ASSUME NEW i \in 0..(Len(spec) - 1), i \in Good PROVE i + 1 \in Good
  <2>1. /\ i + 1 \in 1..Len(spec) /\ i + 1 \in 0..Len(spec) /\ (i + 1) - 1 = i
        /\ i \in 0..Len(spec) /\ IsAnswering(run, w[i])
    BY <1>2
  <2>2. StepTakes(spec, run, w[i], w[i + 1], i + 1) /\ IsCtx(w[i])
    BY <2>1, WalkGoes
  <2>3. CASE w[i + 1] = w[i]
    BY <2>1, <2>3
  <2>4. CASE w[i].outcome = "Continue" /\ StepMakes(spec[i + 1], run, w[i], w[i + 1])
    BY <2>1, <2>2, <2>4, StepAnswers
  <2> QED
    BY <2>2, <2>3, <2>4 DEF StepTakes
<1> HIDE DEF Good
<1>3. \A i \in 0..Len(spec) : i \in Good
  BY <1>1, <1>2, UpwardInduction
<1> QED
  BY <1>3 DEF Good

\* A pending record names an activity of the history.
PendingIn(history, pending) ==
  \/ pending = NoPending
  \/ /\ pending = [sched |-> pending.sched, name |-> pending.name]
     /\ pending.sched \in 1..Len(history)
     /\ history[pending.sched].type = "ActivityScheduled"

LEMMA DecisionShape ==
  ASSUME NEW spec, Len(spec) \in Nat, NEW history, Len(history) \in Nat,
         NeverClosed(history), NEW st, IsPrior(st), PendingIn(history, st.pending),
         DecideFrom(spec, history, st).ok
  PROVE  LET d == DecideFrom(spec, history, st)
         IN  /\ IsList(d.commands) /\ Len(d.commands) <= 1
             /\ ~ d.finished
             /\ IsPrior(d.state)
             /\ d.state.spec = spec
             /\ d.state.watermark = NextWatermark(history, st)
             /\ PendingIn(history, d.state.pending)
<1> DEFINE d == DecideFrom(spec, history, st)
           run == RunFrom(history, st)
           ctx0 == StartFrom(history, st)
<1>1. PICK w : /\ IsWalk(w, spec, run, ctx0)
               /\ d = IF Refuses(history, st, w[Len(spec)]) THEN Failure
                      ELSE AnswerOf(spec, history, st, w[Len(spec)])
  BY DecideWalks DEF IsWalkFrom
<1> DEFINE c == w[Len(spec)]
<1>2. d = AnswerOf(spec, history, st, c)
  BY <1>1 DEF Failure
<1>3. IsOpenRun(run) /\ ~ HistoryFinished(history, st)
  BY RunIsOpen
<1>4. IsCtx(ctx0)
  BY StartIsCtx DEF IsPrior
<1>5. IsAnswering(run, ctx0)
  BY DEF IsAnswering, StartFrom, IsPrior, IsList
<1>6. IsCtx(c) /\ IsAnswering(run, c)
  <2>1. Len(spec) \in 0..Len(spec)
    OBVIOUS
  <2> HIDE DEF run, ctx0
  <2> QED
    BY <1>1, <1>3, <1>4, <1>5, <2>1, WalkAnswers, WalkGoes
<1>7. run.records = ActRecords(history, st)
  BY DEF RunFrom
<1>8. PendingIn(history, c.pending)
  <2>1. CASE c.pending = NoPending
    BY <2>1 DEF PendingIn
  <2>2. CASE c.pending # NoPending
    <3>1. PICK k \in 1..Len(ActRecords(history, st)) :
             c.pending = [sched |-> ActRecords(history, st)[k].sched,
                          name |-> ActRecords(history, st)[k].name]
      BY <1>6, <1>7, <2>2 DEF IsAnswering
    <3>2. \/ ActRecords(history, st)[k].sched = st.pending.sched /\ st.pending # NoPending
          \/ /\ ActRecords(history, st)[k].sched \in (st.watermark + 1)..Len(history)
             /\ history[ActRecords(history, st)[k].sched].type = "ActivityScheduled"
      BY RecordsHaveStatus DEF IsPrior
    <3>3. st.watermark \in Nat
      BY DEF IsPrior
    <3> QED
      BY <3>1, <3>2, <3>3 DEF PendingIn
  <2> QED
    BY <2>1, <2>2
<1> HIDE DEF run, ctx0, c
<1>9. NextWatermark(history, st) \in Nat
  BY DEF NextWatermark, IsPrior
<1>10. /\ d.commands = c.commands /\ d.finished = HistoryFinished(history, st)
       /\ d.state.spec = spec /\ d.state.watermark = NextWatermark(history, st)
       /\ d.state.nextSeq = c.nextSeq /\ d.state.consumed = c.consumed
       /\ d.state.pending = c.pending
  BY <1>2 DEF AnswerOf
<1> HIDE DEF d
<1>11. IsPrior(d.state)
  BY <1>6, <1>9, <1>10 DEF IsPrior, IsCtx, IsAnswering
<1> QED
  BY <1>3, <1>6, <1>8, <1>10, <1>11 DEF IsAnswering, d

-----------------------------------------------------------------------------
(* Facts about one walk.                                                   *)

LEMMA WalkExtends ==
  ASSUME NEW spec, Len(spec) \in Nat, NEW run, IsOpenRun(run), NEW ext, IsOpenRun(ext),
         Extends(run, ext), NEW ctx0, IsCtx(ctx0),
         NEW w, IsWalk(w, spec, run, ctx0), NEW v, IsWalk(v, spec, ext, ctx0)
  PROVE  \A i \in 0..Len(spec) : w[i].outcome = "Continue" => v[i] = w[i]
<1> DEFINE Same == {i \in 0..Len(spec) : w[i].outcome = "Continue" => v[i] = w[i]}
<1>1. 0 \in Same
  BY DEF IsWalk
<1>2. ASSUME NEW i \in 0..(Len(spec) - 1), i \in Same PROVE i + 1 \in Same
  <2>1. /\ i + 1 \in 1..Len(spec) /\ i + 1 \in 0..Len(spec) /\ (i + 1) - 1 = i
        /\ i \in 0..Len(spec)
    OBVIOUS
  <2>2. /\ w[i + 1] = Visit(spec, run, w[i], i + 1)
        /\ v[i + 1] = Visit(spec, ext, v[i], i + 1)
    BY <2>1 DEF IsWalk
  <2>3. IsCtx(w[i])
    BY <2>1, WalkGoes
  <2>4. ASSUME w[i + 1].outcome = "Continue" PROVE v[i + 1] = w[i + 1]
    <3>1. CASE w[i].at = i + 1 /\ w[i].outcome = "Continue"
      <4>1. v[i] = w[i]
        BY <1>2, <3>1
      <4>2. w[i + 1] = WalkStep(spec[i + 1], run, w[i])
        BY <2>2, <3>1 DEF Visit
      <4>3. v[i + 1] = WalkStep(spec[i + 1], ext, w[i])
        BY <2>2, <3>1, <4>1 DEF Visit
      <4> QED
        BY <2>3, <2>4, <3>1, <4>2, <4>3, StepExtends
    <3>2. CASE ~ (w[i].at = i + 1 /\ w[i].outcome = "Continue")
      <4>1. w[i + 1] = w[i]
        BY <2>2, <3>2 DEF Visit
      <4>2. v[i] = w[i]
        BY <1>2, <2>4, <4>1
      <4> QED
        BY <2>2, <3>2, <4>1, <4>2 DEF Visit
    <3> QED
      BY <3>1, <3>2
  <2> QED
    BY <2>1, <2>4
<1> HIDE DEF Same
<1>3. \A i \in 0..Len(spec) : i \in Same
  BY <1>1, <1>2, UpwardInduction
<1> QED
  BY <1>3 DEF Same

KeepsKey(c, d, key) ==
  /\ key \in DOMAIN c.results <=> key \in DOMAIN d.results
  /\ key \in DOMAIN c.results => d.results[key] = c.results[key]

\* The step only adds results, reads no input, and claims records one by one.
GrowsTo(c, d) ==
  /\ DOMAIN c.results \subseteq DOMAIN d.results
  /\ d.input = c.input
  /\ c.cursor <= d.cursor

LEMMA GrowsRefl ==
  ASSUME NEW c, IsCtx(c)
  PROVE  GrowsTo(c, c)
<1>1. c.cursor \in Nat
  BY DEF IsCtx
<1> QED
  BY <1>1 DEF GrowsTo

LEMMA GrowsTrans ==
  ASSUME NEW c, IsCtx(c), NEW d, IsCtx(d), NEW e, IsCtx(e), GrowsTo(c, d), GrowsTo(d, e)
  PROVE  GrowsTo(c, e)
<1>1. c.cursor \in Nat /\ d.cursor \in Nat /\ e.cursor \in Nat
  BY DEF IsCtx
<1> QED
  BY <1>1 DEF GrowsTo

LEMMA StepGrows ==
  ASSUME NEW step, NEW run, NEW c, IsCtx(c), NEW d, StepMakes(step, run, c, d)
  PROVE  GrowsTo(c, d)
<1>0. c.cursor \in Nat
  BY DEF IsCtx
<1>1. CASE Takes(step, run, c, d)
  <2>1. DOMAIN c.results \subseteq DOMAIN d.results
    BY <1>1 DEF Takes, Put
  <2> QED
    BY <1>0, <1>1, <2>1 DEF Takes, GrowsTo, SameBut, CtxFields
<1>2. CASE TakesSignal(step, run, c, d)
  <2>1. DOMAIN c.results \subseteq DOMAIN d.results
    BY <1>2 DEF TakesSignal, Binding, Put
  <2> QED
    BY <1>0, <1>2, <2>1 DEF TakesSignal, GrowsTo, SameBut, CtxFields
<1>3. CASE Awaits(step, run, c, d) \/ Fails(step, run, c, d)
  BY <1>0, <1>3 DEF Awaits, Fails, GrowsTo, SameBut, CtxFields
<1>4. CASE \/ Passes(step, c, d) \/ Schedules(step, run, c, d) \/ Waits(step, run, c, d)
           \/ Branches(step, c, d) \/ Completes(step, c, d) \/ Errs(step, run, c, d)
  BY <1>0, <1>4 DEF Passes, Schedules, Waits, Branches, Completes, Errs, GrowsTo, SameBut,
     CtxFields
<1> QED
  BY <1>1, <1>2, <1>3, <1>4 DEF StepMakes

LEMMA StepKeepsKey ==
  ASSUME NEW step, NEW run, NEW c, NEW d, StepMakes(step, run, c, d),
         NEW key, ~ Rebinds(step, key)
  PROVE  KeepsKey(c, d, key)
<1>1. CASE Takes(step, run, c, d)
  <2>1. key # step.id
    BY <1>1 DEF Rebinds, Takes, AtRecord, AtActivity, IsBinding
  <2>2. d.results = Put(c.results, step.id, NextRecord(run, c).value)
    BY <1>1 DEF Takes
  <2> QED
    BY <2>1, <2>2 DEF KeepsKey, Put
<1>2. CASE TakesSignal(step, run, c, d)
  <2>1. key # step.id /\ key # step.bindTo
    BY <1>2 DEF Rebinds, TakesSignal, AtWait, IsBinding
  <2>2. d.results = Binding(step, run, c)
    BY <1>2 DEF TakesSignal
  <2> QED
    BY <2>1, <2>2 DEF KeepsKey, Binding, Put
<1>3. CASE \/ Passes(step, c, d) \/ Schedules(step, run, c, d) \/ Waits(step, run, c, d)
           \/ Branches(step, c, d) \/ Completes(step, c, d) \/ Errs(step, run, c, d)
           \/ Awaits(step, run, c, d) \/ Fails(step, run, c, d)
  BY <1>3 DEF Passes, Schedules, Waits, Branches, Completes, Errs, Awaits, Fails, KeepsKey,
     SameBut, CtxFields
<1> QED
  BY <1>1, <1>2, <1>3 DEF StepMakes

LEMMA WalkGrows ==
  ASSUME NEW spec, Len(spec) \in Nat, NEW run, IsOpenRun(run), NEW ctx0, IsCtx(ctx0),
         NEW w, IsWalk(w, spec, run, ctx0), NEW i \in 0..Len(spec), NEW j \in i..Len(spec)
  PROVE  GrowsTo(w[i], w[j])
<1> DEFINE Good == {k \in i..Len(spec) : GrowsTo(w[i], w[k])}
<1>0. \A k \in 0..Len(spec) : IsCtx(w[k])
  BY WalkGoes
<1>1. i \in Good
  BY <1>0, GrowsRefl
<1>2. ASSUME NEW k \in i..(Len(spec) - 1), k \in Good PROVE k + 1 \in Good
  <2>1. /\ k + 1 \in 1..Len(spec) /\ k + 1 \in i..Len(spec) /\ (k + 1) - 1 = k
        /\ k \in 0..Len(spec) /\ k + 1 \in 0..Len(spec) /\ GrowsTo(w[i], w[k])
    BY <1>2
  <2>2. StepTakes(spec, run, w[k], w[k + 1], k + 1)
    BY <2>1, WalkGoes
  <2>3. IsCtx(w[k]) /\ IsCtx(w[k + 1]) /\ IsCtx(w[i])
    BY <1>0, <2>1
  <2>4. GrowsTo(w[k], w[k + 1])
    BY <2>2, <2>3, StepGrows, GrowsRefl DEF StepTakes
  <2>5. GrowsTo(w[i], w[k + 1])
    BY <2>1, <2>3, <2>4, GrowsTrans
  <2> QED
    BY <2>1, <2>5
<1>3. i \in Nat
  OBVIOUS
<1> HIDE DEF Good
<1>4. \A k \in i..Len(spec) : k \in Good
  BY <1>1, <1>2, <1>3, UpwardInduction
<1> QED
  BY <1>4 DEF Good

LEMMA WalkKeepsKey ==
  ASSUME NEW spec, Len(spec) \in Nat, NEW run, IsOpenRun(run), NEW ctx0, IsCtx(ctx0),
         NEW w, IsWalk(w, spec, run, ctx0), NEW i \in 0..Len(spec), NEW j \in i..Len(spec),
         NEW key, \A k \in (i + 1)..j : ~ Rebinds(spec[k], key)
  PROVE  KeepsKey(w[i], w[j], key)
<1> DEFINE Good == {k \in i..j : KeepsKey(w[i], w[k], key)}
<1>1. i \in Good
  BY DEF KeepsKey
<1>2. ASSUME NEW k \in i..(j - 1), k \in Good PROVE k + 1 \in Good
  <2>1. /\ k + 1 \in 1..Len(spec) /\ k + 1 \in i..j /\ (k + 1) - 1 = k
        /\ KeepsKey(w[i], w[k], key) /\ ~ Rebinds(spec[k + 1], key)
    BY <1>2
  <2>2. StepTakes(spec, run, w[k], w[k + 1], k + 1)
    BY <2>1, WalkGoes
  <2>3. KeepsKey(w[k], w[k + 1], key)
    BY <2>1, <2>2, StepKeepsKey DEF StepTakes, KeepsKey
  <2>4. KeepsKey(w[i], w[k + 1], key)
    BY <2>1, <2>3 DEF KeepsKey
  <2> QED
    BY <2>1, <2>4
<1>3. i \in Nat /\ j \in Nat
  OBVIOUS
<1> HIDE DEF Good
<1>4. \A k \in i..j : k \in Good
  BY <1>1, <1>2, <1>3, UpwardInduction
<1> QED
  BY <1>4 DEF Good

-----------------------------------------------------------------------------
(* The walk of a device that has no state.                                 *)

\* A run nothing of which was counted or claimed before.
IsScratchRun(run) ==
  /\ IsOpenRun(run)
  /\ \A k \in 1..Len(run.records) : ~ run.records[k].counted
  /\ run.base = EmptyMap

\* Records are claimed in order, and numbers and signals are counted by the
\* claims of this walk alone.
Scratch(run, c) ==
  c.outcome = "Continue" =>
    /\ c.cursor <= Len(run.records)
    /\ \A k \in 1..c.cursor : run.records[k].status = "ActivityCompleted"
    /\ c.nextSeq = 1 + c.cursor
    /\ c.consumed = c.claim
    /\ c.pending = NoPending /\ c.commands = << >> /\ c.waiting = Nothing

LEMMA ScratchStep ==
  ASSUME NEW step, NEW run, IsScratchRun(run), NEW c, IsCtx(c), c.outcome = "Continue",
         Scratch(run, c), NEW d, StepMakes(step, run, c, d)
  PROVE  Scratch(run, d)
<1>0. c.cursor \in Nat /\ Len(run.records) \in Nat /\ IsOpenRun(run)
  BY DEF IsCtx, IsScratchRun, IsOpenRun
<1>1. CASE Passes(step, c, d) \/ Branches(step, c, d)
  <2>1. SameBut(d, c, {"at"})
    BY <1>1 DEF Passes, Branches
  <2> QED
    BY <2>1 DEF SameBut, CtxFields, Scratch
<1>2. CASE Takes(step, run, c, d)
  <2>1. /\ c.cursor + 1 \in 1..Len(run.records)
        /\ run.records[c.cursor + 1].status = "ActivityCompleted"
        /\ d.cursor = c.cursor + 1
    BY <1>0, <1>2, NextRecordExists DEF Takes, AtRecord
  <2>2. d.nextSeq = c.nextSeq + 1
    BY <1>2, <2>1 DEF Takes, NextSeqAfter, NextRecord, IsScratchRun
  <2>3. /\ d.consumed = c.consumed /\ d.claim = c.claim /\ d.pending = c.pending
        /\ d.commands = c.commands /\ d.waiting = c.waiting /\ d.outcome = c.outcome
    BY <1>2 DEF Takes, SameBut, CtxFields
  <2>4. \A k \in 1..d.cursor : run.records[k].status = "ActivityCompleted"
    <3> TAKE k \in 1..d.cursor
    <3>1. k \in 1..c.cursor \/ k = c.cursor + 1
      BY <1>0, <2>1
    <3> QED
      BY <2>1, <3>1 DEF Scratch
  <2>5. d.cursor <= Len(run.records)
    BY <2>1
  <2> QED
    BY <1>0, <2>1, <2>2, <2>3, <2>4, <2>5 DEF Scratch
<1>3. CASE TakesSignal(step, run, c, d)
  <2>1. NextSignal(step, run, c) = Count(c.claim, step.name)
    <3>1. Count(c.claim, step.name) \in Nat
      BY CountIsNat DEF IsCtx
    <3>2. Count(run.base, step.name) = 0
      BY DEF IsScratchRun, Count, EmptyMap
    <3> QED
      BY <3>1, <3>2 DEF NextSignal
  <2>2. d.consumed = d.claim
    BY <1>3, <2>1 DEF TakesSignal, Scratch
  <2>3. /\ d.pending = c.pending /\ d.nextSeq = c.nextSeq /\ d.cursor = c.cursor
        /\ d.commands = c.commands /\ d.waiting = c.waiting /\ d.outcome = c.outcome
    BY <1>3 DEF TakesSignal, SameBut, CtxFields
  <2> QED
    BY <2>2, <2>3 DEF Scratch
<1>4. CASE \/ Awaits(step, run, c, d) \/ Fails(step, run, c, d) \/ Waits(step, run, c, d)
           \/ Schedules(step, run, c, d) \/ Completes(step, c, d) \/ Errs(step, run, c, d)
  BY <1>4 DEF Awaits, Fails, Schedules, Waits, Completes, Errs, Scratch
<1> QED
  BY <1>1, <1>2, <1>3, <1>4 DEF StepMakes

LEMMA ScratchWalk ==
  ASSUME NEW spec, Len(spec) \in Nat, NEW run, IsScratchRun(run), NEW ctx0, IsCtx(ctx0),
         Scratch(run, ctx0), NEW w, IsWalk(w, spec, run, ctx0)
  PROVE  \A i \in 0..Len(spec) : Scratch(run, w[i])
<1> DEFINE Good == {i \in 0..Len(spec) : Scratch(run, w[i])}
<1>0. IsOpenRun(run)
  BY DEF IsScratchRun
<1>1. 0 \in Good
  BY DEF IsWalk
<1>2. ASSUME NEW i \in 0..(Len(spec) - 1), i \in Good PROVE i + 1 \in Good
  <2>1. /\ i + 1 \in 1..Len(spec) /\ i + 1 \in 0..Len(spec) /\ (i + 1) - 1 = i
        /\ i \in 0..Len(spec) /\ Scratch(run, w[i])
    BY <1>2
  <2>2. StepTakes(spec, run, w[i], w[i + 1], i + 1) /\ IsCtx(w[i])
    BY <1>0, <2>1, WalkGoes
  <2> QED
    BY <2>1, <2>2, ScratchStep DEF StepTakes
<1> HIDE DEF Good
<1>3. \A i \in 0..Len(spec) : i \in Good
  BY <1>1, <1>2, UpwardInduction
<1> QED
  BY <1>3 DEF Good

-----------------------------------------------------------------------------
(* A walk that resumes passes what the other walk has bound.               *)

LEMMA PassStep ==
  ASSUME NEW step, NEW run, NEW c, IsBinding(step), step.id \in DOMAIN c.results
  PROVE  WalkStep(step, run, c) = Advance(c, step.next)
<1>1. CASE step.kind = "activity"
  BY <1>1 DEF WalkStep, WalkActivity
<1>2. CASE step.kind = "wait_signal"
  BY <1>2 DEF WalkStep, WalkWaitSignal
<1> QED
  BY <1>1, <1>2 DEF IsBinding

LEMMA PredicateReads ==
  ASSUME NEW step, step.op \in Operators, NEW c, NEW d, c.input = d.input,
         KeepsKey(c, d, step.path)
  PROVE  /\ PredicateFails(step, c) <=> PredicateFails(step, d)
         /\ ~ PredicateFails(step, c) =>
              (PredicateHolds(step, c) <=> PredicateHolds(step, d))
<1>1. Resolves(c, step.path) <=> Resolves(d, step.path)
  BY DEF Resolves, KeepsKey
<1>2. Resolves(c, step.path) => Lookup(c, step.path) = Lookup(d, step.path)
  BY DEF Resolves, Lookup, KeepsKey
<1>3. PredicateFails(step, c) <=> PredicateFails(step, d)
  BY <1>1, <1>2 DEF PredicateFails
<1>4. ASSUME ~ PredicateFails(step, c)
      PROVE  PredicateHolds(step, c) <=> PredicateHolds(step, d)
  <2>1. CASE step.op = "exists"
    BY <1>1, <2>1 DEF PredicateHolds
  <2>2. CASE step.op # "exists"
    <3>1. Lookup(c, step.path) = Lookup(d, step.path)
      BY <1>2, <1>4, <2>2 DEF PredicateFails
    <3> DEFINE v == Lookup(c, step.path)
    <3>2. v = Lookup(c, step.path) /\ v = Lookup(d, step.path)
      BY <3>1
    <3> HIDE DEF v
    <3>3. CASE step.op = "eq"
      BY <3>2, <3>3 DEF PredicateHolds
    <3>4. CASE step.op = "ne"
      BY <3>2, <3>4 DEF PredicateHolds
    <3>5. CASE step.op = "lt"
      BY <3>2, <3>5 DEF PredicateHolds
    <3>6. CASE step.op = "le"
      BY <3>2, <3>6 DEF PredicateHolds
    <3>7. CASE step.op = "gt"
      BY <3>2, <3>7 DEF PredicateHolds
    <3>8. CASE step.op = "ge"
      BY <3>2, <3>8 DEF PredicateHolds
    <3> QED
      BY <2>2, <3>3, <3>4, <3>5, <3>6, <3>7, <3>8 DEF Operators, Orderings
  <2> QED
    BY <2>1, <2>2
<1> QED
  BY <1>3, <1>4

LEMMA AdvanceTwice ==
  ASSUME NEW c, IsCtx(c), NEW i, NEW j
  PROVE  Advance(Advance(c, i), j) = Advance(c, j)
<1>1. IsCtx(Advance(c, i)) /\ IsCtx(Advance(c, j)) /\ IsCtx(Advance(Advance(c, i), j))
  BY AdvanceCtx
<1>2. /\ Advance(Advance(c, i), j).at = j
      /\ SameBut(Advance(Advance(c, i), j), Advance(c, i), {"at"})
  BY <1>1, AdvanceCtx DEF SameBut
<1>3. /\ Advance(c, i).at = i /\ SameBut(Advance(c, i), c, {"at"})
      /\ Advance(c, j).at = j /\ SameBut(Advance(c, j), c, {"at"})
  BY AdvanceCtx DEF SameBut
<1> HIDE DEF Advance
<1> QED
  BY <1>1, <1>2, <1>3, CtxEqual DEF SameBut, CtxFields
=============================================================================
