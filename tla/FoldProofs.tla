----------------------------- MODULE FoldProofs -----------------------------
(***************************************************************************)
(* FoldLeft of the community modules, for any operator: what it returns    *)
(* for a sequence that is empty, grows at its end or loses its head.  The  *)
(* fold is defined by a function on the sets of indices; a prefix of the   *)
(* indices is all that matters of it.                                      *)
(***************************************************************************)
EXTENDS Integers, Sequences, SequencesExt, WellFoundedInduction, TLAPS

CONSTANT Op(_, _)

Folded(base, s) == FoldLeft(Op, base, s)

(* `it' is the fold, over each set of the first n indices. *)
Iterates(it, base, s, n) ==
    it = [S \in SUBSET (1..n) |->
             IF S = {} THEN base ELSE Op(it[S \ {Max(S)}], s[Max(S)])]

-----------------------------------------------------------------------------
LEMMA SmallestExists ==
    ASSUME NEW S \in SUBSET Nat, S # {}
    PROVE  \E x \in S : \A y \in S : x <= y
<1>1. PICK x \in S : \A y \in S : <<y, x>> \notin OpToRel(<, Nat)
  BY NatLessThanWellFounded, WFMin, Zenon
<1>2. \A y \in S : ~(y < x)
  BY <1>1, Zenon DEF OpToRel
<1> QED BY <1>2

LEMMA MaxIsMember ==
    ASSUME NEW n \in Nat, NEW S \in SUBSET (1..n), S # {}
    PROVE  Max(S) \in S /\ \A y \in S : y <= Max(S)
<1> DEFINE Bounds == {u \in Nat : \A y \in S : y <= u}
<1>1. n \in Bounds
  OBVIOUS
<1>2. PICK u \in Bounds : \A v \in Bounds : u <= v
  BY <1>1, SmallestExists
<1>3. u \in S
  <2>1. SUFFICES ASSUME u \notin S PROVE FALSE
    OBVIOUS
  <2>2. \A y \in S : y \in Nat /\ y <= u - 1
    BY <1>2, <2>1
  <2>3. u - 1 \in Nat
    <3>1. PICK y \in S : TRUE
      OBVIOUS
    <3> QED BY <1>2, <2>2, <3>1
  <2>4. u - 1 \in Bounds
    BY <2>2, <2>3
  <2>5. u <= u - 1 /\ u \in Nat
    BY <1>2, <2>4
  <2> QED BY <2>5
<1>4. \E x \in S : \A y \in S : x >= y
  BY <1>2, <1>3
<1>5. Max(S) \in S /\ \A y \in S : Max(S) >= y
  BY <1>4 DEF Max
<1> QED BY <1>5

(* Without its largest index, a set of the first n + 1 is one of the first n. *)
LEMMA WithoutMax ==
    ASSUME NEW n \in Nat, NEW S \in SUBSET (1..(n + 1)), S # {}
    PROVE  S \ {Max(S)} \in SUBSET (1..n)
<1>1. n + 1 \in Nat
  OBVIOUS
<1>2. Max(S) \in S /\ \A y \in S : y <= Max(S)
  BY <1>1, MaxIsMember
<1>3. Max(S) \in 1..(n + 1) /\ \A y \in S : y \in 1..(n + 1) /\ y <= Max(S)
  BY <1>2
<1>4. \A y \in S \ {Max(S)} : y \in 1..n
  <2> TAKE y \in S \ {Max(S)}
  <2>1. y \in 1..(n + 1) /\ y <= Max(S) /\ y # Max(S) /\ Max(S) <= n + 1
    BY <1>3
  <2> HIDE DEF Max
  <2> QED BY <2>1, <1>3
<1> QED BY <1>4

LEMMA MaxOfPrefix ==
    ASSUME NEW n \in Nat
    PROVE  Max(1..(n + 1)) = n + 1 /\ (1..(n + 1)) \ {n + 1} = 1..n
<1> DEFINE S == 1..(n + 1)
<1>1. n + 1 \in Nat /\ S \in SUBSET (1..(n + 1)) /\ S # {} /\ n + 1 \in S
  OBVIOUS
<1> HIDE DEF S
<1>2. Max(S) \in S /\ \A y \in S : y <= Max(S)
  BY <1>1, MaxIsMember
<1>3. n + 1 <= Max(S) /\ Max(S) \in 1..(n + 1)
  BY <1>1, <1>2
<1>4. Max(S) = n + 1
  BY <1>3
<1> QED BY <1>4 DEF S

-----------------------------------------------------------------------------
(* The function exists: that for n + 1 indices is made of that for n.      *)
LEMMA Extends ==
    ASSUME NEW base, NEW s, NEW n \in Nat, NEW it, Iterates(it, base, s, n)
    PROVE  \E more : Iterates(more, base, s, n + 1)
<1> DEFINE more == [S \in SUBSET (1..(n + 1)) |->
                       IF S = {} THEN base ELSE Op(it[S \ {Max(S)}], s[Max(S)])]
<1>1. \A S \in SUBSET (1..n) : more[S] = it[S]
  <2> TAKE S \in SUBSET (1..n)
  <2>1. S \in SUBSET (1..(n + 1))
    OBVIOUS
  <2> QED BY <2>1 DEF Iterates
<1>2. \A S \in SUBSET (1..(n + 1)) : S # {} => more[S \ {Max(S)}] = it[S \ {Max(S)}]
  BY <1>1, WithoutMax
<1>3. Iterates(more, base, s, n + 1)
  BY <1>2 DEF Iterates
<1> QED BY <1>3

LEMMA IterationExists ==
    ASSUME NEW base, NEW s, NEW n \in Nat
    PROVE  \E it : Iterates(it, base, s, n)
<1> DEFINE Without == {k \in Nat : ~ \E it : Iterates(it, base, s, k)}
<1>1. SUFFICES ASSUME Without # {} PROVE FALSE
  OBVIOUS
<1>2. PICK k \in Without : \A j \in Without : k <= j
  BY <1>1, SmallestExists
<1>3. CASE k = 0
  <2>1. Iterates([S \in SUBSET (1..0) |-> base], base, s, 0)
    BY DEF Iterates
  <2> QED BY <1>2, <1>3, <2>1
<1>4. CASE k # 0
  <2>1. k - 1 \in Nat /\ k - 1 \notin Without
    BY <1>2, <1>4
  <2>2. PICK it : Iterates(it, base, s, k - 1)
    BY <2>1
  <2>3. \E more : Iterates(more, base, s, k - 1 + 1)
    BY <2>1, <2>2, Extends
  <2> QED BY <1>2, <2>3
<1> QED BY <1>3, <1>4

LEMMA IterationStep ==
    ASSUME NEW base, NEW s, NEW n \in Nat, NEW it, Iterates(it, base, s, n)
    PROVE  /\ it[{}] = base
           /\ \A k \in 1..n : it[1..k] = Op(it[1..(k - 1)], s[k])
<1>1. \A S \in SUBSET (1..n) :
         it[S] = IF S = {} THEN base ELSE Op(it[S \ {Max(S)}], s[Max(S)])
  BY DEF Iterates
<1>2. it[{}] = base
  BY <1>1
<1>3. ASSUME NEW k \in 1..n PROVE it[1..k] = Op(it[1..(k - 1)], s[k])
  <2>1. 1..k \in SUBSET (1..n) /\ 1..k # {} /\ k - 1 \in Nat
    BY k \in 1..k
  <2>2. Max(1..(k - 1 + 1)) = k - 1 + 1 /\ (1..(k - 1 + 1)) \ {k - 1 + 1} = 1..(k - 1)
    BY <2>1, MaxOfPrefix
  <2>3. k - 1 + 1 = k
    OBVIOUS
  <2>4. Max(1..k) = k /\ (1..k) \ {k} = 1..(k - 1)
    BY <2>2, <2>3
  <2> QED BY <1>1, <2>1, <2>4
<1> QED BY <1>2, <1>3

(* Of two sequences that begin alike, the folds over what is alike agree. *)
LEMMA SamePrefix ==
    ASSUME NEW base, NEW x, NEW y, NEW l \in Nat, NEW m \in Nat,
           NEW f, Iterates(f, base, x, l), NEW g, Iterates(g, base, y, m),
           NEW p \in Nat, p <= l, p <= m, \A i \in 1..p : x[i] = y[i]
    PROVE  f[1..p] = g[1..p]
<1>1. f[{}] = base /\ \A k \in 1..l : f[1..k] = Op(f[1..(k - 1)], x[k])
  <2>1. Iterates(f, base, x, l)
    OBVIOUS
  <2> QED BY ONLY <2>1, l \in Nat, IterationStep
<1>2. g[{}] = base /\ \A k \in 1..m : g[1..k] = Op(g[1..(k - 1)], y[k])
  <2>1. Iterates(g, base, y, m)
    OBVIOUS
  <2> QED BY ONLY <2>1, m \in Nat, IterationStep
<1> DEFINE Apart == {k \in 0..p : f[1..k] # g[1..k]}
<1>3. \A k \in Apart : k \in 0..p /\ f[1..k] # g[1..k]
  OBVIOUS
<1>4. \A k \in 0..p : k \notin Apart => f[1..k] = g[1..k]
  OBVIOUS
<1>5. Apart \in SUBSET Nat
  OBVIOUS
<1> HIDE DEF Apart
<1>6. SUFFICES ASSUME Apart # {} PROVE FALSE
  BY <1>4
<1>7. PICK k \in Apart : \A j \in Apart : k <= j
  BY <1>5, <1>6, SmallestExists
<1>8. CASE k = 0
  <2>1. 1..k = {}
    BY <1>8
  <2> QED BY <1>1, <1>2, <1>3, <1>7, <2>1
<1>9. CASE k # 0
  <2>1. k \in 1..p /\ k - 1 \in 0..p /\ k - 1 \notin Apart
    BY <1>3, <1>7, <1>9
  <2>2. f[1..(k - 1)] = g[1..(k - 1)]
    BY <1>4, <2>1
  <2>3. k \in 1..l /\ k \in 1..m /\ x[k] = y[k]
    BY <2>1
  <2> QED BY <1>1, <1>2, <1>3, <1>7, <2>2, <2>3
<1> QED BY <1>8, <1>9

(* Whichever function the definition takes, it is one of these.            *)
LEMMA FoldedIterates ==
    ASSUME NEW E, NEW base, NEW s \in Seq(E)
    PROVE  \E it : Iterates(it, base, s, Len(s)) /\ Folded(base, s) = it[1..Len(s)]
<1> DEFINE fold == CHOOSE it : Iterates(it, base, s, Len(s))
<1>1. DOMAIN s = 1..Len(s) /\ Len(s) \in Nat
  OBVIOUS
<1>2. Iterates(fold, base, s, Len(s))
  BY <1>1, IterationExists
<1>3. Folded(base, s)
        = (CHOOSE it : it = [S \in SUBSET DOMAIN s |->
               IF S = {} THEN base ELSE Op(it[S \ {Max(S)}], s[Max(S)])])[DOMAIN s]
  BY DEF Folded, FoldLeft, MapThenFoldSet
<1>4. Folded(base, s) = fold[1..Len(s)]
  BY <1>1, <1>3 DEF Iterates
<1> HIDE DEF fold
<1> QED BY <1>2, <1>4

-----------------------------------------------------------------------------
(* Nothing to fold. *)
LEMMA FoldedEmpty == ASSUME NEW base PROVE Folded(base, <<>>) = base
<1>1. PICK it : /\ Iterates(it, base, <<>>, Len(<<>>))
                /\ Folded(base, <<>>) = it[1..Len(<<>>)]
  BY <<>> \in Seq({}), FoldedIterates
<1>2. 1..Len(<<>>) = {}
  OBVIOUS
<1>3. it[{}] = base
  BY <1>1 DEF Iterates
<1> QED BY <1>1, <1>2, <1>3

(* The last element is applied to the fold of those before it. *)
LEMMA FoldedAppend ==
    ASSUME NEW E, NEW base, NEW s \in Seq(E), NEW e \in E
    PROVE  Folded(base, Append(s, e)) = Op(Folded(base, s), e)
<1> DEFINE r == Append(s, e)
<1>1. /\ r \in Seq(E) /\ Len(r) = Len(s) + 1 /\ Len(s) \in Nat
      /\ r[Len(s) + 1] = e /\ \A i \in 1..Len(s) : r[i] = s[i]
  OBVIOUS
<1> HIDE DEF r
<1>2. PICK it : Iterates(it, base, s, Len(s)) /\ Folded(base, s) = it[1..Len(s)]
  BY FoldedIterates
<1>3. PICK jt : Iterates(jt, base, r, Len(r)) /\ Folded(base, r) = jt[1..Len(r)]
  BY <1>1, FoldedIterates
<1>4. it[1..Len(s)] = jt[1..Len(s)]
  <2>1. Len(s) <= Len(s) /\ Len(s) <= Len(r) /\ Len(r) \in Nat
    BY <1>1
  <2>2. \A i \in 1..Len(s) : s[i] = r[i]
    BY <1>1
  <2> HIDE DEF r
  <2> QED BY <1>2, <1>3, <2>1, <2>2, SamePrefix, Len(s) \in Nat
<1>5. jt[1..Len(r)] = Op(jt[1..(Len(r) - 1)], r[Len(r)])
  <2>1. Len(r) \in 1..Len(r) /\ Len(r) \in Nat
    BY <1>1
  <2> QED BY <1>3, <2>1, IterationStep
<1>6. Len(r) - 1 = Len(s)
  BY <1>1
<1> QED BY <1>1, <1>2, <1>3, <1>4, <1>5, <1>6 DEF r

(* Folding goes on where it stopped. *)
LEMMA FoldedConcat ==
    ASSUME NEW E, NEW base, NEW s \in Seq(E), NEW r \in Seq(E)
    PROVE  Folded(base, s \o r) = Folded(Folded(base, s), r)
<1> DEFINE first == Folded(base, s)
           Rest(k) == SubSeq(r, 1, k)
           Late == {k \in 0..Len(r) : Folded(base, s \o Rest(k)) # Folded(first, Rest(k))}
<1>1. Rest(Len(r)) = r /\ Len(r) \in Nat
  OBVIOUS
<1>2. Rest(0) = <<>> /\ s \o <<>> = s
  OBVIOUS
<1>3. \A k \in 1..Len(r) :
         /\ Rest(k - 1) \in Seq(E) /\ r[k] \in E
         /\ s \o Rest(k - 1) \in Seq(E)
         /\ Rest(k) = Append(Rest(k - 1), r[k])
  OBVIOUS
<1>4. \A k \in 1..Len(r) : s \o Rest(k) = Append(s \o Rest(k - 1), r[k])
  <2> TAKE k \in 1..Len(r)
  <2> DEFINE q == Rest(k - 1)
  <2>1. q \in Seq(E) /\ r[k] \in E /\ Rest(k) = Append(q, r[k])
    BY <1>3
  <2> HIDE DEF q
  <2>2. s \o Append(q, r[k]) = Append(s \o q, r[k])
    BY <2>1
  <2> QED BY <2>1, <2>2 DEF q
<1> HIDE DEF first, Rest
<1>5. /\ \A k \in Late : k \in 0..Len(r) /\ Folded(base, s \o Rest(k)) # Folded(first, Rest(k))
      /\ \A k \in 0..Len(r) :
            k \notin Late => Folded(base, s \o Rest(k)) = Folded(first, Rest(k))
      /\ Late \in SUBSET Nat
  BY <1>1
<1> HIDE DEF Late
<1>6. SUFFICES ASSUME Late # {} PROVE FALSE
  <2>1. Len(r) \in 0..Len(r)
    BY <1>1
  <2> QED BY <1>1, <1>5, <2>1 DEF first
<1>7. PICK k \in Late : \A j \in Late : k <= j
  BY <1>5, <1>6, SmallestExists
<1>8. CASE k = 0
  <2>1. Folded(first, <<>>) = first
    BY FoldedEmpty
  <2> QED BY <1>2, <1>5, <1>7, <1>8, <2>1 DEF first
<1>9. CASE k # 0
  <2>1. k \in 1..Len(r) /\ k - 1 \in 0..Len(r) /\ k - 1 \notin Late
    BY <1>1, <1>5, <1>7, <1>9
  <2>2. Folded(base, s \o Rest(k - 1)) = Folded(first, Rest(k - 1))
    BY <1>5, <2>1
  <2>3. /\ Rest(k - 1) \in Seq(E) /\ s \o Rest(k - 1) \in Seq(E) /\ r[k] \in E
        /\ Rest(k) = Append(Rest(k - 1), r[k])
        /\ s \o Rest(k) = Append(s \o Rest(k - 1), r[k])
    BY <1>3, <1>4, <2>1
  <2>4. Folded(base, s \o Rest(k)) = Op(Folded(base, s \o Rest(k - 1)), r[k])
    <3> DEFINE q == s \o Rest(k - 1)
               e == r[k]
    <3>1. q \in Seq(E) /\ e \in E /\ s \o Rest(k) = Append(q, e)
      BY <2>3
    <3> HIDE DEF q, e
    <3>2. Folded(base, Append(q, e)) = Op(Folded(base, q), e)
      BY <3>1, FoldedAppend
    <3> QED BY <3>1, <3>2 DEF q, e
  <2>5. Folded(first, Rest(k)) = Op(Folded(first, Rest(k - 1)), r[k])
    BY <2>3, FoldedAppend
  <2> QED BY <1>5, <1>7, <2>2, <2>4, <2>5
<1> QED BY <1>8, <1>9

(* A single element. *)
LEMMA FoldedOne ==
    ASSUME NEW E, NEW base, NEW x \in E
    PROVE  Folded(base, <<x>>) = Op(base, x)
<1>1. ASSUME NEW n \in Seq(E), n = <<>>
      PROVE  Folded(base, Append(n, x)) = Op(Folded(base, n), x)
  BY FoldedAppend
<1>2. <<>> \in Seq(E) /\ Append(<<>>, x) = <<x>>
  OBVIOUS
<1>3. Folded(base, <<>>) = base
  BY FoldedEmpty
<1>4. Folded(base, Append(<<>>, x)) = Op(Folded(base, <<>>), x)
  BY <1>1, <1>2, Zenon
<1> QED BY <1>2, <1>3, <1>4

(* The head may be applied to the base first. *)
LEMMA FoldedTail ==
    ASSUME NEW E, NEW base, NEW s \in Seq(E), s # <<>>
    PROVE  Folded(base, s) = Folded(Op(base, Head(s)), Tail(s))
<1> DEFINE h == Head(s)
           t == Tail(s)
           q == <<h>>
<1>1. h \in E /\ t \in Seq(E) /\ q \in Seq(E) /\ s = q \o t
  OBVIOUS
<1> HIDE DEF h, t, q
<1>2. Folded(base, q \o t) = Folded(Folded(base, q), t)
  BY <1>1, FoldedConcat
<1>3. Folded(base, q) = Op(base, h)
  BY <1>1, FoldedOne DEF q
<1> QED BY <1>1, <1>2, <1>3 DEF h, t

(* Induction along a fold.  R relates how many elements have been folded    *)
(* to what they were folded to: if it holds at the start and each element  *)
(* keeps it, it holds of the whole fold.                                   *)
LEMMA FoldedInduction ==
    ASSUME NEW E, NEW base, NEW s \in Seq(E), NEW R,
           <<0, base>> \in R,
           \A k \in 1..Len(s) : \A v : <<k - 1, v>> \in R => <<k, Op(v, s[k])>> \in R
    PROVE  <<Len(s), Folded(base, s)>> \in R
<1>1. PICK it : Iterates(it, base, s, Len(s)) /\ Folded(base, s) = it[1..Len(s)]
  BY FoldedIterates
<1>2. Len(s) \in Nat
  OBVIOUS
<1>3. it[{}] = base /\ \A k \in 1..Len(s) : it[1..k] = Op(it[1..(k - 1)], s[k])
  BY <1>1, <1>2, IterationStep
<1> DEFINE Failing == {k \in 0..Len(s) : <<k, it[1..k]>> \notin R}
<1>4. /\ \A k \in Failing : k \in 0..Len(s) /\ <<k, it[1..k]>> \notin R
      /\ \A k \in 0..Len(s) : k \notin Failing => <<k, it[1..k]>> \in R
      /\ Failing \in SUBSET Nat
  BY <1>2
<1> HIDE DEF Failing
<1>5. SUFFICES ASSUME Failing # {} PROVE FALSE
  <2>1. Len(s) \in 0..Len(s)
    BY <1>2
  <2> QED BY <1>1, <1>4, <2>1
<1>6. PICK k \in Failing : \A j \in Failing : k <= j
  BY <1>4, <1>5, SmallestExists
<1>7. CASE k = 0
  <2>1. 1..k = {}
    BY <1>7
  <2> QED BY <1>3, <1>4, <1>6, <1>7, <2>1
<1>8. CASE k # 0
  <2>0. k \in 0..Len(s)
    BY <1>4, <1>6
  <2>1. k \in 1..Len(s) /\ k - 1 \in 0..Len(s) /\ k - 1 \notin Failing
    BY ONLY <1>2, <1>6, <1>8, <2>0
  <2>2. <<k - 1, it[1..(k - 1)]>> \in R
    BY <1>4, <2>1
  <2> QED BY <1>3, <1>4, <1>6, <2>1, <2>2
<1> QED BY <1>7, <1>8

(* A fold stays within a set that its operator keeps to. *)
LEMMA FoldedWithin ==
    ASSUME NEW E, NEW A, NEW base \in A, NEW s \in Seq(E),
           \A a \in A, e \in E : Op(a, e) \in A
    PROVE  Folded(base, s) \in A
<1> DEFINE R == Nat \X A
<1>1. <<0, base>> \in R
  OBVIOUS
<1>2. \A k \in 1..Len(s) : \A v : <<k - 1, v>> \in R => <<k, Op(v, s[k])>> \in R
  OBVIOUS
<1> HIDE DEF R
<1>3. <<Len(s), Folded(base, s)>> \in R
  BY <1>1, <1>2, FoldedInduction
<1> QED BY <1>3 DEF R
=============================================================================
