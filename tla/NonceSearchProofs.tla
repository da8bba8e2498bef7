------------------------- MODULE NonceSearchProofs -------------------------
(***************************************************************************)
(* The search of NonceSearch for every number of threads, of nonces and of *)
(* digits: it hashes no header twice and skips none.                       *)
(*                                                                         *)
(* The nonces of all extranonce2 are laid out on one line, NonceSpace of   *)
(* them to an extranonce2: Place is a position on it.  A thread visits the *)
(* positions that are NThreads apart, beginning with its index; the wrap   *)
(* at 2^32 is no break in this stride.  What has been hashed is what each  *)
(* thread has passed on its stride, and no position is on two strides.     *)
(*                                                                         *)
(* First comes the fixed point of Target, for every difficulty, width and  *)
(* precision: the target is tight, and a share submitted after the pool    *)
(* has raised the difficulty is close to it.  At the end the two are put   *)
(* together: what is reported, a pool verifies; and the search is shown to *)
(* implement the miner.                                                    *)
(***************************************************************************)
EXTENDS NonceSearch, FiniteSetTheorems, TLAPS

-----------------------------------------------------------------------------
(* A quotient and its remainder. *)
LEMMA Division ==
    ASSUME NEW a \in Int, NEW b \in Nat \ {0}
    PROVE  /\ a \div b \in Int
           /\ (a \div b) * b <= a
           /\ a < (a \div b) * b + b
OBVIOUS

LEMMA Scaling ==
    ASSUME NEW x \in Int, NEW y \in Int, NEW n \in Nat, x <= y
    PROVE  n * x <= n * y
OBVIOUS

LEMMA StrictScaling ==
    ASSUME NEW x \in Int, NEW y \in Int, NEW n \in Nat \ {0}, x < y
    PROVE  n * x < n * y
OBVIOUS

LEMMA Units ==
    /\ UnitsPerStep \in Nat \ {0}
    /\ Scale \in Nat
    /\ One = Scale * UnitsPerStep
<1>1. UnitsPerStep \in Nat \ {0} /\ One \in Nat /\ One % UnitsPerStep = 0
  BY TargetAssumption, PolicyAssumption
<1>2. /\ One \div UnitsPerStep \in Nat
      /\ One = (One \div UnitsPerStep) * UnitsPerStep + (One % UnitsPerStep)
  BY <1>1
<1> QED BY <1>1, <1>2 DEF Scale

(* The difficulty in steps is rounded to the nearest. *)
LEMMA Rounding ==
    ASSUME NEW d \in Int, Precise(d)
    PROVE  /\ scaled(d) \in Nat \ {0}
           /\ 2 * d - UnitsPerStep <= 2 * UnitsPerStep * scaled(d)
           /\ 2 * UnitsPerStep * scaled(d) <= 2 * d + UnitsPerStep
<1> DEFINE U == UnitsPerStep
           x == (2 * d + U) \div (2 * U)
<1>1. U \in Nat \ {0} /\ 2 * U \in Nat \ {0} /\ 2 * d + U \in Int
  BY Units
<1>2. x \in Int /\ x * (2 * U) <= 2 * d + U /\ 2 * d + U < x * (2 * U) + 2 * U
  BY <1>1, Division
<1>3. U <= 2 * d
  BY DEF Precise
<1>4. 1 <= x
  <2>1. SUFFICES ASSUME x <= 0 PROVE FALSE
    BY <1>2
  <2>2. (2 * U) * x <= (2 * U) * 0
    BY <1>1, <1>2, <2>1, Scaling
  <2>3. (2 * U) * x = x * (2 * U) /\ (2 * U) * 0 = 0
    BY <1>1, <1>2
  <2> QED BY <1>1, <1>2, <1>3, <2>2, <2>3
<1>5. scaled(d) = x
  <2>1. scaled(d) = Smaller(MaxScaled, Larger(1, x)) /\ scaled(d) < MaxScaled
    BY DEF scaled, Precise
  <2> HIDE DEF x
  <2>2. Larger(1, x) = x
    BY <1>2, <1>4 DEF Larger
  <2>3. MaxScaled \in Nat
    BY TargetAssumption
  <2> QED BY <1>2, <2>1, <2>2, <2>3 DEF Smaller
<1> HIDE DEF x
<1>6. x * (2 * U) = 2 * U * x
  BY <1>1, <1>2
<1> QED BY <1>1, <1>2, <1>4, <1>5, <1>6

(* The target of a difficulty is a quotient of Diff1 by it. *)
LEMMA TargetsAreTight ==
    ASSUME NEW d \in Int, NEW a \in DOMAIN Diff1
    PROVE  Tight(d, a)
<1> DEFINE U == UnitsPerStep
           D == Diff1[a]
           s == scaled(d)
           q == Quotient(d, a)
           T == difficulty_to_target_for_algorithm(d, a)
<1>1. SUFFICES ASSUME 0 < d, Precise(d), Fits(d, a)
               PROVE  HasDifficulty(T, d, a, 1) /\ ~HasDifficulty(T + 1, d, a, -1)
  BY DEF Tight
<1>2. /\ U \in Nat \ {0} /\ Scale \in Nat /\ One = Scale * U
      /\ D \in Nat /\ Width \in Nat
  BY Units, TargetAssumption
<1>3. /\ s \in Nat \ {0}
      /\ 2 * d - U <= 2 * U * s
      /\ 2 * U * s <= 2 * d + U
  BY <1>1, Rounding
<1>4. D * Scale \in Nat
  BY <1>2
<1>5. q \in Nat /\ q * s <= D * Scale /\ D * Scale < q * s + s
  <2>1. q = (D * Scale) \div s
    BY DEF Quotient
  <2>2. (D * Scale) \div s \in Nat
    BY <1>3, <1>4
  <2> HIDE DEF s, D, q
  <2>3. D * Scale \in Int /\ s \in Nat \ {0}
    BY <1>3, <1>4
  <2>4. /\ ((D * Scale) \div s) * s <= D * Scale
        /\ D * Scale < ((D * Scale) \div s) * s + s
    BY <2>3, Division
  <2> QED BY <2>1, <2>2, <2>4
<1>6. T = q
  <2>1. q < Width
    BY <1>1 DEF Fits
  <2>2. T = q % Width
    BY <1>1, PolicyAssumption DEF difficulty_to_target_for_algorithm, is_finite
  <2> HIDE DEF q
  <2> QED BY <1>2, <1>5, <2>1, <2>2
<1> HIDE DEF s, q, T, D, U
<1>7. 2 * D * One = (2 * U) * (D * Scale)
  BY <1>2
<1>8. q * (2 * d - U) <= 2 * D * One
  <2>1. q * (2 * d - U) <= q * (2 * U * s)
    BY <1>2, <1>3, <1>5, Scaling
  <2>2. (2 * U) * (q * s) <= (2 * U) * (D * Scale)
    BY <1>2, <1>3, <1>4, <1>5, Scaling
  <2>3. q * (2 * U * s) = (2 * U) * (q * s)
    BY <1>2, <1>3, <1>5
  <2>4. /\ q * (2 * d - U) \in Int /\ q * (2 * U * s) \in Int
        /\ (2 * U) * (D * Scale) \in Int
    BY <1>2, <1>3, <1>4, <1>5
  <2> QED BY <1>7, <2>1, <2>2, <2>3, <2>4
<1>9. 2 * D * One < (q + 1) * (2 * d + U)
  <2>1. D * Scale < (q + 1) * s
    BY <1>3, <1>4, <1>5
  <2>2. (q + 1) * s \in Nat /\ 2 * U \in Nat \ {0}
    BY <1>2, <1>3, <1>5
  <2>3. (2 * U) * (D * Scale) < (2 * U) * ((q + 1) * s)
    BY <1>4, <2>1, <2>2, StrictScaling
  <2>4. (q + 1) * (2 * U * s) <= (q + 1) * (2 * d + U)
    <3>1. 2 * U * s \in Int /\ 2 * d + U \in Int /\ q + 1 \in Nat
      BY <1>2, <1>3, <1>5
    <3> QED BY <1>3, <3>1, Scaling
  <2>5. (2 * U) * ((q + 1) * s) = (q + 1) * (2 * U * s)
    BY <1>2, <1>3, <1>5
  <2>6. /\ (2 * U) * (D * Scale) \in Int /\ (q + 1) * (2 * U * s) \in Int
        /\ (q + 1) * (2 * d + U) \in Int
    BY <1>2, <1>3, <1>4, <1>5
  <2> QED BY <1>7, <2>3, <2>4, <2>5, <2>6
<1>10. HasDifficulty(q, d, a, 1)
  <2>1. 2 * d - 1 * U = 2 * d - U
    BY <1>2
  <2> QED BY <1>8, <2>1 DEF HasDifficulty, U, D
<1>11. ~HasDifficulty(q + 1, d, a, -1)
  <2>1. 2 * d - (-1) * U = 2 * d + U
    BY <1>2
  <2>2. (q + 1) * (2 * d + U) \in Int /\ 2 * D * One \in Int
    BY <1>2, <1>5
  <2> QED BY <1>9, <2>1, <2>2 DEF HasDifficulty, U, D
<1> QED BY <1>6, <1>10, <1>11 DEF T

-----------------------------------------------------------------------------
(* Rounding to steps does not turn the order of two difficulties around. *)
LEMMA RoundsInOrder ==
    ASSUME NEW d \in Int, NEW e \in Int, e <= d + 1
    PROVE  scaled(e) <= scaled(d) + 1
<1> DEFINE U == UnitsPerStep
           x == (2 * d + U) \div (2 * U)
           y == (2 * e + U) \div (2 * U)
<1>1. U \in Nat \ {0} /\ 2 * U \in Nat \ {0} /\ 2 * d + U \in Int /\ 2 * e + U \in Int
  BY Units
<1>2. /\ x \in Int /\ 2 * d + U < x * (2 * U) + 2 * U
      /\ y \in Int /\ y * (2 * U) <= 2 * e + U
  BY <1>1, Division
<1>3. scaled(d) = Smaller(MaxScaled, Larger(1, x))
  BY DEF scaled
<1>4. scaled(e) = Smaller(MaxScaled, Larger(1, y))
  BY DEF scaled
<1> HIDE DEF x, y
<1>5. y <= x + 1
  <2>1. SUFFICES ASSUME x + 2 <= y PROVE FALSE
    BY <1>2
  <2>2. (2 * U) * (x + 2) <= (2 * U) * y
    BY <1>1, <1>2, <2>1, Scaling
  <2>3. (2 * U) * (x + 2) = x * (2 * U) + 4 * U /\ (2 * U) * y = y * (2 * U)
    BY <1>1, <1>2
  <2>4. x * (2 * U) \in Int /\ y * (2 * U) \in Int
    BY <1>1, <1>2
  <2> QED BY <1>1, <1>2, <2>2, <2>3, <2>4
<1>6. MaxScaled \in Nat
  BY TargetAssumption
<1> QED BY <1>2, <1>3, <1>4, <1>5, <1>6 DEF Smaller, Larger

LEMMA SubmittedIsClose ==
    ASSUME NEW found \in Int \cup {NonFinite}, NEW required \in Int,
           decide_share_submit(0, found, 0, required) = "submit"
    PROVE  scaled(found) >= scaled(required) - 1
<1>1. is_finite(found) /\ ~(found + 1 < required)
  BY PolicyAssumption DEF decide_share_submit, is_finite
<1>2. found \in Int /\ required <= found + 1
  BY <1>1 DEF is_finite
<1>3. scaled(required) <= scaled(found) + 1
  BY <1>2, RoundsInOrder
<1>4. scaled(required) \in Int /\ scaled(found) \in Int
  <2>1. \A n \in Int : (2 * n + UnitsPerStep) \div (2 * UnitsPerStep) \in Int
    BY Units
  <2> QED BY <1>2, <2>1, TargetAssumption DEF scaled, Smaller, Larger
<1> QED BY <1>3, <1>4

-----------------------------------------------------------------------------
Place(c, n) == c * NonceSpace + n

Pos(t) == Place(counter[t], nonce[t])

(* The position that the thread hashes next. *)
Ahead(t) == Pos(t) + (IF pc[t] = "found" THEN NThreads ELSE 0)

OnStride(t, p) == \E k \in Nat : p = t + k * NThreads

HeaderAt(c, n) == [root |-> printed(c), nonce |-> n]

Started == phase \in {"idle", "sent"} => pc = [t \in Threads |-> "off"]

Bounded ==
    \A t \in Threads : /\ counter[t] <= MaxCounter + 1
                       /\ pc[t] = "found" => counter[t] <= MaxCounter

Roots ==
    \A t \in Threads : WithinSize(counter[t]) => merkle_root[t] = printed(counter[t])

Strides == \A t \in Threads : OnStride(t, Pos(t))

(* What a thread has passed is hashed. *)
Covered ==
    \A t \in Threads, c \in 0..MaxCounter, n \in Nonce :
        /\ WithinSize(c)
        /\ OnStride(t, Place(c, n))
        /\ Place(c, n) < Ahead(t)
        => HeaderAt(c, n) \in hashed

(* What is hashed has been passed. *)
Behind ==
    AllWithinSize =>
        \A h \in hashed : \E t \in Threads, c \in Nat :
            /\ h.root = printed(c)
            /\ OnStride(t, Place(c, h.nonce))
            /\ Place(c, h.nonce) < Ahead(t)

IInv ==
    /\ TypeOK
    /\ Started
    /\ Bounded
    /\ Roots
    /\ Strides
    /\ Covered
    /\ Behind
-----------------------------------------------------------------------------
(* Arithmetic of places and strides. *)

LEMMA Sizes ==
    /\ NThreads \in Nat \ {0}
    /\ NonceSpace \in Nat
    /\ NThreads < NonceSpace
    /\ MaxCounter \in Nat
    /\ Threads \subseteq Nat
    /\ Nonce \subseteq Nat
BY SearchAssumption DEF Threads, Nonce

LEMMA Multiples ==
    ASSUME NEW k \in Nat, NEW j \in Nat, NEW n \in Nat, k < j
    PROVE  k * n + n <= j * n
<1>1. PICK d \in Nat : j = k + 1 + d
  <2>1. j - k - 1 \in Nat /\ j = k + 1 + (j - k - 1)
    OBVIOUS
  <2> QED BY <2>1
<1>2. j * n = k * n + n + d * n
  BY <1>1
<1>3. d * n \in Nat /\ k * n \in Nat
  OBVIOUS
<1> QED BY <1>2, <1>3

(* Two numbers below n that differ by multiples of n are the same. *)
LEMMA SameRemainder ==
    ASSUME NEW n \in Nat, NEW a \in 0..(n - 1), NEW b \in 0..(n - 1),
           NEW k \in Nat, NEW j \in Nat, a + k * n = b + j * n
    PROVE  a = b /\ k = j
<1>1. k * n \in Nat /\ j * n \in Nat
  OBVIOUS
<1>2. CASE k < j
  <2>1. k * n + n <= j * n
    BY <1>2, Multiples
  <2> QED BY <1>1, <2>1
<1>3. CASE j < k
  <2>1. j * n + n <= k * n
    BY <1>3, Multiples
  <2> QED BY <1>1, <2>1
<1>4. CASE k = j
  BY <1>1, <1>4
<1> QED BY <1>2, <1>3, <1>4

(* No position is on two strides. *)
LEMMA OneStride ==
    ASSUME NEW t \in Threads, NEW u \in Threads, NEW p,
           OnStride(t, p), OnStride(u, p)
    PROVE  t = u
BY Sizes, SameRemainder DEF OnStride, Threads

(* No header has two positions. *)
LEMMA OnePlace ==
    ASSUME NEW c \in Nat, NEW d \in Nat, NEW n \in Nonce, NEW m \in Nonce,
           Place(c, n) = Place(d, m)
    PROVE  c = d /\ n = m
<1>1. n + c * NonceSpace = m + d * NonceSpace
  BY Sizes DEF Place
<1> QED BY <1>1, Sizes, SameRemainder DEF Nonce

(* Positions of a stride are NThreads apart. *)
LEMMA NextOnStride ==
    ASSUME NEW t \in Threads, NEW p, NEW q, OnStride(t, p), OnStride(t, q),
           p < q + NThreads
    PROVE  p <= q
<1>1. PICK k \in Nat : p = t + k * NThreads
  BY DEF OnStride
<1>2. PICK j \in Nat : q = t + j * NThreads
  BY DEF OnStride
<1>3. ~(j < k)
  <2>1. SUFFICES ASSUME j < k PROVE FALSE
    OBVIOUS
  <2>2. j * NThreads + NThreads <= k * NThreads
    BY <2>1, Sizes, Multiples
  <2>3. j * NThreads \in Nat /\ k * NThreads \in Nat /\ t \in Nat /\ NThreads \in Nat
    BY Sizes
  <2> QED BY <1>1, <1>2, <2>2, <2>3
<1>4. CASE k = j
  BY <1>1, <1>2, <1>4, Sizes
<1>5. CASE k < j
  <2>1. k * NThreads + NThreads <= j * NThreads
    BY <1>5, Sizes, Multiples
  <2>2. j * NThreads \in Nat /\ k * NThreads \in Nat /\ t \in Nat /\ NThreads \in Nat
    BY Sizes
  <2> QED BY <1>1, <1>2, <2>1, <2>2
<1> QED BY <1>3, <1>4, <1>5

LEMMA StepOnStride ==
    ASSUME NEW t \in Threads, NEW p, OnStride(t, p)
    PROVE  OnStride(t, p + NThreads)
<1>1. PICK k \in Nat : p = t + k * NThreads
  BY DEF OnStride
<1>2. p + NThreads = t + (k + 1) * NThreads
  BY <1>1, Sizes
<1> QED BY <1>2 DEF OnStride

(* Every position is on a stride. *)
LEMMA SomeStride ==
    ASSUME NEW p \in Nat
    PROVE  \E t \in Threads : OnStride(t, p)
<1>1. /\ p % NThreads \in 0..(NThreads - 1)
      /\ p \div NThreads \in Nat
      /\ p = (p % NThreads) + (p \div NThreads) * NThreads
  BY Sizes
<1> QED BY <1>1 DEF OnStride, Threads

-----------------------------------------------------------------------------
(* Extranonce2. *)

LEMMA DigitsType == ASSUME NEW n \in Nat PROVE Digits(n) \in Nat
<1>1. IsFiniteSet(1..n)
  BY FS_Interval
<1>2. {k \in 1..n : HexBase^k <= n} \subseteq 1..n
  OBVIOUS
<1>3. IsFiniteSet({k \in 1..n : HexBase^k <= n})
  BY <1>1, <1>2, FS_Subset
<1> QED BY <1>3, FS_CardinalityType DEF Digits

LEMMA PrintedType ==
    ASSUME TypeOK, NEW n \in Nat
    PROVE  printed(n) \in Extranonce2 /\ printed(n).value = n
<1>1. 2 * work.size \in Nat
  BY SearchAssumption DEF TypeOK
<1> QED BY <1>1, DigitsType DEF printed, Extranonce2, Larger

(* The printed counter takes more digits the larger it is. *)
LEMMA SizeShrinks ==
    ASSUME TypeOK, NEW c \in 0..(MaxCounter + 1), NEW d \in 0..(MaxCounter + 1),
           c <= d, WithinSize(d)
    PROVE  WithinSize(c)
<1> DEFINE Powers(n) == {k \in 1..n : HexBase^k <= n}
<1>1. c \in Nat /\ d \in Nat
  BY Sizes
<1>2. Powers(c) \subseteq Powers(d)
  <2>1. SUFFICES ASSUME NEW k \in 1..c, HexBase^k <= c PROVE HexBase^k <= d
    BY <1>1
  <2>2. HexBase^k \in Nat
    BY <1>1, Sizes, SearchAssumption
  <2> QED BY <1>1, <2>1, <2>2
<1>3. IsFiniteSet(Powers(d))
  <2>1. IsFiniteSet(1..d)
    BY <1>1, FS_Interval
  <2> QED BY <2>1, FS_Subset
<1>4. Cardinality(Powers(c)) <= Cardinality(Powers(d))
  BY <1>2, <1>3, FS_Subset
<1>5. Cardinality(Powers(c)) \in Nat /\ Cardinality(Powers(d)) \in Nat
  BY <1>2, <1>3, FS_Subset, FS_CardinalityType
<1>6. 2 * work.size \in Nat
  BY SearchAssumption DEF TypeOK
<1>7. Digits(c) = 1 + Cardinality(Powers(c)) /\ Digits(d) = 1 + Cardinality(Powers(d))
  BY DEF Digits
<1>8. Digits(d) <= 2 * work.size
  BY DEF WithinSize
<1> HIDE DEF Powers
<1>9. Digits(c) <= 2 * work.size
  BY <1>4, <1>5, <1>6, <1>7, <1>8
<1> QED BY <1>9 DEF WithinSize

(* An extranonce2 of the size the pool gave has a root of its own. *)
LEMMA RootWithinSize ==
    ASSUME TypeOK, NEW n \in Nat, WithinSize(n), NEW old
    PROVE  merkle_root_for(printed(n), old) = printed(n)
<1>1. work.size \in Nat /\ Digits(n) \in Nat
  BY DigitsType, SearchAssumption DEF TypeOK
<1>2. printed(n).digits = 2 * work.size
  BY <1>1 DEF printed, WithinSize, Larger
<1>3. (2 * work.size) % 2 = 0
  BY <1>1
<1> QED BY <1>2, <1>3 DEF merkle_root_for, hex_decodes

-----------------------------------------------------------------------------
(* A thread moves on by one stride, within an extranonce2 or to the next. *)
LEMMA Advances ==
    ASSUME TypeOK, NEW t \in Threads, Advance(t), work' = work
    PROVE  /\ nonce' \in [Threads -> Nonce]
           /\ counter' \in [Threads -> Nat]
           /\ extranonce2' = [u \in Threads |-> printed(counter'[u])]
           /\ merkle_root' \in [Threads -> Extranonce2]
           /\ Place(counter'[t], nonce'[t]) = Pos(t) + NThreads
           /\ counter'[t] \in {counter[t], counter[t] + 1}
           /\ (WithinSize(counter[t]) => merkle_root[t] = printed(counter[t]))
                 => (WithinSize(counter'[t]) => merkle_root'[t] = printed(counter'[t]))
           /\ \A u \in Threads \ {t} : /\ nonce'[u] = nonce[u]
                                       /\ counter'[u] = counter[u]
                                       /\ merkle_root'[u] = merkle_root[u]
<1> DEFINE n == nonce[t]
           c == counter[t]
           next == wrapping_add_step(n)
           e == printed(c + 1)
<1>1. n \in Nonce /\ c \in Nat /\ n \in Nat /\ merkle_root[t] \in Extranonce2
  BY Sizes DEF TypeOK
<1>2. /\ next \in Nonce
      /\ next = IF next < n THEN n + NThreads - NonceSpace ELSE n + NThreads
  BY <1>1, Sizes DEF wrapping_add_step, Nonce
<1>3. e \in Extranonce2
  BY <1>1, PrintedType
<1>4. nonce' = [nonce EXCEPT ![t] = next]
  BY DEF Advance
<1>5. CASE next < n
  <2>1. /\ counter' = [counter EXCEPT ![t] = @ + 1]
        /\ extranonce2' = [extranonce2 EXCEPT ![t] = e]
        /\ merkle_root' = [merkle_root EXCEPT ![t] = merkle_root_for(e, @)]
    BY <1>5 DEF Advance
  <2>2. merkle_root_for(e, merkle_root[t]) \in Extranonce2
    BY <1>1, <1>3 DEF merkle_root_for
  <2>3. counter' \in [Threads -> Nat] /\ counter'[t] = c + 1
    BY <1>1, <2>1 DEF TypeOK
  <2>4. (c + 1) * NonceSpace = c * NonceSpace + NonceSpace /\ c * NonceSpace \in Nat
    BY <1>1, Sizes
  <2>5. nonce'[t] = n + NThreads - NonceSpace
    BY <1>2, <1>4, <1>5 DEF TypeOK
  <2>6. Place(counter'[t], nonce'[t]) = Pos(t) + NThreads
    BY <1>1, <2>3, <2>4, <2>5, Sizes DEF Place, Pos
  <2>7. WithinSize(c + 1) => merkle_root'[t] = printed(c + 1)
    BY <1>1, <2>1, RootWithinSize DEF TypeOK
  <2>8. extranonce2' = [u \in Threads |-> printed(counter'[u])]
    BY <2>1, <2>3 DEF TypeOK
  <2> QED BY <1>2, <1>4, <2>1, <2>2, <2>3, <2>6, <2>7, <2>8 DEF TypeOK
<1>6. CASE ~(next < n)
  <2>1. UNCHANGED <<counter, extranonce2, merkle_root>>
    BY <1>6 DEF Advance
  <2>2. nonce'[t] = n + NThreads
    BY <1>2, <1>4, <1>6 DEF TypeOK
  <2>3. c * NonceSpace \in Nat
    BY <1>1, Sizes
  <2>4. Place(counter'[t], nonce'[t]) = Pos(t) + NThreads
    BY <1>1, <2>1, <2>2, <2>3, Sizes DEF Place, Pos
  <2> QED BY <1>2, <1>4, <2>1, <2>4 DEF TypeOK
<1> QED BY <1>5, <1>6

(* What the pool gave does not change. *)
LEMMA WorkStays == [Next]_vars => work' = work
BY DEF Next, Manager, Worker, Task, BeyondBound, vars, send_job, send_stop,
       recv_result, drop_channels, worker_new_job, worker_stop, task_miss,
       task_find, task_send, task_stop, Hashing

LEMMA SamePrinted ==
    ASSUME work' = work
    PROVE  \A n : printed(n)' = printed(n) /\ WithinSize(n)' = WithinSize(n)
BY DEF printed, WithinSize

LEMMA HeaderType ==
    ASSUME TypeOK, NEW t \in Threads
    PROVE  /\ Header(t) \in [root : Extranonce2, nonce : Nonce]
           /\ NonceFound(t) \in [extranonce2 : Extranonce2, nonce : Nonce,
                                 difficulty : {work.difficulty}]
<1>1. extranonce2[t] \in Extranonce2
  BY PrintedType DEF TypeOK
<1> QED BY <1>1 DEF TypeOK, Header, NonceFound

(* The channel loses a report at its head, or takes one at its end. *)
LEMMA Channel ==
    ASSUME NEW S, NEW q \in Seq(S), Len(q) <= ResultCap
    PROVE  /\ <<>> \in Seq(S) /\ Len(<<>>) <= ResultCap
           /\ q # <<>> => Tail(q) \in Seq(S) /\ Len(Tail(q)) <= ResultCap
           /\ \A r \in S : Len(q) < ResultCap =>
                 Append(q, r) \in Seq(S) /\ Len(Append(q, r)) <= ResultCap
BY SearchAssumption

LEMMA TypeInit == Init => TypeOK
<1> SUFFICES ASSUME Init PROVE TypeOK
  OBVIOUS
<1>1. printed(0) \in Extranonce2
  <2>1. 2 * work.size \in Nat
    BY SearchAssumption DEF Init
  <2> QED BY <2>1, DigitsType DEF printed, Extranonce2, Larger
<1>2. \A t \in Threads : nonce_start(t) \in Nonce
  BY Sizes DEF nonce_start, Threads, Nonce
<1> QED BY <1>1, <1>2, SearchAssumption DEF Init, TypeOK

(* Every step keeps the types. *)
LEMMA TypeStep == TypeOK /\ [Next]_vars => TypeOK'
<1> SUFFICES ASSUME TypeOK, [Next]_vars PROVE TypeOK'
  OBVIOUS
<1>0. work' = work
  BY WorkStays
<1>p. \A n : printed(n)' = printed(n)
  BY <1>0, SamePrinted
<1>1. CASE send_job \/ send_stop \/ drop_channels \/ worker_new_job \/ worker_stop
  <2> DEFINE R == [extranonce2 : Extranonce2, nonce : Nonce,
                   difficulty : {work.difficulty}]
  <2>1. results \in Seq(R) /\ Len(results) <= ResultCap
    BY DEF TypeOK
  <2>2. results' \in {results, <<>>}
    BY <1>1 DEF send_job, send_stop, drop_channels, worker_new_job, worker_stop
  <2> HIDE DEF R
  <2>3. results' \in Seq(R) /\ Len(results') <= ResultCap
    BY <2>1, <2>2, Channel
  <2> USE DEF R
  <2> QED
    BY <1>0, <1>1, <1>p, <2>3
    DEF TypeOK, send_job, send_stop, drop_channels, worker_new_job, worker_stop, search
<1>2. CASE recv_result
  <2> DEFINE R == [extranonce2 : Extranonce2, nonce : Nonce,
                   difficulty : {work.difficulty}]
  <2>1. results \in Seq(R) /\ Len(results) <= ResultCap
    BY DEF TypeOK
  <2>2. results # <<>> /\ results' = Tail(results)
    BY <1>2 DEF recv_result
  <2> HIDE DEF R
  <2>3. results' \in Seq(R) /\ Len(results') <= ResultCap
    BY <2>1, <2>2, Channel
  <2> USE DEF R
  <2> QED BY <1>2, <1>p, <2>3 DEF TypeOK, recv_result, search
<1>3. ASSUME NEW t \in Threads, task_miss(t) PROVE TypeOK'
  <2>1. Advance(t)
    BY <1>3 DEF task_miss
  <2>2. hashed' \subseteq [root : Extranonce2, nonce : Nonce]
    BY <1>3, HeaderType DEF task_miss, Hashing, TypeOK
  <2> QED BY <1>3, <1>0, <1>p, <2>1, <2>2, Advances DEF TypeOK, task_miss, Hashing
<1>4. ASSUME NEW t \in Threads, task_find(t) PROVE TypeOK'
  <2>1. hashed' \subseteq [root : Extranonce2, nonce : Nonce]
    BY <1>4, HeaderType DEF task_find, Hashing, TypeOK
  <2> QED BY <1>4, <1>p, <2>1 DEF TypeOK, task_find, Hashing, search
<1>5. ASSUME NEW t \in Threads, task_send(t) PROVE TypeOK'
  <2>1. Advance(t)
    BY <1>5 DEF task_send
  <2> DEFINE R == [extranonce2 : Extranonce2, nonce : Nonce,
                   difficulty : {work.difficulty}]
  <2>2. results \in Seq(R) /\ Len(results) <= ResultCap
    BY DEF TypeOK
  <2>3. NonceFound(t) \in R
    BY HeaderType
  <2>4. \/ Len(results) < ResultCap /\ results' = Append(results, NonceFound(t))
        \/ results' = results
    BY <1>5 DEF task_send
  <2> HIDE DEF R
  <2>5. results' \in Seq(R) /\ Len(results') <= ResultCap
    BY <2>2, <2>3, <2>4, Channel
  <2> USE DEF R
  <2> QED BY <1>5, <1>0, <1>p, <2>1, <2>5, Advances DEF TypeOK, task_send
<1>6. ASSUME NEW t \in Threads, task_stop(t) PROVE TypeOK'
  BY <1>6, <1>p DEF TypeOK, task_stop, search
<1>7. CASE UNCHANGED vars
  BY <1>7, <1>p DEF TypeOK, vars, search
<1> QED
  BY <1>1, <1>2, <1>3, <1>4, <1>5, <1>6, <1>7
  DEF Next, Manager, Worker, Task, BeyondBound

(* The types are kept, whatever the sizes (NonceSearch's state). *)
THEOREM TypeCorrect == Spec => []TypeOK
BY TypeInit, TypeStep, PTL DEF Spec

(* difficulty_to_target_for_algorithm neither lets hashes pass that the pool *)
(* refuses nor holds back hashes that it takes, but for half a step.        *)
THEOREM TargetsFit == Spec => []TargetIsTight
<1>1. TypeOK => TargetIsTight
  BY SearchAssumption, TargetsAreTight
  DEF TypeOK, TargetIsTight, Targeted, is_supported, is_finite
<1> QED BY <1>1, TypeCorrect, PTL

(* The tolerance of decide_share_submit is no more than one step of the     *)
(* fixed point in which the share was found.                               *)
THEOREM ToleranceIsOneStep == Spec => []SubmittedShareIsClose
<1>1. TypeOK => SubmittedShareIsClose
  BY SearchAssumption, SubmittedIsClose DEF TypeOK, SubmittedShareIsClose
<1> QED BY <1>1, TypeCorrect, PTL

-----------------------------------------------------------------------------
(* The invariant. *)

LEMMA PlaceType ==
    ASSUME NEW c \in Nat, NEW n \in Nonce
    PROVE  Place(c, n) \in Nat
BY Sizes DEF Place

LEMMA AheadType ==
    ASSUME TypeOK, NEW t \in Threads
    PROVE  Pos(t) \in Nat /\ Ahead(t) \in Nat /\ Pos(t) <= Ahead(t)
<1>1. Pos(t) \in Nat
  BY PlaceType DEF TypeOK, Pos
<1> QED BY <1>1, Sizes DEF Ahead

(* Before the first header all is at the start of its stride. *)
LEMMA Initially == Init => IInv
<1> SUFFICES ASSUME Init PROVE IInv
  OBVIOUS
<1>1. TypeOK
  BY TypeInit
<1>2. Started /\ Behind
  BY DEF Init, Started, Behind
<1>3. Bounded /\ Roots
  BY Sizes DEF Init, Bounded, Roots
<1>4. ASSUME NEW t \in Threads PROVE Pos(t) = t /\ Ahead(t) = t /\ OnStride(t, t)
  <2>1. Pos(t) = t /\ t \in Nat
    BY Sizes DEF Init, nonce_start, Pos, Place
  <2>2. Ahead(t) = t
    BY <2>1 DEF Init, Ahead
  <2>3. 0 \in Nat /\ t = t + 0 * NThreads
    BY <2>1, Sizes
  <2> QED BY <2>1, <2>2, <2>3 DEF OnStride
<1>5. Strides
  BY <1>4 DEF Strides
<1>6. Covered
  <2>1. SUFFICES ASSUME NEW t \in Threads, NEW p, OnStride(t, p), p < t
                 PROVE  FALSE
    BY <1>4 DEF Covered
  <2>2. PICK k \in Nat : p = t + k * NThreads
    BY <2>1 DEF OnStride
  <2>3. k * NThreads \in Nat /\ t \in Nat
    BY Sizes
  <2> QED BY <2>1, <2>2, <2>3
<1> QED BY <1>1, <1>2, <1>3, <1>5, <1>6 DEF IInv

(* Steps that are not of the search leave the threads where they are. *)
LEMMA Quiet ==
    ASSUME TypeOK, Started,
           \/ Manager \/ Worker \/ UNCHANGED vars
           \/ \E t \in Threads : task_stop(t)
    PROVE  /\ UNCHANGED <<nonce, counter, merkle_root, hashed>>
           /\ \A u \in Threads : pc'[u] = "found" <=> pc[u] = "found"
           /\ Started'
<1>1. CASE Manager \/ UNCHANGED vars
  BY <1>1 DEF Manager, send_job, send_stop, recv_result, drop_channels, vars,
              search, Started
<1>2. CASE worker_new_job
  <2>1. \A u \in Threads : pc'[u] # "found" /\ pc[u] # "found"
    BY <1>2 DEF worker_new_job, Started
  <2> QED BY <1>2, <2>1 DEF worker_new_job, search, Started
<1>3. CASE worker_stop
  BY <1>3 DEF worker_stop, search, Started
<1>4. ASSUME NEW t \in Threads, task_stop(t)
      PROVE  /\ UNCHANGED <<nonce, counter, merkle_root, hashed>>
             /\ \A u \in Threads : pc'[u] = "found" <=> pc[u] = "found"
             /\ Started'
  BY <1>4 DEF task_stop, search, TypeOK, Started
<1> QED BY <1>1, <1>2, <1>3, <1>4 DEF Worker

(* A step of the search is of a thread that was started. *)
LEMMA Busy ==
    ASSUME Started, NEW t \in Threads, pc[t] # "off", phase' = phase
    PROVE  Started'
BY DEF Started

(* What a hash does: the thread passes one position of its stride. *)
LEMMA Hashes ==
    ASSUME TypeOK, Started, Bounded, Roots,
           NEW t \in Threads, task_miss(t) \/ task_find(t)
    PROVE  /\ hashed' = hashed \cup {Header(t)}
           /\ Ahead(t) = Pos(t)
           /\ Ahead(t)' = Pos(t) + NThreads
           /\ \A u \in Threads \ {t} : Ahead(u)' = Ahead(u)
           /\ Pos(t)' \in {Pos(t), Pos(t) + NThreads}
           /\ \A u \in Threads \ {t} : Pos(u)' = Pos(u)
           /\ \A u \in Threads : counter'[u] \in {counter[u], counter[u] + 1}
           /\ Started' /\ Bounded' /\ Roots'
<1>0. work' = work /\ hashed' = hashed \cup {Header(t)} /\ phase' = phase
      /\ pc[t] = "loop" /\ counter[t] <= MaxCounter
  BY DEF task_miss, task_find, Hashing
<1>p. \A n : printed(n)' = printed(n) /\ WithinSize(n)' = WithinSize(n)
  BY <1>0, SamePrinted
<1>a. Started' /\ Ahead(t) = Pos(t)
  <2>1. Pos(t) + 0 = Pos(t)
    BY AheadType
  <2> QED BY <1>0, <2>1, Busy DEF Ahead
<1>1. CASE task_miss(t)
  <2>1. Advance(t) /\ pc' = pc
    BY <1>1 DEF task_miss
  <2>2. Place(counter'[t], nonce'[t]) = Pos(t) + NThreads
    BY <1>0, <2>1, Advances
  <2>3. /\ Pos(t)' = Pos(t) + NThreads
        /\ Ahead(t)' = Pos(t) + NThreads
    <3>1. Pos(t) + NThreads \in Nat
      BY AheadType, Sizes
    <3> QED BY <1>0, <2>1, <2>2, <3>1 DEF Pos, Ahead, Place
  <2>4. \A u \in Threads \ {t} : Pos(u)' = Pos(u) /\ Ahead(u)' = Ahead(u)
    BY <1>0, <2>1, Advances DEF Pos, Ahead, Place
  <2>5. \A u \in Threads : counter'[u] \in {counter[u], counter[u] + 1}
    BY <1>0, <2>1, Advances
  <2>6. Bounded'
    <3>1. \A u \in Threads \ {t} : counter'[u] = counter[u]
      BY <1>0, <2>1, Advances
    <3>2. counter'[t] <= MaxCounter + 1
      BY <1>0, <2>5, Sizes DEF TypeOK
    <3> QED BY <1>0, <2>1, <3>1, <3>2 DEF Bounded
  <2>7. Roots'
    BY <1>0, <1>p, <2>1, Advances DEF Roots
  <2> QED BY <1>0, <1>a, <2>3, <2>4, <2>5, <2>6, <2>7
<1>2. CASE task_find(t)
  <2>1. /\ UNCHANGED <<nonce, counter, merkle_root>>
        /\ pc' = [pc EXCEPT ![t] = "found"]
    BY <1>2 DEF task_find, search
  <2>2. \A u \in Threads : Pos(u)' = Pos(u)
    BY <2>1 DEF Pos, Place
  <2>3. /\ pc'[t] = "found"
        /\ \A u \in Threads \ {t} : pc'[u] = pc[u]
    BY <2>1 DEF TypeOK
  <2>4. /\ Ahead(t)' = Pos(t) + NThreads
        /\ \A u \in Threads \ {t} : Ahead(u)' = Ahead(u)
    BY <2>2, <2>3 DEF Ahead
  <2>5. Bounded'
    BY <1>0, <2>1, <2>3 DEF Bounded
  <2>6. Roots'
    BY <1>p, <2>1 DEF Roots
  <2> QED BY <1>0, <1>a, <2>1, <2>2, <2>4, <2>5, <2>6
<1> QED BY <1>1, <1>2

(* A report does not put a thread further ahead: it passed when it hashed. *)
LEMMA Reports ==
    ASSUME TypeOK, Started, Bounded, Roots, NEW t \in Threads, task_send(t)
    PROVE  /\ hashed' = hashed
           /\ \A u \in Threads : Ahead(u)' = Ahead(u)
           /\ Pos(t)' = Pos(t) + NThreads
           /\ \A u \in Threads \ {t} : Pos(u)' = Pos(u)
           /\ \A u \in Threads : counter'[u] \in {counter[u], counter[u] + 1}
           /\ Started' /\ Bounded' /\ Roots'
<1>1. /\ work' = work /\ hashed' = hashed /\ phase' = phase
      /\ pc[t] = "found" /\ counter[t] <= MaxCounter
      /\ pc' = [pc EXCEPT ![t] = "loop"] /\ Advance(t)
  BY DEF task_send, Bounded
<1>2. \A n : printed(n)' = printed(n) /\ WithinSize(n)' = WithinSize(n)
  BY <1>1, SamePrinted
<1>3. /\ pc'[t] = "loop"
      /\ \A u \in Threads \ {t} : pc'[u] = pc[u]
  BY <1>1 DEF TypeOK
<1>4. Pos(t)' = Pos(t) + NThreads
  BY <1>1, Advances DEF Pos, Place
<1>5. \A u \in Threads \ {t} : Pos(u)' = Pos(u) /\ Ahead(u)' = Ahead(u)
  BY <1>1, <1>3, Advances DEF Pos, Ahead, Place
<1>6. Ahead(t)' = Ahead(t)
  <2>1. Pos(t) + NThreads \in Nat
    BY AheadType, Sizes
  <2> QED BY <1>1, <1>3, <1>4, <2>1 DEF Ahead
<1>7. \A u \in Threads : counter'[u] \in {counter[u], counter[u] + 1}
  BY <1>1, Advances
<1>8. Bounded'
  <2>1. \A u \in Threads \ {t} : counter'[u] = counter[u]
    BY <1>1, Advances
  <2>2. counter'[t] <= MaxCounter + 1
    BY <1>1, <1>7, Sizes DEF TypeOK
  <2> QED BY <1>3, <2>1, <2>2 DEF Bounded
<1>9. Roots'
  BY <1>1, <1>2, Advances DEF Roots
<1>10. Started'
  BY <1>1, Busy
<1> QED BY <1>1, <1>4, <1>5, <1>6, <1>7, <1>8, <1>9, <1>10

(* Every step leaves the threads where they are, or one thread passes the   *)
(* position of the header it has hashed.                                   *)
LEMMA StepShape ==
    ASSUME IInv, [Next]_vars
    PROVE  /\ Started' /\ Bounded' /\ Roots' /\ Strides'
           /\ \A u \in Threads : counter[u] <= counter'[u]
           /\ \/ hashed' = hashed /\ \A u \in Threads : Ahead(u)' = Ahead(u)
              \/ \E t \in Threads :
                    /\ hashed' = hashed \cup {Header(t)}
                    /\ Ahead(t) = Pos(t)
                    /\ Ahead(t)' = Pos(t) + NThreads
                    /\ \A u \in Threads \ {t} : Ahead(u)' = Ahead(u)
<1> USE DEF IInv
<1>1. CASE \/ Manager \/ Worker \/ UNCHANGED vars
           \/ \E t \in Threads : task_stop(t)
  <2>1. /\ UNCHANGED <<nonce, counter, merkle_root, hashed>>
        /\ \A u \in Threads : pc'[u] = "found" <=> pc[u] = "found"
        /\ Started'
    BY <1>1, Quiet
  <2>2. \A u \in Threads : Pos(u)' = Pos(u) /\ Ahead(u)' = Ahead(u)
    BY <2>1 DEF Pos, Ahead, Place
  <2>3. \A n : printed(n)' = printed(n) /\ WithinSize(n)' = WithinSize(n)
    BY WorkStays, SamePrinted
  <2>4. Bounded' /\ Roots' /\ Strides'
    BY <2>1, <2>2, <2>3 DEF Bounded, Roots, Strides, OnStride
  <2>5. \A u \in Threads : counter[u] <= counter'[u]
    BY <2>1 DEF TypeOK
  <2> QED BY <2>1, <2>2, <2>4, <2>5
<1>2. ASSUME NEW t \in Threads, task_miss(t) \/ task_find(t) \/ task_send(t),
             /\ Started' /\ Bounded' /\ Roots'
             /\ \A u \in Threads : counter'[u] \in {counter[u], counter[u] + 1}
             /\ Pos(t)' \in {Pos(t), Pos(t) + NThreads}
             /\ \A u \in Threads \ {t} : Pos(u)' = Pos(u)
      PROVE  Strides' /\ \A u \in Threads : counter[u] <= counter'[u]
  <2>1. \A u \in Threads : OnStride(u, Pos(u)')
    BY <1>2, StepOnStride DEF Strides
  <2>2. Strides'
    BY <2>1 DEF Strides, OnStride
  <2>3. \A u \in Threads : counter[u] \in Nat
    BY DEF TypeOK
  <2>4. \A u \in Threads : counter[u] <= counter'[u]
    BY <1>2, <2>3
  <2> QED BY <2>2, <2>4
<1>3. ASSUME NEW t \in Threads, task_miss(t) \/ task_find(t)
      PROVE  /\ Started' /\ Bounded' /\ Roots' /\ Strides'
             /\ \A u \in Threads : counter[u] <= counter'[u]
             /\ hashed' = hashed \cup {Header(t)}
             /\ Ahead(t) = Pos(t)
             /\ Ahead(t)' = Pos(t) + NThreads
             /\ \A u \in Threads \ {t} : Ahead(u)' = Ahead(u)
  BY <1>2, <1>3, Hashes
<1>4. ASSUME NEW t \in Threads, task_send(t)
      PROVE  /\ Started' /\ Bounded' /\ Roots' /\ Strides'
             /\ \A u \in Threads : counter[u] <= counter'[u]
             /\ hashed' = hashed /\ \A u \in Threads : Ahead(u)' = Ahead(u)
  BY <1>2, <1>4, Reports
<1>5. \/ Manager \/ Worker \/ UNCHANGED vars
      \/ \E t \in Threads : task_stop(t)
      \/ \E t \in Threads : task_miss(t) \/ task_find(t)
      \/ \E t \in Threads : task_send(t)
  BY DEF Next, Task, BeyondBound
<1> QED BY <1>1, <1>3, <1>4, <1>5

(* What a thread passes is the position of the header it has hashed. *)
LEMMA CoveredStep ==
    ASSUME IInv, [Next]_vars
    PROVE  Covered'
<1> USE DEF IInv
<1>1. \A n : printed(n)' = printed(n) /\ WithinSize(n)' = WithinSize(n)
  BY WorkStays, SamePrinted
<1>2. SUFFICES ASSUME NEW u \in Threads, NEW c \in 0..MaxCounter, NEW n \in Nonce,
                      WithinSize(c), OnStride(u, Place(c, n)),
                      Place(c, n) < Ahead(u)'
               PROVE  HeaderAt(c, n) \in hashed'
  BY <1>1 DEF Covered, OnStride, Place, HeaderAt
<1>3. c \in Nat /\ Place(c, n) \in Nat
  BY Sizes, PlaceType
<1>4. CASE Ahead(u)' = Ahead(u)
  <2>1. HeaderAt(c, n) \in hashed
    BY <1>2, <1>4 DEF Covered
  <2> QED BY <2>1, StepShape
<1>5. CASE /\ hashed' = hashed \cup {Header(u)}
           /\ Ahead(u) = Pos(u)
           /\ Ahead(u)' = Pos(u) + NThreads
  <2>1. OnStride(u, Pos(u))
    BY DEF Strides
  <2>2. Place(c, n) < Pos(u) + NThreads
    BY <1>2, <1>5
  <2>3. Place(c, n) <= Pos(u)
    BY <1>2, <2>1, <2>2, NextOnStride
  <2>4. CASE Place(c, n) < Pos(u)
    BY <1>2, <1>5, <2>4 DEF Covered
  <2>5. CASE Place(c, n) = Pos(u)
    <3>1. c = counter[u] /\ n = nonce[u]
      BY <1>3, <2>5, OnePlace DEF Pos, TypeOK
    <3>2. Header(u) = HeaderAt(c, n)
      BY <1>2, <3>1 DEF Header, HeaderAt, Roots
    <3> QED BY <1>5, <3>2
  <2> QED BY <1>3, <2>3, <2>4, <2>5, AheadType
<1> QED BY <1>4, <1>5, StepShape

(* What is hashed is then behind the thread that has hashed it. *)
LEMMA BehindStep ==
    ASSUME IInv, [Next]_vars
    PROVE  Behind'
<1> USE DEF IInv
<1>1. \A n : printed(n)' = printed(n) /\ WithinSize(n)' = WithinSize(n)
  BY WorkStays, SamePrinted
<1>2. SUFFICES ASSUME AllWithinSize', NEW h \in hashed'
               PROVE  \E t \in Threads, c \in Nat :
                         /\ h.root = printed(c)
                         /\ OnStride(t, Place(c, h.nonce))
                         /\ Place(c, h.nonce) < Ahead(t)'
  BY <1>1 DEF Behind, OnStride, Place
<1>3. AllWithinSize
  <2>1. SUFFICES ASSUME NEW u \in Threads PROVE WithinSize(counter[u])
    BY DEF AllWithinSize
  <2>2. WithinSize(counter'[u])
    BY <1>1, <1>2 DEF AllWithinSize
  <2>3. counter[u] <= counter'[u] /\ counter'[u] <= MaxCounter + 1
    BY StepShape DEF Bounded
  <2>4. counter[u] \in Nat /\ counter'[u] \in Nat
    BY TypeStep DEF TypeOK
  <2>5. /\ counter[u] \in 0..(MaxCounter + 1)
        /\ counter'[u] \in 0..(MaxCounter + 1)
    BY <2>3, <2>4, Sizes
  <2> QED BY <2>2, <2>3, <2>5, SizeShrinks
<1>4. \A u \in Threads : Ahead(u) <= Ahead(u)'
  <2>1. TypeOK'
    BY TypeStep
  <2>2. \A u \in Threads : Ahead(u) \in Nat
    BY AheadType
  <2> QED BY <2>2, StepShape, Sizes
<1>5. CASE h \in hashed
  <2>1. PICK t \in Threads, c \in Nat :
           /\ h.root = printed(c)
           /\ OnStride(t, Place(c, h.nonce))
           /\ Place(c, h.nonce) < Ahead(t)
    BY <1>3, <1>5 DEF Behind
  <2>2. Place(c, h.nonce) < Ahead(t)'
    <3>1. Place(c, h.nonce) \in Nat
      BY <1>5, PlaceType DEF TypeOK
    <3>2. Ahead(t) \in Nat /\ Ahead(t)' \in Nat
      BY AheadType, StepShape, Sizes
    <3> QED BY <1>4, <2>1, <3>1, <3>2
  <2> QED BY <2>1, <2>2
<1>6. ASSUME NEW t \in Threads, h = Header(t), Ahead(t)' = Pos(t) + NThreads
      PROVE  /\ h.root = printed(counter[t])
             /\ OnStride(t, Place(counter[t], h.nonce))
             /\ Place(counter[t], h.nonce) < Ahead(t)'
  <2>1. h.root = printed(counter[t])
    BY <1>3, <1>6 DEF AllWithinSize, Roots, Header
  <2>2. Place(counter[t], h.nonce) = Pos(t)
    BY <1>6 DEF Header, Pos
  <2>3. OnStride(t, Pos(t))
    BY DEF Strides
  <2>4. Pos(t) < Pos(t) + NThreads
    BY AheadType, Sizes
  <2> QED BY <1>6, <2>1, <2>2, <2>3, <2>4
<1>7. \A t \in Threads : counter[t] \in Nat
  BY DEF TypeOK
<1> QED BY <1>2, <1>5, <1>6, <1>7, StepShape

LEMMA Inductively == IInv /\ [Next]_vars => IInv'
BY TypeStep, StepShape, CoveredStep, BehindStep DEF IInv

(* A header that was hashed has been passed, and the thread that has passed *)
(* it is the one that comes to it.                                         *)
LEMMA NewHeaders == IInv => NoHeaderTwice
<1> SUFFICES ASSUME IInv, AllWithinSize, NEW t \in Threads, pc[t] = "loop",
                    Header(t) \in hashed
             PROVE  FALSE
  BY DEF NoHeaderTwice
<1> USE DEF IInv
<1>1. PICK u \in Threads, c \in Nat :
         /\ Header(t).root = printed(c)
         /\ OnStride(u, Place(c, Header(t).nonce))
         /\ Place(c, Header(t).nonce) < Ahead(u)
  BY DEF Behind
<1>2. Header(t).root = printed(counter[t]) /\ Header(t).nonce = nonce[t]
  BY DEF Header, Roots, AllWithinSize
<1>3. c = counter[t]
  <2>1. counter[t] \in Nat
    BY DEF TypeOK
  <2> QED BY <1>1, <1>2, <2>1, PrintedType
<1>4. OnStride(u, Pos(t)) /\ Pos(t) < Ahead(u)
  BY <1>1, <1>2, <1>3 DEF Pos
<1>5. u = t
  BY <1>4, OneStride DEF Strides
<1>6. Ahead(t) = Pos(t) /\ Pos(t) \in Nat
  BY AheadType DEF Ahead
<1> QED BY <1>4, <1>5, <1>6

(* A nonce is on the stride of some thread, which has passed it. *)
LEMMA AllNonces == IInv => NoNonceSkipped
<1> SUFFICES ASSUME IInv, NEW c \in 0..MaxCounter, WithinSize(c),
                    \A t \in Threads : counter[t] > c, NEW n \in Nonce
             PROVE  HeaderAt(c, n) \in hashed
  BY DEF NoNonceSkipped, HeaderAt
<1> USE DEF IInv
<1>1. c \in Nat /\ Place(c, n) \in Nat
  BY Sizes, PlaceType
<1>2. PICK t \in Threads : OnStride(t, Place(c, n))
  BY <1>1, SomeStride
<1>3. counter[t] \in Nat /\ nonce[t] \in Nonce /\ c < counter[t]
  BY DEF TypeOK
<1>4. c * NonceSpace + NonceSpace <= counter[t] * NonceSpace
  BY <1>1, <1>3, Sizes, Multiples
<1>5. Place(c, n) < Pos(t)
  <2>1. n \in Nat /\ n < NonceSpace /\ nonce[t] \in Nat
    BY <1>3, Sizes DEF Nonce
  <2>2. c * NonceSpace \in Nat /\ counter[t] * NonceSpace \in Nat
    BY <1>1, <1>3, Sizes
  <2> QED BY <1>4, <2>1, <2>2, Sizes DEF Place, Pos
<1>6. Place(c, n) < Ahead(t)
  BY <1>1, <1>5, AheadType
<1> QED BY <1>2, <1>6 DEF Covered

(* The invariant holds in every state of the search. *)
LEMMA InvariantHolds == Spec => []IInv
BY Initially, Inductively, PTL DEF Spec

(* mine_job hashes no header twice, for any number of threads, also when    *)
(* that number does not divide 2^32 and the threads trade strides.         *)
THEOREM HeadersAreNew == Spec => []NoHeaderTwice
BY InvariantHolds, NewHeaders, PTL

(* mine_job skips no nonce: the wrapping strides of any number of threads   *)
(* take in every nonce of every extranonce2 they have left.                *)
THEOREM NoneIsSkipped == Spec => []NoNonceSkipped
BY InvariantHolds, AllNonces, PTL

-----------------------------------------------------------------------------
(* What is reported, a pool verifies.                                      *)

(* A hash that meets the target of a difficulty has it, to half a step.  A  *)
(* difficulty below half a step asks nothing of a hash.                     *)
LEMMA SharesHaveDifficulty ==
    ASSUME NEW d \in Int, NEW a \in DOMAIN Diff1, NEW h \in Nat,
           0 < d, Fits(d, a), scaled(d) < MaxScaled,
           meets_target(h, difficulty_to_target_for_algorithm(d, a))
    PROVE  HasDifficulty(h, d, a, 1)
<1> DEFINE T == difficulty_to_target_for_algorithm(d, a)
           asked == 2 * d - 1 * UnitsPerStep
           all == 2 * Diff1[a] * One
<1>1. UnitsPerStep \in Nat /\ Diff1[a] \in Nat /\ One \in Nat
  BY Units, TargetAssumption, PolicyAssumption
<1>2. asked \in Int /\ all \in Nat
  BY <1>1
<1>3. CASE UnitsPerStep <= 2 * d
  <2>1. T * asked <= all
    BY <1>3, TargetsAreTight DEF Tight, Precise, HasDifficulty
  <2>2. T \in Int /\ h <= T
    <3>1. T = Quotient(d, a) % Width /\ Quotient(d, a) = (Diff1[a] * Scale) \div scaled(d)
      BY PolicyAssumption DEF difficulty_to_target_for_algorithm, is_finite, Quotient
    <3>2. scaled(d) \in Nat \ {0} /\ Width \in Nat \ {0}
      BY <1>3, Rounding, TargetAssumption DEF Precise
    <3>3. Diff1[a] * Scale \in Nat
      BY <1>1, Units
    <3>4. Quotient(d, a) \in Int
      BY <3>1, <3>2, <3>3
    <3> QED BY <3>1, <3>2, <3>4 DEF meets_target
  <2>3. asked \in Nat
    BY <1>1, <1>3
  <2> HIDE DEF T, asked, all
  <2>4. asked * h <= asked * T
    BY <2>2, <2>3, Scaling
  <2>5. asked * h = h * asked /\ asked * T = T * asked /\ T * asked \in Int
    BY <2>2, <2>3
  <2>6. h * asked <= all
    BY <1>2, <2>1, <2>2, <2>3, <2>4, <2>5
  <2> QED BY <2>6 DEF HasDifficulty, asked, all
<1>4. CASE ~(UnitsPerStep <= 2 * d)
  <2>1. asked <= 0
    BY <1>1, <1>4
  <2> HIDE DEF asked, all
  <2>2. h * asked <= h * 0
    BY <1>2, <2>1, Scaling
  <2>3. h * asked <= all
    BY <1>2, <2>2
  <2> QED BY <2>3 DEF HasDifficulty, asked, all
<1> QED BY <1>3, <1>4

(* Only work that can be mined is, and a thread that is about to report is  *)
(* still at the header that is a share.                                    *)
SharesInHand ==
    \A t \in Threads : /\ pc[t] \in {"loop", "found"} => Mineable(work)
                       /\ pc[t] = "found" => Share(t)

VInv == IInv /\ SharesInHand /\ ReportsVerify

LEMMA SameShare ==
    ASSUME work' = work, NEW t \in Threads,
           merkle_root'[t] = merkle_root[t], nonce'[t] = nonce[t]
    PROVE  Share(t)' <=> Share(t)
BY DEF Share, meets_target

LEMMA SharesInHandStep ==
    ASSUME IInv, SharesInHand, [Next]_vars
    PROVE  SharesInHand'
<1> USE DEF IInv
<1>0. work' = work /\ (Mineable(work)' <=> Mineable(work))
  BY WorkStays DEF Mineable
<1>1. CASE UNCHANGED <<pc, search>>
  BY <1>0, <1>1, SameShare DEF SharesInHand, search
<1>2. CASE worker_new_job
  BY <1>0, <1>2 DEF worker_new_job, SharesInHand
<1>3. ASSUME NEW t \in Threads, task_miss(t) \/ task_send(t) PROVE SharesInHand'
  <2>1. /\ Advance(t) /\ pc[t] \in {"loop", "found"} /\ pc'[t] = "loop"
        /\ \A u \in Threads \ {t} : pc'[u] = pc[u]
    BY <1>3 DEF task_miss, task_send, Hashing, TypeOK
  <2>2. \A u \in Threads \ {t} : Share(u)' <=> Share(u)
    BY <1>0, <2>1, Advances, SameShare
  <2> QED BY <1>0, <2>1, <2>2 DEF SharesInHand
<1>4. ASSUME NEW t \in Threads, task_find(t) PROVE SharesInHand'
  <2>1. /\ pc[t] = "loop" /\ pc'[t] = "found" /\ Share(t)
        /\ \A u \in Threads \ {t} : pc'[u] = pc[u]
        /\ UNCHANGED search
    BY <1>4 DEF task_find, Hashing, TypeOK
  <2>2. \A u \in Threads : Share(u)' <=> Share(u)
    BY <1>0, <2>1, SameShare DEF search
  <2> QED BY <1>0, <2>1, <2>2 DEF SharesInHand
<1>5. ASSUME NEW t \in Threads, task_stop(t) PROVE SharesInHand'
  <2>1. /\ pc'[t] = "done" /\ UNCHANGED search
        /\ \A u \in Threads \ {t} : pc'[u] = pc[u]
    BY <1>5 DEF task_stop, TypeOK
  <2>2. \A u \in Threads : Share(u)' <=> Share(u)
    BY <1>0, <2>1, SameShare DEF search
  <2> QED BY <1>0, <2>1, <2>2 DEF SharesInHand
<1> QED
  BY <1>1, <1>2, <1>3, <1>4, <1>5
  DEF Next, Manager, Worker, Task, BeyondBound, vars, send_job, send_stop,
      recv_result, drop_channels, worker_stop

(* The report of a share verifies: what was hashed is what is reported.    *)
LEMMA ShareVerifies ==
    ASSUME IInv, SharesInHand, NEW t \in Threads, pc[t] = "found",
           WithinSize(NonceFound(t).extranonce2.value)
    PROVE  PoolVerifies(NonceFound(t))
<1> USE DEF IInv
<1> DEFINE c == counter[t]
           n == nonce[t]
           d == work.difficulty
           a == work.algorithm
           r == printed(c)
<1>1. /\ c \in 0..MaxCounter /\ c \in Nat /\ n \in Nonce /\ work \in Works
      /\ Mineable(work) /\ Share(t)
  BY Sizes DEF TypeOK, Bounded, SharesInHand
<1>2. NonceFound(t) = [extranonce2 |-> r, nonce |-> n, difficulty |-> d]
  BY DEF TypeOK, NonceFound
<1>3. WithinSize(c)
  BY <1>1, <1>2, PrintedType
<1>4. r = [value |-> c, digits |-> 2 * work.size]
  <2>1. work.size \in Nat /\ Digits(c) \in Nat
    BY <1>1, DigitsType, SearchAssumption
  <2> QED BY <1>3, <2>1 DEF printed, WithinSize, Larger
<1>5. merkle_root[t] = r
  BY <1>3 DEF Roots
<1>6. Hash(r, n) \in Nat
  BY <1>1, <1>4, SearchAssumption DEF Nonce
<1>7. meets_target(Hash(r, n), difficulty_to_target_for_algorithm(d, a))
  BY <1>1, <1>5 DEF Share
<1>8. d \in Int \cup {NonFinite} /\ a \in DOMAIN Diff1 /\ MaxScaled \in Nat
  BY <1>1, SearchAssumption, TargetAssumption DEF Mineable, is_supported
<1>9. ASSUME is_finite(d), ~(d <= 0), Fits(d, a), scaled(d) # MaxScaled
      PROVE  HasDifficulty(Hash(r, n), d, a, 1)
  <2>1. d \in Int /\ 0 < d
    BY <1>8, <1>9 DEF is_finite
  <2>2. scaled(d) < MaxScaled
    <3>1. (2 * d + UnitsPerStep) \div (2 * UnitsPerStep) \in Int
      BY <2>1, Units
    <3> QED BY <1>8, <1>9, <3>1 DEF scaled, Smaller, Larger
  <2> HIDE DEF d, a, r, n
  <2> QED BY <1>6, <1>7, <1>8, <1>9, <2>1, <2>2, SharesHaveDifficulty
<1> HIDE DEF r, n
<1> QED BY <1>2, <1>4, <1>9 DEF PoolVerifies

LEMMA SameVerdict ==
    ASSUME work' = work
    PROVE  \A r : /\ PoolVerifies(r)' <=> PoolVerifies(r)
                  /\ WithinSize(r.extranonce2.value)' <=> WithinSize(r.extranonce2.value)
BY DEF PoolVerifies, WithinSize

LEMMA ReportsVerifyStep ==
    ASSUME IInv, SharesInHand, ReportsVerify, [Next]_vars
    PROVE  ReportsVerify'
<1> USE DEF IInv
<1> DEFINE Good(r) == WithinSize(r.extranonce2.value) => PoolVerifies(r)
<1>0. work' = work /\ \A r : Good(r)' <=> Good(r)
  BY WorkStays, SameVerdict
<1>1. \A i \in DOMAIN results : Good(results[i])
  BY DEF ReportsVerify
<1>2. SUFFICES \A i \in DOMAIN results' : Good(results'[i])
  BY <1>0 DEF ReportsVerify
<1>3. \A t \in Threads : pc[t] = "found" => Good(NonceFound(t))
  BY ShareVerifies
<1>4. PICK S : results \in Seq(S)
  BY DEF TypeOK
<1> HIDE DEF Good
<1>5. CASE results' \in {results, <<>>}
  BY <1>1, <1>5
<1>6. CASE results # <<>> /\ results' = Tail(results)
  <2>1. \A i \in DOMAIN results' : i + 1 \in DOMAIN results /\ results'[i] = results[i + 1]
    BY <1>4, <1>6
  <2> QED BY <1>1, <2>1
<1>7. ASSUME NEW t \in Threads, pc[t] = "found", results' = Append(results, NonceFound(t))
      PROVE  \A i \in DOMAIN results' : Good(results'[i])
  <2> DEFINE f == NonceFound(t)
  <2>1. Good(f)
    BY <1>3, <1>7
  <2> HIDE DEF f
  <2>2. results' = Append(results, f)
    BY <1>7 DEF f
  <2>3. \A i \in DOMAIN results' :
           (i \in DOMAIN results /\ results'[i] = results[i]) \/ results'[i] = f
    BY <1>4, <2>2
  <2> QED BY <1>1, <2>1, <2>3
<1>8. \/ results' \in {results, <<>>}
      \/ results # <<>> /\ results' = Tail(results)
      \/ \E t \in Threads : pc[t] = "found" /\ results' = Append(results, NonceFound(t))
  BY DEF Next, Manager, Worker, Task, BeyondBound, vars, send_job, send_stop,
         recv_result, drop_channels, worker_new_job, worker_stop, task_miss,
         task_find, task_send, task_stop, Hashing
<1> QED BY <1>5, <1>6, <1>7, <1>8

LEMMA VerifiedHolds == Spec => []VInv
<1>1. Init => VInv
  BY Initially DEF Init, VInv, SharesInHand, ReportsVerify
<1>2. VInv /\ [Next]_vars => VInv'
  BY Inductively, SharesInHandStep, ReportsVerifyStep DEF VInv
<1> QED BY <1>1, <1>2, PTL DEF Spec

(* A nonce that mine_job reports, for every hash function, difficulty and   *)
(* number of threads: the pool that hashes the header again, from the      *)
(* extranonce2 and the nonce of the report, finds the difficulty it asked   *)
(* for, as long as the counter has not outgrown the extranonce2.           *)
THEOREM ReportsAreVerified == Spec => []ReportsVerify
BY VerifiedHolds, PTL DEF VInv

-----------------------------------------------------------------------------
(* The search implements the miner, step by step.                          *)

(* drop(miner_rx) empties the channel, and nothing is put in it again. *)
Drained == ~result_open => results = <<>>

RInv == TypeOK /\ Started /\ Drained

LEMMA DrainedStep ==
    ASSUME RInv, [Next]_vars
    PROVE  Drained'
BY DEF RInv, Drained, Next, Manager, Worker, Task, BeyondBound, vars, send_job,
       send_stop, recv_result, drop_channels, worker_new_job, worker_stop,
       task_miss, task_find, task_send, task_stop, Hashing

LEMMA RefinementInvariant == Spec => []RInv
<1>1. Init => Drained
  BY DEF Init, Drained
<1>2. RInv /\ IInv' /\ [Next]_vars => RInv'
  BY DrainedStep DEF RInv, IInv
<1>3. Init => IInv /\ RInv
  BY <1>1, Initially DEF IInv, RInv
<1>4. (IInv /\ RInv) /\ [Next]_vars => (IInv /\ RInv)'
  BY <1>2, Inductively
<1> QED BY <1>3, <1>4, PTL DEF Spec

(* The miner's reports follow the channel. *)
LEMMA ReportsFollow ==
    ASSUME NEW S, NEW q \in Seq(S), NEW w, NEW r
    PROVE  LET worked(s) == [i \in DOMAIN s |-> w]
           IN  /\ worked(<<>>) = <<>>
               /\ worked(q) \in Seq({w}) /\ Len(worked(q)) = Len(q)
               /\ worked(q) = <<>> => q = <<>>
               /\ r \in S => worked(Append(q, r)) = Append(worked(q), w)
               /\ q # <<>> => worked(Tail(q)) = Tail(worked(q))
<1> DEFINE worked(s) == [i \in DOMAIN s |-> w]
<1>1. worked(<<>>) = <<>>
  OBVIOUS
<1>2. worked(q) \in Seq({w}) /\ Len(worked(q)) = Len(q)
  OBVIOUS
<1>3. worked(q) = <<>> => q = <<>>
  BY <1>2
<1>4. ASSUME r \in S PROVE worked(Append(q, r)) = Append(worked(q), w)
  BY <1>4, <1>2
<1>5. ASSUME q # <<>> PROVE worked(Tail(q)) = Tail(worked(q))
  BY <1>5, <1>2
<1> QED BY <1>1, <1>2, <1>3, <1>4, <1>5

(* The commands of the miner that the manager of one job sends. *)
LEMMA MapsSends ==
    ASSUME RInv, send_job \/ send_stop
    PROVE  M!Manager
<1> USE SearchAssumption
<1>1. CASE send_job
  <2>1. /\ phase = "idle" /\ phase' = "sent" /\ result_open /\ work' = work
        /\ UNCHANGED <<pc, results, result_open>>
    BY <1>1 DEF send_job
  <2>2. /\ MinerCommands = <<>> /\ MinerCommands' = <<M!NewJob(work)>>
        /\ UNCHANGED <<MinerEpoch, MinerSlot, MinerTasks, MinerReports>>
    BY <2>1 DEF MinerCommands, MinerEpoch, MinerSlot, MinerTasks, MinerTask,
                MinerReports, M!NewJob
  <2>3. M!NewJob(work) \in M!Command
    BY DEF RInv, TypeOK, M!Command
  <2>4. M!send_command(M!NewJob(work))
    BY <2>1, <2>2 DEF M!send_command
  <2> QED BY <2>3, <2>4 DEF M!Manager
<1>2. CASE send_stop
  <2>1. /\ phase = "mining" /\ phase' = "stopping" /\ result_open /\ work' = work
        /\ UNCHANGED <<pc, results, result_open>>
    BY <1>2 DEF send_stop
  <2>2. /\ MinerCommands = <<>> /\ MinerCommands' = <<M!Stop>>
        /\ UNCHANGED <<MinerEpoch, MinerSlot, MinerTasks, MinerReports>>
    BY <2>1 DEF MinerCommands, MinerEpoch, MinerSlot, MinerTasks, MinerTask,
                MinerReports, M!Stop
  <2>3. M!Stop \in M!Command
    BY DEF M!Command
  <2>4. M!send_command(M!Stop)
    BY <2>1, <2>2 DEF M!send_command
  <2> QED BY <2>3, <2>4 DEF M!Manager
<1> QED BY <1>1, <1>2

(* The manager's end of the result channel. *)
LEMMA MapsReceives ==
    ASSUME RInv, recv_result \/ drop_channels
    PROVE  M!Manager
<1> DEFINE R == [extranonce2 : Extranonce2, nonce : Nonce, difficulty : {work.difficulty}]
<1>1. results \in Seq(R)
  BY DEF RInv, TypeOK
<1> HIDE DEF R
<1>2. /\ UNCHANGED <<phase, pc, work>>
      /\ UNCHANGED <<MinerCommands, MinerEpoch, MinerSlot, MinerTasks>>
  BY DEF recv_result, drop_channels, MinerCommands, MinerEpoch, MinerSlot,
         MinerTasks, MinerTask
<1>3. CASE recv_result
  <2>1. /\ results # <<>> /\ results' = Tail(results)
        /\ result_open /\ result_open' = result_open
    BY <1>3 DEF recv_result, RInv, Drained
  <2>2. MinerReports # <<>> /\ MinerReports' = Tail(MinerReports)
    BY <1>1, <1>2, <2>1, ReportsFollow DEF MinerReports
  <2>3. M!recv_result
    BY <1>2, <2>1, <2>2 DEF M!recv_result
  <2> QED BY <2>3 DEF M!Manager
<1>4. CASE drop_channels
  <2>1. results' = <<>> /\ result_open /\ result_open' = FALSE
    BY <1>4 DEF drop_channels
  <2>2. MinerReports' = <<>>
    BY <2>1 DEF MinerReports
  <2>3. M!drop_channels
    BY <1>2, <2>1, <2>2 DEF M!drop_channels
  <2> QED BY <2>3 DEF M!Manager
<1> QED BY <1>3, <1>4

(* A NewJob starts a task in each thread, or in none; a Stop ends the epoch. *)
LEMMA MapsCommands ==
    ASSUME RInv, Worker
    PROVE  M!Worker
<1>1. CASE worker_new_job
  <2>1. /\ phase = "sent" /\ phase' = "mining" /\ work' = work
        /\ pc' = [t \in Threads |-> IF Mineable(work) THEN "loop" ELSE "off"]
        /\ UNCHANGED <<results, result_open>>
    BY <1>1 DEF worker_new_job
  <2>2. pc = [t \in Threads |-> "off"] /\ work \in Works
    BY <2>1 DEF RInv, Started, TypeOK
  <2>3. /\ MinerCommands = <<M!NewJob(work)>> /\ MinerCommands' = <<>>
        /\ MinerEpoch = 0 /\ MinerEpoch' = 1
        /\ MinerSlot' = M!NewJob(work)
        /\ MinerReports' = MinerReports
    BY <2>1 DEF MinerCommands, MinerEpoch, MinerSlot, MinerReports, M!NewJob
  <2>4. /\ Head(<<M!NewJob(work)>>) = M!NewJob(work)
        /\ Tail(<<M!NewJob(work)>>) = <<>>
        /\ M!NewJob(work).cmd = "NewJob" /\ M!NewJob(work).work = work
        /\ <<M!NewJob(work)>> # <<>>
    BY DEF M!NewJob
  <2>5. MinerTasks = {}
    BY <2>2 DEF MinerTasks
  <2>6. MinerTasks' = M!Spawned(1, work)
    <3>1. CASE Mineable(work)
      <4>1. \A t \in Threads : pc'[t] = "loop"
        BY <2>1, <3>1
      <4>2. MinerTasks' = {[ep |-> 1, th |-> t, work |-> work, pc |-> "loop"] : t \in Threads}
        BY <2>1, <4>1 DEF MinerTasks, MinerTask
      <4>3. M!Spawned(1, work) = [ep : {1}, th : Threads, work : {work}, pc : {"loop"}]
        BY <3>1 DEF M!Spawned
      <4> DEFINE spawned(t) == [ep |-> 1, th |-> t, work |-> work, pc |-> "loop"]
      <4>4. \A x \in M!Spawned(1, work) : x.th \in Threads /\ x = spawned(x.th)
        <5>1. SUFFICES ASSUME NEW x \in [ep : {1}, th : Threads, work : {work}, pc : {"loop"}]
                       PROVE  x.th \in Threads /\ x = spawned(x.th)
          BY <4>3
        <5>2. x = [ep |-> x.ep, th |-> x.th, work |-> x.work, pc |-> x.pc]
          OBVIOUS
        <5>3. x.ep = 1 /\ x.th \in Threads /\ x.work = work /\ x.pc = "loop"
          OBVIOUS
        <5> QED BY <5>2, <5>3
      <4>5. \A t \in Threads : spawned(t) \in M!Spawned(1, work)
        BY <4>3
      <4>6. MinerTasks' = {spawned(t) : t \in Threads}
        BY <4>2
      <4> HIDE DEF spawned
      <4> QED BY <4>4, <4>5, <4>6
    <3>2. CASE ~Mineable(work)
      <4>1. MinerTasks' = {}
        BY <2>1, <3>2 DEF MinerTasks
      <4> QED BY <2>2, <3>2, <4>1 DEF M!Spawned
    <3> QED BY <3>1, <3>2
  <2>7. M!worker_new_job
    BY <2>1, <2>3, <2>4, <2>5, <2>6 DEF M!worker_new_job, M!NextEpoch
  <2> QED BY <2>7 DEF M!Worker
<1>2. CASE worker_stop
  <2>1. /\ phase = "stopping" /\ phase' = "over" /\ work' = work
        /\ UNCHANGED <<pc, results, result_open>>
    BY <1>2 DEF worker_stop
  <2>2. /\ MinerCommands = <<M!Stop>> /\ MinerCommands' = <<>>
        /\ MinerEpoch = 1 /\ MinerEpoch' = 2
        /\ MinerSlot' = M!Stop
        /\ UNCHANGED <<MinerReports, MinerTasks>>
    BY <2>1 DEF MinerCommands, MinerEpoch, MinerSlot, MinerReports, MinerTasks,
                MinerTask, M!Stop
  <2>3. M!worker_stop
    BY <2>1, <2>2 DEF M!worker_stop, M!NextEpoch
  <2> QED BY <2>3 DEF M!Worker
<1> QED BY <1>1, <1>2 DEF Worker

(* A thread that searches is a task of the miner, and what it becomes takes *)
(* its place.                                                              *)
LEMMA MapsThreads ==
    ASSUME RInv, NEW t \in Threads, pc[t] \in {"loop", "found"}, work' = work,
           NEW p \in {"loop", "found", "done"}, pc' = [pc EXCEPT ![t] = p]
    PROVE  /\ MinerTask(t) \in MinerTasks
           /\ MinerEpoch \in {1, 2}
           /\ p = "done" => MinerTasks' = MinerTasks \ {MinerTask(t)}
           /\ p # "done" => MinerTasks' = M!Replace(MinerTask(t),
                                                   [MinerTask(t) EXCEPT !.pc = p])
<1> DEFINE AtWork(s) == s \in {"loop", "found"}
<1>1. MinerTask(t) \in MinerTasks
  BY DEF MinerTasks
<1>2. MinerEpoch \in {1, 2}
  BY DEF RInv, Started, TypeOK, MinerEpoch
<1>3. /\ pc'[t] = p
      /\ \A u \in Threads \ {t} : pc'[u] = pc[u] /\ MinerTask(u)' = MinerTask(u)
      /\ MinerTask(t)' = [MinerTask(t) EXCEPT !.pc = p]
  BY DEF RInv, TypeOK, MinerTask
<1>4. \A u \in Threads \ {t} : MinerTask(u) # MinerTask(t)
  BY DEF MinerTask
<1>5. \A x : x \in MinerTasks <=> \E u \in Threads : AtWork(pc[u]) /\ x = MinerTask(u)
  BY DEF MinerTasks
<1>6. \A x : x \in MinerTasks' <=> \E u \in Threads : AtWork(pc'[u]) /\ x = MinerTask(u)'
  BY DEF MinerTasks
<1>7. AtWork(pc[t]) /\ (AtWork(pc'[t]) <=> p # "done")
  BY <1>3
<1> HIDE DEF AtWork
<1>8. \A x : x \in MinerTasks \ {MinerTask(t)}
               <=> \E u \in Threads \ {t} : AtWork(pc[u]) /\ x = MinerTask(u)
  BY <1>4, <1>5
<1>9. ASSUME p = "done" PROVE MinerTasks' = MinerTasks \ {MinerTask(t)}
  BY <1>3, <1>6, <1>7, <1>8, <1>9
<1>10. ASSUME p # "done"
       PROVE  MinerTasks' = (MinerTasks \ {MinerTask(t)}) \cup {MinerTask(t)'}
  BY <1>3, <1>6, <1>7, <1>8, <1>10
<1> QED BY <1>1, <1>2, <1>3, <1>9, <1>10 DEF M!Replace

(* An iteration is a step of the miner's task, or one it does not see. *)
LEMMA MapsIterations ==
    ASSUME RInv, NEW t \in Threads, task_find(t) \/ task_send(t) \/ task_stop(t)
    PROVE  M!Mining
<1> DEFINE R == [extranonce2 : Extranonce2, nonce : Nonce, difficulty : {work.difficulty}]
           m == MinerTask(t)
<1>1. results \in Seq(R) /\ NonceFound(t) \in R
  BY HeaderType DEF RInv, TypeOK
<1> HIDE DEF R
<1>2. /\ UNCHANGED <<phase, work, result_open>>
      /\ UNCHANGED <<MinerCommands, MinerEpoch, MinerSlot>>
  BY DEF task_find, task_send, task_stop, Hashing, MinerCommands, MinerEpoch, MinerSlot
<1>3. m.pc = pc[t] /\ m.ep = 1 /\ m.work = work
  BY DEF MinerTask
<1>4. CASE task_find(t)
  <2>1. pc[t] = "loop" /\ pc' = [pc EXCEPT ![t] = "found"] /\ results' = results
    BY <1>4 DEF task_find, Hashing
  <2>2. /\ m \in MinerTasks /\ MinerEpoch \in {1, 2}
        /\ MinerTasks' = M!Replace(m, [m EXCEPT !.pc = "found"])
    BY <1>2, <2>1, MapsThreads
  <2>3. MinerReports' = MinerReports
    BY <1>2, <2>1 DEF MinerReports
  <2> HIDE DEF m
  <2>4. M!task_find(m)
    BY <1>2, <1>3, <2>1, <2>2, <2>3 DEF M!task_find, M!EpochLoads
  <2> QED BY <2>2, <2>4 DEF M!Mining
<1>5. CASE task_send(t)
  <2>1. pc[t] = "found" /\ pc' = [pc EXCEPT ![t] = "loop"]
    BY <1>5 DEF task_send
  <2>2. /\ m \in MinerTasks
        /\ MinerTasks' = M!Replace(m, [m EXCEPT !.pc = "loop"])
    BY <1>2, <2>1, MapsThreads
  <2>3. \/ /\ result_open
           /\ Len(MinerReports) < ResultCap
           /\ MinerReports' = Append(MinerReports, work)
        \/ ~result_open /\ MinerReports' = MinerReports
    <3>1. CASE result_open
      <4>1. Len(results) < ResultCap /\ results' = Append(results, NonceFound(t))
        BY <1>5, <3>1 DEF task_send
      <4>2. Len(MinerReports) = Len(results)
        BY <1>1, ReportsFollow DEF MinerReports
      <4>3. MinerReports' = Append(MinerReports, work)
        BY <1>1, <1>2, <4>1, ReportsFollow DEF MinerReports
      <4> QED BY <3>1, <4>1, <4>2, <4>3
    <3>2. CASE ~result_open
      BY <1>2, <1>5, <3>2 DEF task_send, MinerReports
    <3> QED BY <3>1, <3>2
  <2> HIDE DEF m
  <2>4. M!task_send(m)
    BY <1>2, <1>3, <2>1, <2>2, <2>3 DEF M!task_send
  <2> QED BY <2>2, <2>4 DEF M!Mining
<1>6. CASE task_stop(t)
  <2>1. /\ phase = "over" /\ pc[t] = "loop" /\ pc' = [pc EXCEPT ![t] = "done"]
        /\ results' = results
    BY <1>6 DEF task_stop
  <2>2. m \in MinerTasks /\ MinerTasks' = MinerTasks \ {m}
    BY <1>2, <2>1, MapsThreads
  <2>3. MinerEpoch = 2 /\ MinerReports' = MinerReports
    BY <1>2, <2>1 DEF MinerEpoch, MinerReports
  <2> HIDE DEF m
  <2>4. 2 \in M!EpochLoads(m) /\ 2 # m.ep
    BY <1>3, <2>3 DEF M!EpochLoads
  <2>5. M!task_stop(m)
    BY <1>2, <1>3, <2>1, <2>2, <2>3, <2>4 DEF M!task_stop
  <2> QED BY <2>2, <2>5 DEF M!Mining
<1> QED BY <1>4, <1>5, <1>6

(* A header that is no share moves the thread on, which the miner does not  *)
(* see.                                                                    *)
LEMMA MapsMisses ==
    ASSUME UNCHANGED vars \/ \E t \in Threads : task_miss(t)
    PROVE  UNCHANGED M!vars
<1>1. UNCHANGED <<phase, work, pc, results, result_open>>
  BY DEF vars, task_miss, Hashing
<1> QED BY <1>1 DEF M!vars, MinerCommands, MinerEpoch, MinerSlot, MinerTasks,
                    MinerTask, MinerReports

(* Every behaviour of the search is one of the miner under some manager:    *)
(* what is proved of OpenSpec in MinerProofs holds of the search.           *)
THEOREM SearchImplementsMiner == Spec => ImplementsMiner
<1>1. Init => M!Init
  BY DEF Init, M!Init, M!Stop, MinerCommands, MinerEpoch, MinerSlot, MinerTasks,
         MinerReports
<1>2. RInv /\ [Next]_vars => [M!OpenNext]_(M!vars)
  <2> SUFFICES ASSUME RInv, [Next]_vars PROVE M!OpenNext \/ UNCHANGED M!vars
    OBVIOUS
  <2>1. \/ send_job \/ send_stop
        \/ recv_result \/ drop_channels
        \/ Worker
        \/ UNCHANGED vars \/ \E t \in Threads : task_miss(t)
        \/ \E t \in Threads : task_find(t) \/ task_send(t) \/ task_stop(t)
    BY DEF Next, Manager, Task, BeyondBound
  <2> QED
    BY <2>1, MapsSends, MapsReceives, MapsCommands, MapsMisses, MapsIterations
    DEF M!OpenNext
<1> QED BY <1>1, <1>2, RefinementInvariant, PTL DEF Spec, ImplementsMiner, M!OpenSpec
=============================================================================
