---------------------------- MODULE BuddyProofs ----------------------------
(***************************************************************************)
(* The buddy allocator keeps its blocks apart and finds them again, for a  *)
(* memory and an arena of any size.                                        *)
(*                                                                         *)
(* A node is reasoned about by its place x = pos + 1: the children of x    *)
(* are 2x and 2x + 1, the nodes above it are x div 2, x div 4, ..., and a  *)
(* node on depth d has 2^d <= x < 2^(d+1).  Its block is the part of the   *)
(* memory from x * c to (x + 1) * c, less the size of the memory, where c  *)
(* is its capacity.  So the blocks of two nodes overlap only when one of   *)
(* them is above the other.                                                *)
(***************************************************************************)
EXTENDS Buddy, FiniteSetTheorems, FunctionTheorems, WellFoundedInduction, TLAPS

-----------------------------------------------------------------------------
(* A set of natural numbers that is not empty has a least element. *)
LEMMA LeastOf ==
    ASSUME NEW T \in SUBSET Nat, T # {}
    PROVE  \E x \in T : \A y \in T : x <= y
<1>1. PICK x \in T : \A y \in T : ~(<<y, x>> \in OpToRel(<, Nat))
  BY WFMin, NatLessThanWellFounded
<1>2. ASSUME NEW y \in T PROVE ~(y < x)
  <2>1. x \in Nat /\ y \in Nat OBVIOUS
  <2>2. <<y, x>> \in Nat \X Nat BY <2>1
  <2>3. <<y, x>>[1] = y /\ <<y, x>>[2] = x OBVIOUS
  <2> QED BY <1>1, <2>2, <2>3, Zenon DEF OpToRel
<1> QED BY <1>2

(* Induction, for the set of the numbers that have the property. *)
LEMMA Induction ==
    ASSUME NEW S \in SUBSET Nat, 0 \in S, \A n \in S : n + 1 \in S
    PROVE  S = Nat
<1> DEFINE T == Nat \ S
<1> SUFFICES ASSUME T # {} PROVE FALSE OBVIOUS
<1>1. PICK x \in T : \A y \in T : x <= y
  <2>1. T \in SUBSET Nat OBVIOUS
  <2> HIDE DEF T
  <2> QED BY <2>1, LeastOf
<1>2. x \in Nat /\ x # 0 /\ x \notin S OBVIOUS
<1>3. x - 1 \in Nat /\ x - 1 \notin T BY <1>1, <1>2
<1>4. (x - 1) + 1 \in S BY <1>3
<1> QED BY <1>2, <1>4

(* The powers of two are counted by the subsets of an interval. *)
LEMMA PowerType == ASSUME NEW n \in Nat PROVE 2 ^ n \in Nat \ {0}
<1>1. IsFiniteSet(1 .. n) /\ Cardinality(1 .. n) = n BY FS_Interval
<1>2. IsFiniteSet(SUBSET (1 .. n)) /\ Cardinality(SUBSET (1 .. n)) = 2 ^ n
  BY <1>1, FS_SUBSET
<1>3. SUBSET (1 .. n) # {} OBVIOUS
<1> QED BY <1>2, <1>3, FS_CardinalityType, FS_EmptySet

LEMMA PowerZero == 2 ^ 0 = 1
OBVIOUS

LEMMA PowerNext == ASSUME NEW n \in Nat PROVE 2 ^ (n + 1) = 2 * 2 ^ n
<1> DEFINE A == 1 .. n
           B == 1 .. (n + 1)
           P == SUBSET A
           Q == {X \cup {n + 1} : X \in P}
           f == [X \in P |-> X \cup {n + 1}]
<1>1. IsFiniteSet(A) /\ Cardinality(A) = n BY FS_Interval
<1>2. IsFiniteSet(B) /\ Cardinality(B) = n + 1 BY FS_Interval
<1>3. IsFiniteSet(P) /\ Cardinality(P) = 2 ^ n BY <1>1, FS_SUBSET
<1>4. IsFiniteSet(SUBSET B) /\ Cardinality(SUBSET B) = 2 ^ (n + 1) BY <1>2, FS_SUBSET
<1>5. B = A \cup {n + 1} /\ n + 1 \notin A OBVIOUS
<1>6. SUBSET B = P \cup Q
  <2>1. ASSUME NEW X \in SUBSET B PROVE X \in P \cup Q
    <3>1. CASE n + 1 \in X
      <4>1. X \ {n + 1} \in P BY <1>5
      <4>2. X = (X \ {n + 1}) \cup {n + 1} BY <3>1
      <4> QED BY <4>1, <4>2
    <3>2. CASE n + 1 \notin X BY <3>2, <1>5
    <3> QED BY <3>1, <3>2
  <2>2. ASSUME NEW X \in P \cup Q PROVE X \in SUBSET B BY <1>5
  <2> QED BY <2>1, <2>2
<1>7. P \cap Q = {} BY <1>5
<1>8. ExistsBijection(P, Q)
  <2>1. f \in [P -> Q] OBVIOUS
  <2>2. ASSUME NEW X \in P, NEW Y \in P, f[X] = f[Y] PROVE X = Y
    <3>1. X \cup {n + 1} = Y \cup {n + 1} BY <2>2
    <3> QED BY <3>1, <1>5
  <2>3. \A Y \in Q : \E X \in P : f[X] = Y OBVIOUS
  <2> HIDE DEF f, P, Q
  <2>4. f \in Bijection(P, Q)
    BY <2>1, <2>2, <2>3, Zenon DEF Bijection, Injection, IsInjective, Surjection
  <2> QED BY <2>4 DEF ExistsBijection
<1>9. IsFiniteSet(Q) /\ Cardinality(Q) = Cardinality(P) BY <1>3, <1>8, FS_Bijection
<1>10. Cardinality(P \cup Q) = Cardinality(P) + Cardinality(Q) - Cardinality(P \cap Q)
  <2> HIDE DEF P, Q
  <2> QED BY <1>3, <1>9, FS_Union
<1>11. Cardinality(P \cap Q) = 0 BY <1>7, FS_EmptySet
<1> HIDE DEF A, B, P, Q, f
<1>12. 2 ^ n \in Nat BY PowerType
<1>13. Cardinality(SUBSET B) = Cardinality(P \cup Q) BY <1>6
<1>14. 2 ^ (n + 1) = Cardinality(P \cup Q) BY <1>4, <1>13
<1>15. Cardinality(Q) = 2 ^ n BY <1>3, <1>9
<1>16. 2 ^ (n + 1) = 2 ^ n + 2 ^ n - 0
  BY <1>3, <1>10, <1>11, <1>14, <1>15, Zenon
<1> QED BY <1>12, <1>16

LEMMA PowerGrows == \A n \in Nat : n < 2 ^ n
<1> DEFINE S == {n \in Nat : n < 2 ^ n}
<1>1. 0 \in S BY PowerZero
<1>2. ASSUME NEW n \in S PROVE n + 1 \in S
  <2>1. n < 2 ^ n /\ 2 ^ n \in Nat /\ 2 ^ (n + 1) = 2 * 2 ^ n BY PowerType, PowerNext
  <2> QED BY <2>1
<1>3. S \in SUBSET Nat OBVIOUS
<1>4. S = Nat
  <2> HIDE DEF S
  <2> QED BY <1>1, <1>2, <1>3, Induction
<1> QED BY <1>4

LEMMA PowerSum == ASSUME NEW a \in Nat PROVE \A b \in Nat : 2 ^ (a + b) = 2 ^ a * 2 ^ b
<1> DEFINE S == {b \in Nat : 2 ^ (a + b) = 2 ^ a * 2 ^ b}
<1>0. 2 ^ a \in Nat BY PowerType
<1>1. 0 \in S BY <1>0, PowerZero
<1>2. ASSUME NEW b \in S PROVE b + 1 \in S
  <2>1. 2 ^ (b + 1) = 2 * 2 ^ b /\ 2 ^ b \in Nat BY PowerNext, PowerType
  <2>2. 2 ^ ((a + b) + 1) = 2 * 2 ^ (a + b) /\ 2 ^ (a + b) \in Nat
    <3>1. a + b \in Nat OBVIOUS
    <3> QED BY <3>1, PowerNext, PowerType
  <2>3. (a + b) + 1 = a + (b + 1) OBVIOUS
  <2> DEFINE u == 2 ^ a
             v == 2 ^ b
  <2>4. 2 ^ (a + b) = u * v OBVIOUS
  <2>5. u \in Nat /\ v \in Nat BY <1>0, <2>1
  <2>6. 2 * (u * v) = u * (2 * v)
    <3> HIDE DEF u, v
    <3> QED BY <2>5
  <2>7. 2 ^ (a + (b + 1)) = u * 2 ^ (b + 1) BY <2>1, <2>2, <2>3, <2>4, <2>6
  <2> QED BY <2>7
<1>3. S \in SUBSET Nat OBVIOUS
<1>4. S = Nat
  <2> HIDE DEF S
  <2> QED BY <1>1, <1>2, <1>3, Induction
<1> QED BY <1>4

LEMMA PowerMono == ASSUME NEW a \in Nat, NEW b \in Nat, a < b PROVE 2 * 2 ^ a <= 2 ^ b
<1> DEFINE c == b - (a + 1)
           u == 2 ^ (a + 1)
           v == 2 ^ c
<1>1. c \in Nat /\ b = (a + 1) + c /\ a + 1 \in Nat OBVIOUS
<1>2. 2 ^ b = u * v BY <1>1, PowerSum
<1>3. u \in Nat /\ v \in Nat /\ v >= 1 BY <1>1, PowerType
<1>4. u <= u * v
  <2> HIDE DEF u, v
  <2> QED BY <1>3
<1>5. u = 2 * 2 ^ a BY PowerNext
<1> QED BY <1>2, <1>4, <1>5
-----------------------------------------------------------------------------
(* The size of the memory in Kb, and the depth of a node. *)
Memory == 2 ^ (Level - 1)
OnDepth(pos, d) == 2 ^ d <= pos + 1 /\ pos + 1 < 2 * 2 ^ d

LEMMA PositionType == Position \subseteq Nat /\ leaves = 2 * Memory - 1 /\ Memory \in Nat \ {0}
<1>1. Level - 1 \in Nat BY BuddyAssumption
<1>2. 2 ^ ((Level - 1) + 1) = 2 * 2 ^ (Level - 1) BY <1>1, PowerNext
<1>3. (Level - 1) + 1 = Level BY BuddyAssumption
<1>4. Memory \in Nat \ {0} BY <1>1, PowerType DEF Memory
<1> QED BY <1>2, <1>3, <1>4 DEF Position, leaves, Memory

LEMMA InPosition == ASSUME NEW x \in Int PROVE x \in Position <=> 0 <= x /\ x + 1 < 2 * Memory
BY PositionType DEF Position

LEMMA DepthExists == ASSUME NEW pos \in Nat PROVE \E d \in Nat : OnDepth(pos, d)
<1> DEFINE T == {d \in Nat : pos + 1 < 2 * 2 ^ d}
<1>1. pos + 1 \in T
  <2>1. pos + 1 < 2 ^ (pos + 1) /\ 2 ^ (pos + 1) \in Nat BY PowerGrows, PowerType
  <2> QED BY <2>1
<1>2. PICK d \in T : \A e \in T : d <= e
  <2>1. T \in SUBSET Nat /\ T # {} BY <1>1
  <2> HIDE DEF T
  <2> QED BY <2>1, LeastOf
<1>3. d \in Nat /\ 2 ^ d \in Nat /\ pos + 1 < 2 * 2 ^ d BY PowerType
<1>4. CASE d = 0
  <2>1. 2 ^ d = 1 BY <1>4, PowerZero
  <2> QED BY <1>3, <2>1 DEF OnDepth
<1>5. CASE d # 0
  <2>1. d - 1 \in Nat /\ d - 1 \notin T /\ (d - 1) + 1 = d BY <1>2, <1>3, <1>5
  <2>2. ~(pos + 1 < 2 * 2 ^ (d - 1)) BY <2>1
  <2>3. 2 ^ ((d - 1) + 1) = 2 * 2 ^ (d - 1) BY <2>1, PowerNext
  <2>4. 2 ^ d <= pos + 1 BY <1>3, <2>1, <2>2, <2>3
  <2> QED BY <1>3, <2>4 DEF OnDepth
<1> QED BY <1>4, <1>5

(* bsqrt, which counts shifts in the code, is the rounded logarithm. *)
LEMMA bsqrtIs ==
    ASSUME NEW num \in Nat, NEW r \in Nat, num <= 2 ^ r, r = 0 \/ 2 ^ (r - 1) < num
    PROVE  bsqrt(num) = r
<1> DEFINE Right(s) == 2 ^ s >= num /\ \A q \in 0 .. (s - 1) : 2 ^ q < num
<1>0. \A k \in Nat : 2 ^ k \in Nat /\ k < 2 ^ k BY PowerType, PowerGrows
<1>1. \A q \in 0 .. (r - 1) : 2 ^ q < num
  <2> SUFFICES ASSUME NEW q \in 0 .. (r - 1) PROVE 2 ^ q < num OBVIOUS
  <2>1. r - 1 \in Nat /\ q \in Nat /\ r # 0 OBVIOUS
  <2>2. 2 ^ q <= 2 ^ (r - 1)
    <3>1. CASE q = r - 1 BY <3>1, <1>0, <2>1
    <3>2. CASE q < r - 1
      <4>1. 2 * 2 ^ q <= 2 ^ (r - 1) BY <3>2, <2>1, PowerMono
      <4> QED BY <4>1, <2>1, <1>0
    <3> QED BY <3>1, <3>2
  <2>3. 2 ^ (r - 1) < num BY <2>1
  <2> QED BY <2>1, <2>2, <2>3, <1>0
<1>2. r \in 0 .. num
  <2>1. CASE r = 0 BY <2>1
  <2>2. CASE r # 0
    <3>1. r - 1 \in Nat /\ 2 ^ (r - 1) < num BY <2>2
    <3>2. 2 ^ (r - 1) \in Nat /\ r - 1 < 2 ^ (r - 1) BY <3>1, <1>0
    <3> QED BY <3>1, <3>2
  <2> QED BY <2>1, <2>2
<1>3. Right(r) BY <1>0, <1>1
<1>4. ASSUME NEW s \in 0 .. num, Right(s) PROVE s = r
  <2>1. CASE s > r
    <3>1. r \in 0 .. (s - 1) BY <2>1
    <3>2. 2 ^ r < num BY <3>1, <1>4
    <3> QED BY <3>2, <1>0
  <2>2. CASE s < r
    <3>1. s \in 0 .. (r - 1) /\ s \in Nat BY <2>2
    <3>2. 2 ^ s < num BY <3>1, <1>1
    <3>3. 2 ^ s >= num BY <1>4
    <3> QED BY <3>1, <3>2, <3>3, <1>0
  <2> QED BY <2>1, <2>2
<1>5. bsqrt(num) = CHOOSE s \in 0 .. num : Right(s) BY DEF bsqrt
<1> HIDE DEF Right
<1> QED BY <1>2, <1>3, <1>4, <1>5

LEMMA bsqrtType == ASSUME NEW num \in Nat PROVE bsqrt(num) \in Nat
<1> DEFINE T == {r \in Nat : num <= 2 ^ r}
<1>1. num \in T
  <2>1. num < 2 ^ num /\ 2 ^ num \in Nat BY PowerGrows, PowerType
  <2> QED BY <2>1
<1>2. PICK r \in T : \A e \in T : r <= e
  <2>1. T \in SUBSET Nat /\ T # {} BY <1>1
  <2> HIDE DEF T
  <2> QED BY <2>1, LeastOf
<1>3. r \in Nat /\ num <= 2 ^ r OBVIOUS
<1>4. r = 0 \/ 2 ^ (r - 1) < num
  <2> SUFFICES ASSUME r # 0 PROVE 2 ^ (r - 1) < num OBVIOUS
  <2>1. r - 1 \in Nat /\ r - 1 \notin T BY <1>2, <1>3
  <2>2. 2 ^ (r - 1) \in Nat BY <2>1, PowerType
  <2> QED BY <2>1, <2>2
<1>5. bsqrt(num) = r BY <1>3, <1>4, bsqrtIs
<1> QED BY <1>3, <1>5

(* A block is at least one Kb. *)
LEMMA AllocSizeType == ASSUME NEW bytes \in Nat PROVE AllocSize(bytes) \in Nat \ {0}
<1>1. bytes \div Kb \in Nat BY BuddyAssumption
<1> QED BY <1>1, bsqrtType, PowerType DEF AllocSize

(* Where a node is: its level, its size and its address. *)
Placed(pos, d) ==
    /\ OnDepth(pos, d)
    /\ LevelOf(pos) = d + 1
    /\ Capasity(pos) = 2 ^ (Level - 1 - d)
    /\ 2 ^ d * Capasity(pos) = Memory
    /\ Address(pos) = (pos + 1) * Capasity(pos) - Memory

LEMMA PlacedAt ==
    ASSUME NEW pos \in Position, NEW d \in Nat, OnDepth(pos, d)
    PROVE  d \in 0 .. (Level - 1) /\ Placed(pos, d)
<1> DEFINE x == pos + 1
           u == 2 ^ d
           c == 2 ^ (Level - 1 - d)
<1>1. x \in Nat \ {0} /\ u \in Nat \ {0} /\ u <= x /\ x < 2 * u /\ x < 2 * Memory
  <2>1. pos \in Nat /\ pos + 1 < 2 * Memory BY InPosition, PositionType
  <2> QED BY <2>1, PowerType DEF OnDepth
<1>2. d <= Level - 1
  <2> SUFFICES ASSUME Level - 1 < d PROVE FALSE BY BuddyAssumption
  <2>1. 2 * Memory <= u BY PowerMono, BuddyAssumption DEF Memory
  <2> QED BY <1>1, <2>1, PositionType
<1>3. d \in 0 .. (Level - 1) /\ Level - 1 - d \in Nat BY <1>2, BuddyAssumption
<1>4. LevelOf(pos) = d + 1
  <2>1. 2 ^ (d + 1) = 2 * u BY PowerNext
  <2>2. pos + 2 \in Nat /\ pos + 2 <= 2 ^ (d + 1) /\ 2 ^ d < pos + 2
    BY <1>1, <2>1, PositionType
  <2>3. (d + 1) - 1 = d /\ d + 1 \in Nat OBVIOUS
  <2>4. bsqrt(pos + 2) = d + 1 BY <2>2, <2>3, bsqrtIs
  <2> QED BY <2>4 DEF LevelOf
<1>5. Capasity(pos) = c
  <2>1. Level - (d + 1) = Level - 1 - d BY BuddyAssumption
  <2> QED BY <1>4, <2>1 DEF Capasity
<1>6. c \in Nat BY <1>3, PowerType
<1>7. u * c = Memory
  <2>1. 2 ^ (d + (Level - 1 - d)) = u * c BY <1>3, PowerSum
  <2>2. d + (Level - 1 - d) = Level - 1 BY BuddyAssumption
  <2> QED BY <2>1, <2>2 DEF Memory
<1>8. Address(pos) = x * c - Memory
  <2>1. (d + 1) - 1 = d OBVIOUS
  <2>2. Address(pos) = (x % u) * c BY <1>4, <1>5, <2>1 DEF Address
  <2> HIDE DEF x, u, c
  <2>3. x % u = x - u BY <1>1
  <2>4. (x - u) * c = x * c - u * c BY <1>1, <1>6
  <2> QED BY <1>7, <2>2, <2>3, <2>4
<1> QED BY <1>3, <1>4, <1>5, <1>7, <1>8 DEF Placed

LEMMA Place == ASSUME NEW pos \in Position PROVE \E d \in 0 .. (Level - 1) : Placed(pos, d)
<1>1. pos \in Nat BY PositionType
<1>2. PICK d \in Nat : OnDepth(pos, d) BY <1>1, DepthExists
<1> QED BY <1>2, PlacedAt
-----------------------------------------------------------------------------
(* Division by powers of two, as shifting does it. *)
LEMMA DivUnique ==
    ASSUME NEW n \in Nat, NEW m \in Nat \ {0}, NEW k \in Nat, k * m <= n, n < (k + 1) * m
    PROVE  n \div m = k
OBVIOUS

LEMMA DivBounds ==
    ASSUME NEW n \in Nat, NEW m \in Nat \ {0}
    PROVE  n \div m \in Nat /\ (n \div m) * m <= n /\ n < (n \div m + 1) * m
OBVIOUS

LEMMA DivDiv ==
    ASSUME NEW n \in Nat, NEW k \in Nat \ {0}, NEW m \in Nat \ {0}
    PROVE  (n \div k) \div m = n \div (k * m)
<1> DEFINE q == n \div k
           r == q \div m
           w == k * m
<1>1. q \in Nat /\ q * k <= n /\ n < (q + 1) * k BY DivBounds
<1>2. r \in Nat /\ r * m <= q /\ q < (r + 1) * m BY <1>1, DivBounds
<1>3. w \in Nat \ {0} OBVIOUS
<1>4. r * w <= n
  <2> HIDE DEF q, r
  <2>1. (r * m) * k <= q * k BY <1>1, <1>2
  <2>2. (r * m) * k = r * w BY <1>2
  <2>3. r * m \in Nat /\ r * w \in Nat /\ q * k \in Nat BY <1>1, <1>2
  <2> QED BY <1>1, <2>1, <2>2, <2>3
<1>5. n < (r + 1) * w
  <2> HIDE DEF q, r
  <2>1. q + 1 <= (r + 1) * m /\ (r + 1) * m \in Nat BY <1>1, <1>2
  <2>2. (q + 1) * k <= ((r + 1) * m) * k BY <2>1, <1>1
  <2>3. ((r + 1) * m) * k = (r + 1) * w BY <1>2
  <2>4. (q + 1) * k \in Nat /\ (r + 1) * w \in Nat BY <1>1, <1>2
  <2> QED BY <1>1, <2>2, <2>3, <2>4
<1> HIDE DEF q, r, w
<1>6. n \div w = r BY <1>2, <1>3, <1>4, <1>5, DivUnique
<1> QED BY <1>6 DEF q, r, w

LEMMA ShiftType == ASSUME NEW n \in Nat, NEW k \in Nat PROVE n \div 2 ^ k \in Nat /\ n \div 2 ^ k <= n
<1> DEFINE u == 2 ^ k
           q == n \div u
<1>1. u \in Nat \ {0} BY PowerType
<1>2. q \in Nat /\ q * u <= n
  <2> HIDE DEF u
  <2> QED BY <1>1, DivBounds
<1>3. q <= q * u
  <2> HIDE DEF u, q
  <2> QED BY <1>1, <1>2
<1>4. q * u \in Nat BY <1>1, <1>2
<1> HIDE DEF q
<1>5. q <= n BY <1>2, <1>3, <1>4
<1> QED BY <1>2, <1>5 DEF q

LEMMA ShiftShift ==
    ASSUME NEW n \in Nat, NEW j \in Nat, NEW k \in Nat
    PROVE  (n \div 2 ^ j) \div 2 ^ k = n \div 2 ^ (j + k)
<1>1. 2 ^ j \in Nat \ {0} /\ 2 ^ k \in Nat \ {0} BY PowerType
<1>2. (n \div 2 ^ j) \div 2 ^ k = n \div (2 ^ j * 2 ^ k) BY <1>1, DivDiv
<1> QED BY <1>2, PowerSum

LEMMA PowerOne == 2 ^ 1 = 2
BY PowerZero, PowerNext

LEMMA ShiftNext ==
    ASSUME NEW n \in Nat, NEW k \in Nat
    PROVE  /\ n \div 2 ^ (k + 1) = (n \div 2 ^ k) \div 2
           /\ n \div 2 ^ (k + 1) = (n \div 2) \div 2 ^ k
<1>1. (n \div 2 ^ k) \div 2 ^ 1 = n \div 2 ^ (k + 1) BY ShiftShift
<1>2. (n \div 2 ^ 1) \div 2 ^ k = n \div 2 ^ (1 + k) BY ShiftShift
<1>3. 1 + k = k + 1 OBVIOUS
<1> QED BY <1>1, <1>2, <1>3, PowerOne
-----------------------------------------------------------------------------
(* The nodes above a node. *)
LEMMA AboveIs ==
    ASSUME NEW pos \in Position, NEW q \in Position
    PROVE  q \in Above(pos) <=> \E k \in Nat \ {0} : q + 1 = (pos + 1) \div 2 ^ k
<1>1. Level \in Nat /\ 1 .. Level \subseteq Nat \ {0} BY BuddyAssumption
<1>2. q \in Above(pos) => \E k \in Nat \ {0} : q + 1 = (pos + 1) \div 2 ^ k
  BY <1>1 DEF Above
<1>3. ASSUME NEW k \in Nat \ {0}, q + 1 = (pos + 1) \div 2 ^ k PROVE k \in 1 .. Level
  <2> SUFFICES ASSUME k > Level - 1 PROVE FALSE BY <1>1
  <2> DEFINE u == 2 ^ k
             x == pos + 1
  <2>1. 2 * Memory <= u BY <1>1, PowerMono, BuddyAssumption DEF Memory
  <2>2. x \in Nat /\ x < 2 * Memory BY InPosition, PositionType
  <2>3. u \in Nat \ {0} /\ x < u BY <2>1, <2>2, PowerType, PositionType
  <2>4. x \div u = 0
    <3> HIDE DEF x, u
    <3> QED BY <2>2, <2>3, DivUnique
  <2> QED BY <1>3, <2>4, PositionType
<1> QED BY <1>2, <1>3 DEF Above

LEMMA AboveInside == ASSUME NEW pos PROVE Above(pos) \subseteq Position
BY DEF Above

LEMMA AboveLess == ASSUME NEW pos \in Position, NEW q \in Above(pos) PROVE q < pos
<1>1. q \in Position BY AboveInside
<1>2. PICK k \in Nat \ {0} : q + 1 = (pos + 1) \div 2 ^ k BY <1>1, AboveIs
<1> DEFINE m == (pos + 1) \div 2 ^ (k - 1)
<1>3. pos + 1 \in Nat /\ k - 1 \in Nat /\ (k - 1) + 1 = k /\ q \in Nat /\ pos \in Nat
  BY <1>1, PositionType
<1>4. m \in Nat /\ m <= pos + 1 BY <1>3, ShiftType
<1>5. q + 1 = m \div 2 BY <1>2, <1>3, ShiftNext
<1> HIDE DEF m
<1> QED BY <1>3, <1>4, <1>5

LEMMA AboveTransitive ==
    ASSUME NEW pos \in Position, NEW q \in Above(pos), NEW r \in Above(q)
    PROVE  r \in Above(pos)
<1>1. q \in Position /\ r \in Position BY AboveInside
<1>2. PICK j \in Nat \ {0} : q + 1 = (pos + 1) \div 2 ^ j BY <1>1, AboveIs
<1>3. PICK k \in Nat \ {0} : r + 1 = (q + 1) \div 2 ^ k BY <1>1, AboveIs
<1>4. pos + 1 \in Nat BY PositionType
<1>5. r + 1 = (pos + 1) \div 2 ^ (j + k)
  <2>1. ((pos + 1) \div 2 ^ j) \div 2 ^ k = (pos + 1) \div 2 ^ (j + k) BY <1>4, ShiftShift
  <2> QED BY <1>2, <1>3, <2>1, Zenon
<1>6. j + k \in Nat \ {0} OBVIOUS
<1> QED BY <1>1, <1>5, <1>6, AboveIs

(* A node above another one has two children, and one of them is that node *)
(* or above it.                                                            *)
LEMMA AboveChild ==
    ASSUME NEW pos \in Position, NEW q \in Above(pos)
    PROVE  /\ 2 * q + 1 \in Position /\ 2 * q + 2 \in Position
           /\ \E c \in {2 * q + 1, 2 * q + 2} : c = pos \/ c \in Above(pos)
<1>1. q \in Position BY AboveInside
<1>2. PICK k \in Nat \ {0} : q + 1 = (pos + 1) \div 2 ^ k BY <1>1, AboveIs
<1> DEFINE m == (pos + 1) \div 2 ^ (k - 1)
<1>3. pos + 1 \in Nat /\ k - 1 \in Nat /\ (k - 1) + 1 = k /\ q \in Nat /\ pos \in Nat
  BY <1>1, PositionType
<1>4. m \in Nat /\ m <= pos + 1 BY <1>3, ShiftType
<1>5. q + 1 = m \div 2 BY <1>2, <1>3, ShiftNext
<1>6. pos + 1 < 2 * Memory BY <1>3, InPosition
<1>7. m - 1 \in {2 * q + 1, 2 * q + 2} /\ m - 1 \in Nat /\ m < 2 * Memory
  <2> HIDE DEF m
  <2> QED BY <1>3, <1>4, <1>5, <1>6, PositionType
<1>8. 2 * q + 1 \in Position /\ 2 * q + 2 \in Position
  <2> HIDE DEF m
  <2>1. 2 * (q + 1) <= m BY <1>3, <1>4, <1>5
  <2>2. 2 * q + 3 < 2 * Memory BY <1>3, <1>4, <1>7, <2>1, PositionType
  <2>3. 2 * q + 1 \in Int /\ 0 <= 2 * q + 1 /\ (2 * q + 1) + 1 < 2 * Memory
    BY <1>3, <2>2, PositionType
  <2>4. 2 * q + 2 \in Int /\ 0 <= 2 * q + 2 /\ (2 * q + 2) + 1 < 2 * Memory
    BY <1>3, <2>2, PositionType
  <2>5. 2 * q + 1 \in Position BY <2>3, InPosition
  <2>6. 2 * q + 2 \in Position BY <2>4, InPosition
  <2> QED BY <2>5, <2>6
<1>9. m - 1 = pos \/ m - 1 \in Above(pos)
  <2>1. CASE k = 1
    <3>1. 2 ^ (k - 1) = 1 BY <2>1, PowerZero
    <3> QED BY <1>3, <3>1
  <2>2. CASE k # 1
    <3>1. k - 1 \in Nat \ {0} /\ m - 1 \in Position /\ (m - 1) + 1 = m
      BY <1>7, <1>8, <1>4, <1>3, <2>2
    <3> QED BY <3>1, AboveIs
  <2> QED BY <2>1, <2>2
<1> HIDE DEF m
<1> QED BY <1>7, <1>8, <1>9

(* The search comes to a child through its parent. *)
LEMMA AboveOfChild ==
    ASSUME NEW pos \in Position, NEW c \in {2 * pos + 1, 2 * pos + 2}, c \in Position
    PROVE  Above(c) \subseteq {pos} \cup Above(pos)
<1> SUFFICES ASSUME NEW q \in Above(c) PROVE q = pos \/ q \in Above(pos) OBVIOUS
<1>1. q \in Position BY AboveInside
<1>2. PICK k \in Nat \ {0} : q + 1 = (c + 1) \div 2 ^ k BY <1>1, AboveIs
<1>3. k - 1 \in Nat /\ (k - 1) + 1 = k /\ c + 1 \in Nat /\ pos \in Nat /\ q \in Nat
  BY <1>1, PositionType
<1>4. q + 1 = ((c + 1) \div 2) \div 2 ^ (k - 1)
  <2>1. (c + 1) \div 2 ^ ((k - 1) + 1) = ((c + 1) \div 2) \div 2 ^ (k - 1) BY <1>3, ShiftNext
  <2> QED BY <1>2, <1>3, <2>1, Zenon
<1>5. (c + 1) \div 2 = pos + 1 BY <1>3
<1>6. q + 1 = (pos + 1) \div 2 ^ (k - 1) BY <1>4, <1>5
<1>7. CASE k = 1
  <2>1. 2 ^ (k - 1) = 1 BY <1>7, PowerZero
  <2> QED BY <1>3, <1>6, <2>1
<1>8. CASE k # 1
  <2>1. k - 1 \in Nat \ {0} BY <1>3, <1>8
  <2> QED BY <1>1, <1>6, <2>1, AboveIs
<1> QED BY <1>7, <1>8

LEMMA NothingAboveRoot == 0 \in Position /\ Above(0) = {}
<1>1. 0 \in Position BY InPosition, PositionType
<1>2. ASSUME NEW q \in Above(0) PROVE FALSE 
  <2>1. q < 0 BY <1>1, AboveLess
  <2>2. q \in Nat BY AboveInside, PositionType
  <2> QED BY <2>1, <2>2
<1> QED BY <1>1, <1>2
-----------------------------------------------------------------------------
(* The parts of the memory that the nodes stand for. *)
LEMMA ExtentType ==
    ASSUME NEW pos \in Position
    PROVE  /\ Capasity(pos) \in Nat \ {0} /\ Address(pos) \in Nat
           /\ Extent(pos) \subseteq 0 .. (Memory - 1)
           /\ IsFiniteSet(Extent(pos)) /\ Cardinality(Extent(pos)) = Capasity(pos)
<1> DEFINE x == pos + 1
           c == Capasity(pos)
           a == Address(pos)
<1>1. PICK d \in 0 .. (Level - 1) : Placed(pos, d) BY Place
<1> DEFINE u == 2 ^ d
<1>2. d \in Nat /\ Level - 1 - d \in Nat BY BuddyAssumption
<1>3. u \in Nat \ {0} /\ c \in Nat \ {0} BY <1>1, <1>2, PowerType DEF Placed
<1>4. x \in Nat /\ u <= x /\ x + 1 <= 2 * u
  BY <1>1, <1>3, PositionType DEF Placed, OnDepth
<1>5. u * c = Memory /\ a = x * c - Memory BY <1>1 DEF Placed
<1>6. u * c <= x * c /\ (x + 1) * c <= 2 * (u * c)
  <2> HIDE DEF x, c, u, a
  <2>1. u * c <= x * c BY <1>3, <1>4
  <2>2. (x + 1) * c <= (2 * u) * c BY <1>3, <1>4
  <2>3. (2 * u) * c = 2 * (u * c) BY <1>3
  <2> QED BY <2>1, <2>2, <2>3
<1>7. (x + 1) * c = x * c + c /\ x * c \in Nat
  <2> HIDE DEF x, c
  <2> QED BY <1>3, <1>4
<1>8. a \in Nat /\ a + c <= Memory
  <2> HIDE DEF x, c, u, a
  <2> QED BY <1>3, <1>5, <1>6, <1>7, PositionType
<1>9. a .. (a + c - 1) \subseteq 0 .. (Memory - 1)
  <2> HIDE DEF x, c, u, a
  <2> QED BY <1>3, <1>8, PositionType
<1>10. IsFiniteSet(a .. (a + c - 1)) /\ Cardinality(a .. (a + c - 1)) = c
  <2> HIDE DEF x, c, u, a
  <2>1. a \in Int /\ a + c - 1 \in Int /\ ~(a > a + c - 1) /\ (a + c - 1) - a + 1 = c
    BY <1>3, <1>8
  <2> QED BY <2>1, FS_Interval
<1> QED BY <1>3, <1>8, <1>9, <1>10 DEF Extent

(* The node whose block holds an address is its quotient by the capacity. *)
LEMMA ExtentHolds ==
    ASSUME NEW pos \in Position, NEW s \in Extent(pos)
    PROVE  s + Memory \in Nat /\ (s + Memory) \div Capasity(pos) = pos + 1
<1> DEFINE x == pos + 1
           c == Capasity(pos)
           a == Address(pos)
<1>1. PICK d \in 0 .. (Level - 1) : Placed(pos, d) BY Place
<1>2. x \in Nat /\ c \in Nat \ {0} /\ a \in Nat BY ExtentType, PositionType
<1>3. a = x * c - Memory BY <1>1 DEF Placed
<1>4. s \in a .. (a + c - 1) BY DEF Extent
<1> HIDE DEF x, c, a
<1>5. x * c \in Nat /\ (x + 1) * c = x * c + c BY <1>2
<1>6. s + Memory \in Nat /\ x * c <= s + Memory /\ s + Memory < (x + 1) * c
  BY <1>2, <1>3, <1>4, <1>5, PositionType
<1>7. (s + Memory) \div c = x BY <1>2, <1>6, DivUnique
<1> QED BY <1>6, <1>7 DEF x, c

LEMMA OverlapBelow ==
    ASSUME NEW p \in Position, NEW q \in Position, NEW i \in Nat, NEW j \in Nat,
           Placed(p, i), Placed(q, j), j <= i, i <= Level - 1, Extent(p) \cap Extent(q) # {}
    PROVE  q = p \/ q \in Above(p)
<1> DEFINE k == i - j
           cp == Capasity(p)
           cq == Capasity(q)
<1>1. PICK s \in Extent(p) : s \in Extent(q) OBVIOUS
<1>2. s + Memory \in Nat /\ (s + Memory) \div cp = p + 1 /\ (s + Memory) \div cq = q + 1
  BY <1>1, ExtentHolds
<1>3. k \in Nat /\ Level - 1 - i \in Nat BY BuddyAssumption
<1>4. cp \in Nat \ {0} BY ExtentType
<1>5. cq = cp * 2 ^ k
  <2>1. cp = 2 ^ (Level - 1 - i) /\ cq = 2 ^ (Level - 1 - j) BY DEF Placed
  <2>2. Level - 1 - j = (Level - 1 - i) + k BY BuddyAssumption
  <2>3. 2 ^ ((Level - 1 - i) + k) = 2 ^ (Level - 1 - i) * 2 ^ k BY <1>3, PowerSum
  <2> QED BY <2>1, <2>2, <2>3, Zenon
<1>6. ((s + Memory) \div cp) \div 2 ^ k = (s + Memory) \div cq
  <2>1. 2 ^ k \in Nat \ {0} BY <1>3, PowerType
  <2> HIDE DEF cp, cq, k
  <2> QED BY <1>2, <1>4, <1>5, <2>1, DivDiv
<1>7. q + 1 = (p + 1) \div 2 ^ k BY <1>2, <1>6, Zenon
<1>8. CASE k = 0
  <2>1. 2 ^ k = 1 BY <1>8, PowerZero
  <2> QED BY <1>7, <2>1, PositionType
<1>9. CASE k # 0 BY <1>3, <1>7, <1>9, AboveIs
<1> QED BY <1>8, <1>9

LEMMA Overlap ==
    ASSUME NEW p \in Position, NEW q \in Position, Extent(p) \cap Extent(q) # {}
    PROVE  q = p \/ q \in Above(p) \/ p \in Above(q)
<1>1. PICK i \in 0 .. (Level - 1) : Placed(p, i) BY Place
<1>2. PICK j \in 0 .. (Level - 1) : Placed(q, j) BY Place
<1>3. Extent(q) \cap Extent(p) # {} OBVIOUS
<1>4. i \in Nat /\ j \in Nat /\ i <= Level - 1 /\ j <= Level - 1 BY BuddyAssumption
<1>5. CASE j <= i BY <1>1, <1>2, <1>4, <1>5, OverlapBelow
<1>6. CASE i <= j BY <1>1, <1>2, <1>3, <1>4, <1>6, OverlapBelow
<1> QED BY <1>4, <1>5, <1>6
-----------------------------------------------------------------------------
(* The search for a block.  AckBody is the body of _buddy_ack_memory with  *)
(* f for the calls on the children; the search calls it on a child only    *)
(* when there is one, so the recursion ends.                               *)
AckBody(f, kbytes, pos) ==
    LET left == f[2 * pos + 1]
        below == IF left # NULL THEN left ELSE f[2 * pos + 2]
    IN  IF Capasity(pos) < kbytes \/ tree[pos] = "USED" THEN NULL
        ELSE IF Capasity(pos) \div 2 >= kbytes /\ below # NULL THEN below
        ELSE IF tree[pos] = "FREE" THEN pos ELSE NULL

Searches(f, kbytes) == f = [pos \in Position |-> AckBody(f, kbytes, pos)]

LEMMA HasChildren ==
    ASSUME NEW pos \in Position, Capasity(pos) >= 2
    PROVE  2 * pos + 1 \in Position /\ 2 * pos + 2 \in Position
<1> DEFINE c == Capasity(pos)
           x == pos + 1
<1>1. PICK d \in 0 .. (Level - 1) : Placed(pos, d) BY Place
<1> DEFINE u == 2 ^ d
<1>2. d \in Nat BY BuddyAssumption
<1>3. u \in Nat \ {0} /\ c \in Nat /\ c >= 2 /\ x < 2 * u /\ u * c = Memory /\ pos \in Nat
  BY <1>1, <1>2, PowerType, ExtentType, PositionType DEF Placed, OnDepth
<1>4. 2 * u <= Memory
  <2> HIDE DEF u, c
  <2>1. u * 2 <= u * c BY <1>3
  <2> QED BY <1>3, <2>1
<1>5. 2 * x + 1 < 2 * Memory
  <2> HIDE DEF u
  <2> QED BY <1>3, <1>4, PositionType
<1>6. 2 * pos + 1 \in Int /\ 0 <= 2 * pos + 1 /\ (2 * pos + 1) + 1 < 2 * Memory
  BY <1>3, <1>5, PositionType
<1>7. 2 * pos + 2 \in Int /\ 0 <= 2 * pos + 2 /\ (2 * pos + 2) + 1 < 2 * Memory
  BY <1>3, <1>5, PositionType
<1>8. 2 * pos + 1 \in Position BY <1>6, InPosition
<1>9. 2 * pos + 2 \in Position BY <1>7, InPosition
<1> QED BY <1>8, <1>9

LEMMA AckBodyLocal ==
    ASSUME NEW pos \in Position, NEW kbytes \in Nat \ {0}, NEW f, NEW g,
           \A p \in Position : p > pos => f[p] = g[p]
    PROVE  AckBody(f, kbytes, pos) = AckBody(g, kbytes, pos)
<1>1. CASE Capasity(pos) \div 2 >= kbytes
  <2>1. Capasity(pos) >= 2 BY <1>1, ExtentType
  <2>2. 2 * pos + 1 \in Position /\ 2 * pos + 2 \in Position BY <2>1, HasChildren
  <2>3. 2 * pos + 1 > pos /\ 2 * pos + 2 > pos BY PositionType
  <2>4. f[2 * pos + 1] = g[2 * pos + 1] /\ f[2 * pos + 2] = g[2 * pos + 2] BY <2>2, <2>3
  <2> QED BY <2>4, Zenon DEF AckBody
<1>2. CASE ~(Capasity(pos) \div 2 >= kbytes) BY <1>2, Zenon DEF AckBody
<1> QED BY <1>1, <1>2

LEMMA SearchExists == ASSUME NEW kbytes \in Nat \ {0} PROVE \E f : Searches(f, kbytes)
<1> DEFINE Upto(f, n) == \A p \in Position : p >= leaves - n => f[p] = AckBody(f, kbytes, p)
           S == {n \in Nat : \E f : Upto(f, n)}
<1>0. leaves \in Nat /\ \A p \in Position : p \in Nat /\ p < leaves
  BY PositionType DEF Position
<1>1. 0 \in S
  <2>1. \A f : Upto(f, 0) BY <1>0
  <2> QED BY <2>1
<1>2. ASSUME NEW n \in S PROVE n + 1 \in S
  <2>1. PICK f : Upto(f, n) OBVIOUS
  <2> DEFINE m == leaves - (n + 1)
             g == [p \in Position |-> IF p = m THEN AckBody(f, kbytes, p) ELSE f[p]]
  <2>2. ASSUME NEW p \in Position, p >= m PROVE g[p] = AckBody(g, kbytes, p)
    <3>1. \A q \in Position : q > p => f[q] = g[q] BY <2>2, <1>0
    <3> HIDE DEF g
    <3>2. AckBody(f, kbytes, p) = AckBody(g, kbytes, p) BY <3>1, AckBodyLocal
    <3>3. CASE p = m
      <4>1. g[p] = AckBody(f, kbytes, p) BY <3>3, Zenon DEF g
      <4> QED BY <4>1, <3>2
    <3>4. CASE p # m
      <4>1. p >= leaves - n BY <3>4, <2>2, <1>0
      <4>2. g[p] = f[p] BY <3>4, Zenon DEF g
      <4>3. f[p] = AckBody(f, kbytes, p) BY <2>1, <4>1
      <4> QED BY <4>2, <4>3, <3>2
    <3> QED BY <3>3, <3>4
  <2>3. Upto(g, n + 1) BY <2>2
  <2> HIDE DEF g, Upto
  <2> QED BY <2>3
<1>3. S = Nat
  <2>1. S \in SUBSET Nat OBVIOUS
  <2> HIDE DEF S
  <2> QED BY <1>1, <1>2, <2>1, Induction
<1>4. PICK f : Upto(f, leaves)
  <2>1. leaves \in S BY <1>0, <1>3
  <2> QED BY <2>1
<1>5. \A p \in Position : f[p] = AckBody(f, kbytes, p) BY <1>0, <1>4
<1> DEFINE h == [p \in Position |-> f[p]]
<1>6. ASSUME NEW p \in Position PROVE h[p] = AckBody(h, kbytes, p)
  <2>1. \A q \in Position : q > p => f[q] = h[q] OBVIOUS
  <2> HIDE DEF h
  <2>2. AckBody(f, kbytes, p) = AckBody(h, kbytes, p) BY <2>1, AckBodyLocal
  <2>3. h[p] = f[p] BY DEF h
  <2> QED BY <1>5, <2>2, <2>3
<1>7. h = [p \in Position |-> h[p]] OBVIOUS
<1> HIDE DEF h
<1>8. h = [p \in Position |-> AckBody(h, kbytes, p)] BY <1>6, <1>7
<1> QED BY <1>8 DEF Searches

LEMMA AckIs ==
    ASSUME NEW kbytes \in Nat \ {0}
    PROVE  \E f : Searches(f, kbytes) /\ Ack(kbytes) = f[0]
<1> DEFINE f == CHOOSE g : Searches(g, kbytes)
<1>1. Searches(f, kbytes) BY SearchExists
<1>2. Ack(kbytes) = f[0] BY DEF Ack, Searches, AckBody
<1> QED BY <1>1, <1>2
-----------------------------------------------------------------------------
(* What is known of a tree: nothing is below a free node or a block in     *)
(* use, and only a node with children is split.                            *)
FreeDown(t) == \A p \in Position : t[p] # "FREE" => \A q \in Above(p) : t[q] = "SPLIT"
Branching(t) == \A p \in Position : t[p] = "SPLIT" => 2 * p + 2 \in Position
Sound(t) == t \in Tree /\ FreeDown(t) /\ Branching(t)
InUse(t) == {p \in Position : t[p] = "USED"}

(* The search takes a free node that is not inside a block in use. *)
Takeable(pos) ==
    /\ pos \in Position
    /\ tree[pos] = "FREE"
    /\ \A q \in Above(pos) : tree[q] # "USED"

LEMMA AckTakeable ==
    ASSUME NEW kbytes \in Nat \ {0}, Ack(kbytes) # NULL
    PROVE  Takeable(Ack(kbytes))
<1>1. PICK f : Searches(f, kbytes) /\ Ack(kbytes) = f[0] BY AckIs
<1> DEFINE Right(p) == f[p] # NULL /\ (\A q \in Above(p) : tree[q] # "USED") => Takeable(f[p])
           S == {n \in Nat : \A p \in Position : p >= leaves - n => Right(p)}
<1>0. leaves \in Nat /\ \A p \in Position : p \in Nat /\ p < leaves
  BY PositionType DEF Position
<1>2. 0 \in S BY <1>0
<1>3. ASSUME NEW n \in S PROVE n + 1 \in S
  <2> SUFFICES ASSUME NEW p \in Position, p >= leaves - (n + 1),
                      f[p] # NULL, \A q \in Above(p) : tree[q] # "USED"
               PROVE  Takeable(f[p])
    OBVIOUS
  <2>1. f[p] = AckBody(f, kbytes, p) BY <1>1 DEF Searches
  <2>2. tree[p] # "USED" BY <2>1, Zenon DEF AckBody
  <2>3. CASE Capasity(p) \div 2 >= kbytes /\ f[p] \in {f[2 * p + 1], f[2 * p + 2]}
    <3>1. Capasity(p) >= 2 BY <2>3, ExtentType
    <3>2. PICK c \in {2 * p + 1, 2 * p + 2} : f[p] = f[c] BY <2>3
    <3>3. c \in Position BY <3>1, HasChildren
    <3>4. c >= leaves - n BY <1>0
    <3>5. \A q \in Above(c) : tree[q] # "USED" BY <2>2, <3>3, AboveOfChild
    <3>6. Right(c) BY <3>3, <3>4
    <3>7. f[c] # NULL BY <3>2
    <3> HIDE DEF Takeable
    <3>8. Takeable(f[c]) BY <3>5, <3>6, <3>7
    <3> QED BY <3>2, <3>8
  <2>4. CASE ~(Capasity(p) \div 2 >= kbytes /\ f[p] \in {f[2 * p + 1], f[2 * p + 2]})
    <3>1. f[p] = p /\ tree[p] = "FREE" BY <2>1, <2>4, Zenon DEF AckBody
    <3> QED BY <3>1 DEF Takeable
  <2> QED BY <2>3, <2>4
<1>4. S = Nat
  <2>1. S \in SUBSET Nat OBVIOUS
  <2> HIDE DEF S
  <2> QED BY <1>2, <1>3, <2>1, Induction
<1>5. leaves \in S BY <1>0, <1>4
<1>6. 0 \in Position /\ 0 >= leaves - leaves BY <1>0, NothingAboveRoot
<1>7. Right(0) BY <1>5, <1>6
<1>8. \A q \in Above(0) : tree[q] # "USED" BY NothingAboveRoot
<1> HIDE DEF Takeable
<1> QED BY <1>1, <1>7, <1>8

(* The block of the arena is the whole memory or the left half of it. *)
LEMMA AckArena ==
    ASSUME NEW kbytes \in Nat \ {0}, 2 * kbytes >= Memory, tree = Fresh, Ack(kbytes) # NULL
    PROVE  Ack(kbytes) = 0 \/ (Ack(kbytes) = 1 /\ 1 \in Position)
<1>1. PICK f : Searches(f, kbytes) /\ Ack(kbytes) = f[0] BY AckIs
<1>2. 0 \in Position BY NothingAboveRoot
<1>3. f[0] = AckBody(f, kbytes, 0) BY <1>1, <1>2 DEF Searches
<1>4. \A p \in Position : tree[p] = "FREE" BY DEF Fresh
<1>5. CASE ~(Capasity(0) \div 2 >= kbytes)
  <2>1. f[0] = 0 BY <1>1, <1>3, <1>5, Zenon DEF AckBody
  <2> QED BY <1>1, <2>1
<1>6. CASE Capasity(0) \div 2 >= kbytes
  <2>1. Capasity(0) \in Nat /\ Capasity(0) >= 2 BY <1>2, <1>6, ExtentType
  <2>2. 1 \in Position
    <3>1. 2 * 0 + 1 \in Position BY <1>2, <2>1, HasChildren
    <3> QED BY <3>1
  <2>3. Capasity(0) = Memory /\ Capasity(1) * 2 = Memory
    <3>1. OnDepth(0, 0) BY PowerZero DEF OnDepth
    <3>2. Placed(0, 0) BY <1>2, <3>1, PlacedAt
    <3>3. OnDepth(1, 1) BY PowerOne DEF OnDepth
    <3>4. Placed(1, 1) BY <2>2, <3>3, PlacedAt
    <3>5. 1 * Capasity(0) = Memory BY <3>2, PowerZero DEF Placed
    <3>6. 2 * Capasity(1) = Memory BY <3>4, PowerOne DEF Placed
    <3>7. Capasity(0) \in Nat /\ Capasity(1) \in Nat BY <1>2, <2>2, ExtentType
    <3> QED BY <3>5, <3>6, <3>7
  <2>4. Capasity(1) \in Nat \ {0} BY <2>2, ExtentType
  <2>5. ~(Capasity(1) \div 2 >= kbytes) /\ ~(Capasity(1) < kbytes)
    BY <1>6, <2>3, <2>4
  <2>6. f[1] = AckBody(f, kbytes, 1) BY <1>1, <2>2 DEF Searches
  <2>7. tree[1] = "FREE" BY <1>4, <2>2
  <2>8. f[1] = 1 BY <2>5, <2>6, <2>7, Zenon DEF AckBody
  <2>9. f[1] # NULL BY <2>8, BuddyAssumption
  <2>10. ~(Capasity(0) < kbytes) BY <1>6, <2>1
  <2>11. tree[0] # "USED" BY <1>2, <1>4
  <2>12. 2 * 0 + 1 = 1 OBVIOUS
  <2>13. f[0] = f[1] BY <1>3, <1>6, <2>9, <2>10, <2>11, <2>12, Zenon DEF AckBody
  <2> QED BY <1>1, <2>2, <2>8, <2>13
<1> QED BY <1>5, <1>6

(* Taking a block keeps the tree sound and adds that block only. *)
LEMMA TakeSound ==
    ASSUME NEW pos, Sound(tree), Takeable(pos)
    PROVE  Sound(Take(pos)) /\ InUse(Take(pos)) = InUse(tree) \cup {pos} /\ pos \notin InUse(tree)
<1> DEFINE t == Take(pos)
<1>1. /\ pos \in Position /\ tree[pos] = "FREE" /\ (\A q \in Above(pos) : tree[q] # "USED")
      /\ tree \in [Position -> State]
  BY DEF Takeable, Sound, Tree
<1>2. \A p \in Position :
        t[p] = IF p = pos THEN "USED" ELSE IF p \in Above(pos) THEN "SPLIT" ELSE tree[p]
  BY DEF Take
<1>3. t \in Tree
  <2>1. \A p \in Position : (IF p = pos THEN "USED" ELSE IF p \in Above(pos) THEN "SPLIT" ELSE tree[p]) \in State
    BY <1>1 DEF State
  <2> QED BY <2>1 DEF Take, Tree
<1> HIDE DEF t
<1>4. pos \notin Above(pos) BY <1>1, AboveLess, PositionType
<1>5. FreeDown(t)
  <2> SUFFICES ASSUME NEW p \in Position, t[p] # "FREE", NEW q \in Above(p)
               PROVE  t[q] = "SPLIT"
    BY DEF FreeDown
  <2>1. q \in Position BY AboveInside
  <2>2. CASE p = pos BY <1>2, <1>4, <2>1, <2>2
  <2>3. CASE p # pos /\ p \in Above(pos)
    <3>1. q \in Above(pos) BY <1>1, <2>3, AboveTransitive
    <3> QED BY <1>2, <1>4, <2>1, <3>1
  <2>4. CASE p # pos /\ p \notin Above(pos)
    <3>1. tree[p] # "FREE" BY <1>2, <2>4
    <3>2. tree[q] = "SPLIT" BY <3>1 DEF Sound, FreeDown
    <3> QED BY <1>1, <1>2, <2>1, <3>2
  <2> QED BY <2>2, <2>3, <2>4
<1>6. Branching(t)
  <2> SUFFICES ASSUME NEW p \in Position, t[p] = "SPLIT" PROVE 2 * p + 2 \in Position
    BY DEF Branching
  <2>1. CASE p \in Above(pos) BY <1>1, <2>1, AboveChild
  <2>2. CASE p \notin Above(pos)
    <3>1. tree[p] = "SPLIT" BY <1>2, <2>2
    <3> QED BY <3>1 DEF Sound, Branching
  <2> QED BY <2>1, <2>2
<1>7. InUse(t) = InUse(tree) \cup {pos}
  <2>1. ASSUME NEW p \in Position PROVE t[p] = "USED" <=> tree[p] = "USED" \/ p = pos
    BY <1>1, <1>2
  <2> QED BY <1>1, <2>1 DEF InUse
<1>8. pos \notin InUse(tree) BY <1>1 DEF InUse
<1> QED BY <1>3, <1>5, <1>6, <1>7, <1>8 DEF Sound, t
-----------------------------------------------------------------------------
(* Merging.  MergeBody is one turn of the loop of _buddy_merge, with f for *)
(* the turns after it; parent / 2 is smaller, so the loop ends.            *)
MergeBody(f, t, parent) ==
    LET merged == [t EXCEPT ![parent] = "FREE"]
    IN  IF ~(t[parent] = "SPLIT" /\ t[2 * parent + 1] = "FREE" /\ t[2 * parent + 2] = "FREE")
        THEN t
        ELSE IF parent = 0 THEN merged ELSE f[parent \div 2][merged]

Merges(f) == f = [parent \in Position |-> [t \in Tree |-> MergeBody(f, t, parent)]]

LEMMA Freed ==
    ASSUME NEW t \in Tree, NEW p \in Position
    PROVE  [t EXCEPT ![p] = "FREE"] \in Tree
BY DEF Tree, State

LEMMA MergeBodyLocal ==
    ASSUME NEW t \in Tree, NEW parent \in Position, NEW f, NEW g,
           \A p \in Position : p < parent => \A s \in Tree : f[p][s] = g[p][s]
    PROVE  MergeBody(f, t, parent) = MergeBody(g, t, parent)
<1> DEFINE merged == [t EXCEPT ![parent] = "FREE"]
<1>1. CASE parent = 0 BY <1>1, Zenon DEF MergeBody
<1>2. CASE parent # 0
  <2>1. merged \in Tree BY Freed
  <2>2. parent \in Nat /\ parent < leaves /\ leaves \in Nat BY PositionType DEF Position
  <2>3. parent \div 2 \in 0 .. (leaves - 1) /\ parent \div 2 < parent BY <1>2, <2>2
  <2>4. f[parent \div 2][merged] = g[parent \div 2][merged]
    <3> HIDE DEF merged
    <3> QED BY <2>1, <2>3 DEF Position
  <2> QED BY <1>2, <2>4, Zenon DEF MergeBody
<1> QED BY <1>1, <1>2

LEMMA MergeExists == \E f : Merges(f)
<1> DEFINE Upto(f, n) == \A p \in Position : p < n => \A t \in Tree : f[p][t] = MergeBody(f, t, p)
           S == {n \in Nat : \E f : Upto(f, n)}
<1>0. leaves \in Nat /\ \A p \in Position : p \in Nat /\ p < leaves
  BY PositionType DEF Position
<1>1. 0 \in S
  <2>1. \A f : Upto(f, 0) BY <1>0
  <2> QED BY <2>1
<1>2. ASSUME NEW n \in S PROVE n + 1 \in S
  <2>1. PICK f : Upto(f, n) OBVIOUS
  <2> DEFINE g == [p \in Position |-> [t \in Tree |-> IF p = n THEN MergeBody(f, t, p) ELSE f[p][t]]]
  <2>2. ASSUME NEW p \in Position, p < n + 1, NEW t \in Tree PROVE g[p][t] = MergeBody(g, t, p)
    <3>1. \A q \in Position : q < p => \A s \in Tree : f[q][s] = g[q][s] BY <2>2, <1>0
    <3>2. MergeBody(f, t, p) = MergeBody(g, t, p)
      <4> HIDE DEF g
      <4> QED BY <3>1, MergeBodyLocal
    <3>3. g[p][t] = IF p = n THEN MergeBody(f, t, p) ELSE f[p][t] OBVIOUS
    <3> HIDE DEF g
    <3>4. p # n => f[p][t] = MergeBody(f, t, p)
      <4>1. p # n => p < n BY <2>2, <1>0
      <4> QED BY <4>1, <2>1
    <3> QED BY <3>2, <3>3, <3>4
  <2>3. Upto(g, n + 1) BY <2>2
  <2> HIDE DEF g, Upto
  <2> QED BY <2>3
<1>3. S = Nat
  <2>1. S \in SUBSET Nat OBVIOUS
  <2> HIDE DEF S
  <2> QED BY <1>1, <1>2, <2>1, Induction
<1>4. PICK f : Upto(f, leaves)
  <2>1. leaves \in S BY <1>0, <1>3
  <2> QED BY <2>1
<1>5. \A p \in Position : \A t \in Tree : f[p][t] = MergeBody(f, t, p) BY <1>0, <1>4
<1> DEFINE h == [p \in Position |-> [t \in Tree |-> f[p][t]]]
<1>6. ASSUME NEW p \in Position, NEW t \in Tree PROVE h[p][t] = MergeBody(h, t, p)
  <2>1. \A q \in Position : q < p => \A s \in Tree : f[q][s] = h[q][s] OBVIOUS
  <2>2. h[p][t] = f[p][t] OBVIOUS
  <2> HIDE DEF h
  <2>3. MergeBody(f, t, p) = MergeBody(h, t, p) BY <2>1, MergeBodyLocal
  <2> QED BY <1>5, <2>2, <2>3
<1>7. h = [p \in Position |-> [t \in Tree |-> h[p][t]]] OBVIOUS
<1> HIDE DEF h
<1>8. h = [p \in Position |-> [t \in Tree |-> MergeBody(h, t, p)]] BY <1>6, <1>7
<1> QED BY <1>8 DEF Merges

LEMMA MergeIs == ASSUME NEW t \in Tree, NEW p \in Position PROVE Merge[p][t] = MergeBody(Merge, t, p)
<1> DEFINE f == CHOOSE g : Merges(g)
<1>1. Merges(f) BY MergeExists
<1>2. Merge = f BY DEF Merge, Merges, MergeBody
<1> HIDE DEF f
<1>3. Merges(Merge) BY <1>1, <1>2
<1> QED BY <1>3 DEF Merges

(* Whatever nodes the loop looks at, it frees only split ones with free    *)
(* children, so it keeps the tree sound and touches no block in use.       *)
LEMMA MergeSound ==
    ASSUME NEW t, Sound(t), NEW p \in Position
    PROVE  Sound(Merge[p][t]) /\ InUse(Merge[p][t]) = InUse(t)
<1> DEFINE Right(s, q) == Sound(Merge[q][s]) /\ InUse(Merge[q][s]) = InUse(s)
           S == {n \in Nat : \A q \in Position : q < n => \A s \in Tree : Sound(s) => Right(s, q)}
<1>0. leaves \in Nat /\ \A q \in Position : q \in Nat /\ q < leaves
  BY PositionType DEF Position
<1>1. 0 \in S BY <1>0
<1>2. ASSUME NEW n \in S PROVE n + 1 \in S
  <2> SUFFICES ASSUME NEW q \in Position, q < n + 1, NEW s \in Tree, Sound(s) PROVE Right(s, q)
    OBVIOUS
  <2> DEFINE merged == [s EXCEPT ![q] = "FREE"]
             free == s[q] = "SPLIT" /\ s[2 * q + 1] = "FREE" /\ s[2 * q + 2] = "FREE"
  <2>1. Merge[q][s] = MergeBody(Merge, s, q) BY MergeIs
  <2>2. CASE ~free
    <3>1. Merge[q][s] = s BY <2>1, <2>2, Zenon DEF MergeBody
    <3> QED BY <3>1
  <2>3. CASE free
    <3>1. merged \in Tree /\ \A r \in Position : merged[r] = IF r = q THEN "FREE" ELSE s[r]
      BY Freed DEF Tree
    <3> HIDE DEF merged
    <3>2. FreeDown(merged)
      <4> SUFFICES ASSUME NEW r \in Position, merged[r] # "FREE", NEW a \in Above(r)
                   PROVE  merged[a] = "SPLIT"
        BY DEF FreeDown
      <4>1. a \in Position BY AboveInside
      <4>2. r # q /\ s[r] # "FREE" BY <3>1
      <4>3. \A b \in Above(r) : s[b] = "SPLIT" BY <4>2 DEF Sound, FreeDown
      <4>4. a # q
        <5> SUFFICES ASSUME a = q PROVE FALSE OBVIOUS
        <5>1. PICK c \in {2 * q + 1, 2 * q + 2} : c = r \/ c \in Above(r) BY AboveChild
        <5>2. s[c] = "FREE" BY <2>3, <5>1
        <5> QED BY <4>2, <4>3, <5>1, <5>2
      <4> QED BY <3>1, <4>1, <4>3, <4>4
    <3>3. Branching(merged) BY <3>1 DEF Branching, Sound
    <3>4. InUse(merged) = InUse(s)
      <4>1. \A r \in Position : merged[r] = "USED" <=> s[r] = "USED" BY <2>3, <3>1
      <4> QED BY <4>1 DEF InUse
    <3>5. Sound(merged) BY <3>1, <3>2, <3>3 DEF Sound
    <3>6. CASE q = 0
      <4>1. Merge[q][s] = merged BY <2>1, <2>3, <3>6, Zenon DEF MergeBody, merged
      <4> QED BY <3>4, <3>5, <4>1
    <3>7. CASE q # 0
      <4>1. Merge[q][s] = Merge[q \div 2][merged]
        BY <2>1, <2>3, <3>7, Zenon DEF MergeBody, merged
      <4>2. q \div 2 \in 0 .. (leaves - 1) /\ q \div 2 < n BY <1>0, <3>7
      <4>3. q \div 2 \in Position BY <4>2 DEF Position
      <4>4. Right(merged, q \div 2) BY <3>1, <3>5, <4>2, <4>3
      <4> QED BY <3>4, <4>1, <4>4
    <3> QED BY <3>6, <3>7
  <2> QED BY <2>2, <2>3
<1>3. S = Nat
  <2>1. S \in SUBSET Nat OBVIOUS
  <2> HIDE DEF S
  <2> QED BY <1>1, <1>2, <2>1, Induction
<1>4. leaves \in S BY <1>0, <1>3
<1>5. t \in Tree BY DEF Sound
<1> QED BY <1>0, <1>4, <1>5
-----------------------------------------------------------------------------
(* Going up from the first leaf of a block in use stops at that block: the *)
(* nodes before it are below it and free.  pos / 2 is the parent of each   *)
(* of them, because each is the last node of a left part.                  *)
LEMMA ClimbStops ==
    ASSUME NEW pos \in Nat, NEW k \in 0 .. Level,
           pos \div 2 ^ k = 0 \/ tree[pos \div 2 ^ k] # "FREE",
           \A j \in 0 .. (k - 1) : pos \div 2 ^ j # 0 /\ tree[pos \div 2 ^ j] = "FREE"
    PROVE  Climb(pos) = pos \div 2 ^ k
<1> DEFINE Stop(j) == pos \div 2 ^ j = 0 \/ tree[pos \div 2 ^ j] # "FREE"
           First(j) == Stop(j) /\ \A i \in 0 .. (j - 1) : ~Stop(i)
<1>1. First(k) OBVIOUS
<1>2. ASSUME NEW j \in 0 .. Level, First(j) PROVE j = k
  <2>1. ~(j < k)
    <3> SUFFICES ASSUME j < k PROVE FALSE OBVIOUS
    <3>1. j \in 0 .. (k - 1) BY BuddyAssumption
    <3> QED BY <1>2, <3>1
  <2>2. ~(k < j)
    <3> SUFFICES ASSUME k < j PROVE FALSE OBVIOUS
    <3>1. k \in 0 .. (j - 1) BY BuddyAssumption
    <3> QED BY <1>1, <1>2, <3>1
  <2> QED BY <2>1, <2>2, BuddyAssumption
<1>3. Climb(pos) = pos \div 2 ^ (CHOOSE j \in 0 .. Level : First(j)) BY DEF Climb
<1> HIDE DEF First
<1>4. (CHOOSE j \in 0 .. Level : First(j)) = k BY <1>1, <1>2
<1> QED BY <1>3, <1>4

LEMMA FindsBlock ==
    ASSUME Sound(tree), NEW b \in InUse(tree)
    PROVE  Found(Address(b)) = b
<1> DEFINE x == b + 1
           c == Capasity(b)
           leaf == 2 ^ (Level - 1) + Address(b) - 1
<1>1. b \in Position /\ tree[b] = "USED" BY DEF InUse
<1>2. PICK d \in 0 .. (Level - 1) : Placed(b, d) BY <1>1, Place
<1> DEFINE k == Level - 1 - d
<1>3. k \in Nat /\ k \in 0 .. Level BY BuddyAssumption
<1>4. x \in Nat \ {0} /\ c \in Nat \ {0} /\ c = 2 ^ k /\ Address(b) \in Nat
  BY <1>1, <1>2, ExtentType, PositionType DEF Placed
<1>5. leaf = x * c - 1 BY <1>2, <1>4, PositionType DEF Placed, Memory
<1>6. leaf + 1 < 2 * Memory /\ leaf \in Nat
  <2>1. Address(b) + c - 1 \in Extent(b) BY <1>4 DEF Extent
  <2>2. Address(b) + c - 1 <= Memory - 1 BY <1>1, <2>1, ExtentType
  <2> QED BY <1>4, <2>2, PositionType DEF Memory
(* After j turns. *)
<1>7. ASSUME NEW j \in 0 .. k
      PROVE  /\ x * 2 ^ (k - j) \in Nat \ {0}
             /\ leaf \div 2 ^ j = x * 2 ^ (k - j) - 1
  <2> DEFINE u == 2 ^ j
             v == 2 ^ (k - j)
  <2>1. j \in Nat /\ k - j \in Nat /\ j + (k - j) = k BY <1>3
  <2>2. u \in Nat \ {0} /\ v \in Nat \ {0} BY <2>1, PowerType
  <2>3. c = u * v
    <3>1. 2 ^ (j + (k - j)) = 2 ^ j * 2 ^ (k - j) BY <2>1, PowerSum
    <3> QED BY <1>4, <2>1, <3>1
  <2>4. x * v \in Nat \ {0}
    <3> HIDE DEF x, v
    <3> QED BY <1>4, <2>2
  <2> DEFINE w == x * v
  <2>5. leaf = w * u - 1
    <3> HIDE DEF leaf, x, c, u, v
    <3>1. x * (u * v) = (x * v) * u BY <1>4, <2>2
    <3> QED BY <1>5, <2>3, <3>1
  <2>6. leaf \div u = w - 1
    <3> HIDE DEF leaf, u, w
    <3>1. w - 1 \in Nat /\ (w - 1) + 1 = w /\ (w - 1) * u = w * u - u /\ w * u \in Nat
      BY <2>2, <2>4 DEF w
    <3>2. (w - 1) * u <= leaf /\ leaf < ((w - 1) + 1) * u BY <2>2, <2>5, <3>1
    <3> QED BY <1>6, <2>2, <3>1, <3>2, DivUnique
  <2> QED BY <2>4, <2>6
<1>8. leaf \div 2 ^ k = b
  <2>1. k \in 0 .. k /\ k - k = 0 BY <1>3
  <2>2. leaf \div 2 ^ k = x * 2 ^ (k - k) - 1 BY <2>1, <1>7
  <2>3. 2 ^ (k - k) = 1 BY <2>1, PowerZero, Zenon
  <2> HIDE DEF leaf, k
  <2> QED BY <1>1, <1>4, <2>2, <2>3, PositionType
<1>9. ASSUME NEW j \in 0 .. (k - 1)
      PROVE  leaf \div 2 ^ j # 0 /\ tree[leaf \div 2 ^ j] = "FREE"
  <2> DEFINE q == leaf \div 2 ^ j
             i == k - j
             u == 2 ^ i
  <2>1. j \in Nat /\ j \in 0 .. k /\ i \in Nat \ {0} BY <1>3
  <2>2. q + 1 = x * u /\ q \in Nat
    <3>1. q = x * 2 ^ (k - j) - 1 /\ x * 2 ^ (k - j) \in Nat \ {0} BY <1>7, <2>1
    <3> QED BY <3>1
  <2>3. q \in Position
    <3>1. q <= leaf BY <1>6, <2>1, ShiftType
    <3>2. q \in Int /\ 0 <= q /\ q + 1 < 2 * Memory BY <1>6, <2>2, <3>1, PositionType
    <3> QED BY <3>2, InPosition
  <2>4. (q + 1) \div u = x
    <3>1. u \in Nat \ {0} BY <2>1, PowerType
    <3> HIDE DEF q, u, x
    <3>2. x * u <= q + 1 /\ q + 1 < (x + 1) * u BY <1>4, <2>2, <3>1
    <3> QED BY <1>4, <2>2, <3>1, <3>2, DivUnique
  <2>5. b \in Above(q) BY <1>1, <2>1, <2>3, <2>4, AboveIs
  <2>6. tree[q] = "FREE"
    <3> SUFFICES ASSUME tree[q] # "FREE" PROVE FALSE OBVIOUS
    <3>1. tree[b] = "SPLIT" BY <2>3, <2>5 DEF Sound, FreeDown
    <3> QED BY <1>1, <3>1
  <2>7. q # 0
    <3>1. b < q BY <2>3, <2>5, AboveLess
    <3> QED BY <1>1, <3>1, PositionType
  <2> QED BY <2>6, <2>7
<1>10. leaf \div 2 ^ k = 0 \/ tree[leaf \div 2 ^ k] # "FREE" BY <1>1, <1>8
<1> HIDE DEF leaf, k
<1>11. Climb(leaf) = leaf \div 2 ^ k BY <1>3, <1>6, <1>9, <1>10, ClimbStops
<1> QED BY <1>8, <1>11 DEF Found, leaf

(* From anywhere in the arena's block, too, as that is the root or its     *)
(* left child and everything else is free: dividing a position by two      *)
(* again and again comes to one, then to zero.                             *)
LEMMA FindsArena ==
    ASSUME NEW b \in {0, 1}, b \in Position, tree[b] = "USED",
           \A p \in Position \ {0, b} : tree[p] = "FREE",
           NEW up \in 0 .. PageKb
    PROVE  Found(Address(b) + up) = b
<1> DEFINE leaf == Memory + up - 1
<1>1. Address(b) = 0
  <2>1. CASE b = 0
    <3>1. OnDepth(0, 0) BY PowerZero DEF OnDepth
    <3>2. Placed(0, 0) BY <2>1, <3>1, PlacedAt
    <3>3. 1 * Capasity(0) = Memory /\ Address(0) = 1 * Capasity(0) - Memory
      BY <3>2, PowerZero DEF Placed
    <3> QED BY <2>1, <3>3, PositionType
  <2>2. CASE b = 1
    <3>1. OnDepth(1, 1) BY PowerOne DEF OnDepth
    <3>2. Placed(1, 1) BY <2>2, <3>1, PlacedAt
    <3>3. 2 * Capasity(1) = Memory /\ Address(1) = 2 * Capasity(1) - Memory
      BY <3>2, PowerOne DEF Placed
    <3> QED BY <2>2, <3>3, PositionType
  <2> QED BY <2>1, <2>2
<1>2. up \in Nat /\ up < Memory BY ArenaAssumption, BuddyAssumption DEF Memory
<1>3. leaf \in Nat /\ leaf + 1 < 2 * Memory BY <1>2, PositionType
<1>4. leaf \in Position BY <1>3, InPosition
<1>5. Found(Address(b) + up) = Climb(leaf)
  <2>1. 2 ^ (Level - 1) + (Address(b) + up) - 1 = leaf BY <1>1, <1>2, PositionType DEF Memory
  <2> QED BY <2>1, Zenon DEF Found
<1> HIDE DEF leaf
<1>6. b <= leaf
  <2>1. CASE b = 0 BY <1>3, <2>1
  <2>2. CASE b = 1
    <3>1. Memory >= 2 BY <2>2, InPosition, PositionType
    <3> QED BY <1>2, <2>2, <3>1, PositionType DEF leaf
  <2> QED BY <2>1, <2>2
(* The first turn that has come to b or to zero. *)
<1> DEFINE T == {k \in Nat : leaf \div 2 ^ k <= b}
<1>7. Level \in T
  <2> DEFINE u == 2 ^ Level
  <2>1. u = 2 * Memory
    <3>1. 2 ^ ((Level - 1) + 1) = 2 * 2 ^ (Level - 1) BY BuddyAssumption, PowerNext
    <3>2. (Level - 1) + 1 = Level BY BuddyAssumption
    <3> QED BY <3>1, <3>2 DEF Memory
  <2>2. leaf \div u = 0
    <3> HIDE DEF u
    <3> QED BY <1>3, <2>1, DivUnique, PositionType
  <2> QED BY <2>2, BuddyAssumption
<1>8. PICK k \in T : \A j \in T : k <= j
  <2>1. T \in SUBSET Nat /\ T # {} BY <1>7
  <2> HIDE DEF T
  <2> QED BY <2>1, LeastOf
<1>9. k \in Nat /\ k <= Level /\ leaf \div 2 ^ k <= b BY <1>7, <1>8
<1>10. \A j \in Nat : leaf \div 2 ^ j \in Nat /\ leaf \div 2 ^ j <= leaf BY <1>3, ShiftType
<1>11. ASSUME NEW j \in 0 .. (k - 1)
       PROVE  leaf \div 2 ^ j > b /\ tree[leaf \div 2 ^ j] = "FREE"
  <2> DEFINE q == leaf \div 2 ^ j
  <2>1. j \in Nat /\ j < k BY <1>9
  <2>2. j \notin T BY <1>8, <1>9, <2>1
  <2>3. q \in Nat /\ q <= leaf BY <1>10, <2>1
  <2>4. q > b BY <2>1, <2>2, <2>3
  <2>5. q \in Position
    <3> HIDE DEF q
    <3>1. q \in Int /\ 0 <= q /\ q + 1 < 2 * Memory BY <1>3, <2>3, PositionType
    <3> QED BY <3>1, InPosition
  <2>6. q \notin {0, b} BY <2>3, <2>4
  <2> HIDE DEF q
  <2>7. tree[q] = "FREE" BY <2>5, <2>6
  <2> QED BY <2>4, <2>7 DEF q
<1>12. leaf \div 2 ^ k = b
  <2>1. CASE k = 0
    <3>1. 2 ^ k = 1 BY <2>1, PowerZero
    <3>2. leaf \div 2 ^ k = leaf BY <1>3, <3>1
    <3> QED BY <1>3, <1>6, <1>9, <3>2
  <2>2. CASE k # 0
    <3> DEFINE m == leaf \div 2 ^ (k - 1)
               n == leaf \div 2 ^ k
    <3>1. k - 1 \in Nat /\ (k - 1) + 1 = k /\ k - 1 \in 0 .. (k - 1) BY <1>9, <2>2
    <3>2. m \in Nat /\ m > b BY <1>10, <1>11, <3>1
    <3>3. n = m \div 2
      <4>1. leaf \div 2 ^ ((k - 1) + 1) = (leaf \div 2 ^ (k - 1)) \div 2 BY <1>3, <3>1, ShiftNext
      <4> QED BY <3>1, <4>1, Zenon
    <3>4. n \in Nat /\ n <= b BY <1>9, <1>10
    <3> HIDE DEF m, n
    <3>5. n = b BY <3>2, <3>3, <3>4
    <3> QED BY <3>5 DEF n
  <2> QED BY <2>1, <2>2
<1>13. k \in 0 .. Level BY <1>9, BuddyAssumption
<1>14. leaf \div 2 ^ k = 0 \/ tree[leaf \div 2 ^ k] # "FREE" BY <1>12
<1>15. \A j \in 0 .. (k - 1) : leaf \div 2 ^ j # 0 /\ tree[leaf \div 2 ^ j] = "FREE"
  <2> SUFFICES ASSUME NEW j \in 0 .. (k - 1)
               PROVE  leaf \div 2 ^ j # 0 /\ tree[leaf \div 2 ^ j] = "FREE"
    OBVIOUS
  <2>1. leaf \div 2 ^ j > b /\ leaf \div 2 ^ j \in Nat BY <1>9, <1>10, <1>11
  <2> QED BY <1>11, <2>1
<1>16. Climb(leaf) = leaf \div 2 ^ k BY <1>3, <1>13, <1>14, <1>15, ClimbStops
<1> QED BY <1>5, <1>12, <1>16
-----------------------------------------------------------------------------
(* The Kb that some blocks cover. *)
Covered(bs) == UNION {Extent(b) : b \in bs}

LEMMA CoveredType ==
    ASSUME NEW bs \in SUBSET Position
    PROVE  IsFiniteSet(Covered(bs)) /\ Cardinality(Covered(bs)) \in 0 .. Memory
<1>1. Covered(bs) \subseteq 0 .. (Memory - 1)
  <2> SUFFICES ASSUME NEW b \in bs PROVE Extent(b) \subseteq 0 .. (Memory - 1) BY DEF Covered
  <2> QED BY ExtentType
<1>2. IsFiniteSet(0 .. (Memory - 1)) /\ Cardinality(0 .. (Memory - 1)) = Memory
  <2>1. 0 \in Int /\ Memory - 1 \in Int /\ ~(0 > Memory - 1) /\ (Memory - 1) - 0 + 1 = Memory
    BY PositionType
  <2> QED BY <2>1, FS_Interval
<1> DEFINE cover == Covered(bs)
<1> HIDE DEF cover
<1>3. IsFiniteSet(cover) /\ Cardinality(cover) <= Memory BY <1>1, <1>2, FS_Subset DEF cover
<1>4. Cardinality(cover) \in Nat BY <1>3, FS_CardinalityType
<1> QED BY <1>3, <1>4, PositionType DEF cover

LEMMA CoveredAdd ==
    ASSUME NEW bs \in SUBSET Position, NEW pos \in Position,
           \A b \in bs : Extent(b) \cap Extent(pos) = {}
    PROVE  Cardinality(Covered(bs \cup {pos})) = Cardinality(Covered(bs)) + Capasity(pos)
<1> DEFINE cover == Covered(bs)
           extent == Extent(pos)
<1>1. Covered(bs \cup {pos}) = cover \cup extent BY DEF Covered
<1>2. cover \cap extent = {} BY DEF Covered
<1>3. IsFiniteSet(cover) /\ Cardinality(cover) \in Nat BY CoveredType
<1>4. IsFiniteSet(extent) /\ Cardinality(extent) = Capasity(pos) /\ Capasity(pos) \in Nat
  BY ExtentType
<1> HIDE DEF cover, extent
<1>5. Cardinality(cover \cup extent) = Cardinality(cover) + Cardinality(extent) - Cardinality(cover \cap extent)
  BY <1>3, <1>4, FS_Union
<1>6. Cardinality(cover \cap extent) = 0 BY <1>2, FS_EmptySet
<1>7. Cardinality(cover \cup extent) = Cardinality(cover) + Cardinality(extent)
  BY <1>3, <1>4, <1>5, <1>6
<1> QED BY <1>1, <1>4, <1>7 DEF cover

(* Blocks in use are not above each other, so they do not overlap. *)
LEMMA UsedApart ==
    ASSUME NEW t, Sound(t), NEW b \in InUse(t), NEW c \in InUse(t), b # c
    PROVE  Extent(b) \cap Extent(c) = {}
<1> SUFFICES ASSUME Extent(b) \cap Extent(c) # {} PROVE FALSE OBVIOUS
<1>1. b \in Position /\ c \in Position /\ t[b] = "USED" /\ t[c] = "USED" BY DEF InUse
<1>2. c \in Above(b) \/ b \in Above(c) BY <1>1, Overlap
<1>3. c \notin Above(b) BY <1>1 DEF Sound, FreeDown
<1>4. b \notin Above(c) BY <1>1 DEF Sound, FreeDown
<1> QED BY <1>2, <1>3, <1>4

(* The invariant.  While the arena lives its block is the only one, and    *)
(* the rest of the tree is free.                                           *)
Accounts ==
    /\ Sound(tree)
    /\ blocks = InUse(tree)
    /\ used = Cardinality(Covered(blocks))

ArenaAlone ==
    arena # NULL =>
        \E b \in {0, 1} : \E up \in 0 .. PageKb :
            /\ b \in Position /\ blocks = {b} /\ arena = Address(b) + up
            /\ \A p \in Position \ {0, b} : tree[p] = "FREE"

Inv == Accounts /\ ArenaAlone

LEMMA AllocAccounts ==
    ASSUME Accounts, NEW bytes \in Nat, buddy_alloc(bytes)
    PROVE  Accounts'
<1> DEFINE pos == Ack(AllocSize(bytes))
<1>1. pos # NULL /\ tree' = Take(pos) /\ used' = used + Capasity(pos) /\ blocks' = blocks \cup {pos}
  BY DEF buddy_alloc
<1>2. AllocSize(bytes) \in Nat \ {0} BY AllocSizeType
<1>3. Takeable(pos) BY <1>1, <1>2, AckTakeable
<1> HIDE DEF pos
<1>4. Sound(tree') /\ InUse(tree') = blocks \cup {pos} /\ pos \notin blocks
  BY <1>1, <1>3, TakeSound DEF Accounts
<1>5. pos \in Position /\ blocks \in SUBSET Position BY <1>3 DEF Takeable, Accounts, InUse
<1>6. \A b \in blocks : Extent(b) \cap Extent(pos) = {}
  <2> SUFFICES ASSUME NEW b \in blocks PROVE Extent(b) \cap Extent(pos) = {} OBVIOUS
  <2>1. b \in InUse(tree') /\ pos \in InUse(tree') /\ b # pos BY <1>4
  <2> QED BY <1>4, <2>1, UsedApart
<1>7. used' = Cardinality(Covered(blocks'))
  BY <1>1, <1>5, <1>6, CoveredAdd, Zenon DEF Accounts
<1> QED BY <1>1, <1>4, <1>7 DEF Accounts

LEMMA FreeAccounts ==
    ASSUME Accounts, NEW address, NEW b \in blocks, Found(address) = b, buddy_free(address)
    PROVE  Accounts' /\ blocks' = blocks \ {b}
<1> DEFINE t == [tree EXCEPT ![b] = "FREE"]
<1>1. /\ tree[b] = "USED" /\ tree' = Merge[b \div 2][t]
      /\ used' = used - Capasity(b) /\ blocks' = blocks \ {b}
  BY Zenon DEF buddy_free
<1>2. b \in Position /\ blocks \in SUBSET Position /\ tree \in Tree
  BY DEF Accounts, InUse, Sound
<1>3. t \in Tree /\ \A p \in Position : t[p] = IF p = b THEN "FREE" ELSE tree[p]
  BY <1>2, Freed DEF Tree
<1> HIDE DEF t
<1>4. Sound(t)
  <2>1. FreeDown(t)
    <3> SUFFICES ASSUME NEW p \in Position, t[p] # "FREE", NEW q \in Above(p)
                 PROVE  t[q] = "SPLIT"
      BY DEF FreeDown
    <3>1. q \in Position /\ tree[p] # "FREE" BY <1>3, AboveInside
    <3>2. tree[q] = "SPLIT" BY <3>1 DEF Accounts, Sound, FreeDown
    <3> QED BY <1>1, <1>3, <3>1, <3>2
  <2>2. Branching(t) BY <1>3 DEF Accounts, Sound, Branching
  <2> QED BY <1>3, <2>1, <2>2 DEF Sound
<1>5. InUse(t) = blocks \ {b} BY <1>1, <1>2, <1>3 DEF Accounts, InUse
<1>6. b \div 2 \in Position
  <2>1. b \in Nat /\ b < leaves /\ leaves \in Nat BY <1>2, PositionType DEF Position
  <2>2. b \div 2 \in 0 .. (leaves - 1) BY <2>1
  <2> QED BY <2>2 DEF Position
<1>7. Sound(tree') /\ InUse(tree') = blocks' BY <1>1, <1>4, <1>5, <1>6, MergeSound
<1>8. \A c \in blocks' : Extent(c) \cap Extent(b) = {} BY <1>1, UsedApart DEF Accounts
<1>9. Cardinality(Covered(blocks)) = Cardinality(Covered(blocks')) + Capasity(b)
  <2>1. blocks' \cup {b} = blocks /\ blocks' \in SUBSET Position BY <1>1, <1>2
  <2>2. Cardinality(Covered(blocks' \cup {b})) = Cardinality(Covered(blocks')) + Capasity(b)
    BY <1>2, <1>8, <2>1, CoveredAdd
  <2> QED BY <2>1, <2>2
<1>10. Cardinality(Covered(blocks')) \in Nat /\ Capasity(b) \in Nat
  <2>1. blocks' \in SUBSET Position BY <1>1, <1>2
  <2>2. Cardinality(Covered(blocks')) \in 0 .. Memory BY <2>1, CoveredType
  <2> QED BY <1>2, <2>2, ExtentType, PositionType
<1>11. used' = Cardinality(Covered(blocks'))
  <2> DEFINE m == Cardinality(Covered(blocks'))
  <2>1. used = m + Capasity(b) BY <1>9 DEF Accounts
  <2>2. m \in Nat BY <1>10
  <2> HIDE DEF m
  <2>3. used' = m BY <1>1, <1>10, <2>1, <2>2
  <2> QED BY <2>3 DEF m
<1> QED BY <1>1, <1>7, <1>11 DEF Accounts

LEMMA InitInv == Init => Inv
<1> SUFFICES ASSUME Init PROVE Inv OBVIOUS
<1>1. tree = Fresh /\ used = 0 /\ arena = NULL /\ blocks = {} BY DEF Init
<1>2. tree \in Tree /\ \A p \in Position : tree[p] = "FREE" BY <1>1 DEF Fresh, Tree, State
<1>3. Sound(tree) BY <1>2 DEF Sound, FreeDown, Branching
<1>4. InUse(tree) = {} BY <1>2 DEF InUse
<1>5. Covered({}) = {} BY DEF Covered
<1>6. Cardinality({}) = 0 BY FS_EmptySet
<1> QED BY <1>1, <1>3, <1>4, <1>5, <1>6 DEF Inv, Accounts, ArenaAlone

(* The block that the server takes for its pages. *)
LEMMA NewArenaInv == Inv /\ new_arena => Inv'
<1> SUFFICES ASSUME Inv, new_arena PROVE Inv' OBVIOUS
<1> DEFINE kbytes == AllocSize(ArenaBytes)
           pos == Ack(kbytes)
<1>1. tree = Fresh /\ buddy_alloc(ArenaBytes) BY DEF new_arena
<1>2. PICK up \in 0 .. PageKb : arena' = Address(pos) + up BY DEF new_arena
<1>3. ArenaBytes \in Nat BY BuddyAssumption
<1>4. Accounts' BY <1>1, <1>3, AllocAccounts DEF Inv
<1>5. kbytes \in Nat \ {0} /\ 2 * kbytes >= Memory
  BY <1>3, AllocSizeType, ArenaAssumption DEF Memory
<1>6. pos # NULL /\ tree' = Take(pos) /\ blocks' = blocks \cup {pos} BY <1>1 DEF buddy_alloc
<1> HIDE DEF kbytes
<1>7. pos = 0 \/ (pos = 1 /\ 1 \in Position) BY <1>1, <1>5, <1>6, AckArena
<1>8. Takeable(pos) BY <1>5, <1>6, AckTakeable
<1> HIDE DEF pos
<1>9. pos \in {0, 1} /\ pos \in Position BY <1>7, <1>8 DEF Takeable
<1>10. \A p \in Position : tree[p] = "FREE" BY <1>1 DEF Fresh
<1>11. blocks' = {pos}
  <2>1. blocks = {} BY <1>10 DEF Inv, Accounts, InUse
  <2> QED BY <1>6, <2>1
<1>12. Above(pos) \subseteq {0}
  <2> SUFFICES ASSUME NEW q \in Above(pos) PROVE q = 0 OBVIOUS
  <2>1. q < pos /\ q \in Nat BY <1>9, AboveLess, AboveInside, PositionType
  <2> QED BY <1>9, <2>1
<1>13. \A p \in Position \ {0, pos} : tree'[p] = "FREE" BY <1>6, <1>10, <1>12 DEF Take
<1>14. ArenaAlone' BY <1>2, <1>9, <1>11, <1>13 DEF ArenaAlone
<1> QED BY <1>4, <1>14 DEF Inv

LEMMA ArenaFound ==
    ASSUME Inv, arena # NULL
    PROVE  \E b \in blocks : blocks = {b} /\ Found(arena) = b
<1>1. PICK b \in {0, 1}, up \in 0 .. PageKb :
        /\ b \in Position /\ blocks = {b} /\ arena = Address(b) + up
        /\ \A p \in Position \ {0, b} : tree[p] = "FREE"
  BY DEF Inv, ArenaAlone
<1>2. tree[b] = "USED" BY <1>1 DEF Inv, Accounts, InUse
<1>3. Found(Address(b) + up) = b BY <1>1, <1>2, FindsArena
<1> QED BY <1>1, <1>3

(* Every operation keeps the invariant. *)
LEMMA NextInv == Inv /\ [Next]_vars => Inv'
<1> SUFFICES ASSUME Inv, [Next]_vars PROVE Inv' OBVIOUS
<1>1. CASE new_arena BY <1>1, NewArenaInv
<1>2. CASE destroy_arena
  <2>1. arena # NULL /\ buddy_free(arena) /\ arena' = NULL BY <1>2 DEF destroy_arena
  <2>2. PICK b \in blocks : Found(arena) = b BY <2>1, ArenaFound
  <2>3. Accounts' BY <2>1, <2>2, FreeAccounts DEF Inv
  <2> QED BY <2>1, <2>3 DEF Inv, ArenaAlone
<1>3. ASSUME arena = NULL, UNCHANGED arena, NEW bytes \in Request, buddy_alloc(bytes) PROVE Inv'
  <2>1. bytes \in Nat
    <3>1. 2 ^ (Level - 1) \in Nat BY PositionType DEF Memory
    <3> QED BY <3>1, BuddyAssumption DEF Request
  <2>2. Accounts' BY <1>3, <2>1, AllocAccounts DEF Inv
  <2> QED BY <1>3, <2>2 DEF Inv, ArenaAlone
<1>4. ASSUME arena = NULL, UNCHANGED arena, NEW b \in blocks, buddy_free(Address(b)) PROVE Inv'
  <2>1. Sound(tree) /\ b \in InUse(tree) BY DEF Inv, Accounts
  <2>2. Found(Address(b)) = b BY <2>1, FindsBlock
  <2>3. Accounts' BY <1>4, <2>2, FreeAccounts DEF Inv
  <2> QED BY <1>4, <2>3 DEF Inv, ArenaAlone
<1>5. CASE UNCHANGED vars
  BY <1>5 DEF vars, Inv, Accounts, ArenaAlone, Sound, FreeDown, Branching, InUse, Covered
<1> QED BY <1>1, <1>2, <1>3, <1>4, <1>5 DEF Next

LEMMA SpecInv == Spec => []Inv
BY InitInv, NextInv, PTL DEF Spec
-----------------------------------------------------------------------------
(* The variables of the allocator keep their types, only nodes with        *)
(* children are split, and the counter, which is unsigned in the code,     *)
(* never goes below zero or above the size of the memory.                  *)
THEOREM TypeCorrect == Spec => []TypeOK
<1>1. ASSUME Inv PROVE TypeOK
  <2>1. blocks \in SUBSET Position BY <1>1 DEF Inv, Accounts, InUse
  <2>2. used \in 0 .. 2 ^ (Level - 1) BY <1>1, <2>1, CoveredType DEF Inv, Accounts, Memory
  <2>3. tree \in Tree /\ \A p \in Position : tree[p] = "SPLIT" => 2 * p + 2 \in Position
    BY <1>1 DEF Inv, Accounts, Sound, Branching
  <2> QED BY <2>1, <2>2, <2>3 DEF TypeOK
<1> QED BY <1>1, SpecInv, PTL

(* buddy_alloc never gives out memory that is in use, and the counter is   *)
(* what the blocks in use cover, although _buddy_merge goes up by pos / 2. *)
THEOREM BlocksApart == Spec => []BlocksDisjoint
<1>1. ASSUME Inv PROVE BlocksDisjoint
  <2>1. Sound(tree) /\ blocks = InUse(tree) BY <1>1 DEF Inv, Accounts
  <2>2. ASSUME NEW b \in blocks PROVE Extent(b) \subseteq 0 .. (2 ^ (Level - 1) - 1)
    <3>1. b \in Position BY <2>1 DEF InUse
    <3> QED BY <3>1, ExtentType DEF Memory
  <2>3. \A b, c \in blocks : b # c => Extent(b) \cap Extent(c) = {} BY <2>1, UsedApart
  <2>4. used = Cardinality(UNION {Extent(b) : b \in blocks})
    BY <1>1, Zenon DEF Inv, Accounts, Covered
  <2> QED BY <2>2, <2>3, <2>4 DEF BlocksDisjoint
<1> QED BY <1>1, SpecInv, PTL

(* buddy_free finds the block that an address was given out for, from the  *)
(* arena's own pointer too, so its exit on a double free is never taken.   *)
THEOREM FreeIsFound == Spec => []FreeFindsBlock
<1>1. ASSUME Inv PROVE FreeFindsBlock
  <2>1. Sound(tree) /\ blocks = InUse(tree) BY <1>1 DEF Inv, Accounts
  <2>2. ASSUME NEW b \in blocks PROVE tree[b] = "USED" /\ Found(Address(b)) = b
    BY <2>1, FindsBlock DEF InUse
  <2>3. arena # NULL => {Found(arena)} = blocks BY <1>1, ArenaFound
  <2> QED BY <2>2, <2>3 DEF FreeFindsBlock
<1> QED BY <1>1, SpecInv, PTL

(* _buddy_merge frees no node that has something in use below it. *)
THEOREM FreeStaysFree == Spec => []FreeAllTheWay
<1>1. Inv => FreeAllTheWay BY DEF Inv, Accounts, Sound, FreeDown, FreeAllTheWay
<1> QED BY <1>1, SpecInv, PTL
=============================================================================
