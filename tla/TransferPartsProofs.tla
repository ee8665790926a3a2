------------------------ MODULE TransferPartsProofs ------------------------
(* Facts about the part arithmetic that hold for every file and part size.   *)
EXTENDS TransferParts, WellFoundedInduction, TLAPS

LEMMA MultiplyMonotone ==
    ASSUME NEW a \in Nat, NEW b \in Nat, NEW c \in Nat, a <= b
    PROVE  a * c <= b * c
  BY SMT

LEMMA DivMod ==
    ASSUME NEW a \in Nat, NEW b \in Nat \ {0}
    PROVE  /\ a \div b \in Nat
           /\ a % b \in 0 .. b - 1
           /\ a = (a \div b) * b + (a % b)
  BY SMT

\* The uncapped count of numParts: its last part starts inside the file and the
\* parts before the next one reach the file's end.
LEMMA CeilingBounds ==
    ASSUME NEW size \in Nat \ {0}, NEW ps \in Nat \ {0},
           NEW k, k = (size \div ps) + (IF size % ps # 0 THEN 1 ELSE 0)
    PROVE  k \in Nat \ {0} /\ (k - 1) * ps < size /\ size <= k * ps
<1> DEFINE q == size \div ps
           r == size % ps
<1>1. q \in Nat /\ r \in 0 .. ps - 1 /\ size = q * ps + r
  BY DivMod
<1>2. CASE r # 0
  <2>1. k = q + 1
    BY <1>2
  <2>2. q * ps \in Nat /\ (q + 1) * ps = q * ps + ps
    BY <1>1, SMT
  <2>. QED
    BY <1>1, <1>2, <2>1, <2>2
<1>3. CASE r = 0
  <2>1. k = q
    BY <1>1, <1>3
  <2>2. size = q * ps
    BY <1>1, <1>3, SMT
  <2>3. q # 0
    BY <2>2, SMT
  <2>4. (q - 1) * ps = q * ps - ps
    BY <1>1, SMT
  <2>. HIDE DEF q, r
  <2>. QED
    BY <1>1, <2>1, <2>2, <2>3, <2>4, SMT
<1>. QED
  BY <1>1, <1>2, <1>3

\* numParts counts at least one part, never more than MaxParts, and each part it
\* counts starts within the file.
LEMMA NumPartsStart ==
    ASSUME NEW size \in Nat, NEW ps \in Nat \ {0}
    PROVE  /\ numParts(size, ps) \in 1 .. MaxParts
           /\ \A n \in 1 .. numParts(size, ps) :
                /\ (n - 1) * ps \in Nat /\ (n - 1) * ps <= size
                /\ size # 0 => (n - 1) * ps < size
<1>. DEFINE k == (size \div ps) + (IF size % ps # 0 THEN 1 ELSE 0)
            m == numParts(size, ps)
<1>1. CASE size = 0
  BY <1>1, PartLimits, SMT DEF numParts
<1>2. CASE size # 0
  <2>1. k \in Nat \ {0} /\ (k - 1) * ps < size
    BY <1>2, CeilingBounds
  <2>2. m = Least(MaxParts, k)
    BY <1>2 DEF numParts
  <2>. HIDE DEF k, m
  <2>3. m \in 1 .. MaxParts /\ m <= k
    BY <2>1, <2>2, PartLimits DEF Least
  <2>4. ASSUME NEW n \in 1 .. m
        PROVE  (n - 1) * ps \in Nat /\ (n - 1) * ps < size
    <3>1. (n - 1) * ps <= (k - 1) * ps
      BY <2>1, <2>3, MultiplyMonotone
    <3>2. (n - 1) * ps \in Nat /\ (k - 1) * ps \in Nat
      BY <2>1, <2>3, SMT
    <3>. QED
      BY <2>1, <3>1, <3>2
  <2>. QED
    BY <1>2, <2>3, <2>4 DEF m
<1>. QED
  BY <1>1, <1>2

\* Where the ceiling does not bite, the parts counted reach the file's end.
LEMMA NumPartsReach ==
    ASSUME NEW size \in Nat \ {0}, NEW ps \in Nat \ {0}, Fits(size, ps)
    PROVE  size <= numParts(size, ps) * ps
<1>. DEFINE k == (size \div ps) + (IF size % ps # 0 THEN 1 ELSE 0)
            c == CeilDiv(size, ps)
<1>1. k \in Nat \ {0} /\ (k - 1) * ps < size /\ size <= k * ps
  BY CeilingBounds
<1>2. c \in Nat /\ c <= MaxParts /\ size <= c * ps
  <2>. DEFINE a == size + ps - 1
  <2>0. a \in Nat
    OBVIOUS
  <2>. HIDE DEF a
  <2>1. a \div ps \in Nat /\ a % ps \in 0 .. ps - 1 /\ a = (a \div ps) * ps + (a % ps)
    BY <2>0, DivMod
  <2>2. (a \div ps) * ps \in Nat
    BY <2>1, SMT
  <2>. QED
    BY <2>1, <2>2 DEF Fits, CeilDiv, a
<1>3. numParts(size, ps) = Least(MaxParts, k)
  BY DEF numParts
<1>. HIDE DEF k, c
<1>4. k <= MaxParts
  <2>. SUFFICES ASSUME c <= k - 1
                PROVE  FALSE
    BY <1>1, <1>2, PartLimits
  <2>1. c * ps <= (k - 1) * ps
    BY <1>1, <1>2, MultiplyMonotone
  <2>2. c * ps \in Nat /\ (k - 1) * ps \in Nat
    BY <1>1, <1>2, SMT
  <2>. QED
    BY <1>1, <1>2, <2>1, <2>2
<1>. QED
  BY <1>1, <1>3, <1>4, PartLimits DEF Least

\* The range of a counted part lies within the file.
LEMMA RangeInFile ==
    ASSUME NEW size \in Nat, NEW ps \in Nat \ {0}, NEW n \in 1 .. numParts(size, ps)
    PROVE  /\ partStart(n, ps) \in Nat
           /\ partEnd(n, size, ps) \in Nat
           /\ partStart(n, ps) <= partEnd(n, size, ps)
           /\ partEnd(n, size, ps) <= size
<1>1. (n - 1) * ps \in Nat /\ (n - 1) * ps <= size
  BY NumPartsStart
<1>. QED
  BY <1>1 DEF partStart, partEnd, Least

\* The ranges of the counted parts tile the file: they start at 0, each starts
\* where the one before it ends, and the last ends where the file does.
THEOREM RangesTileFile ==
    ASSUME NEW size \in Nat \ {0}, NEW ps \in Nat \ {0}, Fits(size, ps)
    PROVE  LET k == numParts(size, ps)
           IN  /\ k \in 1 .. MaxParts
               /\ partStart(1, ps) = 0
               /\ \A n \in 2 .. k : partStart(n, ps) = partEnd(n - 1, size, ps)
               /\ partEnd(k, size, ps) = size
<1>. DEFINE k == numParts(size, ps)
<1>1. k \in 1 .. MaxParts
  BY NumPartsStart
<1>2. partStart(1, ps) = 0
  BY SMT DEF partStart
<1>3. ASSUME NEW n \in 2 .. k
      PROVE  partStart(n, ps) = partEnd(n - 1, size, ps)
  <2>1. n \in 1 .. k /\ n - 1 \in 1 .. k
    BY <1>1
  <2>2. (n - 1) * ps \in Nat /\ (n - 1) * ps <= size
    BY <2>1, NumPartsStart
  <2>3. ((n - 1) - 1) * ps + ps = (n - 1) * ps
    BY <2>1, SMT
  <2>. QED
    BY <2>2, <2>3 DEF partStart, partEnd, Least
<1>4. partEnd(k, size, ps) = size
  <2>1. size <= k * ps
    BY NumPartsReach
  <2>2. (k - 1) * ps + ps = k * ps /\ k * ps \in Nat
    BY <1>1, SMT
  <2>. QED
    BY <2>1, <2>2 DEF partStart, partEnd, Least
<1>. QED
  BY <1>1, <1>2, <1>3, <1>4

-----------------------------------------------------------------------------
(* Induction, stated with sets, and the loop of computePartSize.             *)

\* Every nonempty set of numbers has a least one.
LEMMA LeastNumber ==
    ASSUME NEW S, S \subseteq Nat, S # {}
    PROVE  \E m \in S : \A n \in S : m <= n
<1>. DEFINE Before == OpToRel(<, Nat)
<1>1. \A m, n \in Nat : n < m => <<n, m>> \in Before
  BY DEF OpToRel
<1>2. IsWellFoundedOn(Before, Nat)
  BY NatLessThanWellFounded
<1>. HIDE DEF Before
<1>3. PICK m \in S : \A n \in S : ~ (<<n, m>> \in Before)
  BY <1>2, WFMin
<1>4. ASSUME NEW n \in S PROVE m <= n
  <2>1. m \in Nat /\ n \in Nat /\ ~ n < m
    BY <1>1, <1>3
  <2>. QED
    BY <2>1
<1>. QED
  BY <1>4

\* A set of numbers that holds 0 and the next of every number it holds.
LEMMA AllNumbers ==
    ASSUME NEW S, 0 \in S, \A n \in Nat : n \in S => n + 1 \in S
    PROVE  Nat \subseteq S
<1>. SUFFICES ASSUME Nat \ S # {} PROVE FALSE
  OBVIOUS
<1>1. PICK m \in Nat \ S : \A n \in Nat \ S : m <= n
  BY LeastNumber
<1>2. m # 0 /\ m - 1 \in Nat
  BY <1>1
<1>3. m - 1 \in S
  BY <1>1, <1>2
<1>. QED
  BY <1>1, <1>2, <1>3

\* The sequence of doublings exists: its beginnings do, by induction, and agree.
LEMMA DoublingsDef ==
    ASSUME NEW base \in Nat
    PROVE  doublings(base) = [k \in Nat |-> IF k = 0 THEN base ELSE 2 * doublings(base)[k - 1]]
<1>. DEFINE Begins(n) == {g \in [0 .. n -> Nat] :
                            g[0] = base /\ \A i \in 1 .. n : g[i] = 2 * g[i - 1]}
<1>1. ASSUME NEW n \in Nat PROVE \E g : g \in Begins(n)
  <2>. DEFINE S == {m \in Nat : \E g : g \in Begins(m)}
  <2>1. 0 \in S
    <3>1. [i \in 0 .. 0 |-> base] \in Begins(0)
      OBVIOUS
    <3>. QED
      BY <3>1
  <2>2. ASSUME NEW m \in Nat, m \in S PROVE m + 1 \in S
    <3>1. PICK g : g \in Begins(m)
      BY <2>2
    <3>. DEFINE h == [i \in 0 .. m + 1 |-> IF i = m + 1 THEN 2 * g[m] ELSE g[i]]
    <3>2. h \in [0 .. m + 1 -> Nat]
      BY <3>1
    <3>3. h[0] = base /\ \A i \in 1 .. m + 1 : h[i] = 2 * h[i - 1]
      BY <3>1
    <3>4. h \in Begins(m + 1)
      BY <3>2, <3>3
    <3>. QED
      BY <3>4
  <2>. HIDE DEF S
  <2>3. Nat \subseteq S
    BY <2>1, <2>2, AllNumbers
  <2>. QED
    BY <2>3 DEF S
<1>2. ASSUME NEW n \in Nat, NEW g \in Begins(n), NEW m \in 0 .. n, NEW h \in Begins(m)
      PROVE  \A i \in 0 .. m : g[i] = h[i]
  <2>. DEFINE S == {i \in Nat : i <= m => g[i] = h[i]}
  <2>1. 0 \in S
    OBVIOUS
  <2>2. ASSUME NEW i \in Nat, i \in S PROVE i + 1 \in S
    <3>. SUFFICES ASSUME i + 1 <= m PROVE g[i + 1] = h[i + 1]
      OBVIOUS
    <3>1. g[i] = h[i]
      BY <2>2
    <3>2. g[i + 1] = 2 * g[i] /\ h[i + 1] = 2 * h[i]
      <4>1. i + 1 \in 1 .. m /\ i + 1 \in 1 .. n /\ (i + 1) - 1 = i
        OBVIOUS
      <4>. QED
        BY <4>1
    <3>. QED
      BY <3>1, <3>2
  <2>. HIDE DEF S
  <2>3. Nat \subseteq S
    BY <2>1, <2>2, AllNumbers
  <2>. QED
    BY <2>3 DEF S
<1>. DEFINE pick == [n \in Nat |-> CHOOSE g : g \in Begins(n)]
            f == [n \in Nat |-> pick[n][n]]
<1>3. \A n \in Nat : pick[n] \in Begins(n)
  BY <1>1
<1>4. f[0] = base
  BY <1>3
<1>5. ASSUME NEW n \in Nat, n # 0 PROVE f[n] = 2 * f[n - 1]
  <2>1. n - 1 \in Nat /\ n - 1 \in 0 .. n
    BY <1>5
  <2>2. pick[n] \in Begins(n) /\ pick[n - 1] \in Begins(n - 1)
    BY <1>3, <2>1
  <2>. HIDE DEF pick
  <2>3. pick[n][n - 1] = pick[n - 1][n - 1]
    <3>1. n - 1 \in 0 .. n - 1
      BY <2>1
    <3>. QED
      BY <1>2, <2>1, <2>2, <3>1
  <2>4. pick[n][n] = 2 * pick[n][n - 1]
    BY <1>5, <2>2
  <2>. QED
    BY <2>1, <2>3, <2>4
<1>. HIDE DEF f, pick
<1>6. f = [k \in Nat |-> IF k = 0 THEN base ELSE 2 * f[k - 1]]
  <2>1. f = [k \in Nat |-> f[k]]
    BY DEF f
  <2>2. \A k \in Nat : f[k] = IF k = 0 THEN base ELSE 2 * f[k - 1]
    BY <1>4, <1>5
  <2>. QED
    BY <2>1, <2>2, Zenon
<1>7. \E d : d = [k \in Nat |-> IF k = 0 THEN base ELSE 2 * d[k - 1]]
  BY <1>6
<1>. QED
  BY <1>7 DEF doublings

\* Each doubling is at least the base, and the k-th is more than k.
LEMMA DoublingsGrow ==
    ASSUME NEW base \in Nat \ {0}, NEW k \in Nat
    PROVE  /\ doublings(base)[0] = base
           /\ doublings(base)[k + 1] = 2 * doublings(base)[k]
           /\ doublings(base)[k] \in Nat
           /\ doublings(base)[k] >= base /\ doublings(base)[k] > k
<1>. DEFINE d == doublings(base)
            S == {n \in Nat : d[n] \in Nat /\ d[n] >= base /\ d[n] > n}
<1>1. d = [n \in Nat |-> IF n = 0 THEN base ELSE 2 * d[n - 1]]
  BY DoublingsDef
<1>. HIDE DEF d
<1>2. d[0] = base /\ \A n \in Nat : d[n + 1] = 2 * d[n]
  <2>1. \A n \in Nat : d[n] = IF n = 0 THEN base ELSE 2 * d[n - 1]
    BY <1>1
  <2>2. ASSUME NEW n \in Nat PROVE d[n + 1] = 2 * d[n]
    <3>1. n + 1 \in Nat /\ n + 1 # 0 /\ (n + 1) - 1 = n
      OBVIOUS
    <3>. QED
      BY <2>1, <3>1
  <2>. QED
    BY <2>1, <2>2
<1>3. 0 \in S
  BY <1>2
<1>4. ASSUME NEW n \in Nat, n \in S PROVE n + 1 \in S
  BY <1>2, <1>4
<1>. HIDE DEF S
<1>5. k \in S
  BY <1>3, <1>4, AllNumbers
<1>. QED
  BY <1>2, <1>5 DEF S, d

\* A file no larger than a part fits.
LEMMA OnePartFits ==
    ASSUME NEW size \in Nat, NEW ps \in Nat \ {0}, size <= ps
    PROVE  Fits(size, ps)
<1>. DEFINE a == size + ps - 1
            q == a \div ps
<1>1. a \in Nat /\ a < 2 * ps
  OBVIOUS
<1>. HIDE DEF a
<1>2. q \in Nat /\ q * ps <= a
  <2>1. q \in Nat /\ a % ps \in 0 .. ps - 1 /\ a = q * ps + (a % ps)
    BY <1>1, DivMod
  <2>. HIDE DEF q
  <2>2. q * ps \in Nat
    BY <2>1, SMT
  <2>. QED
    BY <2>1, <2>2
<1>. HIDE DEF q
<1>3. q <= 1
  <2>. SUFFICES ASSUME 2 <= q PROVE FALSE
    BY <1>2
  <2>1. 2 * ps <= q * ps
    BY <1>2, MultiplyMonotone
  <2>2. q * ps \in Nat
    BY <1>2, SMT
  <2>. QED
    BY <1>1, <1>2, <2>1, <2>2
<1>. QED
  BY <1>2, <1>3, PartLimits DEF Fits, CeilDiv, q, a

\* The loop ends, and computePartSize is the first doubling at which the file fits.
LEMMA FirstThatFits ==
    ASSUME NEW fileSize \in Nat, NEW requested \in Nat, NEW k \in Nat,
           Fits(fileSize, doublings(Greatest(requested, MinPartSize))[k]),
           \A j \in 0 .. k - 1 :
              ~ Fits(fileSize, doublings(Greatest(requested, MinPartSize))[j])
    PROVE  computePartSize(fileSize, requested)
              = doublings(Greatest(requested, MinPartSize))[k]
<1>. DEFINE base == Greatest(requested, MinPartSize)
            d == doublings(base)
            First(i) == Fits(fileSize, d[i]) /\ \A j \in 0 .. i - 1 : ~ Fits(fileSize, d[j])
<1>1. base \in Nat \ {0}
  BY PartLimits DEF Greatest
<1>. HIDE DEF base
<1>2. Fits(fileSize, d[fileSize])
  <2>1. d[fileSize] \in Nat \ {0} /\ fileSize <= d[fileSize]
    BY <1>1, DoublingsGrow
  <2>. HIDE DEF d
  <2>. QED
    BY <2>1, OnePartFits
<1>3. First(k)
  BY DEF base
<1>. HIDE DEF d
<1>4. k \in 0 .. fileSize
  BY <1>2, <1>3
<1>5. \A i \in 0 .. fileSize : First(i) => i = k
  BY <1>3, <1>4
<1>6. (CHOOSE i \in 0 .. fileSize : First(i)) = k
  <2>. HIDE DEF First
  <2>. QED
    BY <1>3, <1>4, <1>5
<1>. QED
  BY <1>6 DEF computePartSize, d, base

\* There is such a doubling for every file and request, and it is no less than
\* the floor.
THEOREM PartSizeFits ==
    ASSUME NEW fileSize \in Nat, NEW requested \in Nat
    PROVE  LET ps == computePartSize(fileSize, requested)
           IN  ps \in Nat /\ ps >= MinPartSize /\ Fits(fileSize, ps)
<1>. DEFINE base == Greatest(requested, MinPartSize)
            d == doublings(base)
            S == {i \in Nat : Fits(fileSize, d[i])}
<1>1. base \in Nat \ {0} /\ base >= MinPartSize
  BY PartLimits DEF Greatest
<1>. HIDE DEF base
<1>2. fileSize \in S
  <2>1. d[fileSize] \in Nat \ {0} /\ fileSize <= d[fileSize]
    BY <1>1, DoublingsGrow
  <2>. HIDE DEF d
  <2>. QED
    BY <2>1, OnePartFits
<1>3. PICK k \in S : \A i \in S : k <= i
  BY <1>2, LeastNumber
<1>4. k \in Nat /\ Fits(fileSize, d[k]) /\ \A j \in 0 .. k - 1 : ~ Fits(fileSize, d[j])
  BY <1>3
<1>5. computePartSize(fileSize, requested) = d[k]
  BY <1>4, FirstThatFits DEF base
<1>6. d[k] \in Nat /\ d[k] >= MinPartSize
  BY <1>1, <1>4, DoublingsGrow, PartLimits
<1>. QED
  BY <1>4, <1>5, <1>6
=============================================================================
