---------------------------- MODULE PathScanProofs ----------------------------
(***************************************************************************)
(* What the scan of countPathParameters computes for every path.  The      *)
(* recursion is solved by a closed form: After describes the state of the  *)
(* loop at each place without the places before, and the function that     *)
(* Scan defines agrees with it, since there is no first place where the    *)
(* two could differ.                                                       *)
(***************************************************************************)
EXTENDS Registration, FiniteSetTheorems, TLAPS

(* Where the last brace up to i opens a placeholder. *)
OpenAfter(path) ==
  {i \in Nat : \E j \in 1..i : /\ path[j] = OpenBrace
                               /\ \A x \in 1..i : j < x => path[x] # CloseBrace}

(* Where no brace up to i is out of turn. *)
OrderedAfter(path) ==
  {i \in Nat : \A x \in 1..i : /\ path[x] = OpenBrace => x - 1 \notin OpenAfter(path)
                               /\ path[x] = CloseBrace => x - 1 \in OpenAfter(path)}

OpeningTo(path, i) == {j \in 1..i : path[j] = OpenBrace}

Start == [at |-> "outside", count |-> 0]
After(path, i) ==
  IF i \notin OrderedAfter(path) THEN Thrown
  ELSE [at |-> IF i \in OpenAfter(path) THEN "inside" ELSE "outside",
        count |-> Cardinality(OpeningTo(path, i))]
-----------------------------------------------------------------------------
(* Induction over numbers, as a property of sets: any set of them that has  *)
(* an element has a least one, and a greatest one if it is bounded.         *)
LEMMA LeastElement ==
  ASSUME NEW T \in SUBSET Nat, T # {}
  PROVE  \E m \in T : \A n \in T : m <= n
<1> DEFINE R == OpToRel(<, Nat)
<1>1. IsWellFoundedOn(R, Nat)
  BY NatLessThanWellFounded
<1>2. \A m, n \in Nat : n < m => <<n, m>> \in R
  BY DEF OpToRel
<1> HIDE DEF R
<1>3. PICK m \in T : \A n \in T : <<n, m>> \notin R
  BY <1>1, WFMin
<1>4. \A n \in T : ~(n < m)
  BY <1>2, <1>3
<1> QED BY <1>4

LEMMA GreatestElement ==
  ASSUME NEW b \in Nat, NEW T \in SUBSET (0..b), T # {}
  PROVE  \E m \in T : \A n \in T : n <= m
<1> DEFINE D == {b - n : n \in T}
<1>1. D \in SUBSET Nat /\ D # {}
  <2>1. \A n \in T : b - n \in Nat
    OBVIOUS
  <2> QED BY <2>1
<1>2. PICK d \in D : \A e \in D : d <= e
  <2> HIDE DEF D
  <2> QED BY <1>1, LeastElement
<1>3. PICK m \in T : d = b - m
  BY <1>2
<1>4. \A n \in T : b - m <= b - n
  BY <1>2, <1>3
<1> QED BY <1>3, <1>4

LEMMA BracesDiffer == OpenBrace # CloseBrace
BY Zenon DEF OpenBrace, CloseBrace
-----------------------------------------------------------------------------
(* The closed form starts and goes on as the loop does. *)
LEMMA AfterStart ==
  ASSUME NEW path
  PROVE  After(path, 0) = Start
<1>1. 0 \notin OpenAfter(path) /\ 0 \in OrderedAfter(path) /\ OpeningTo(path, 0) = {}
  BY DEF OpenAfter, OrderedAfter, OpeningTo
<1>2. Cardinality(OpeningTo(path, 0)) = 0
  BY <1>1, FS_EmptySet
<1> QED BY <1>1, <1>2 DEF After, Start

LEMMA OpenStep ==
  ASSUME NEW path, NEW i \in Nat \ {0}
  PROVE  /\ path[i] = OpenBrace => i \in OpenAfter(path)
         /\ path[i] = CloseBrace => i \notin OpenAfter(path)
         /\ path[i] \notin {OpenBrace, CloseBrace} =>
              (i \in OpenAfter(path) <=> i - 1 \in OpenAfter(path))
<1>1. CASE path[i] = OpenBrace
  BY <1>1, BracesDiffer DEF OpenAfter
<1>2. CASE path[i] = CloseBrace
  BY <1>2, BracesDiffer DEF OpenAfter
<1>3. CASE path[i] \notin {OpenBrace, CloseBrace}
  <2>1. i \in OpenAfter(path) => i - 1 \in OpenAfter(path)
    BY <1>3 DEF OpenAfter
  <2>2. i - 1 \in OpenAfter(path) => i \in OpenAfter(path)
    <3> SUFFICES ASSUME i - 1 \in OpenAfter(path) PROVE i \in OpenAfter(path)
      OBVIOUS
    <3>1. PICK j \in 1..(i - 1) : /\ path[j] = OpenBrace
                                  /\ \A x \in 1..(i - 1) : j < x => path[x] # CloseBrace
      BY DEF OpenAfter
    <3>2. \A x \in 1..i : j < x => path[x] # CloseBrace
      BY <1>3, <3>1
    <3> QED BY <3>1, <3>2 DEF OpenAfter
  <2> QED BY <1>3, <2>1, <2>2
<1> QED BY <1>1, <1>2, <1>3

LEMMA OrderedStep ==
  ASSUME NEW path, NEW i \in Nat \ {0}
  PROVE  i \in OrderedAfter(path) <=>
           /\ i - 1 \in OrderedAfter(path)
           /\ path[i] = OpenBrace => i - 1 \notin OpenAfter(path)
           /\ path[i] = CloseBrace => i - 1 \in OpenAfter(path)
<1> DEFINE At(x) == /\ path[x] = OpenBrace => x - 1 \notin OpenAfter(path)
                    /\ path[x] = CloseBrace => x - 1 \in OpenAfter(path)
<1>1. i \in OrderedAfter(path) <=> \A x \in 1..i : At(x)
  BY DEF OrderedAfter
<1>2. i - 1 \in OrderedAfter(path) <=> \A x \in 1..(i - 1) : At(x)
  BY DEF OrderedAfter
<1>3. \A x : x \in 1..i <=> x \in 1..(i - 1) \/ x = i
  OBVIOUS
<1>4. (\A x \in 1..i : At(x)) <=> (\A x \in 1..(i - 1) : At(x)) /\ At(i)
  <2> HIDE DEF At
  <2> QED BY <1>3, Zenon
<1> QED BY <1>1, <1>2, <1>4

LEMMA OpeningStep ==
  ASSUME NEW path, NEW i \in Nat \ {0}
  PROVE  Cardinality(OpeningTo(path, i)) =
           Cardinality(OpeningTo(path, i - 1)) + IF path[i] = OpenBrace THEN 1 ELSE 0
<1>1. IsFiniteSet(OpeningTo(path, i - 1))
  <2>1. IsFiniteSet(1..(i - 1))
    BY FS_Interval
  <2> QED BY <2>1, FS_Subset DEF OpeningTo
<1>2. Cardinality(OpeningTo(path, i - 1)) \in Nat
  BY <1>1, FS_CardinalityType
<1>3. CASE path[i] = OpenBrace
  <2>1. /\ OpeningTo(path, i) = OpeningTo(path, i - 1) \cup {i}
        /\ i \notin OpeningTo(path, i - 1)
    BY <1>3 DEF OpeningTo
  <2> QED BY <1>1, <1>3, <2>1, FS_AddElement
<1>4. CASE path[i] # OpenBrace
  <2>1. OpeningTo(path, i) = OpeningTo(path, i - 1)
    BY <1>4 DEF OpeningTo
  <2> QED BY <1>2, <1>4, <2>1
<1> QED BY <1>3, <1>4

LEMMA AfterStep ==
  ASSUME NEW path, NEW i \in Nat \ {0}
  PROVE  After(path, i) = Reads(After(path, i - 1), path[i])
<1> DEFINE n == Cardinality(OpeningTo(path, i - 1))
           s == After(path, i - 1)
<1>1. n \in Nat
  <2>1. IsFiniteSet(1..(i - 1))
    BY FS_Interval
  <2>2. IsFiniteSet(OpeningTo(path, i - 1))
    BY <2>1, FS_Subset DEF OpeningTo
  <2> QED BY <2>2, FS_CardinalityType
<1>2. After(path, i) =
        IF i \notin OrderedAfter(path) THEN Thrown
        ELSE [at |-> IF i \in OpenAfter(path) THEN "inside" ELSE "outside",
              count |-> n + IF path[i] = OpenBrace THEN 1 ELSE 0]
  BY OpeningStep DEF After
<1>3. s = IF i - 1 \notin OrderedAfter(path) THEN Thrown
          ELSE [at |-> IF i - 1 \in OpenAfter(path) THEN "inside" ELSE "outside",
                count |-> n]
  BY DEF After
<1>4. /\ s.at = "thrown" <=> i - 1 \notin OrderedAfter(path)
      /\ s.at # "thrown" => (s.at = "inside" <=> i - 1 \in OpenAfter(path))
      /\ s.at # "thrown" => (s.at = "outside" <=> i - 1 \notin OpenAfter(path))
  BY <1>3 DEF Thrown
<1> HIDE DEF n, s
<1>5. CASE i \notin OrderedAfter(path)
  <2>1. \/ s.at = "thrown"
        \/ path[i] = OpenBrace /\ s.at = "inside"
        \/ path[i] = CloseBrace /\ s.at = "outside"
    BY <1>4, <1>5, OrderedStep
  <2>2. Reads(s, path[i]) = Thrown
    BY <2>1 DEF Reads
  <2> QED BY <1>2, <1>5, <2>2 DEF s
<1>6. CASE i \in OrderedAfter(path)
  <2>1. ~ \/ s.at = "thrown"
          \/ path[i] = OpenBrace /\ s.at = "inside"
          \/ path[i] = CloseBrace /\ s.at = "outside"
    BY <1>4, <1>6, OrderedStep
  <2>2. s.count = n
    BY <1>3, <1>4, <2>1
  <2>3. CASE path[i] = OpenBrace
    <3>1. Reads(s, path[i]) = [at |-> "inside", count |-> n + 1]
      BY <2>1, <2>2, <2>3, BracesDiffer DEF Reads
    <3>2. After(path, i) = [at |-> "inside", count |-> n + 1]
      BY <1>2, <1>6, <2>3, OpenStep
    <3> QED BY <3>1, <3>2 DEF s
  <2>4. CASE path[i] = CloseBrace
    <3>1. Reads(s, path[i]) = [at |-> "outside", count |-> n]
      BY <2>1, <2>2, <2>4, BracesDiffer DEF Reads
    <3>2. After(path, i) = [at |-> "outside", count |-> n]
      BY <1>1, <1>2, <1>6, <2>4, OpenStep, BracesDiffer
    <3> QED BY <3>1, <3>2 DEF s
  <2>5. CASE path[i] \notin {OpenBrace, CloseBrace}
    <3>1. Reads(s, path[i]) = s
      BY <2>1, <2>5 DEF Reads
    <3>2. After(path, i) = s
      BY <1>1, <1>2, <1>3, <1>4, <1>6, <2>1, <2>5, OpenStep
    <3> QED BY <3>1, <3>2 DEF s
  <2> QED BY <2>3, <2>4, <2>5
<1> QED BY <1>5, <1>6
-----------------------------------------------------------------------------
(* A recursive function is some solution of its equation, if there is one.  *)
LEMMA ScanSolves ==
  ASSUME NEW path, NEW g,
         g = [i \in 0..Len(path) |-> IF i = 0 THEN Start ELSE Reads(g[i - 1], path[i])]
  PROVE  \E f : /\ f = [i \in 0..Len(path) |-> IF i = 0 THEN Start ELSE Reads(f[i - 1], path[i])]
                /\ Scan(path) = f[Len(path)]
<1> DEFINE Solves(f) == f = [i \in 0..Len(path) |->
                               IF i = 0 THEN Start ELSE Reads(f[i - 1], path[i])]
           h == CHOOSE f : Solves(f)
<1>1. Scan(path) = h[Len(path)]
  BY DEF Scan, Start
<1>2. Solves(g)
  OBVIOUS
<1>3. Solves(h)
  <2> HIDE DEF Solves
  <2> QED BY <1>2
<1> QED BY <1>1, <1>3

LEMMA ScanIsAfter ==
  ASSUME NEW path \in Seq(STRING)
  PROVE  Scan(path) = After(path, Len(path))
<1> DEFINE n == Len(path)
           g == [i \in 0..n |-> After(path, i)]
<1>1. n \in Nat
  OBVIOUS
<1>2. g = [i \in 0..n |-> IF i = 0 THEN Start ELSE Reads(g[i - 1], path[i])]
  <2>1. ASSUME NEW i \in 0..n
        PROVE  After(path, i) = IF i = 0 THEN Start ELSE Reads(g[i - 1], path[i])
    <3>1. CASE i = 0
      BY <3>1, AfterStart
    <3>2. CASE i # 0
      <4>1. g[i - 1] = After(path, i - 1) /\ i \in Nat \ {0}
        BY <1>1, <3>2
      <4> QED BY <3>2, <4>1, AfterStep
    <3> QED BY <3>1, <3>2
  <2> QED BY <2>1
<1>3. PICK f : /\ f = [i \in 0..n |-> IF i = 0 THEN Start ELSE Reads(f[i - 1], path[i])]
               /\ Scan(path) = f[n]
  BY <1>2, ScanSolves
<1>4. f[0] = Start /\ \A i \in 1..n : f[i] = Reads(f[i - 1], path[i])
  <2> HIDE DEF g
  <2>1. 0 \in 0..n /\ \A i \in 1..n : i \in 0..n /\ i # 0
    BY <1>1
  <2>2. \A i \in 0..n : f[i] = IF i = 0 THEN Start ELSE Reads(f[i - 1], path[i])
    BY <1>3, Zenon
  <2> QED BY <2>1, <2>2, Zenon
<1>5. ASSUME NEW k \in 0..n, f[k] # After(path, k)
      PROVE  FALSE
  <2> DEFINE T == {i \in 0..n : f[i] # After(path, i)}
  <2>1. T \in SUBSET Nat /\ T # {}
    BY <1>1, <1>5
  <2>2. PICK m \in T : \A i \in T : m <= i
    <3> HIDE DEF T
    <3> QED BY <2>1, LeastElement
  <2>3. CASE m = 0
    BY <1>4, <2>2, <2>3, AfterStart
  <2>4. CASE m # 0
    <3>1. m \in 1..n /\ m \in Nat \ {0} /\ m - 1 \in 0..n /\ m - 1 \notin T
      BY <1>1, <2>2, <2>4
    <3>2. f[m - 1] = After(path, m - 1)
      BY <3>1
    <3>3. f[m] = After(path, m)
      BY <1>4, <3>1, <3>2, AfterStep
    <3> QED BY <2>2, <3>3
  <2> QED BY <2>3, <2>4
<1> QED BY <1>1, <1>3, <1>5
-----------------------------------------------------------------------------
(* The paths that the scan lets through have placeholders, one after the    *)
(* other; the last brace before a place tells whether it is inside one.     *)
LEMMA AcceptedMeans ==
  ASSUME NEW path \in Seq(STRING)
  PROVE  Accepted(path) <=> /\ Len(path) \in OrderedAfter(path)
                            /\ Len(path) \notin OpenAfter(path)
                            /\ Cardinality(Opening(path)) <= 6
<1>1. OpeningTo(path, Len(path)) = Opening(path)
  BY DEF OpeningTo, Opening
<1>2. Scan(path) = IF Len(path) \notin OrderedAfter(path) THEN Thrown
                    ELSE [at |-> IF Len(path) \in OpenAfter(path) THEN "inside" ELSE "outside",
                          count |-> Cardinality(Opening(path))]
  BY <1>1, ScanIsAfter DEF After
<1> QED BY <1>2 DEF Accepted, Thrown

(* The last brace before place x of a path in which they alternate. *)
LEMMA LastBrace ==
  ASSUME NEW path \in Seq(STRING), NEW x \in 1..(Len(path) + 1),
         NEW j \in Braces(path), j < x
  PROVE  \E m \in Braces(path) : j <= m /\ m < x /\ \A y \in Braces(path) : y < x => y <= m
<1> DEFINE T == {y \in Braces(path) : y < x}
<1>1. DOMAIN path = 1..Len(path) /\ Len(path) \in Nat
  OBVIOUS
<1>2. T \in SUBSET (0..Len(path)) /\ j \in T
  BY <1>1 DEF Braces
<1>3. PICK m \in T : \A y \in T : y <= m
  <2> HIDE DEF T
  <2> QED BY <1>1, <1>2, GreatestElement
<1> QED BY <1>2, <1>3

LEMMA AcceptedAlternate ==
  ASSUME NEW path \in Seq(STRING), Accepted(path)
  PROVE  Placeholders(path)
<1> DEFINE n == Len(path)
<1>1. DOMAIN path = 1..n /\ n \in Nat
  OBVIOUS
<1>2. n \in OrderedAfter(path) /\ n \notin OpenAfter(path) /\ Cardinality(Opening(path)) <= 6
  BY AcceptedMeans
<1>3. \A x \in 1..n : /\ path[x] = OpenBrace => x - 1 \notin OpenAfter(path)
                      /\ path[x] = CloseBrace => x - 1 \in OpenAfter(path)
  BY <1>2 DEF OrderedAfter
<1>4. ASSUME NEW i \in Braces(path), path[i] = CloseBrace
      PROVE  \E j \in Braces(path) : j < i
  <2>1. i \in 1..n /\ i - 1 \in OpenAfter(path)
    BY <1>1, <1>3, <1>4 DEF Braces
  <2>2. PICK j \in 1..(i - 1) : path[j] = OpenBrace
    BY <2>1 DEF OpenAfter
  <2> QED BY <1>1, <2>1, <2>2 DEF Braces
<1>5. ASSUME NEW i \in Braces(path), path[i] = OpenBrace
      PROVE  \E j \in Braces(path) : j > i
  <2>1. i \in 1..n
    BY <1>1 DEF Braces
  <2>2. PICK x \in 1..n : i < x /\ path[x] = CloseBrace
    BY <1>1, <1>2, <1>5, <2>1 DEF OpenAfter
  <2> QED BY <1>1, <2>1, <2>2 DEF Braces
<1>6. ASSUME NEW i \in Braces(path), NEW j \in Braces(path), i < j, path[i] = path[j]
      PROVE  \E x \in Braces(path) : i < x /\ x < j /\ path[x] # path[i]
  <2>1. i \in 1..n /\ j \in 1..n
    BY <1>1 DEF Braces
  <2>2. CASE path[i] = OpenBrace
    <3>1. j - 1 \notin OpenAfter(path)
      BY <1>3, <1>6, <2>1, <2>2
    <3>2. PICK x \in 1..(j - 1) : i < x /\ path[x] = CloseBrace
      BY <1>6, <2>1, <2>2, <3>1 DEF OpenAfter
    <3> QED BY <1>1, <2>1, <2>2, <3>2, BracesDiffer DEF Braces
  <2>3. CASE path[i] = CloseBrace
    <3>1. j - 1 \in OpenAfter(path)
      BY <1>3, <1>6, <2>1, <2>3
    <3>2. PICK x \in 1..(j - 1) : /\ path[x] = OpenBrace
                                  /\ \A y \in 1..(j - 1) : x < y => path[y] # CloseBrace
      BY <3>1 DEF OpenAfter
    <3>3. i < x
      BY <1>6, <2>1, <2>3, <3>2, BracesDiffer
    <3> QED BY <1>1, <2>1, <2>3, <3>2, <3>3, BracesDiffer DEF Braces
  <2> QED BY <2>2, <2>3 DEF Braces
<1> QED BY <1>2, <1>4, <1>5, <1>6 DEF Placeholders

LEMMA AlternateAccepted ==
  ASSUME NEW path \in Seq(STRING), Placeholders(path)
  PROVE  Accepted(path)
<1> DEFINE n == Len(path)
<1>1. DOMAIN path = 1..n /\ n \in Nat
  OBVIOUS
<1>2. ASSUME NEW x \in 1..n, path[x] = OpenBrace, x - 1 \in OpenAfter(path)
      PROVE  FALSE
  <2>1. PICK j \in 1..(x - 1) : /\ path[j] = OpenBrace
                                /\ \A y \in 1..(x - 1) : j < y => path[y] # CloseBrace
    BY <1>2 DEF OpenAfter
  <2>2. j \in Braces(path) /\ x \in Braces(path) /\ j < x /\ path[j] = path[x]
    BY <1>1, <1>2, <2>1 DEF Braces
  <2>3. PICK y \in Braces(path) : j < y /\ y < x /\ path[y] # path[j]
    BY <2>2 DEF Placeholders
  <2>4. path[y] = CloseBrace /\ y \in 1..(x - 1)
    BY <1>1, <2>1, <2>3 DEF Braces
  <2> QED BY <2>1, <2>3, <2>4
<1>3. ASSUME NEW x \in 1..n, path[x] = CloseBrace
      PROVE  x - 1 \in OpenAfter(path)
  <2>1. x \in Braces(path)
    BY <1>1, <1>3 DEF Braces
  <2>2. PICK j \in Braces(path) : j < x
    BY <1>3, <2>1 DEF Placeholders
  <2>3. PICK m \in Braces(path) : m < x /\ \A y \in Braces(path) : y < x => y <= m
    <3>1. x \in 1..(Len(path) + 1)
      BY <1>1
    <3> QED BY <2>2, <3>1, LastBrace
  <2>4. path[m] = OpenBrace
    <3> SUFFICES ASSUME path[m] = CloseBrace PROVE FALSE
      BY DEF Braces
    <3>1. PICK y \in Braces(path) : m < y /\ y < x
      BY <1>3, <2>1, <2>3 DEF Placeholders
    <3>2. y \in Nat /\ m \in Nat
      BY <1>1, <2>3 DEF Braces
    <3> QED BY <2>3, <3>1, <3>2
  <2>5. m \in 1..(x - 1)
    BY <1>1, <2>3 DEF Braces
  <2>6. \A y \in 1..(x - 1) : m < y => path[y] # CloseBrace
    BY <1>1, <2>3, <2>5 DEF Braces
  <2> QED BY <2>4, <2>5, <2>6 DEF OpenAfter
<1>4. n \in OrderedAfter(path)
  BY <1>1, <1>2, <1>3 DEF OrderedAfter
<1>5. ASSUME n \in OpenAfter(path) PROVE FALSE
  <2>1. PICK j \in 1..n : /\ path[j] = OpenBrace
                          /\ \A y \in 1..n : j < y => path[y] # CloseBrace
    BY <1>5 DEF OpenAfter
  <2>2. j \in Braces(path) /\ j < n + 1 /\ n + 1 \in 1..(Len(path) + 1)
    BY <1>1, <2>1 DEF Braces
  <2>3. PICK m \in Braces(path) : j <= m /\ \A y \in Braces(path) : y < n + 1 => y <= m
    BY <2>2, LastBrace
  <2>4. path[m] = OpenBrace /\ m \in 1..n
    BY <1>1, <2>1, <2>3, BracesDiffer DEF Braces
  <2>5. PICK y \in Braces(path) : y > m
    BY <2>3, <2>4 DEF Placeholders
  <2>6. y \in 1..n
    BY <1>1 DEF Braces
  <2> QED BY <2>3, <2>4, <2>5, <2>6
<1> QED BY <1>4, <1>5, AcceptedMeans DEF Placeholders
-----------------------------------------------------------------------------
(* countPathParameters (LuaRoutes.cc:258) lets a path through exactly if    *)
(* its braces are placeholders, none nested or unclosed, at most six.       *)
THEOREM ScanIsExact ==
  ASSUME NEW path \in Seq(STRING)
  PROVE  Accepted(path) <=> Placeholders(path)
BY AcceptedAlternate, AlternateAccepted
=============================================================================
