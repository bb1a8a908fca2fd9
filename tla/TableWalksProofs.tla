--------------------------- MODULE TableWalksProofs ---------------------------
(***************************************************************************)
(* Proofs about TableWalks for any tables and any order of their keys.     *)
(***************************************************************************)
EXTENDS TableWalks, FiniteSetTheorems, TLAPS

(* What one pass has passed. *)
Seen == {order[i] : i \in 1..pos}

Shaping == phase = "shape" => by \in {"route", "response"}

(* The first pass of luaTableToJson tells that all keys seen are indexes,   *)
(* how many and which is the greatest.                                      *)
RouteShape ==
  by = "route" /\ phase = "shape" =>
    /\ out = [m \in Key |-> Absent]
    /\ count <= pos
    /\ isArray <=> \A i \in 1..pos : IsIndex(order[i])
    /\ isArray => /\ count = pos
                  /\ \A i \in 1..pos : order[i][2] <= maxIndex
                  /\ pos = 0 => maxIndex = 0
                  /\ pos > 0 => \E i \in 1..pos : order[i] = Num(maxIndex)

RouteFill ==
  by = "route" /\ phase # "shape" =>
    /\ phase \in {"fill", "done"} /\ (phase = "done" => pos = Len(order))
    /\ isArray <=> IsSequence
    /\ \A m \in Key : out[m] = IF m \in Seen /\ (IsSequence \/ IsText(m))
                                 THEN IF m \in opaque THEN Null ELSE m
                                 ELSE Absent

(* The first pass of Response:json tells whether the keys seen are 1 to pos *)
(* in order.                                                                *)
ResponseShape ==
  by = "response" =>
    /\ phase = "shape" =>
         /\ out = [m \in Key |-> Absent]
         /\ isArray <=> \A i \in 1..pos : order[i] = Num(i)
         /\ isArray => maxIndex = pos
    /\ phase # "shape" => (isArray <=> InOrder)

ResponseArray ==
  by = "response" /\ phase # "shape" /\ isArray =>
    /\ phase = "done" => pos = Len(order)
    /\ phase # "raised" => Seen \cap opaque = {}
    /\ phase = "raised" => opaque # {}
    /\ \A m \in Key : out[m] = IF m \in Seen THEN m ELSE Absent

(* An object or the headers: an entry that was passed is there, or was      *)
(* jumped over, or has no text or no value for it.                          *)
Jumped(j) == \E i, n \in DOMAIN order : /\ i < j /\ j < n
                                        /\ order[i][1] = "num" /\ order[n] = Text(order[i])
Filling == phase # "shape" /\ (by = "headers" \/ (by = "response" /\ ~isArray))
ObjectFill ==
  Filling =>
    /\ phase = "done" => pos = Len(order)
    /\ phase # "raised" => \A j \in 1..pos : \/ order[j][1] = "other" \/ order[j] \in opaque
                                             \/ out[Text(order[j])] # Absent
                                             \/ Jumped(j)
    /\ phase = "raised" => \/ by = "response" /\ opaque # {}
                           \/ \E k \in keys : k[1] = "num" /\ Text(k) \notin keys

(* Without numbers nothing is jumped over. *)
PlainObject ==
  Filling /\ by = "response" /\ NoNumbers /\ phase # "raised" =>
    /\ \A m \in Key : out[m] = IF m \in Seen /\ IsText(m) THEN m ELSE Absent
    /\ \A m \in Seen : IsText(m) => m \notin opaque

BindFill ==
  by = "bind" =>
    /\ phase = "done" => pos = length
    /\ phase = "raised" => opaque # {}
    /\ \A m \in Key : out[m] = IF m \in {Num(i) : i \in 1..pos}
                                 THEN IF m \in keys THEN m ELSE Null
                                 ELSE Absent

IInv == /\ TypeOK /\ Shaping /\ RouteShape /\ RouteFill /\ ResponseShape /\ ResponseArray
        /\ ObjectFill /\ PlainObject /\ BindFill
-----------------------------------------------------------------------------
LEMMA KeyFacts ==
  ASSUME NEW k \in Key
  PROVE  /\ k # Null /\ k # Absent
         /\ k[1] \in {"num", "text", "other"}
         /\ k[1] = "num" => k[2] \in Number /\ k = Num(k[2])
         /\ k[1] = "text" => Text(k) = k
         /\ k[1] # "other" => Text(k) \in Key /\ Text(k)[1] = "text"
BY DEF Key, Null, Absent, Num, Text

LEMMA NumFacts ==
  ASSUME NEW n
  PROVE  /\ Num(n)[1] = "num" /\ Num(n)[2] = n
         /\ n \in Number => Num(n) \in Key
         /\ Num(n) \in Key => n \in Number
BY DEF Key, Num

(* A table that has the indexes 1 to its size has them only. *)
LEMMA PigeonHole ==
  ASSUME NEW s \in Seq(Key), IsInjective(s),
         \A i \in DOMAIN s : IsIndex(s[i]) /\ s[i][2] <= Len(s)
  PROVE  Range(s) = {Num(n) : n \in 1..Len(s)}
<1> DEFINE N == 1..Len(s)
           f == [i \in N |-> s[i][2]]
<1>1. Len(s) \in Nat /\ DOMAIN s = N
  OBVIOUS
<1>2. \A i \in N : s[i] \in Key /\ s[i] = Num(s[i][2]) /\ s[i][2] \in N
  <2> SUFFICES ASSUME NEW i \in N
               PROVE  s[i] \in Key /\ s[i] = Num(s[i][2]) /\ s[i][2] \in N
    OBVIOUS
  <2>1. s[i] \in Key /\ s[i][1] = "num" /\ s[i][2] > 0 /\ s[i][2] <= Len(s)
    BY <1>1 DEF IsIndex
  <2>2. s[i] = Num(s[i][2]) /\ s[i][2] \in Int
    BY <2>1, KeyFacts, TableAssumption
  <2> QED BY <1>1, <2>1, <2>2
<1>3. f \in Injection(N, N)
  <2>1. f \in [N -> N]
    BY <1>2
  <2>2. ASSUME NEW i \in N, NEW j \in N, f[i] = f[j] PROVE i = j
    BY <1>1, <1>2, <2>2 DEF IsInjective
  <2> QED BY <2>1, <2>2 DEF Injection, IsInjective
<1>4. IsFiniteSet(N)
  BY <1>1, FS_Interval
<1>5. f \in Surjection(N, N)
  BY <1>3, <1>4, FS_Injection
<1>6. \A n \in N : \E i \in N : s[i] = Num(n)
  <2> SUFFICES ASSUME NEW n \in N PROVE \E i \in N : s[i] = Num(n)
    OBVIOUS
  <2>1. PICK i \in N : f[i] = n
    BY <1>5 DEF Surjection
  <2>2. s[i] = Num(n)
    BY <1>2, <2>1
  <2> QED BY <2>2
<1>7. {s[i] : i \in N} = {Num(n) : n \in N}
  <2>1. ASSUME NEW i \in N PROVE s[i] \in {Num(n) : n \in N}
    BY <1>2
  <2>2. ASSUME NEW n \in N PROVE Num(n) \in {s[i] : i \in N}
    <3>1. PICK i \in N : s[i] = Num(n)
      BY <1>6
    <3> QED BY <3>1
  <2> QED BY <2>1, <2>2
<1> QED BY <1>1, <1>7 DEF Range

LEMMA OrderFacts ==
  ASSUME TypeOK
  PROVE  /\ order \in Seq(Key) /\ IsInjective(order) /\ Len(order) \in Nat
         /\ DOMAIN order = 1..Len(order)
         /\ keys \subseteq Key
         /\ \A i \in 1..Len(order) : order[i] \in Key /\ order[i] \in keys
         /\ \A k \in keys : \E i \in 1..Len(order) : k = order[i]
         /\ \A i, j \in 1..Len(order) : order[i] = order[j] => i = j
<1>1. order \in Seq(Key) /\ IsInjective(order)
  BY DEF TypeOK
<1>2. Len(order) \in Nat /\ DOMAIN order = 1..Len(order)
  BY <1>1
<1>3. \A i \in 1..Len(order) : order[i] \in Key /\ order[i] \in keys
  BY <1>1, <1>2 DEF keys, Range
<1>4. \A k \in keys : \E i \in 1..Len(order) : k = order[i]
  BY <1>2 DEF keys, Range
<1>5. \A i, j \in 1..Len(order) : order[i] = order[j] => i = j
  BY <1>1, <1>2 DEF IsInjective
<1> QED BY <1>1, <1>2, <1>3, <1>4, <1>5

(* Position of a key. *)
LEMMA Found ==
  ASSUME TypeOK, NEW i \in 1..Len(order)
  PROVE  (CHOOSE j \in DOMAIN order : order[j] = order[i]) = i
BY OrderFacts

LEMMA LengthFacts ==
  ASSUME TypeOK
  PROVE  /\ length \in Nat
         /\ length > 0 => Num(length) \in keys
         /\ Num(length + 1) \notin keys
BY OrderFacts, TableAssumption DEF TypeOK, Borders, keys

(* The length of a sequence is its only border. *)
LEMMA LengthOfSequence == TypeOK /\ IsSequence => length = Len(order)
<1> SUFFICES ASSUME TypeOK, IsSequence PROVE length = Len(order)
  OBVIOUS
<1>1. /\ length \in Nat /\ Len(order) \in Nat
      /\ length > 0 => Num(length) \in {Num(n) : n \in 1..Len(order)}
      /\ Num(length + 1) \notin {Num(n) : n \in 1..Len(order)}
  BY OrderFacts, LengthFacts DEF IsSequence
<1>2. length > 0 => length \in 1..Len(order)
  BY <1>1 DEF Num
<1>3. length + 1 \notin 1..Len(order)
  BY <1>1
<1> QED BY <1>1, <1>2, <1>3

LEMMA InOrderIsSequence == TypeOK /\ InOrder => IsSequence
BY OrderFacts DEF InOrder, IsSequence, keys
-----------------------------------------------------------------------------
(* The types *)

LEMMA InitIInv == Init => IInv
<1> SUFFICES ASSUME Init PROVE IInv
  OBVIOUS
<1>1. order \in Seq(Key) /\ IsInjective(order) /\ pos = 0 /\ maxIndex = 0 /\ count = 0
  BY TableAssumption DEF Init
<1>2. Len(order) \in Nat /\ length \in Nat
  BY <1>1, TableAssumption DEF Init, Borders
<1>3. out \in [Key -> Key \cup {Null, Absent}]
  BY DEF Init
<1>4. TypeOK
  BY <1>1, <1>2, <1>3 DEF Init, TypeOK
<1>5. \A m \in Key : out[m] = Absent
  BY DEF Init
<1>6. Seen = {} /\ {Num(i) : i \in 1..pos} = {} /\ 1..pos = {}
  BY <1>1 DEF Seen
<1>7. Shaping /\ RouteShape /\ RouteFill /\ ResponseShape /\ ResponseArray
  BY <1>1, <1>5, <1>6 DEF Init, Shaping, RouteShape, RouteFill, ResponseShape, ResponseArray
<1>8. ObjectFill /\ PlainObject /\ BindFill
  BY <1>1, <1>5, <1>6 DEF Init, ObjectFill, PlainObject, BindFill, Filling
<1> QED BY <1>4, <1>7, <1>8 DEF IInv

(* A step that keeps the table keeps what is said of the table alone. *)
LEMMA TableKept ==
  ASSUME KeepTable
  PROVE  /\ keys' = keys /\ UNCHANGED <<by, order, opaque, length>>
         /\ IsSequence' = IsSequence /\ InOrder' = InOrder /\ NoNumbers' = NoNumbers
         /\ \A j : Jumped(j)' = Jumped(j)
BY DEF KeepTable, keys, IsSequence, InOrder, NoNumbers, Jumped

(* A visit sees one more key. *)
LEMMA VisitFacts ==
  ASSUME TypeOK, NEW user \in {"route", "response", "headers"}, NEW pass, NEW k,
         Visits(user, pass, k)
  PROVE  /\ by = user /\ phase = pass /\ pos \in 0..Len(order) /\ pos < Len(order)
         /\ pos + 1 \in 1..Len(order) /\ k = order[pos + 1] /\ k \in Key /\ k \in keys
         /\ 1..(pos + 1) = 1..pos \cup {pos + 1}
         /\ 1..pos \subseteq 1..Len(order)
<1>1. pos \in 0..Len(order) /\ pos < Len(order) /\ Len(order) \in Nat
  BY OrderFacts DEF TypeOK, Visits
<1> QED BY <1>1, OrderFacts DEF Visits

LEMMA Types ==
  ASSUME TypeOK, Shaping, RouteShape, ResponseShape, Next
  PROVE  TypeOK' /\ Shaping'
<1> USE DEF TypeOK
<1>1. Len(order) \in Nat /\ length \in Nat /\ pos \in Nat
  BY OrderFacts, LengthFacts
<1>2. ASSUME NEW k \in keys, RouteCounts(k) PROVE TypeOK' /\ Shaping'
  <2>1. /\ by = "route" /\ phase = "shape" /\ pos < Len(order) /\ k \in Key /\ count <= pos
    BY <1>2, VisitFacts DEF RouteCounts, RouteShape
  <2>2. IsIndex(k) => k[2] \in Number
    BY <2>1, KeyFacts DEF IsIndex
  <2>3. /\ KeepTable /\ pos' = pos + 1 /\ UNCHANGED <<phase, out>> /\ isArray' \in BOOLEAN
        /\ count' \in 0..Len(order) /\ maxIndex' \in {0} \cup Number
    <3>1. KeepTable /\ pos' = pos + 1 /\ UNCHANGED <<phase, out>> /\ count < Len(order)
      BY <1>1, <1>2, <2>1 DEF RouteCounts, Advance
    <3>2. CASE IsIndex(k)
      <4>1. /\ count' = count + 1 /\ UNCHANGED isArray
            /\ maxIndex' = IF k[2] > maxIndex THEN k[2] ELSE maxIndex
        BY <1>2, <3>2 DEF RouteCounts
      <4> QED BY <1>1, <2>2, <3>1, <3>2, <4>1
    <3>3. CASE ~IsIndex(k)
      BY <1>2, <3>1, <3>3 DEF RouteCounts
    <3> QED BY <3>2, <3>3
  <2> QED BY <1>1, <2>1, <2>3, TableKept DEF Shaping
<1>3. ASSUME NEW k \in keys, RouteFills(k) PROVE TypeOK' /\ Shaping'
  <2>1. by = "route" /\ phase = "fill" /\ pos < Len(order) /\ k \in Key
    BY <1>3, VisitFacts DEF RouteFills
  <2>2. /\ KeepTable /\ KeepShape /\ pos' = pos + 1 /\ UNCHANGED phase
        /\ out' \in [Key -> Key \cup {Null, Absent}]
    BY <1>3, <2>1 DEF RouteFills, RouteValue, Advance, Put
  <2> QED BY <1>1, <2>1, <2>2, TableKept DEF KeepShape, Shaping
<1>4. ASSUME NEW k \in keys, ResponseExpects(k) PROVE TypeOK' /\ Shaping'
  <2>1. by = "response" /\ phase = "shape" /\ pos < Len(order) /\ k \in Key
    BY <1>4, VisitFacts DEF ResponseExpects
  <2>2. IsIndex(k) => k[2] \in Number
    BY <2>1, KeyFacts DEF IsIndex
  <2>3. /\ KeepTable /\ pos' = pos + 1 /\ UNCHANGED <<phase, count, out>>
        /\ isArray' \in BOOLEAN /\ maxIndex' \in {0} \cup Number
    BY <1>4, <2>2 DEF ResponseExpects, Advance
  <2> QED BY <1>1, <2>1, <2>3, TableKept DEF Shaping
<1>5. ASSUME NEW k \in keys, ResponseFills(k) \/ HeaderAdds(k) PROVE TypeOK' /\ Shaping'
  <2>1. /\ by \in {"response", "headers"} /\ phase = "fill" /\ pos < Len(order) /\ k \in Key
        /\ KeepTable /\ KeepShape
    BY <1>5, VisitFacts DEF ResponseFills, HeaderAdds
  <2>2. /\ phase' \in {"fill", "raised"} /\ pos' \in 0..Len(order)
        /\ out' \in [Key -> Key \cup {Null, Absent}]
    <3>1. CASE Advance /\ UNCHANGED out
      BY <1>1, <2>1, <3>1 DEF Advance
    <3>2. CASE Raise
      BY <2>1, <3>2 DEF Raise
    <3>3. CASE k[1] # "other" /\ Put(Text(k), k) /\ GoOnBehind(Text(k))
      <4>1. out' \in [Key -> Key \cup {Null, Absent}]
        BY <2>1, <3>3 DEF Put
      <4>2. CASE Text(k) \in keys
        <5>1. PICK i \in 1..Len(order) : Text(k) = order[i]
          BY <4>2, OrderFacts
        <5>2. pos' = i /\ UNCHANGED phase
          BY <3>3, <4>2, <5>1, Found DEF GoOnBehind
        <5> QED BY <2>1, <4>1, <5>2
      <4>3. CASE Text(k) \notin keys
        BY <2>1, <3>3, <4>1, <4>3 DEF GoOnBehind
      <4> QED BY <4>2, <4>3
    <3> QED BY <1>5, <3>1, <3>2, <3>3 DEF ResponseFills, HeaderAdds
  <2> QED BY <2>1, <2>2, TableKept DEF KeepShape, Shaping
<1>6. CASE RouteDecides \/ ResponseDecides
  <2>1. /\ KeepTable /\ pos' = 0 /\ phase' = "fill" /\ UNCHANGED <<count, maxIndex, out>>
        /\ isArray' \in BOOLEAN
    BY <1>6 DEF RouteDecides, ResponseDecides, KeepShape
  <2> QED BY <1>1, <2>1, TableKept DEF Shaping
<1>7. CASE ResponseAppends
  <2>1. /\ by = "response" /\ phase = "fill" /\ KeepTable /\ KeepShape /\ pos < length
    BY <1>7 DEF ResponseAppends
  <2>2. /\ phase' \in {"fill", "raised"} /\ pos' \in 0..Len(order)
        /\ out' \in [Key -> Key \cup {Null, Absent}]
    <3>1. isArray /\ length = Len(order)
      BY <1>7, <2>1, InOrderIsSequence, LengthOfSequence DEF ResponseAppends, ResponseShape
    <3> QED BY <1>1, <1>7, <2>1, <3>1 DEF ResponseAppends, Raise, Put, Advance
  <2> QED BY <2>1, <2>2, TableKept DEF KeepShape, Shaping
<1>8. CASE Bind
  <2>1. /\ by = "bind" /\ phase = "fill" /\ KeepTable /\ KeepShape /\ pos < length
    BY <1>8 DEF Bind
  <2>2. /\ phase' \in {"fill", "raised"} /\ pos' \in 0..length
        /\ out' \in [Key -> Key \cup {Null, Absent}]
    BY <1>1, <1>8, <2>1, OrderFacts DEF Bind, Raise, Put, Advance
  <2> QED BY <2>1, <2>2, TableKept DEF KeepShape, Shaping
<1>9. CASE FillEnds
  BY <1>9, TableKept DEF FillEnds, KeepShape, Shaping
<1>10. CASE Rest
  BY <1>10 DEF Rest, walkVars, keys, Shaping
<1> QED BY <1>2, <1>3, <1>4, <1>5, <1>6, <1>7, <1>8, <1>9, <1>10 DEF Next

-----------------------------------------------------------------------------
(* The table route *)

(* Every step keeps the table; which steps there are depends on the user.   *)
LEMMA StepsOf ==
  ASSUME Next
  PROVE  /\ KeepTable
         /\ by = "route" => (\E k \in keys : RouteCounts(k) \/ RouteFills(k))
                            \/ RouteDecides \/ FillEnds \/ Rest
         /\ by = "response" => (\E k \in keys : ResponseExpects(k) \/ ResponseFills(k))
                               \/ ResponseDecides \/ ResponseAppends \/ FillEnds \/ Rest
         /\ by = "headers" => (\E k \in keys : HeaderAdds(k)) \/ FillEnds \/ Rest
         /\ by = "bind" => Bind \/ FillEnds \/ Rest
<1>1. KeepTable
  BY DEF Next, RouteCounts, RouteFills, RouteDecides, ResponseExpects, ResponseDecides,
         ResponseAppends, ResponseFills, HeaderAdds, Bind, FillEnds, Rest, KeepTable, walkVars
<1>2. /\ \A k \in keys : RouteCounts(k) \/ RouteFills(k) => by = "route"
      /\ \A k \in keys : ResponseExpects(k) \/ ResponseFills(k) => by = "response"
      /\ \A k \in keys : HeaderAdds(k) => by = "headers"
  BY DEF RouteCounts, RouteFills, ResponseExpects, ResponseFills, HeaderAdds, Visits
<1>3. /\ RouteDecides => by = "route"
      /\ ResponseDecides \/ ResponseAppends => by = "response"
      /\ Bind => by = "bind"
  BY DEF RouteDecides, ResponseDecides, ResponseAppends, Bind
<1> QED BY <1>1, <1>2, <1>3 DEF Next

(* Seen grows by the key that is visited. *)
LEMMA SeenGrows ==
  ASSUME TypeOK, KeepTable, pos \in 0..Len(order), pos < Len(order), pos' = pos + 1
  PROVE  Seen' = Seen \cup {order[pos + 1]} /\ Seen \subseteq keys /\ Seen' \subseteq keys
<1>1. 1..(pos + 1) = 1..pos \cup {pos + 1} /\ 1..(pos + 1) \subseteq 1..Len(order)
  BY OrderFacts
<1> QED BY <1>1, OrderFacts DEF Seen, KeepTable

(* At the end of a pass everything is seen. *)
LEMMA SeenAll == TypeOK /\ pos = Len(order) => Seen = keys
BY OrderFacts DEF Seen, keys, Range

(* The table is a sequence if and only if all keys are indexes and the      *)
(* greatest one is their number.                                            *)
LEMMA RouteTellsSequences ==
  ASSUME IInv, RouteDecides
  PROVE  isArray' <=> IsSequence
<1> USE DEF IInv
<1>1. /\ by = "route" /\ phase = "shape" /\ pos = Len(order)
      /\ isArray' = (isArray /\ maxIndex = count)
  BY DEF RouteDecides
<1>2. /\ Len(order) \in Nat /\ DOMAIN order = 1..Len(order) /\ maxIndex \in Int
      /\ isArray \in BOOLEAN
      /\ \A i \in 1..Len(order) : order[i] \in keys
  BY OrderFacts, TableAssumption DEF TypeOK
<1>3. isArray <=> \A i \in 1..Len(order) : IsIndex(order[i])
  BY <1>1 DEF RouteShape
<1>4. ASSUME isArray, maxIndex = count PROVE IsSequence
  <2>1. \A i \in DOMAIN order : IsIndex(order[i]) /\ order[i][2] <= Len(order)
    BY <1>1, <1>2, <1>3, <1>4 DEF RouteShape
  <2> QED BY <2>1, PigeonHole, OrderFacts DEF IsSequence, keys
<1>5. ASSUME IsSequence PROVE isArray /\ maxIndex = count
  <2>1. \A i \in 1..Len(order) : \E n \in 1..Len(order) : order[i] = Num(n)
    BY <1>2, <1>5 DEF IsSequence
  <2>2. \A i \in 1..Len(order) : IsIndex(order[i])
    BY <1>2, <2>1, NumFacts DEF IsIndex
  <2>3. /\ isArray /\ count = Len(order)
        /\ \A i \in 1..Len(order) : order[i][2] <= maxIndex
        /\ Len(order) = 0 => maxIndex = 0
        /\ Len(order) > 0 => \E i \in 1..Len(order) : order[i] = Num(maxIndex)
    BY <1>1, <1>3, <2>2 DEF RouteShape
  <2>4. CASE Len(order) = 0
    BY <2>3, <2>4
  <2>5. CASE Len(order) > 0
    <3>1. Num(Len(order)) \in keys
      BY <1>2, <1>5, <2>5 DEF IsSequence
    <3>2. PICK i \in 1..Len(order) : Num(Len(order)) = order[i]
      BY <3>1, OrderFacts
    <3>3. Len(order) <= maxIndex
      BY <2>3, <3>2, NumFacts
    <3>4. PICK j \in 1..Len(order) : order[j] = Num(maxIndex)
      BY <2>3, <2>5
    <3>5. maxIndex <= Len(order)
      BY <1>2, <2>1, <3>4 DEF Num
    <3>6. maxIndex = Len(order)
      <4>1. Len(order) \in Int /\ maxIndex \in Int
        BY <1>2
      <4> QED BY <4>1, <3>3, <3>5
    <3> QED BY <2>3, <3>6
  <2> QED BY <1>2, <2>4, <2>5
<1> QED BY <1>1, <1>2, <1>4, <1>5

LEMMA RouteStep ==
  ASSUME IInv, Next
  PROVE  RouteShape' /\ RouteFill'
<1> USE DEF IInv
<1>0. KeepTable /\ by' = by /\ keys' = keys /\ IsSequence' = IsSequence
  BY StepsOf, TableKept
<1>1. CASE by # "route"
  BY <1>0, <1>1 DEF RouteShape, RouteFill
<1>2. ASSUME by = "route", NEW k \in keys, RouteCounts(k) PROVE RouteShape' /\ RouteFill'
  <2>1. /\ phase = "shape" /\ pos \in 0..Len(order) /\ k = order[pos + 1] /\ k \in Key
        /\ 1..(pos + 1) = 1..pos \cup {pos + 1} /\ count \in Nat
    BY <1>2, VisitFacts DEF RouteCounts, TypeOK
  <2>2. pos' = pos + 1 /\ UNCHANGED <<phase, out, order>> /\ pos \in Nat
    BY <1>2, <2>1, OrderFacts DEF RouteCounts, Advance, KeepTable
  <2>3. CASE IsIndex(k)
    <3>1. /\ count' = count + 1 /\ UNCHANGED isArray
          /\ maxIndex' = IF k[2] > maxIndex THEN k[2] ELSE maxIndex
      BY <1>2, <2>3 DEF RouteCounts
    <3>2. k = Num(k[2]) /\ k[2] \in Int /\ k[2] > 0 /\ maxIndex \in Int
      <4>1. Number \subseteq Int /\ maxIndex \in {0} \cup Number
        BY TableAssumption DEF TypeOK
      <4>2. k = Num(k[2]) /\ k[2] \in Number /\ k[2] > 0
        BY <2>1, <2>3, KeyFacts DEF IsIndex
      <4>3. maxIndex \in Int
        BY <4>1
      <4>4. k[2] \in Int
        BY <4>1, <4>2
      <4> QED BY <4>2, <4>3, <4>4
    <3>3. /\ count' <= pos'
          /\ isArray' <=> \A i \in 1..pos' : IsIndex(order'[i])
      BY <1>2, <2>1, <2>2, <2>3, <3>1 DEF RouteShape
    <3>4. ASSUME isArray'
          PROVE  /\ count' = pos' /\ (pos' = 0 => maxIndex' = 0)
                 /\ \A i \in 1..pos' : order'[i][2] <= maxIndex'
                 /\ pos' > 0 => \E i \in 1..pos' : order'[i] = Num(maxIndex')
      <4>1. /\ isArray /\ count = pos /\ \A i \in 1..pos : order[i][2] <= maxIndex
            /\ pos = 0 => maxIndex = 0
            /\ pos > 0 => \E i \in 1..pos : order[i] = Num(maxIndex)
        BY <1>2, <2>1, <3>1, <3>4 DEF RouteShape
      <4>2. \A i \in 1..pos : order[i] \in Key /\ IsIndex(order[i])
        BY <1>2, <2>1, <4>1, VisitFacts, OrderFacts DEF RouteShape, RouteCounts
      <4>3. \A i \in 1..pos : order[i][2] \in Int
        BY <4>2, KeyFacts, TableAssumption DEF IsIndex
      <4>4. \A i \in 1..pos' : order'[i][2] <= maxIndex'
        BY <2>1, <2>2, <3>1, <3>2, <4>1, <4>3
      <4>5. \E i \in 1..pos' : order'[i] = Num(maxIndex')
        BY <2>1, <2>2, <3>1, <3>2, <4>1
      <4> QED BY <2>2, <3>1, <4>1, <4>4, <4>5
    <3> QED BY <1>2, <2>1, <2>2, <3>3, <3>4 DEF RouteShape, RouteFill
  <2>4. CASE ~IsIndex(k)
    <3>1. isArray' = FALSE /\ UNCHANGED count
      BY <1>2, <2>4 DEF RouteCounts
    <3> QED BY <1>2, <2>1, <2>2, <2>4, <3>1 DEF RouteShape, RouteFill
  <2> QED BY <2>3, <2>4
<1>3. ASSUME by = "route", NEW k \in keys, RouteFills(k) PROVE RouteShape' /\ RouteFill'
  <2>1. /\ phase = "fill" /\ pos \in 0..Len(order) /\ pos < Len(order)
        /\ k = order[pos + 1] /\ k \in Key
    BY <1>3, VisitFacts DEF RouteFills
  <2>2. pos' = pos + 1 /\ UNCHANGED <<phase, order, opaque, isArray>>
    BY <1>3 DEF RouteFills, Advance, KeepTable, KeepShape
  <2>3. Seen' = Seen \cup {k}
    BY <1>0, <2>1, <2>2, SeenGrows
  <2>4. /\ isArray <=> IsSequence
        /\ isArray => IsIndex(k)
    <3>1. isArray <=> IsSequence
      BY <1>3, <2>1 DEF RouteFill
    <3>2. IsSequence => IsIndex(k)
      <4>1. IsSequence => \E n \in 1..Len(order) : k = Num(n)
        BY <1>3 DEF IsSequence
      <4> QED BY <4>1, NumFacts, OrderFacts DEF IsIndex
    <3> QED BY <3>1, <3>2
  <2>5. CASE IsSequence \/ IsText(k)
    <3>1. out' = [out EXCEPT ![k] = IF k \in opaque THEN Null ELSE k]
      BY <1>3, <2>4, <2>5 DEF RouteFills, RouteValue, Put, IsIndex, IsText
    <3>2. \A m \in Key : out'[m] = IF m \in Seen' /\ (IsSequence \/ IsText(m))
                                     THEN IF m \in opaque THEN Null ELSE m ELSE Absent
      BY <1>3, <2>1, <2>3, <2>5, <3>1 DEF RouteFill, TypeOK
    <3> QED BY <1>0, <1>3, <2>1, <2>2, <2>4, <3>2 DEF RouteShape, RouteFill
  <2>6. CASE ~(IsSequence \/ IsText(k))
    <3>1. out' = out
      BY <1>3, <2>4, <2>6 DEF RouteFills
    <3>2. \A m \in Key : out'[m] = IF m \in Seen' /\ (IsSequence \/ IsText(m))
                                     THEN IF m \in opaque THEN Null ELSE m ELSE Absent
      BY <1>3, <2>1, <2>3, <2>6, <3>1 DEF RouteFill, TypeOK
    <3> QED BY <1>0, <1>3, <2>1, <2>2, <2>4, <3>2 DEF RouteShape, RouteFill
  <2> QED BY <2>5, <2>6
<1>4. CASE by = "route" /\ RouteDecides
  <2>1. phase = "shape" /\ phase' = "fill" /\ pos' = 0 /\ UNCHANGED out
    BY <1>4 DEF RouteDecides
  <2>2. Seen' = {}
    BY <2>1 DEF Seen
  <2>3. \A m \in Key : out'[m] = Absent
    BY <1>4, <2>1 DEF RouteShape
  <2> QED BY <1>0, <1>4, <2>1, <2>2, <2>3, RouteTellsSequences DEF RouteShape, RouteFill
<1>5. CASE by = "route" /\ FillEnds
  <2>1. /\ phase = "fill" /\ phase' = "done" /\ pos = Len(order)
        /\ UNCHANGED <<pos, out, order, opaque, isArray>> /\ Seen' = Seen
    BY <1>5 DEF FillEnds, KeepShape, KeepTable, Seen
  <2> QED BY <1>0, <1>5, <2>1 DEF RouteShape, RouteFill
<1>6. CASE Rest
  BY <1>6, <1>0 DEF Rest, walkVars, RouteShape, RouteFill, Seen
<1> QED BY <1>1, <1>2, <1>3, <1>4, <1>5, <1>6, StepsOf

-----------------------------------------------------------------------------
(* Response:json, arrays *)

LEMMA ResponseStep ==
  ASSUME IInv, Next
  PROVE  ResponseShape' /\ ResponseArray'
<1> USE DEF IInv
<1>0. KeepTable /\ by' = by /\ order' = order /\ opaque' = opaque /\ InOrder' = InOrder
  BY StepsOf, TableKept
<1>1. CASE by # "response"
  BY <1>0, <1>1 DEF ResponseShape, ResponseArray
<1>2. ASSUME by = "response", NEW k \in keys, ResponseExpects(k)
      PROVE  ResponseShape' /\ ResponseArray'
  <2>1. /\ phase = "shape" /\ pos \in Nat /\ k = order[pos + 1]
        /\ 1..(pos + 1) = 1..pos \cup {pos + 1}
    BY <1>2, VisitFacts, OrderFacts DEF ResponseExpects
  <2>2. /\ pos' = pos + 1 /\ UNCHANGED <<phase, out>>
        /\ isArray' = (isArray /\ k = Num(maxIndex + 1))
    BY <1>2 DEF ResponseExpects, Advance
  <2>3. isArray => maxIndex = pos
    BY <1>2, <2>1 DEF ResponseShape
  <2>4. isArray' <=> \A i \in 1..pos' : order'[i] = Num(i)
    <3>1. isArray <=> \A i \in 1..pos : order[i] = Num(i)
      BY <1>2, <2>1 DEF ResponseShape
    <3>2. isArray' <=> isArray /\ k = Num(pos + 1)
      BY <2>2, <2>3
    <3> QED BY <1>0, <2>1, <2>2, <3>1, <3>2
  <2>5. isArray' => maxIndex' = pos'
    <3>1. SUFFICES ASSUME isArray' PROVE maxIndex' = pos'
      OBVIOUS
    <3>2. k[1] = "num" /\ k[2] = pos + 1 /\ maxIndex = pos
      BY <2>2, <2>3, <3>1, NumFacts
    <3>3. IsIndex(k) /\ k[2] > maxIndex
      BY <2>1, <3>2 DEF IsIndex
    <3> QED BY <1>2, <2>2, <3>2, <3>3 DEF ResponseExpects
  <2> QED BY <1>2, <2>1, <2>2, <2>4, <2>5 DEF ResponseShape, ResponseArray
<1>3. CASE by = "response" /\ ResponseDecides
  <2>1. /\ phase = "shape" /\ pos = Len(order) /\ phase' = "fill" /\ pos' = 0
        /\ UNCHANGED <<out, isArray>>
    BY <1>3 DEF ResponseDecides, KeepShape
  <2>2. isArray <=> InOrder
    BY <1>3, <2>1, OrderFacts DEF ResponseShape, InOrder
  <2>3. Seen' = {} /\ \A m \in Key : out'[m] = Absent
    BY <1>3, <2>1 DEF Seen, ResponseShape
  <2> QED BY <1>0, <1>3, <2>1, <2>2, <2>3 DEF ResponseShape, ResponseArray
<1>4. CASE by = "response" /\ ResponseAppends
  <2>1. phase = "fill" /\ isArray /\ UNCHANGED isArray /\ pos < length
    BY <1>4 DEF ResponseAppends, KeepShape
  <2>2. InOrder /\ length = Len(order) /\ pos \in 0..Len(order)
    BY <1>4, <2>1, InOrderIsSequence, LengthOfSequence DEF ResponseShape, TypeOK
  <2>3. pos + 1 \in 1..Len(order) /\ Num(pos + 1) = order[pos + 1]
    BY <2>1, <2>2, OrderFacts DEF InOrder
  <2>4. Num(pos + 1) \in Key
    BY <2>3, OrderFacts
  <2>5. CASE Num(pos + 1) \in opaque
    <3>1. phase' = "raised" /\ UNCHANGED <<pos, out>>
      BY <1>4, <2>5 DEF ResponseAppends, Raise
    <3>2. Seen' = Seen
      BY <1>0, <3>1 DEF Seen
    <3> QED BY <1>0, <1>4, <2>1, <2>2, <2>5, <3>1, <3>2 DEF ResponseShape, ResponseArray
  <2>6. CASE Num(pos + 1) \notin opaque
    <3>1. pos' = pos + 1 /\ UNCHANGED phase /\ out' = [out EXCEPT ![Num(pos + 1)] = Num(pos + 1)]
      BY <1>4, <2>6 DEF ResponseAppends, Put, Advance
    <3>2. Seen' = Seen \cup {Num(pos + 1)}
      BY <1>0, <2>1, <2>2, <2>3, <3>1, SeenGrows
    <3>3. \A m \in Key : out'[m] = IF m \in Seen' THEN m ELSE Absent
      BY <1>4, <2>1, <2>4, <3>1, <3>2 DEF ResponseArray, TypeOK
    <3> QED BY <1>0, <1>4, <2>1, <2>2, <2>6, <3>1, <3>2, <3>3 DEF ResponseShape, ResponseArray
  <2> QED BY <2>5, <2>6
<1>5. ASSUME by = "response", NEW k \in keys, ResponseFills(k)
      PROVE  ResponseShape' /\ ResponseArray'
  <2>1. /\ phase = "fill" /\ ~isArray /\ UNCHANGED isArray
        /\ phase' \in {"fill", "raised"}
    BY <1>5 DEF ResponseFills, Visits, KeepShape, Advance, Raise, GoOnBehind
  <2> QED BY <1>0, <1>5, <2>1 DEF ResponseShape, ResponseArray
<1>6. CASE by = "response" /\ FillEnds
  <2>1. /\ phase = "fill" /\ phase' = "done" /\ UNCHANGED <<pos, out, isArray>>
        /\ isArray => pos = length
    BY <1>6 DEF FillEnds, KeepShape
  <2>2. isArray => pos = Len(order)
    BY <1>6, <2>1, InOrderIsSequence, LengthOfSequence DEF ResponseShape
  <2>3. Seen' = Seen
    BY <1>0, <2>1 DEF Seen
  <2> QED BY <1>0, <1>6, <2>1, <2>2, <2>3 DEF ResponseShape, ResponseArray
<1>7. CASE Rest
  BY <1>7, <1>0 DEF Rest, walkVars, ResponseShape, ResponseArray, Seen
<1> QED BY <1>1, <1>2, <1>3, <1>4, <1>5, <1>6, <1>7, StepsOf
-----------------------------------------------------------------------------
(* Objects and headers *)

(* A string or number is filled in: the walk goes on behind its text.       *)
LEMMA PutKeepsObject ==
  ASSUME IInv, Filling, phase = "fill", NEW k, k = order[pos + 1], pos < Len(order),
         k[1] # "other", k \notin opaque, KeepTable, KeepShape,
         Put(Text(k), k), GoOnBehind(Text(k))
  PROVE  ObjectFill' /\ PlainObject'
<1> USE DEF IInv
<1>1. /\ pos \in 0..Len(order) /\ pos + 1 \in 1..Len(order) /\ Len(order) \in Nat
      /\ k \in Key /\ k \in keys
  BY OrderFacts DEF TypeOK, Filling
<1>2. /\ keys' = keys /\ UNCHANGED <<by, order, opaque, isArray>> /\ NoNumbers' = NoNumbers
      /\ \A j : Jumped(j)' = Jumped(j)
  BY TableKept DEF KeepShape
<1>3. /\ Text(k) \in Key /\ k # Absent /\ k[1] \in {"num", "text"}
      /\ Text(k)[1] = "text" /\ Text(Text(k)) = Text(k) /\ (k[1] = "text" => Text(k) = k)
  BY <1>1, KeyFacts
<1>4. /\ out' = [out EXCEPT ![Text(k)] = k] /\ out'[Text(k)] = k
      /\ \A m \in Key : out[m] # Absent => out'[m] # Absent
  BY <1>3 DEF Put, TypeOK
<1>5. CASE Text(k) \notin keys
  <2>1. k[1] = "num"
    BY <1>1, <1>3, <1>5
  <2>2. phase' = "raised"
    BY <1>5 DEF GoOnBehind
  <2> QED BY <1>1, <1>2, <1>5, <2>1, <2>2 DEF ObjectFill, PlainObject, Filling
<1>6. CASE Text(k) \in keys
  <2>1. PICK i \in 1..Len(order) : Text(k) = order[i]
    BY <1>6, OrderFacts
  <2>2. pos' = i /\ phase' = "fill"
    BY <1>6, <2>1, Found DEF GoOnBehind
  <2>3. ASSUME NEW j \in 1..pos'
        PROVE  \/ order[j][1] = "other" \/ order[j] \in opaque
               \/ out'[Text(order[j])] # Absent \/ Jumped(j)
    <3>1. j \in 1..Len(order) /\ j \in Int /\ pos \in Int /\ i \in Int
      BY <1>1, <2>2
    <3>2. CASE j <= pos
      <4>1. \/ order[j][1] = "other" \/ order[j] \in opaque
            \/ out[Text(order[j])] # Absent \/ Jumped(j)
        BY <3>1, <3>2 DEF ObjectFill
      <4>2. order[j][1] = "other" \/ Text(order[j]) \in Key
        BY <3>1, KeyFacts, OrderFacts
      <4> QED BY <1>4, <4>1, <4>2
    <3>3. CASE j = pos + 1 \/ j = i
      <4>1. Text(order[j]) = Text(k)
        BY <1>3, <2>1, <3>3
      <4> QED BY <1>3, <1>4, <4>1
    <3>4. CASE pos + 1 < j /\ j < i
      <4>1. k[1] = "num"
        <5>1. SUFFICES ASSUME k[1] = "text" PROVE FALSE
          BY <1>3
        <5>2. order[i] = order[pos + 1]
          BY <1>3, <2>1, <5>1
        <5>3. i = pos + 1
          BY <1>1, <5>2, OrderFacts
        <5> QED BY <3>1, <3>4, <5>3
      <4>2. pos + 1 \in DOMAIN order /\ i \in DOMAIN order
        BY <1>1, OrderFacts
      <4> QED BY <2>1, <3>4, <4>1, <4>2 DEF Jumped
    <3> QED BY <2>2, <3>1, <3>2, <3>3, <3>4
  <2>4. ObjectFill'
    BY <1>2, <2>2, <2>3 DEF ObjectFill
  <2>5. ASSUME by = "response", NoNumbers
        PROVE  /\ \A m \in Key : out'[m] = IF m \in Seen' /\ IsText(m) THEN m ELSE Absent
               /\ \A m \in Seen' : IsText(m) => m \notin opaque
    <3>1. k[1] = "text" /\ Text(k) = k
      BY <1>1, <1>3, <2>5 DEF NoNumbers
    <3>2. i = pos + 1
      BY <1>1, <2>1, <3>1, OrderFacts
    <3>3. Seen' = Seen \cup {k}
      BY <1>1, <2>2, <3>2, SeenGrows
    <3>4. /\ \A m \in Key : out[m] = IF m \in Seen /\ IsText(m) THEN m ELSE Absent
          /\ \A m \in Seen : IsText(m) => m \notin opaque
      BY <2>5 DEF PlainObject
    <3> QED BY <1>1, <1>4, <3>1, <3>3, <3>4 DEF IsText, TypeOK
  <2>6. PlainObject'
    BY <1>2, <2>2, <2>5 DEF PlainObject
  <2> QED BY <2>4, <2>6
<1> QED BY <1>5, <1>6

(* A key that is passed over adds nothing.                                  *)
LEMMA SkipKeepsObject ==
  ASSUME IInv, Filling, phase = "fill", NEW k, k = order[pos + 1], pos < Len(order),
         k[1] = "other" \/ (k \in opaque /\ by = "headers"), KeepTable, KeepShape,
         Advance, UNCHANGED out
  PROVE  ObjectFill' /\ PlainObject'
<1> USE DEF IInv
<1>1. /\ pos \in 0..Len(order) /\ Len(order) \in Nat
      /\ 1..(pos + 1) = 1..pos \cup {pos + 1}
  BY OrderFacts DEF TypeOK, Filling
<1>2. /\ keys' = keys /\ UNCHANGED <<by, order, opaque, isArray>> /\ NoNumbers' = NoNumbers
      /\ \A j : Jumped(j)' = Jumped(j)
  BY TableKept DEF KeepShape
<1>3. pos' = pos + 1 /\ phase' = "fill"
  BY DEF Advance
<1>4. ObjectFill'
  BY <1>1, <1>2, <1>3 DEF ObjectFill
<1>5. Seen' = Seen \cup {k}
  BY <1>1, <1>3, SeenGrows
<1>6. by = "response" => ~IsText(k)
  BY DEF IsText, Filling
<1>7. PlainObject'
  BY <1>2, <1>3, <1>5, <1>6 DEF PlainObject, Filling
<1> QED BY <1>4, <1>7

LEMMA ObjectStep ==
  ASSUME IInv, Next
  PROVE  ObjectFill' /\ PlainObject'
<1> USE DEF IInv
<1>0. /\ KeepTable /\ keys' = keys /\ UNCHANGED <<by, order, opaque>>
      /\ NoNumbers' = NoNumbers /\ \A j : Jumped(j)' = Jumped(j)
  BY StepsOf, TableKept
<1>1. CASE by \in {"route", "bind"}
  BY <1>0, <1>1 DEF ObjectFill, PlainObject, Filling
<1>2. ASSUME by = "response", NEW k \in keys, ResponseExpects(k)
      PROVE  ObjectFill' /\ PlainObject'
  <2>1. phase' = "shape"
    BY <1>2 DEF ResponseExpects, Visits, Advance
  <2> QED BY <2>1 DEF ObjectFill, PlainObject, Filling
<1>3. CASE by = "response" /\ ResponseDecides
  <2>1. phase = "shape" /\ phase' = "fill" /\ pos' = 0 /\ UNCHANGED out
    BY <1>3 DEF ResponseDecides
  <2>2. Seen' = {} /\ 1..pos' = {} /\ \A m \in Key : out'[m] = Absent
    BY <1>3, <2>1 DEF Seen, ResponseShape
  <2> QED BY <2>1, <2>2 DEF ObjectFill, PlainObject
<1>4. CASE by = "response" /\ ResponseAppends
  <2>1. isArray' /\ by' = "response"
    BY <1>4, <1>0 DEF ResponseAppends, KeepShape
  <2> QED BY <2>1 DEF ObjectFill, PlainObject, Filling
<1>5. ASSUME by = "response", NEW k \in keys, ResponseFills(k)
      PROVE  ObjectFill' /\ PlainObject'
  <2>1. /\ Filling /\ phase = "fill" /\ k = order[pos + 1] /\ pos < Len(order)
        /\ KeepShape
    BY <1>5 DEF ResponseFills, Visits, Filling
  <2>2. CASE k \in opaque /\ Raise
    BY <1>0, <1>5, <2>2 DEF Raise, ObjectFill, PlainObject
  <2> QED BY <1>0, <1>5, <2>1, <2>2, SkipKeepsObject, PutKeepsObject DEF ResponseFills
<1>6. ASSUME by = "headers", NEW k \in keys, HeaderAdds(k)
      PROVE  ObjectFill' /\ PlainObject'
  <2>1. /\ Filling /\ phase = "fill" /\ k = order[pos + 1] /\ pos < Len(order)
        /\ KeepShape
    BY <1>6 DEF HeaderAdds, Visits, Filling
  <2> QED BY <1>0, <1>6, <2>1, SkipKeepsObject, PutKeepsObject DEF HeaderAdds
<1>7. CASE by \in {"response", "headers"} /\ FillEnds
  <2>1. /\ phase = "fill" /\ phase' = "done" /\ UNCHANGED <<pos, out, isArray>>
        /\ by = "headers" \/ ~isArray => pos = Len(order)
    BY <1>7 DEF FillEnds, KeepShape
  <2>2. Seen' = Seen
    BY <1>0, <2>1 DEF Seen
  <2> QED BY <1>0, <1>7, <2>1, <2>2 DEF ObjectFill, PlainObject, Filling
<1>8. CASE Rest
  BY <1>8, <1>0 DEF Rest, walkVars, ObjectFill, PlainObject, Filling, Seen
<1> QED BY <1>1, <1>2, <1>3, <1>4, <1>5, <1>6, <1>7, <1>8, StepsOf DEF TypeOK
-----------------------------------------------------------------------------
(* Parameters *)

LEMMA BindStep ==
  ASSUME IInv, Next
  PROVE  BindFill'
<1> USE DEF IInv
<1>0. KeepTable /\ keys' = keys /\ UNCHANGED <<by, order, opaque, length>>
  BY StepsOf, TableKept
<1>1. CASE by # "bind"
  BY <1>0, <1>1 DEF BindFill
<1>2. CASE by = "bind" /\ Bind
  <2> DEFINE k == Num(pos + 1)
  <2>1. pos \in Nat /\ phase = "fill" /\ pos < length
    BY <1>2, LengthFacts DEF Bind, TypeOK
  <2>2. opaque \subseteq keys
    BY DEF TypeOK
  <2>3. CASE k \in opaque
    <3>1. phase' = "raised" /\ UNCHANGED <<pos, out>>
      BY <1>2, <2>2, <2>3 DEF Bind, Raise
    <3> QED BY <1>0, <1>2, <2>3, <3>1 DEF BindFill
  <2>4. CASE k \notin opaque
    <3>1. /\ pos' = pos + 1 /\ UNCHANGED phase
          /\ out' = [out EXCEPT ![k] = IF k \in keys THEN k ELSE Null]
      BY <1>2, <2>4 DEF Bind, Put, Advance
    <3>2. {Num(i) : i \in 1..pos'} = {Num(i) : i \in 1..pos} \cup {k}
      <4>1. 1..(pos + 1) = 1..pos \cup {pos + 1}
        BY <2>1
      <4> QED BY <3>1, <4>1
    <3>3. \A m \in Key : out[m] = IF m \in {Num(i) : i \in 1..pos}
                                   THEN IF m \in keys THEN m ELSE Null ELSE Absent
      BY <1>2 DEF BindFill
    <3>4. \A m \in Key : out'[m] = IF m \in {Num(i) : i \in 1..pos'}
                                    THEN IF m \in keys THEN m ELSE Null ELSE Absent
      BY <3>1, <3>2, <3>3 DEF TypeOK
    <3> QED BY <1>0, <1>2, <2>1, <3>1, <3>4 DEF BindFill
  <2> QED BY <2>3, <2>4
<1>3. CASE by = "bind" /\ FillEnds
  BY <1>0, <1>3 DEF FillEnds, BindFill
<1>4. CASE Rest
  BY <1>0, <1>4 DEF Rest, walkVars, BindFill
<1> QED BY <1>1, <1>2, <1>3, <1>4, StepsOf

LEMMA NextIInv == IInv /\ [Next]_walkVars => IInv'
<1> SUFFICES ASSUME IInv, [Next]_walkVars PROVE IInv'
  OBVIOUS
<1>1. CASE Next
  BY <1>1, Types, RouteStep, ResponseStep, ObjectStep, BindStep DEF IInv
<1>2. CASE UNCHANGED walkVars
  <2>1. TypeOK' /\ Shaping' /\ BindFill'
    BY <1>2 DEF IInv, walkVars, TypeOK, Shaping, BindFill, keys
  <2>2. RouteShape' /\ RouteFill' /\ ResponseShape' /\ ResponseArray'
    BY <1>2 DEF IInv, walkVars, RouteShape, RouteFill, ResponseShape, ResponseArray, Seen,
                IsSequence, InOrder, keys
  <2>3. ObjectFill' /\ PlainObject'
    BY <1>2 DEF IInv, walkVars, ObjectFill, PlainObject, Filling, Jumped, Seen, NoNumbers, keys
  <2> QED BY <2>1, <2>2, <2>3 DEF IInv
<1> QED BY <1>1, <1>2

THEOREM Invariance == Safety => []IInv
BY InitIInv, NextIInv, PTL DEF Safety
-----------------------------------------------------------------------------
(* The results *)

(* Every variable keeps its type: a walk stays inside the table.            *)
THEOREM TypeCorrect == Safety => []TypeOK
<1>1. IInv => TypeOK
  BY DEF IInv
<1> QED BY <1>1, Invariance, PTL

(* What luaTableToJson makes of a table, whatever order it is walked in.    *)
LEMMA RouteResult == IInv /\ by = "route" /\ phase = "done" => out = Expected
<1> SUFFICES ASSUME IInv, by = "route", phase = "done" PROVE out = Expected
  OBVIOUS
<1>1. Seen = keys
  BY SeenAll DEF IInv, RouteFill
<1>2. \A m \in Key : out[m] = Expected[m]
  BY <1>1 DEF IInv, RouteFill, Expected
<1> QED BY <1>2 DEF IInv, TypeOK, Expected

(* luaTableToJson finds the sequences in every order, and Response:json     *)
(* gives the same where it may (LuaRoutes.cc:109, LuaResponse.cc:82).       *)
THEOREM ConversionIsExact == Safety => []ConvertersAgree
<1>1. ASSUME IInv, by = "response", phase = "done", InOrder PROVE out = Expected
  <2>1. isArray /\ IsSequence /\ Seen = keys
    BY <1>1, InOrderIsSequence, SeenAll DEF IInv, ResponseShape, ResponseArray
  <2>2. \A m \in Key : out[m] = Expected[m]
    BY <1>1, <2>1 DEF IInv, ResponseArray, Expected
  <2> QED BY <1>1, <2>2 DEF IInv, TypeOK, Expected
<1>2. ASSUME IInv, by = "response", phase = "done", NoNumbers, ~InOrder PROVE out = Expected
  <2>1. Filling /\ Seen = keys
    BY <1>2, SeenAll DEF IInv, ResponseShape, ObjectFill, Filling
  <2>2. ~IsSequence
    <3>1. SUFFICES ASSUME IsSequence PROVE FALSE
      OBVIOUS
    <3>2. \A n \in 1..Len(order) : Num(n) \in keys
      BY <3>1 DEF IsSequence
    <3>3. Len(order) \in Nat /\ 1..Len(order) = {}
      BY <1>2, <3>2, NumFacts, OrderFacts DEF NoNumbers, IInv
    <3> QED BY <1>2, <3>3, OrderFacts DEF InOrder, IInv
  <2>3. \A m \in Key : out[m] = Expected[m]
    BY <1>2, <2>1, <2>2 DEF IInv, PlainObject, Expected
  <2> QED BY <1>2, <2>3 DEF IInv, TypeOK, Expected
<1>3. IInv => ConvertersAgree
  BY <1>1, <1>2, RouteResult DEF ConvertersAgree
<1> QED BY <1>3, Invariance, PTL

(* Only what lies between a number and its text can be missing from an      *)
(* object or the headers (LuaResponse.cc:139, LuaHttp.cc:307).              *)
THEOREM LossIsByJumps == Safety => []LostOnlyByJumps
<1>1. IInv => LostOnlyByJumps
  <2> SUFFICES ASSUME IInv, phase = "done", Filling, NEW j \in DOMAIN order,
                      order[j][1] # "other", order[j] \notin opaque,
                      out[Text(order[j])] = Absent
               PROVE  Jumped(j)
    BY DEF LostOnlyByJumps, Filling, Jumped
  <2>1. pos = Len(order) /\ j \in 1..pos
    BY OrderFacts DEF IInv, ObjectFill
  <2> QED BY <2>1 DEF IInv, ObjectFill
<1> QED BY <1>1, Invariance, PTL

(* A conversion raises an error for a value that has no JSON form or a      *)
(* number without its text only, and never for a table route.               *)
THEOREM RaisesAreKnown == Safety => []RaisesOnlyFor
<1>1. IInv => RaisesOnlyFor
  BY DEF IInv, TypeOK, RaisesOnlyFor, Shaping, RouteFill, ResponseArray, ObjectFill, Filling,
         BindFill
<1> QED BY <1>1, Invariance, PTL

(* bindLuaParameters binds in place and skips no placeholder, and leaves    *)
(* values out only behind a nil (LuaDbUtils.h:19-22).                       *)
THEOREM ParametersKeepPlace == Safety => []ParametersInPlace
<1>1. IInv => ParametersInPlace
  <2> SUFFICES ASSUME IInv, phase = "done", by = "bind", NEW k \in Key
               PROVE  /\ out[k] # Absent => IsIndex(k) /\ out[k] = IF k \in keys THEN k ELSE Null
                      /\ IsIndex(k) /\ out[k] = Absent =>
                           /\ \A m \in Key : IsIndex(m) /\ m[2] > k[2] => out[m] = Absent
                           /\ k \in keys => \E hole \in 1..(k[2] - 1) : Num(hole) \notin keys
    BY DEF ParametersInPlace
  <2> DEFINE Bound == {Num(i) : i \in 1..length}
  <2>1. \A m \in Key : out[m] = IF m \in Bound THEN IF m \in keys THEN m ELSE Null ELSE Absent
    BY DEF IInv, BindFill
  <2>2. length \in Nat /\ Num(length + 1) \notin keys
    BY LengthFacts DEF IInv
  <2> HIDE DEF Bound
  <2>0. ASSUME NEW m \in Key, IsIndex(m) PROVE m[2] \in Int /\ m[2] > 0 /\ m = Num(m[2])
    BY <2>0, KeyFacts, TableAssumption DEF IsIndex
  <2>3. ASSUME NEW m \in Key PROVE m \in Bound <=> IsIndex(m) /\ m[2] <= length
    <3>1. ASSUME m \in Bound PROVE IsIndex(m) /\ m[2] <= length
      BY <2>2, <3>1, NumFacts DEF IsIndex, Bound
    <3>2. ASSUME IsIndex(m), m[2] <= length PROVE m \in Bound
      <4>1. m = Num(m[2]) /\ m[2] \in 1..length
        BY <2>0, <2>2, <3>2
      <4> QED BY <4>1 DEF Bound
    <3> QED BY <3>1, <3>2
  <2>4. out[k] # Absent => IsIndex(k) /\ out[k] = IF k \in keys THEN k ELSE Null
    BY <2>1, <2>3
  <2>5. ASSUME IsIndex(k), out[k] = Absent
        PROVE  /\ \A m \in Key : IsIndex(m) /\ m[2] > k[2] => out[m] = Absent
               /\ k \in keys => \E hole \in 1..(k[2] - 1) : Num(hole) \notin keys
    <3>1. ~(k[2] <= length) /\ k[2] \in Int
      <4>1. k # Absent /\ Null # Absent
        BY KeyFacts DEF Null, Absent
      <4>2. k \notin Bound
        BY <2>1, <2>5, <4>1
      <4> QED BY <2>0, <2>3, <2>5, <4>2
    <3>2. ASSUME NEW m \in Key, IsIndex(m), m[2] > k[2] PROVE out[m] = Absent
      <4>1. m[2] \in Int
        BY <2>0, <3>2
      <4>2. ~(m[2] <= length)
        BY <2>2, <3>1, <3>2, <4>1
      <4> QED BY <2>1, <2>3, <4>2
    <3>3. ASSUME k \in keys PROVE length + 1 \in 1..(k[2] - 1)
      <4>1. k = Num(k[2])
        BY <2>0, <2>5
      <4>2. k[2] # length + 1
        BY <2>2, <3>3, <4>1
      <4> QED BY <2>2, <3>1, <4>2
    <3> QED BY <2>2, <3>2, <3>3
  <2> QED BY <2>4, <2>5
<1> QED BY <1>1, Invariance, PTL

(* The tables that come back from a table route as they were.               *)
THEOREM RoundTripIsExact == Safety => []SurvivesRoundTrip
<1>1. IInv => SurvivesRoundTrip
  <2> SUFFICES ASSUME IInv, phase = "done", by = "route"
               PROVE  ReadBack(out) = [k \in Key |-> IF k \in keys THEN k ELSE Absent]
                        <=> opaque = {} /\ (IsSequence \/ \A k \in keys : IsText(k))
    BY DEF SurvivesRoundTrip
  <2> DEFINE Same == [k \in Key |-> IF k \in keys THEN k ELSE Absent]
             Kept(k) == k \in keys /\ k \notin opaque /\ (IsSequence \/ IsText(k))
  <2>1. opaque \subseteq keys /\ keys \subseteq Key
    BY OrderFacts DEF IInv, TypeOK
  <2>2. ASSUME NEW k \in Key PROVE ReadBack(out)[k] = IF Kept(k) THEN k ELSE Absent
    <3>1. out[k] = IF k \in keys /\ (IsSequence \/ IsText(k))
                     THEN IF k \in opaque THEN Null ELSE k ELSE Absent
      BY RouteResult DEF Expected
    <3>2. k # Null /\ Null # Absent
      BY KeyFacts DEF Null, Absent
    <3> QED BY <3>1, <3>2 DEF ReadBack, JsonToLua
  <2>3. ReadBack(out) = Same <=> \A k \in Key : ReadBack(out)[k] = Same[k]
    BY DEF ReadBack, JsonToLua
  <2>4. (\A k \in Key : ReadBack(out)[k] = Same[k]) <=> \A k \in keys : Kept(k)
    BY <2>1, <2>2, KeyFacts
  <2> QED BY <2>1, <2>3, <2>4
<1> QED BY <1>1, Invariance, PTL
-----------------------------------------------------------------------------
(* The key that lua_next looks up lies behind the last one, unless a number *)
(* follows its own text.                                                    *)
LEMMA ForwardGetsFurther ==
  ASSUME TypeOK, Forward, NEW user \in {"response", "headers"}, NEW k, k[1] # "other",
         Visits(user, "fill", k), GoOnBehind(Text(k))
  PROVE  phase' = "raised" \/ (phase' = phase /\ pos' > pos)
<1>1. /\ pos + 1 \in 1..Len(order) /\ pos \in 0..Len(order) /\ Len(order) \in Nat
      /\ k = order[pos + 1] /\ k \in Key /\ DOMAIN order = 1..Len(order)
  BY OrderFacts, VisitFacts
<1>2. CASE Text(k) \notin keys
  BY <1>2 DEF GoOnBehind
<1>3. CASE Text(k) \in keys
  <2>1. PICK i \in 1..Len(order) : Text(k) = order[i]
    BY <1>3, OrderFacts
  <2>2. pos' = i /\ phase' = phase
    BY <1>3, <2>1, Found DEF GoOnBehind
  <2>3. CASE k[1] = "num"
    <3>1. pos + 1 < i
      BY <1>1, <2>1, <2>3 DEF Forward
    <3> QED BY <1>1, <2>2, <3>1
  <2>4. CASE k[1] = "text"
    <3>1. i = pos + 1
      BY <1>1, <2>1, <2>4, KeyFacts, OrderFacts
    <3> QED BY <1>1, <2>2, <3>1
  <2> QED BY <1>1, <2>3, <2>4, KeyFacts
<1> QED BY <1>2, <1>3

(* Each walk that AlwaysEnds comes nearer to its end by every step: with    *)
(* pos inside the table (TypeCorrect) there are only so many.               *)
THEOREM WalksGetFurther == Safety => GetsFurther
<1> DEFINE Further == \/ phase = "shape" /\ phase' = "fill"
                      \/ phase' \in {"done", "raised"}
                      \/ phase' = phase /\ pos' > pos
<1>1. ASSUME TypeOK, AlwaysEnds, Next PROVE Further \/ UNCHANGED walkVars
  <2>1. pos \in Nat
    BY <1>1, OrderFacts, LengthFacts DEF TypeOK
  <2>2. Advance => Further
    BY <2>1 DEF Advance
  <2>3. Raise => Further
    BY DEF Raise
  <2>4. ASSUME NEW k \in keys, ResponseFills(k) PROVE Further
    <3>1. Visits("response", "fill", k) /\ by = "response"
      BY <2>4 DEF ResponseFills, Visits
    <3> QED BY <1>1, <2>2, <2>3, <2>4, <3>1, ForwardGetsFurther DEF AlwaysEnds, ResponseFills
  <2>5. ASSUME NEW k \in keys, HeaderAdds(k) PROVE Further
    <3>1. Visits("headers", "fill", k) /\ by = "headers"
      BY <2>5 DEF HeaderAdds, Visits
    <3> QED BY <1>1, <2>2, <2>3, <2>5, <3>1, ForwardGetsFurther DEF AlwaysEnds, HeaderAdds
  <2>6. ASSUME NEW k \in keys, RouteCounts(k) \/ RouteFills(k) \/ ResponseExpects(k)
        PROVE  Further
    BY <2>2, <2>6 DEF RouteCounts, RouteFills, ResponseExpects
  <2>7. CASE RouteDecides \/ ResponseDecides \/ FillEnds
    BY <2>7 DEF RouteDecides, ResponseDecides, FillEnds
  <2>8. CASE ResponseAppends \/ Bind
    BY <2>2, <2>3, <2>8 DEF ResponseAppends, Bind
  <2> QED BY <1>1, <2>4, <2>5, <2>6, <2>7, <2>8 DEF Next, Rest
<1>2. TypeOK /\ [Next]_walkVars => [AlwaysEnds => Further]_walkVars
  BY <1>1
<1> QED BY <1>2, TypeCorrect, PTL DEF Safety, GetsFurther
=============================================================================
