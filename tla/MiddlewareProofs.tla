--------------------------- MODULE MiddlewareProofs ---------------------------
(***************************************************************************)
(* Proofs about Middleware for chains of any length and any number of      *)
(* calls of next(), in synchronous and in asynchronous routes.             *)
(***************************************************************************)
EXTENDS Middleware, TLAPS

Domain == TypeOK /\ (raising => at > 0) /\ (mode = "sync" => ~again)

(* The layers that were entered: in a synchronous walk those above the one  *)
(* that runs, in an asynchronous one all that the shared index has passed.  *)
(* The handler of the latter runs only when the index has reached the end.  *)
Entered ==
  /\ mode = "sync" => \A p \in 1..at : p \in visited
  /\ mode = "async" => /\ \A p \in 1..size : p <= index + 1 => p \in visited
                       /\ at = size + 1 => index >= size

(* The layers above the running one were entered one by one, and each is    *)
(* waiting for the next() that it called.                                   *)
Nested == /\ \A p \in 1..at : caller[p] = p - 1
          /\ \A p \in 1..(at - 1) : nexts[p] > 0

(* The shared index is that of the running layer as long as the layer has   *)
(* not called next(), and then no handler has run yet.                      *)
IndexFollows ==
  mode = "async" =>
    /\ \A p \in Layers : nexts[p] <= 1
    /\ at > 0 /\ nexts[at] = 0 => index = at - 1 /\ response = "res"

IInv == Domain /\ Entered /\ (~again => Nested /\ IndexFollows)
-----------------------------------------------------------------------------
LEMMA SizeIsPositive ==
  ASSUME size \in Sizes PROVE size \in Nat \ {0} /\ Layers = 1..(size + 1)
BY MiddlewareAssumption DEF Layers

LEMMA InitIInv == Init => IInv
<1> SUFFICES ASSUME Init PROVE IInv
  OBVIOUS
<1>1. size \in Nat \ {0} /\ Layers = 1..(size + 1)
  BY SizeIsPositive DEF Init
<1>2. caller \in [Layers -> 0..size] /\ nexts \in [Layers -> Nat]
  BY <1>1 DEF Init
<1>3. Domain
  <2>1. /\ mode \in {"sync", "async"} /\ size \in Sizes /\ index = 0 /\ at = 1
        /\ response = "res" /\ raising = FALSE /\ freed = FALSE /\ marked = FALSE
        /\ dangling = FALSE /\ reply = "none" /\ visited = {1} /\ again = FALSE
    BY DEF Init
  <2>2. at \in 0..(size + 1) /\ index \in Nat /\ visited \subseteq Layers
    BY <1>1, <2>1
  <2> QED BY <1>2, <2>1, <2>2 DEF Domain, TypeOK
<1>4. Nested /\ IndexFollows /\ Entered
  BY <1>1 DEF Init, Nested, IndexFollows, Entered
<1> QED BY <1>3, <1>4 DEF IInv

(* next() enters some layer; it is the one below unless an asynchronous     *)
(* middleware has called it again, because the index then follows the       *)
(* running layer.                                                           *)
LEMMA NextEnters ==
  ASSUME IInv, NextSync \/ NextAsync
  PROVE  /\ at \in 1..size /\ ~raising
         /\ UNCHANGED <<mode, size, response, raising, freed, marked, dangling, reply>>
         /\ index' \in Nat
         /\ \E p \in Layers : Descend(p)
         /\ again' \in BOOLEAN /\ (again => again') /\ (mode = "sync" => again' = again)
         /\ mode = "async" => /\ index' = index + 1
                              /\ Descend(IF index' < size THEN index' + 1 ELSE size + 1)
         /\ ~again' => Descend(at + 1)
         /\ mode = "async" /\ ~again' => index' = at /\ nexts[at] = 0
<1> USE DEF IInv, Domain
<1>1. /\ size \in Nat \ {0} /\ Layers = 1..(size + 1) /\ index \in Nat
      /\ nexts \in [Layers -> Nat] /\ mode \in {"sync", "async"} /\ again \in BOOLEAN
  BY SizeIsPositive DEF TypeOK
<1>2. at \in 1..size /\ ~raising
      /\ UNCHANGED <<mode, size, response, raising, freed, marked, dangling, reply>>
  BY DEF NextSync, NextAsync, Middle, Running
<1>3. nexts[at] \in Nat
  BY <1>1, <1>2
<1>4. CASE NextSync
  BY <1>1, <1>2, <1>4 DEF NextSync
<1>5. CASE NextAsync
  <2> DEFINE p == IF index' < size THEN index' + 1 ELSE size + 1
  <2>1. /\ index' = index + 1 /\ Descend(p) /\ mode = "async"
        /\ again' = (again \/ nexts[at] > 0)
    BY <1>5 DEF NextAsync, Handler
  <2>2. p \in Layers
    BY <1>1, <2>1
  <2>3. ASSUME ~again' PROVE index' = at /\ nexts[at] = 0 /\ p = at + 1
    <3>1. nexts[at] = 0 /\ ~again
      <4>1. ~(nexts[at] > 0) /\ ~again
        BY <2>1, <2>3, Zenon
      <4> QED BY <1>3, <4>1
    <3>2. index = at - 1
      BY <1>2, <2>1, <3>1 DEF IndexFollows
    <3> QED BY <1>1, <1>2, <2>1, <3>1, <3>2
  <2>4. again' \in BOOLEAN /\ (again => again')
    BY <1>1, <2>1
  <2>5. Descend(IF index' < size THEN index' + 1 ELSE size + 1)
    BY <2>1
  <2> HIDE DEF p
  <2> QED BY <1>1, <1>2, <2>1, <2>2, <2>3, <2>4, <2>5
<1> QED BY <1>4, <1>5

LEMMA NextKeepsIInv ==
  ASSUME IInv, NextSync \/ NextAsync
  PROVE  IInv'
<1>1. /\ size \in Nat \ {0} /\ Layers = 1..(size + 1)
      /\ caller \in [Layers -> 0..size] /\ nexts \in [Layers -> Nat] /\ TypeOK
  BY SizeIsPositive DEF IInv, Domain, TypeOK
<1>2. /\ at \in 1..size /\ ~raising /\ Layers' = Layers
      /\ UNCHANGED <<mode, size, response, raising, freed, marked, dangling, reply>>
      /\ index' \in Nat
  BY NextEnters DEF Layers
<1>3. Domain'
  <2>1. PICK p \in Layers : Descend(p)
    BY NextEnters
  <2>2. at' \in 0..(size + 1)
    BY <1>1, <2>1 DEF Descend
  <2>3. caller' \in [Layers -> 0..size]
    BY <1>1, <1>2, <2>1 DEF Descend
  <2>4. nexts' \in [Layers -> Nat]
    <3>1. nexts[at] + 1 \in Nat
      BY <1>1, <1>2
    <3> QED BY <1>1, <2>1, <3>1 DEF Descend
  <2>5. visited' \subseteq Layers /\ again' \in BOOLEAN /\ (mode = "sync" => ~again')
    BY <1>1, <2>1, NextEnters DEF Descend, IInv, Domain, TypeOK
  <2> QED BY <1>1, <1>2, <2>2, <2>3, <2>4, <2>5 DEF TypeOK, Domain
<1>4. Entered'
  <2>1. /\ index \in Nat /\ mode \in {"sync", "async"} /\ Entered
        /\ mode = "sync" => ~again
    BY <1>1 DEF IInv, Domain, TypeOK
  <2>2. CASE mode = "sync"
    <3>1. at' = at + 1 /\ visited' = visited \cup {at + 1}
      BY <2>1, <2>2, NextEnters DEF Descend
    <3> QED BY <1>2, <2>1, <2>2, <3>1 DEF Entered
  <2>3. CASE mode = "async"
    <3>1. /\ index' = index + 1 /\ visited' = visited \cup {at'}
          /\ at' = IF index' < size THEN index' + 1 ELSE size + 1
      BY <2>3, NextEnters DEF Descend
    <3>2. ASSUME NEW q \in 1..size, q <= index' + 1 PROVE q \in visited'
      <4>1. CASE q <= index + 1
        BY <2>1, <2>3, <3>1, <3>2, <4>1 DEF Entered
      <4>2. CASE ~(q <= index + 1)
        <5>1. q = index' + 1 /\ index' < size
          BY <1>1, <2>1, <3>1, <3>2, <4>2
        <5> QED BY <3>1, <5>1
      <4> QED BY <4>1, <4>2
    <3>3. at' = size + 1 => index' >= size
      BY <1>1, <1>2, <3>1
    <3> QED BY <1>2, <2>3, <3>2, <3>3 DEF Entered
  <2> QED BY <2>1, <2>2, <2>3
<1>5. ASSUME ~again' PROVE Nested' /\ IndexFollows'
  <2> Descend(at + 1)
    BY <1>5, NextEnters
  <2>1. /\ at' = at + 1 /\ at + 1 \in Layers /\ at \in Layers /\ at + 1 # at
        /\ caller' = [caller EXCEPT ![at + 1] = at]
        /\ nexts' = [nexts EXCEPT ![at] = @ + 1, ![at + 1] = 0]
    BY <1>1, <1>2 DEF Descend
  <2>2. /\ nexts'[at] = nexts[at] + 1 /\ nexts'[at + 1] = 0
        /\ \A q \in Layers \ {at, at + 1} : nexts'[q] = nexts[q]
        /\ caller'[at + 1] = at
        /\ \A q \in Layers \ {at + 1} : caller'[q] = caller[q]
    BY <1>1, <2>1
  <2>3. Nested
    BY <1>5, NextEnters DEF IInv
  <2>4. ASSUME NEW q \in 1..at' PROVE caller'[q] = q - 1
    <3>1. CASE q = at + 1
      BY <1>2, <2>2, <3>1
    <3>2. CASE q # at + 1
      <4>1. q \in 1..at /\ q \in Layers \ {at + 1}
        BY <1>1, <1>2, <2>1, <2>4, <3>2
      <4> QED BY <2>2, <2>3, <4>1 DEF Nested
    <3> QED BY <3>1, <3>2
  <2>5. ASSUME NEW q \in 1..(at' - 1) PROVE nexts'[q] > 0
    <3>1. CASE q = at
      <4>1. nexts[at] \in Nat
        BY <1>1, <2>1
      <4> QED BY <2>2, <3>1, <4>1
    <3>2. CASE q # at
      <4>1. q \in 1..(at - 1) /\ q \in Layers \ {at, at + 1}
        BY <1>1, <1>2, <2>1, <2>5, <3>2
      <4> QED BY <2>2, <2>3, <4>1 DEF Nested
    <3> QED BY <3>1, <3>2
  <2>6. IndexFollows'
    <3> SUFFICES ASSUME mode = "async" PROVE IndexFollows'
      BY <1>2 DEF IndexFollows
    <3>1. index' = at /\ nexts[at] = 0 /\ response = "res"
          /\ \A q \in Layers : nexts[q] <= 1
      BY <1>2, <1>5, NextEnters DEF IndexFollows, IInv
    <3> QED BY <1>1, <1>2, <2>1, <2>2, <3>1 DEF IndexFollows
  <2> QED BY <2>4, <2>5, <2>6 DEF Nested
<1> QED BY <1>2, <1>3, <1>4, <1>5 DEF IInv

(* A layer that returns or fails leaves to the one whose next() entered it, *)
(* which is the one above it where the layers are nested.                   *)
LEMMA LeavingKeepsIInv ==
  ASSUME IInv, at > 0, at' = caller[at], TypeOK', raising' => at' > 0,
         UNCHANGED <<mode, size, index, caller, nexts, visited, again>>
  PROVE  IInv'
<1>1. /\ size \in Nat \ {0} /\ Layers = 1..(size + 1) /\ at \in 1..(size + 1)
      /\ mode \in {"sync", "async"} /\ nexts \in [Layers -> Nat]
  <2>1. TypeOK
    BY DEF IInv, Domain
  <2>2. size \in Nat \ {0} /\ Layers = 1..(size + 1) /\ at \in 0..(size + 1)
    BY <2>1, SizeIsPositive DEF TypeOK
  <2>3. at \in 1..(size + 1)
    BY <2>2
  <2> QED BY <2>1, <2>2, <2>3 DEF TypeOK
<1>2. Domain' /\ Layers' = Layers
  BY DEF IInv, Domain, Layers
<1>3. Entered'
  <2>1. Entered /\ caller[at] \in 0..size /\ at' \in 0..size
    BY <1>1 DEF IInv, Domain, TypeOK
  <2>2. ASSUME mode = "sync" PROVE at' = at - 1
    BY <1>1, <2>2 DEF IInv, Domain, Nested
  <2>3. at' # size + 1
    BY <1>1, <2>1
  <2> QED BY <1>1, <2>1, <2>2, <2>3 DEF Entered
<1>4. ASSUME ~again PROVE Nested' /\ IndexFollows'
  <2>1. Nested /\ IndexFollows
    BY <1>4 DEF IInv
  <2>2. at' = at - 1
    BY <1>1, <2>1 DEF Nested
  <2>3. Nested'
    BY <1>1, <2>1, <2>2 DEF Nested
  <2>4. at' > 0 => nexts[at'] > 0
    BY <1>1, <2>1, <2>2 DEF Nested
  <2>5. IndexFollows'
    BY <1>1, <1>2, <2>1, <2>2, <2>4 DEF IndexFollows
  <2> QED BY <2>3, <2>5
<1> QED BY <1>2, <1>3, <1>4 DEF IInv

LEMMA StepKeepsIInv == IInv /\ [Next]_mwVars => IInv'
<1> SUFFICES ASSUME IInv, [Next]_mwVars PROVE IInv'
  OBVIOUS
<1>1. /\ TypeOK /\ size \in Nat \ {0} /\ Layers = 1..(size + 1)
      /\ caller \in [Layers -> 0..size]
  BY SizeIsPositive DEF IInv, Domain, TypeOK
<1>2. CASE NextSync \/ NextAsync
  BY <1>2, NextKeepsIInv
<1>3. CASE Return
  <2>1. /\ at \in 1..size /\ ~raising /\ at' = caller[at]
        /\ UNCHANGED <<mode, size, index, caller, nexts, raising, freed, marked, dangling,
                       visited, again>>
        /\ response' \in {"res", "route"}
    BY <1>1, <1>3 DEF Return, Middle, Running, TypeOK
  <2>2. reply' \in {"none", "res", "route", "error"}
    BY <1>1, <1>3, <2>1 DEF Return, TypeOK
  <2>3. at' \in 0..(size + 1) /\ Layers' = Layers
    BY <1>1, <2>1 DEF Layers
  <2>4. TypeOK'
    BY <1>1, <2>1, <2>2, <2>3 DEF TypeOK
  <2> QED BY <1>1, <2>1, <2>4, LeavingKeepsIInv
<1>4. CASE HandlerReturns
  <2>1. /\ at = size + 1 /\ ~raising /\ at' = caller[at] /\ response' = "route"
        /\ UNCHANGED <<mode, size, index, caller, nexts, raising, marked, dangling, reply,
                       visited, again>>
        /\ freed' \in BOOLEAN
    BY <1>1, <1>4 DEF HandlerReturns, Running, Handler, TypeOK
  <2>2. at' \in 0..(size + 1) /\ Layers' = Layers
    BY <1>1, <2>1 DEF Layers
  <2>3. TypeOK'
    BY <1>1, <2>1, <2>2 DEF TypeOK
  <2> QED BY <1>1, <2>1, <2>3, LeavingKeepsIInv
<1>5. CASE Propagate
  <2>1. /\ at \in 1..(size + 1) /\ at' = caller[at]
        /\ UNCHANGED <<mode, size, index, caller, nexts, freed, marked, dangling, visited,
                       again>>
    BY <1>1, <1>5 DEF Propagate, IInv, Domain, TypeOK
  <2>2. raising' \in BOOLEAN /\ (raising' => at' # 0) /\ response' \in {"res", "route"}
        /\ reply' \in {"none", "res", "route", "error"}
    BY <1>1, <1>5 DEF Propagate, TypeOK
  <2>3. at' \in 0..(size + 1) /\ Layers' = Layers
    BY <1>1, <2>1 DEF Layers
  <2>4. TypeOK'
    BY <1>1, <2>1, <2>2, <2>3 DEF TypeOK
  <2>5. raising' => at' > 0
    BY <1>1, <2>2, <2>3
  <2>6. at > 0
    BY <1>1, <2>1
  <2> QED BY <2>1, <2>4, <2>5, <2>6, LeavingKeepsIInv
<1>6. CASE Raise \/ TouchRes \/ Rest \/ UNCHANGED mwVars
  <2>1. UNCHANGED <<mode, size, index, at, caller, nexts, response, reply, visited, again>>
    BY <1>6 DEF Raise, TouchRes, Rest, mwVars
  <2>2. raising' => at > 0
    <3>1. raising' => raising \/ Raise
      BY <1>6 DEF TouchRes, Rest, mwVars
    <3> QED BY <3>1 DEF Raise, IInv, Domain
  <2>3. raising' \in BOOLEAN /\ freed' \in BOOLEAN /\ marked' \in BOOLEAN
        /\ dangling' \in BOOLEAN
    BY <1>1, <1>6 DEF Raise, TouchRes, Rest, mwVars, TypeOK
  <2>4. Layers' = Layers
    BY <2>1 DEF Layers
  <2>5. Domain'
    BY <1>1, <2>1, <2>3, <2>4, <2>2 DEF TypeOK, Domain, IInv
  <2>6. Nested /\ IndexFollows => Nested' /\ IndexFollows'
    BY <2>1, <2>4 DEF Nested, IndexFollows
  <2>7. Entered'
    BY <2>1 DEF Entered, IInv
  <2> QED BY <2>1, <2>5, <2>6, <2>7 DEF IInv
<1> QED BY <1>2, <1>3, <1>4, <1>5, <1>6 DEF Next

THEOREM Invariance == Safety => []IInv
<1>1. Init => IInv
  BY InitIInv
<1>2. IInv /\ [Next]_mwVars => IInv'
  BY StepKeepsIInv
<1> QED BY <1>1, <1>2, PTL DEF Safety

(* Every variable keeps its type: the shared index never leads next() to a  *)
(* layer that the route does not have, however often it is called.          *)
THEOREM TypeCorrect == Safety => []TypeOK
<1>1. IInv => TypeOK
  BY DEF IInv, Domain
<1> QED BY <1>1, Invariance, PTL

(* The object behind res is destroyed by the capture of the handler's       *)
(* result, which stays the response of the route.                           *)
ResInv == /\ freed => mode = "async" /\ response = "route"
          /\ dangling => freed

(* For any use of next(), res is used after its end only in asynchronous    *)
(* routes and only when the handler has answered.                           *)
THEOREM ResOutlivesSyncRoutes == Safety => []DanglesOnlyAsync
<1>1. Init => ResInv
  BY DEF Init, ResInv
<1>2. ResInv /\ [Next]_mwVars => ResInv'
  <2> SUFFICES ASSUME ResInv, [Next]_mwVars PROVE ResInv'
    OBVIOUS
  <2>1. CASE NextSync \/ NextAsync \/ Raise \/ Rest \/ UNCHANGED mwVars
    BY <2>1 DEF NextSync, NextAsync, Raise, Rest, mwVars, ResInv
  <2>2. CASE Return \/ Propagate
    BY <2>2 DEF Return, Propagate, ResInv
  <2>3. CASE HandlerReturns
    BY <2>3 DEF HandlerReturns, ResInv
  <2>4. CASE TouchRes
    BY <2>4 DEF TouchRes, ResInv
  <2> QED BY <2>1, <2>2, <2>3, <2>4 DEF Next
<1>3. ResInv => DanglesOnlyAsync
  BY DEF ResInv, DanglesOnlyAsync
<1> QED BY <1>1, <1>2, <1>3, PTL DEF Safety
-----------------------------------------------------------------------------
(* The handler of a route runs only when all its middleware were entered,   *)
(* however often next() is called, and it runs inside all of them until an  *)
(* asynchronous one calls next() a second time.                             *)
THEOREM InnermostHandler == Safety => []HandlerInnermost
<1>1. IInv => HandlerInnermost
  <2> SUFFICES ASSUME IInv, at = size + 1
               PROVE  /\ 1..size \subseteq visited
                      /\ ~again => \A p \in Layers : caller[p] = p - 1
    BY DEF HandlerInnermost, Handler
  <2>1. /\ size \in Nat \ {0} /\ Layers = 1..(size + 1) /\ index \in Nat
        /\ mode \in {"sync", "async"} /\ Entered
    BY SizeIsPositive DEF IInv, Domain, TypeOK
  <2>2. 1..size \subseteq visited
    BY <2>1 DEF Entered
  <2>3. ~again => \A p \in Layers : caller[p] = p - 1
    BY <2>1 DEF IInv, Nested
  <2> QED BY <2>2, <2>3
<1> QED BY <1>1, Invariance, PTL

LEMMA InitImplements == IInv /\ Init => Chain!ChainInit
BY SizeIsPositive DEF Init, Chain!ChainInit, Layers

(* Every step of the walk is one of the nested chain, or is not seen there. *)
LEMMA StepImplements ==
  ASSUME IInv, [Next]_mwVars, ~again'
  PROVE  [Chain!ChainNext]_Chain!chainVars
<1>1. /\ TypeOK /\ size \in Nat \ {0} /\ Layers = 1..(size + 1) /\ Nested /\ IndexFollows
      /\ nexts \in [Layers -> Nat] /\ (raising => at > 0)
      /\ mode \in {"sync", "async"}
  <2>1. ~again
    <3>1. again => again'
      BY DEF Next, NextSync, NextAsync, Return, HandlerReturns, Raise, Propagate, TouchRes,
             Rest, mwVars
    <3> QED BY <3>1
  <2> QED BY <2>1, SizeIsPositive DEF IInv, Domain, TypeOK
<1>2. at > 0 => caller[at] = at - 1 /\ (at - 1 > 0 => nexts[at - 1] > 0)
  BY <1>1 DEF Nested, TypeOK
<1>3. CASE NextSync \/ NextAsync
  <2>1. /\ at \in 1..size /\ at' = at + 1 /\ UNCHANGED <<size, response, reply>>
        /\ nexts' = [nexts EXCEPT ![at] = @ + 1, ![at + 1] = 0]
    BY <1>3, NextEnters DEF Descend, IInv, Domain, TypeOK
  <2>2. ~(at' > 0 /\ nexts'[at'] > 0)
    BY <1>1, <2>1
  <2>3. Chain!Enter
    BY <1>1, <2>1, <2>2 DEF Chain!Enter
  <2> QED BY <2>3 DEF Chain!ChainNext
<1>4. CASE Return
  <2>1. /\ at \in 1..size /\ at' = at - 1 /\ UNCHANGED <<mode, size, nexts>>
        /\ response' = IF mode = "sync" /\ nexts[at] = 0 THEN "res" ELSE response
        /\ reply' = IF at' = 0 THEN response' ELSE reply
    BY <1>2, <1>4 DEF Return, Middle, Running
  <2>2. response \in {"res", "route"} /\ nexts[at] \in Nat
    BY <1>1, <2>1 DEF TypeOK
  <2>3. response' = "route" <=> nexts[at] > 0 /\ response = "route"
    BY <1>1, <2>1, <2>2 DEF IndexFollows
  <2>4. response' \in {"res", "route"}
    BY <2>1, <2>2
  <2>5. (at > 0 /\ nexts[at] > 0 /\ response = "route") = (response' = "route")
    BY <2>1, <2>3
  <2>6. at' = 0 => reply' = IF response' = "route" THEN "route" ELSE "res"
    BY <2>1, <2>4
  <2>7. at' > 0 => nexts'[at'] > 0 /\ reply' = reply
    BY <1>1, <1>2, <2>1
  <2>8. Chain!Leave
    BY <1>1, <2>1, <2>5, <2>6, <2>7 DEF Chain!Leave, Chain!LeaveTo
  <2> QED BY <2>8 DEF Chain!ChainNext
<1>5. CASE HandlerReturns
  <2>1. /\ at = size + 1 /\ at' = at - 1 /\ UNCHANGED <<size, nexts, reply>>
        /\ response' = "route"
    BY <1>1, <1>2, <1>5 DEF HandlerReturns, Running, Handler
  <2>2. at' > 0 /\ nexts'[at'] > 0 /\ at # 1
    BY <1>1, <1>2, <2>1
  <2>3. Chain!HandlerReturns
    BY <2>1, <2>2 DEF Chain!HandlerReturns, Chain!LeaveTo
  <2> QED BY <2>3 DEF Chain!ChainNext
<1>6. CASE Propagate
  <2>1. at > 0 /\ at' = at - 1 /\ UNCHANGED <<size, nexts>>
        /\ response' = IF mode = "sync" THEN "res" ELSE response
    BY <1>1, <1>2, <1>6 DEF Propagate
  <2>2. at' = 0 => reply' = "error"
    BY <1>6 DEF Propagate
  <2>3. at' # 0 => reply' = reply
    BY <1>6 DEF Propagate
  <2>4. at' # 0 => at' > 0 /\ nexts'[at'] > 0
    BY <1>1, <1>2, <2>1 DEF TypeOK
  <2>5. at' = 0 <=> at = 1
    BY <1>1, <2>1 DEF TypeOK
  <2>6. nexts[at] \in Nat
    BY <1>1, <2>1 DEF TypeOK
  <2>7. response' = "route" => nexts[at] > 0 /\ response = "route"
    BY <1>1, <2>1, <2>6 DEF IndexFollows
  <2>8. Chain!Abort
    BY <2>1, <2>2, <2>3, <2>4, <2>5, <2>7 DEF Chain!Abort, Chain!LeaveTo
  <2> QED BY <2>8 DEF Chain!ChainNext
<1>7. CASE Raise \/ TouchRes \/ Rest \/ UNCHANGED mwVars
  BY <1>7 DEF Raise, TouchRes, Rest, mwVars, Chain!chainVars
<1> QED BY <1>3, <1>4, <1>5, <1>6, <1>7 DEF Next

(* The walks of LuaRoutes.cc and of LuaMiddleware.cc are the nested chain   *)
(* that docs/middleware.md describes, in their layers, order and response:  *)
(* the synchronous one for any use of next(), the asynchronous one as long  *)
(* as none of its middleware calls next() a second time.                    *)
THEOREM ImplementsChainSafely == Safety => Chain!ChainInit /\ StepsNest
<1>1. IInv /\ Init => Chain!ChainInit
  BY InitImplements
<1>2. IInv /\ [Next]_mwVars => [again' \/ [Chain!ChainNext]_(Chain!chainVars)]_mwVars
  BY StepImplements
<1> QED BY <1>1, <1>2, Invariance, PTL DEF Safety, StepsNest

(* The walk of a synchronous route is the nested chain without exception.   *)
THEOREM SyncWalkImplementsChain ==
  Safety => [][mode = "sync" => [Chain!ChainNext]_(Chain!chainVars)]_mwVars
<1>1. ASSUME IInv, IInv', [Next]_mwVars, mode = "sync"
      PROVE  [Chain!ChainNext]_(Chain!chainVars)
  <2>1. mode' = mode
    BY <1>1 DEF Next, NextSync, NextAsync, Return, HandlerReturns, Raise, Propagate,
                TouchRes, Rest, mwVars
  <2>2. ~again'
    BY <1>1, <2>1 DEF IInv, Domain
  <2> QED BY <1>1, <2>2, StepImplements
<1>2. IInv /\ IInv' /\ [Next]_mwVars
        => [mode = "sync" => [Chain!ChainNext]_(Chain!chainVars)]_mwVars
  BY <1>1
<1> QED BY <1>2, Invariance, PTL DEF Safety
=============================================================================
