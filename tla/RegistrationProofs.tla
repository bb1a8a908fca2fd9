-------------------------- MODULE RegistrationProofs --------------------------
(***************************************************************************)
(* Proofs about Registration for any routes, lists, middleware, requests   *)
(* and number of registrations.                                            *)
(***************************************************************************)
EXTENDS PathScanProofs, SequenceTheorems

(* What a request has behind it: each middleware that ran stands at its     *)
(* place in a chain that its route had meanwhile, one of them the present   *)
(* one as long as the request walks.                                        *)
AtItsPlace(i, r) == \E c \in during[r] : i \in DOMAIN c /\ c[i] = ran[r][i]
Walk(r) ==
  /\ phase[r] = "new" => ran[r] = <<>> /\ during[r] = {} /\ outcome[r] = "none"
  /\ phase[r] = "walking" => /\ key[r] \in Keys /\ chains[key[r]] # None
                             /\ chains[key[r]] \in during[r]
                             /\ outcome[r] = "none"
  /\ \A i \in DOMAIN ran[r] : AtItsPlace(i, r)
  /\ outcome[r] = "handler" =>
       during[r] = {} \/ \E c \in during[r] : Len(c) <= Len(ran[r])

RoutesScanned == \A k \in Keys : routes[k] # None => Accepted(k[2])

(* A list that came with the route in force is the last one of its key,     *)
(* unless a call failed over it.                                            *)
GuardsGiven == \A k \in Keys : guards[k] # None /\ k \notin torn =>
                 given[k] = guards[k] /\ chains[k] # None

IInv == /\ TypeOK /\ RoutesScanned /\ ChainIsGivenList /\ GuardsGiven
        /\ \A r \in Request : Walk(r)
-----------------------------------------------------------------------------
LEMMA InitIInv == Init => IInv
<1> SUFFICES ASSUME Init PROVE IInv
  OBVIOUS
<1>1. TypeOK
  BY RegistrationAssumption DEF Init, TypeOK
<1>2. RoutesScanned /\ ChainIsGivenList /\ GuardsGiven
  BY DEF Init, RoutesScanned, ChainIsGivenList, GuardsGiven
<1>3. \A r \in Request : Walk(r)
  BY DEF Init, Walk
<1> QED BY <1>1, <1>2, <1>3 DEF IInv

(* luaTableToChain gives middleware only, from the front of the list, and   *)
(* stops before its end at a hole only.                                     *)
LEMMA ChainOfList ==
  ASSUME NEW list \in Lists, NEW chain \in ChainsOf(list)
  PROVE  chain \in Seq(created) /\ CutAtHole(chain, list)
<1>1. list \in Seq(Mw \cup {Nil, Bad}) /\ Len(list) \in Nat
  BY RegistrationAssumption
<1>2. PICK n \in Borders(list) : /\ \A i \in 1..n : list[i] \in created
                                 /\ chain = SubSeq(list, 1, n)
  BY DEF ChainsOf
<1>3. n \in 0..Len(list) /\ (n = Len(list) \/ list[n + 1] = Nil)
  BY DEF Borders
<1>4. Len(chain) = n /\ DOMAIN chain = 1..n /\ \A i \in 1..n : chain[i] = list[i]
  <2>1. \A i \in 1..n : list[i] \in Mw \cup {Nil, Bad}
    BY <1>1, <1>3
  <2> QED BY <1>1, <1>2, <1>3, <2>1, SubSeqProperties
<1>5. chain \in Seq(created)
  <2>1. chain \in Seq(Mw \cup {Nil, Bad})
    BY <1>1, <1>2, <1>3, SubSeqProperties
  <2> QED BY <1>2, <1>3, <1>4, <2>1
<1> QED BY <1>1, <1>3, <1>4, <1>5 DEF CutAtHole

(* Entering a chain puts the first layer behind the request.                *)
LEMMA ChainFacts ==
  ASSUME TypeOK, NEW k \in Keys, chains[k] # None
  PROVE  /\ chains[k] \in Seq(created) /\ Len(chains[k]) \in Nat
         /\ DOMAIN chains[k] = 1..Len(chains[k])
         /\ \A i \in 1..Len(chains[k]) : chains[k][i] \in created
<1>1. chains[k] \in Seq(created)
  BY DEF TypeOK
<1> QED BY <1>1

(* The lists and the chains are told from None. *)
LEMMA NoneFacts ==
  ASSUME TypeOK
  PROVE  None \notin Lists /\ None \notin Seq(created)
<1>1. created \subseteq Mw \cup {Nil, Bad}
  BY DEF TypeOK
<1>2. \A s \in Seq(created) : s \in Seq(Mw \cup {Nil, Bad})
  BY <1>1
<1> QED BY <1>2, RegistrationAssumption

(* A call changes no request but in the chain that it holds a pointer to.   *)
LEMMA StoreKeepsIInv ==
  ASSUME IInv, NEW k \in Keys, NEW list \in Lists, NEW chain \in ChainsOf(list),
         Store(k, list, chain), routes' \in [Keys -> Route \cup {None}], RoutesScanned',
         calls' \in 0..MaxCalls, guards' \in [Keys -> Lists \cup {None}],
         torn' \subseteq Keys, UNCHANGED <<created, requestVars>>,
         guards'[k] = list \/ k \in torn',
         \A x \in Keys : x # k => guards'[x] = guards[x] /\ (x \in torn' <=> x \in torn)
  PROVE  IInv'
<1> USE DEF IInv
<1>1. chain \in Seq(created) /\ CutAtHole(chain, list)
  BY ChainOfList
<1>2. UNCHANGED <<created, phase, key, handler, ran, outcome>>
  BY DEF requestVars
<1>3. TypeOK'
  BY <1>1, <1>2 DEF Store, TypeOK
<1>4. chain # None /\ list # None
  BY <1>1, NoneFacts
<1>5. ChainIsGivenList'
  <2> SUFFICES ASSUME NEW x \in Keys, chains'[x] # None
               PROVE  given'[x] # None /\ CutAtHole(chains'[x], given'[x])
    BY DEF ChainIsGivenList, CutAtHole
  <2>1. CASE x = k
    <3>1. chains'[x] = chain /\ given'[x] = list
      BY <2>1 DEF Store, TypeOK
    <3> QED BY <1>1, <1>4, <3>1
  <2>2. CASE x # k
    <3>1. chains'[x] = chains[x] /\ given'[x] = given[x]
      BY <2>2 DEF Store, TypeOK
    <3> QED BY <3>1 DEF ChainIsGivenList
  <2> QED BY <2>1, <2>2
<1>6. ASSUME NEW r \in Request PROVE Walk(r)'
  <2>1. /\ during[r] \subseteq during'[r]
        /\ during[r] = {} => phase[r] # "walking"
        /\ phase[r] # "walking" => during'[r] = during[r]
    BY DEF Store, TypeOK, Walking, Walk
  <2>2. \A i \in DOMAIN ran[r] : AtItsPlace(i, r)'
    BY <1>2, <2>1 DEF Walk, AtItsPlace
  <2>3. ASSUME phase[r] = "walking"
        PROVE  chains'[key[r]] # None /\ chains'[key[r]] \in during'[r]
    <3>1. key[r] \in Keys /\ chains[key[r]] # None /\ chains[key[r]] \in during[r]
      BY <2>3 DEF Walk
    <3>2. CASE key[r] = k
      <4>1. r \in Walking(k)
        BY <2>3, <3>2 DEF Walking
      <4> QED BY <1>4, <3>2, <4>1 DEF Store, TypeOK
    <3>3. CASE key[r] # k
      BY <2>1, <3>1, <3>3 DEF Store, TypeOK
    <3> QED BY <3>2, <3>3
  <2> QED BY <1>2, <2>1, <2>2, <2>3 DEF Walk
<1>7. GuardsGiven'
  <2> SUFFICES ASSUME NEW x \in Keys, guards'[x] # None, x \notin torn'
               PROVE  given'[x] = guards'[x] /\ chains'[x] # None
    BY DEF GuardsGiven
  <2>1. CASE x = k
    BY <1>4, <2>1 DEF Store, TypeOK
  <2>2. CASE x # k
    BY <2>2 DEF Store, TypeOK, GuardsGiven
  <2> QED BY <2>1, <2>2
<1> QED BY <1>3, <1>5, <1>6, <1>7

(* A step that leaves the chains and the requests alone. *)
LEMMA OthersKeepIInv ==
  ASSUME IInv, UNCHANGED <<chains, given, during, requestVars>>,
         created \subseteq created', created' \subseteq Mw,
         routes' \in [Keys -> Route \cup {None}], RoutesScanned', calls' \in 0..MaxCalls,
         guards' \in [Keys -> Lists \cup {None}], torn' \subseteq Keys,
         \A k \in Keys : guards'[k] = None \/ (guards'[k] = guards[k] /\ (k \in torn' <=> k \in torn))
  PROVE  IInv'
<1> USE DEF IInv
<1>1. UNCHANGED <<phase, key, handler, ran, outcome>>
  BY DEF requestVars
<1>2. \A s \in Seq(created) : s \in Seq(created')
  OBVIOUS
<1>3. /\ chains' \in [Keys -> Seq(created') \cup {None}]
      /\ ran' \in [Request -> Seq(created')]
      /\ during' \in [Request -> SUBSET Seq(created')]
  BY <1>1, <1>2 DEF TypeOK
<1>4. TypeOK'
  BY <1>1, <1>3 DEF TypeOK
<1>5. ChainIsGivenList' /\ GuardsGiven'
  BY <1>1 DEF ChainIsGivenList, CutAtHole, GuardsGiven
<1>6. \A r \in Request : Walk(r)'
  BY <1>1 DEF Walk, AtItsPlace
<1> QED BY <1>4, <1>5, <1>6

LEMMA RoutesTyped ==
  ASSUME TypeOK, RoutesScanned, NEW k \in Keys, NEW mode \in Mode, NEW kind \in Kind,
         RegisterRoute(k, mode, kind)
  PROVE  routes' \in [Keys -> Route \cup {None}] /\ RoutesScanned'
<1>1. CASE Registers(k, kind)
  <2>1. [mode |-> mode, kind |-> kind] \in Route
    BY <1>1 DEF Registers, Route, Kind
  <2>2. routes' = [routes EXCEPT ![k] = [mode |-> mode, kind |-> kind]]
    BY <1>1 DEF RegisterRoute
  <2> QED BY <1>1, <2>1, <2>2 DEF Registers, TypeOK, RoutesScanned
<1>2. CASE ~Registers(k, kind)
  BY <1>2 DEF TypeOK, RoutesScanned, RegisterRoute
<1> QED BY <1>1, <1>2

(* The history of the lists that came with the routes. *)
LEMMA Remembered ==
  ASSUME TypeOK, NEW k \in Keys, NEW kind \in Kind, NEW list \in Lists \cup {None},
         Remember(k, kind, list)
  PROVE  /\ guards' \in [Keys -> Lists \cup {None}] /\ torn' \subseteq Keys
         /\ \A x \in Keys : x # k => guards'[x] = guards[x] /\ (x \in torn' <=> x \in torn)
         /\ list # None => guards'[k] = list \/ k \in torn'
         /\ list = None => guards'[k] = None
                           \/ (guards'[k] = guards[k] /\ (k \in torn' <=> k \in torn))
<1>1. CASE Registers(k, kind)
  BY <1>1 DEF Remember, TypeOK
<1>2. CASE ~Registers(k, kind)
  BY <1>2 DEF Remember, TypeOK
<1> QED BY <1>1, <1>2
-----------------------------------------------------------------------------
(* One request walks: the others are not concerned.                         *)
LEMMA RequestKeepsIInv ==
  ASSUME IInv, NEW r \in Request,
         UNCHANGED <<created, chains, routes, calls, given, guards, torn>>,
         phase' = [phase EXCEPT ![r] = phase'[r]],
         key' = [key EXCEPT ![r] = key'[r]],
         handler' = [handler EXCEPT ![r] = handler'[r]],
         ran' = [ran EXCEPT ![r] = ran'[r]],
         outcome' = [outcome EXCEPT ![r] = outcome'[r]],
         during' = [during EXCEPT ![r] = during'[r]],
         phase'[r] \in {"new", "walking", "over"}, key'[r] \in Keys \cup {None},
         handler'[r] \in Route \cup {None}, ran'[r] \in Seq(created),
         outcome'[r] \in {"none", "handler", "stopped", "error"},
         during'[r] \subseteq Seq(created),
         Walk(r)'
  PROVE  IInv'
<1> USE DEF IInv
<1>1. TypeOK'
  BY DEF TypeOK
<1>2. ChainIsGivenList' /\ RoutesScanned' /\ GuardsGiven'
  BY DEF ChainIsGivenList, CutAtHole, RoutesScanned, GuardsGiven
<1>3. ASSUME NEW x \in Request, x # r
      PROVE  /\ phase'[x] = phase[x] /\ key'[x] = key[x] /\ handler'[x] = handler[x]
             /\ ran'[x] = ran[x] /\ outcome'[x] = outcome[x] /\ during'[x] = during[x]
  BY <1>3 DEF TypeOK
<1>4. \A x \in Request : Walk(x)'
  <2> SUFFICES ASSUME NEW x \in Request, x # r PROVE Walk(x)'
    OBVIOUS
  <2> HIDE DEF IInv
  <2>1. /\ phase'[x] = phase[x] /\ key'[x] = key[x] /\ handler'[x] = handler[x]
        /\ ran'[x] = ran[x] /\ outcome'[x] = outcome[x] /\ during'[x] = during[x]
        /\ chains' = chains
    BY <1>3
  <2>2. Walk(x)
    BY DEF IInv
  <2>3. \A i \in DOMAIN ran[x] : AtItsPlace(i, x)'
    <3> SUFFICES ASSUME NEW i \in DOMAIN ran[x] PROVE AtItsPlace(i, x)'
      OBVIOUS
    <3>1. AtItsPlace(i, x)
      BY <2>2 DEF Walk
    <3> QED BY <2>1, <3>1 DEF AtItsPlace
  <2> QED BY <2>1, <2>2, <2>3 DEF Walk
<1> QED BY <1>1, <1>2, <1>4

LEMMA ArriveKeepsIInv ==
  ASSUME IInv, NEW r \in Request, NEW k \in Keys,
         ArriveAlone(r, k) \/ ArriveWalks(r, k) \/ ArriveFails(r, k)
  PROVE  IInv'
<1> USE DEF IInv
<1>1. /\ phase[r] = "new" /\ routes[k] \in Route \cup {None}
      /\ UNCHANGED <<created, chains, routes, calls, given, guards, torn>>
      /\ key' = [key EXCEPT ![r] = k] /\ handler' = [handler EXCEPT ![r] = routes[k]]
  BY DEF TypeOK, ArriveAlone, ArriveWalks, ArriveFails
<1>2. ran[r] = <<>> /\ during[r] = {} /\ outcome[r] = "none"
  BY <1>1 DEF Walk
<1>3. CASE ArriveAlone(r, k)
  <2>1. /\ phase' = [phase EXCEPT ![r] = "over"]
        /\ outcome' = [outcome EXCEPT ![r] = "handler"] /\ UNCHANGED <<ran, during>>
    BY <1>3 DEF ArriveAlone
  <2>2. Walk(r)'
    BY <1>1, <1>2, <2>1 DEF Walk, TypeOK
  <2> QED BY <1>1, <1>2, <2>1, <2>2, RequestKeepsIInv DEF TypeOK
<1>4. CASE ArriveWalks(r, k)
  <2>1. /\ phase' = [phase EXCEPT ![r] = "walking"] /\ UNCHANGED outcome
        /\ ran' = [ran EXCEPT ![r] = <<chains[k][1]>>]
        /\ during' = [during EXCEPT ![r] = {chains[k]}]
        /\ chains[k] # None /\ chains[k] # <<>>
    BY <1>4 DEF ArriveWalks, HasChain
  <2>2. chains[k] \in Seq(created) /\ 1 \in DOMAIN chains[k] /\ chains[k][1] \in created
    BY <2>1, ChainFacts, EmptySeq
  <2>3. /\ ran'[r] = <<chains[k][1]>> /\ during'[r] = {chains[k]} /\ phase'[r] = "walking"
        /\ key'[r] = k /\ handler'[r] = routes[k] /\ outcome'[r] = "none"
    BY <1>1, <1>2, <2>1 DEF TypeOK
  <2>4. \A i \in DOMAIN ran'[r] : AtItsPlace(i, r)'
    BY <2>2, <2>3 DEF AtItsPlace
  <2>5. Walk(r)'
    BY <1>1, <2>1, <2>3, <2>4 DEF Walk
  <2>6. ran'[r] \in Seq(created) /\ during'[r] \subseteq Seq(created)
    BY <2>2, <2>3
  <2>7. handler'[r] \in Route \cup {None}
    BY <1>1, <2>3
  <2>8. /\ outcome' = [outcome EXCEPT ![r] = outcome'[r]]
        /\ phase' = [phase EXCEPT ![r] = phase'[r]]
        /\ key' = [key EXCEPT ![r] = key'[r]]
        /\ handler' = [handler EXCEPT ![r] = handler'[r]]
        /\ ran' = [ran EXCEPT ![r] = ran'[r]]
        /\ during' = [during EXCEPT ![r] = during'[r]]
    BY <1>1, <2>1 DEF TypeOK
  <2> HIDE DEF IInv
  <2> QED BY <1>1, <2>3, <2>5, <2>6, <2>7, <2>8, RequestKeepsIInv
<1>5. CASE ArriveFails(r, k)
  <2>1. /\ phase' = [phase EXCEPT ![r] = "over"] /\ routes[k] = AsyncTable
        /\ outcome' = [outcome EXCEPT ![r] = "error"] /\ UNCHANGED <<ran, during>>
    BY <1>5 DEF ArriveFails
  <2>2. Walk(r)'
    BY <1>1, <1>2, <2>1 DEF Walk, TypeOK
  <2> QED BY <1>1, <1>2, <2>1, <2>2, RequestKeepsIInv DEF TypeOK
<1> QED BY <1>3, <1>4, <1>5

LEMMA NextLayerKeepsIInv ==
  ASSUME IInv, NEW r \in Request, NextLayer(r)
  PROVE  IInv'
<1> USE DEF IInv
<1> DEFINE chain == chains[key[r]]
           n == Len(ran[r])
<1>1. /\ phase[r] = "walking"
      /\ UNCHANGED <<created, chains, routes, calls, key, handler, given, guards, torn, during>>
      /\ \/ n < Len(chain) /\ ran' = [ran EXCEPT ![r] = Append(@, chain[n + 1])]
                           /\ UNCHANGED <<phase, outcome>>
         \/ n >= Len(chain) /\ phase' = [phase EXCEPT ![r] = "over"]
                            /\ outcome' = [outcome EXCEPT ![r] = "handler"] /\ UNCHANGED ran
  BY DEF NextLayer
<1>2. /\ key[r] \in Keys /\ chain # None /\ chain \in during[r]
      /\ outcome[r] = "none"
  BY <1>1 DEF Walk
<1>3. /\ chain \in Seq(created) /\ Len(chain) \in Nat /\ DOMAIN chain = 1..Len(chain)
      /\ \A i \in 1..Len(chain) : chain[i] \in created
  BY <1>2, ChainFacts
<1>4. ran[r] \in Seq(created) /\ n \in Nat /\ DOMAIN ran[r] = 1..n
  BY DEF TypeOK
<1>5. CASE n < Len(chain)
  <2>1. /\ ran' = [ran EXCEPT ![r] = Append(ran[r], chain[n + 1])] /\ UNCHANGED <<phase, outcome>>
    BY <1>1, <1>3, <1>4, <1>5
  <2>2. n + 1 \in DOMAIN chain /\ chain[n + 1] \in created
    BY <1>3, <1>4, <1>5
  <2>3. /\ ran'[r] = Append(ran[r], chain[n + 1]) /\ ran'[r] \in Seq(created)
        /\ Len(ran'[r]) = n + 1 /\ ran'[r][n + 1] = chain[n + 1]
        /\ \A i \in 1..n : ran'[r][i] = ran[r][i]
    BY <1>4, <2>1, <2>2, AppendProperties DEF TypeOK
  <2>4. \A i \in DOMAIN ran'[r] : AtItsPlace(i, r)'
    <3> SUFFICES ASSUME NEW i \in DOMAIN ran'[r]
                 PROVE  \E c \in during[r] : i \in DOMAIN c /\ c[i] = ran'[r][i]
      BY <1>1 DEF AtItsPlace
    <3>1. i \in 1..n \/ i = n + 1
      BY <1>4, <2>3
    <3>2. CASE i \in 1..n
      BY <1>4, <2>3, <3>2 DEF Walk, AtItsPlace
    <3>3. CASE i = n + 1
      BY <1>2, <2>2, <2>3, <3>3
    <3> QED BY <3>1, <3>2, <3>3
  <2>5. Walk(r)'
    BY <1>1, <1>2, <2>1, <2>4 DEF Walk
  <2> QED BY <1>1, <1>2, <2>1, <2>3, <2>5, RequestKeepsIInv DEF TypeOK
<1>6. CASE n >= Len(chain)
  <2>1. /\ phase' = [phase EXCEPT ![r] = "over"]
        /\ outcome' = [outcome EXCEPT ![r] = "handler"] /\ UNCHANGED ran
    BY <1>1, <1>3, <1>4, <1>6
  <2>2. Walk(r)'
    <3>1. \E c \in during[r] : Len(c) <= Len(ran[r])
      BY <1>2, <1>3, <1>4, <1>6
    <3> QED BY <1>1, <2>1, <3>1 DEF Walk, AtItsPlace, TypeOK
  <2> QED BY <1>1, <1>2, <2>1, <2>2, RequestKeepsIInv DEF TypeOK
<1> QED BY <1>3, <1>4, <1>5, <1>6

LEMMA StopKeepsIInv ==
  ASSUME IInv, NEW r \in Request, Stop(r)
  PROVE  IInv'
<1> USE DEF IInv
<1>1. /\ phase[r] = "walking" /\ phase' = [phase EXCEPT ![r] = "over"]
      /\ outcome' = [outcome EXCEPT ![r] = "stopped"]
      /\ UNCHANGED <<created, chains, routes, calls, key, handler, ran, given, guards, torn, during>>
  BY DEF Stop
<1>2. Walk(r)'
  BY <1>1 DEF Walk, AtItsPlace, TypeOK
<1> QED BY <1>1, <1>2, RequestKeepsIInv DEF TypeOK

LEMMA NextIInv == IInv /\ [Next]_regVars => IInv'
<1> SUFFICES ASSUME IInv, [Next]_regVars PROVE IInv'
  OBVIOUS
<1> USE RegistrationAssumption
<1>0. Call => calls' \in 0..MaxCalls
  BY DEF Call, IInv, TypeOK
<1>1. ASSUME NEW k \in Keys, NEW mode \in Mode, NEW kind \in Kind, RegisterAlone(k, mode, kind)
      PROVE  IInv'
  <2>1. /\ routes' \in [Keys -> Route \cup {None}] /\ RoutesScanned' /\ calls' \in 0..MaxCalls
        /\ UNCHANGED <<created, chains, given, during, requestVars>>
    BY <1>0, <1>1, RoutesTyped DEF RegisterAlone, IInv
  <2>2. /\ guards' \in [Keys -> Lists \cup {None}] /\ torn' \subseteq Keys
        /\ \A x \in Keys : guards'[x] = None
                            \/ (guards'[x] = guards[x] /\ (x \in torn' <=> x \in torn))
    BY <1>1, Remembered DEF RegisterAlone, IInv
  <2> QED BY <2>1, <2>2, OthersKeepIInv DEF IInv, TypeOK
<1>2. ASSUME NEW k \in Keys, NEW mode \in Mode, NEW kind \in Kind, NEW list \in Lists,
             RegisterWith(k, mode, kind, list)
      PROVE  IInv'
  <2>1. PICK chain \in ChainsOf(list) : Store(k, list, chain)
    BY <1>2 DEF RegisterWith
  <2>2. /\ routes' \in [Keys -> Route \cup {None}] /\ RoutesScanned' /\ calls' \in 0..MaxCalls
        /\ UNCHANGED <<created, requestVars>>
    BY <1>0, <1>2, RoutesTyped DEF RegisterWith, IInv
  <2>3. /\ guards' \in [Keys -> Lists \cup {None}] /\ torn' \subseteq Keys
        /\ \A x \in Keys : x # k => guards'[x] = guards[x] /\ (x \in torn' <=> x \in torn)
        /\ guards'[k] = list \/ k \in torn'
    <3>1. list # None
      BY NoneFacts DEF IInv
    <3> QED BY <1>2, <3>1, Remembered DEF RegisterWith, IInv
  <2> QED BY <2>1, <2>2, <2>3, StoreKeepsIInv
<1>3. ASSUME NEW list, RegisterFails(list) PROVE IInv'
  BY <1>0, <1>3, OthersKeepIInv DEF RegisterFails, IInv, TypeOK, RoutesScanned
<1>4. ASSUME NEW m \in Mw, Create(m) PROVE IInv'
  BY <1>4, OthersKeepIInv DEF Create, IInv, TypeOK, RoutesScanned
<1>5. CASE UNCHANGED regVars
  BY <1>5, OthersKeepIInv DEF regVars, requestVars, IInv, TypeOK, RoutesScanned
<1> QED BY <1>1, <1>2, <1>3, <1>4, <1>5, ArriveKeepsIInv, NextLayerKeepsIInv, StopKeepsIInv DEF Next

THEOREM Invariance == Spec => []IInv
BY InitIInv, NextIInv, PTL DEF Spec
-----------------------------------------------------------------------------
(* The results *)

(* Every variable keeps its type: chains hold only middleware that exists.  *)
THEOREM TypeCorrect == Spec => []TypeOK
<1>1. IInv => TypeOK
  BY DEF IInv
<1> QED BY <1>1, Invariance, PTL

(* registerRoute and registerAsyncRoute (LuaRoutes.h:81) hand Drogon no     *)
(* path but with well formed placeholders, and refuse none of those.        *)
THEOREM RoutesHavePlaceholders == Spec => []PathsWellFormed
<1>1. IInv => PathsWellFormed
  <2>1. \A k \in Keys : Accepted(k[2]) <=> Placeholders(k[2])
    BY ScanIsExact, RegistrationAssumption
  <2> QED BY <2>1 DEF IInv, RoutesScanned, PathsWellFormed
<1> QED BY <1>1, Invariance, PTL

(* A chain is the list it was made of, up to a hole (LuaMiddlewareManager   *)
(* .cc:83), and is replaced by the next list only.                          *)
THEOREM ChainsAreLists == Spec => []ChainIsGivenList
<1>1. IInv => ChainIsGivenList
  BY DEF IInv
<1> QED BY <1>1, Invariance, PTL

(* Registrations while requests walk (LuaMiddlewareManager.cc:80) let them  *)
(* skip or repeat no place of the chains that they meet.                    *)
THEOREM NothingSkipped == Spec => []WalksCurrentChains
<1>1. IInv => WalksCurrentChains
  <2> SUFFICES ASSUME IInv, NEW r \in Request, outcome[r] = "handler"
               PROVE  /\ during[r] = {} => ran[r] = <<>>
                      /\ during[r] # {} => \E c \in during[r] : Len(c) <= Len(ran[r])
                      /\ \A i \in DOMAIN ran[r] : \E c \in during[r] : i \in DOMAIN c /\ c[i] = ran[r][i]
    BY DEF WalksCurrentChains
  <2>1. \A i \in DOMAIN ran[r] : AtItsPlace(i, r)
    BY DEF IInv, Walk
  <2>2. during[r] = {} => ran[r] = <<>>
    <3>1. ran[r] \in Seq(created) /\ DOMAIN ran[r] = 1..Len(ran[r]) /\ Len(ran[r]) \in Nat
      BY DEF IInv, TypeOK
    <3>2. during[r] = {} => DOMAIN ran[r] = {}
      BY <2>1 DEF AtItsPlace
    <3>3. Len(ran[r]) # 0 => 1 \in DOMAIN ran[r]
      BY <3>1
    <3> QED BY <3>1, <3>2, <3>3, EmptySeq
  <2> QED BY <2>1, <2>2 DEF IInv, Walk, AtItsPlace
<1> QED BY <1>1, Invariance, PTL

(* The handler in force is behind the list that was given with it, unless a *)
(* later call failed between its chain and its route (LuaRoutes.cc:56).     *)
THEOREM GuardsStay == Spec => []RouteKeepsGuards
<1>1. IInv => RouteKeepsGuards
  BY DEF IInv, GuardsGiven, ChainIsGivenList, RouteKeepsGuards
<1> QED BY <1>1, Invariance, PTL
=============================================================================
