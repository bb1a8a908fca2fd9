----------------------------- MODULE Registration -----------------------------
(***************************************************************************)
(* Drogua.Routes.get() and its kin (LuaRoutes.cc), Drogua.Middleware       *)
(* .create() and the manager of the chains (LuaMiddlewareManager.cc): what *)
(* a registration leaves behind, also one that fails half way, and which   *)
(* chain the requests walk that are under way meanwhile.                   *)
(*                                                                         *)
(* A registration is one call from Lua: in app.lua, or in a handler or     *)
(* middleware while other requests are suspended in their chain, to which  *)
(* they hold a pointer.  How one request walks is told by Middleware; here *)
(* each middleware calls next() once or not at all.                        *)
(***************************************************************************)
EXTENDS Integers, Sequences, FiniteSets

CONSTANTS Keys,    \* pairs of an HTTP method and a path
          Mw,      \* what Middleware.create makes
          Lists,   \* tables given as middleware, by index; with Nil at its holes
          Request,
          Nil, Bad, None, NotTable,
          MaxCalls \* bound on registrations

(* Paths are sequences of "{", "}" and other characters. *)
ASSUME RegistrationAssumption ==
  /\ \A k \in Keys : k[2] \in Seq(STRING)
  /\ Lists \subseteq Seq(Mw \cup {Nil, Bad})
  /\ Nil \notin Mw /\ Bad \notin Mw /\ None \notin Seq(Mw \cup {Nil, Bad})
  /\ NotTable \notin Lists
  /\ MaxCalls \in Nat

Mode == {"sync", "async"}
Kind == {"table", "function", "other"}
Route == [mode : Mode, kind : Kind \ {"other"}]

VARIABLES
  created, \* middlewares_
  chains,  \* routes_ of the manager
  routes,  \* Drogon's handlers
  calls,   \* registrations so far
  phase,   \* phase[r]: "new", "walking" or "over"
  key,     \* key[r]: method and path of the request
  handler, \* handler[r]: what Drogon dispatched it to
  ran,     \* ran[r]: the middleware that ran, in this order
  outcome, \* outcome[r]: "handler", "stopped" by a middleware, or "error"
  given,   \* history: the list of the last call that stored one for the key
  guards,  \* history: the list given with the route in force, None without one
  torn,    \* history: keys whose last list came with a route that was refused
  during   \* history: the chains that the key had while the request walked

regVars == <<created, chains, routes, calls, phase, key, handler, ran, outcome, given, guards, torn,
             during>>
requestVars == <<phase, key, handler, ran, outcome>>

TypeOK ==
  /\ created \subseteq Mw
  /\ chains \in [Keys -> Seq(created) \cup {None}]
  /\ routes \in [Keys -> Route \cup {None}]
  /\ calls \in 0..MaxCalls
  /\ phase \in [Request -> {"new", "walking", "over"}]
  /\ key \in [Request -> Keys \cup {None}]
  /\ handler \in [Request -> Route \cup {None}]
  /\ ran \in [Request -> Seq(created)]
  /\ outcome \in [Request -> {"none", "handler", "stopped", "error"}]
  /\ given \in [Keys -> Lists \cup {None}]
  /\ guards \in [Keys -> Lists \cup {None}]
  /\ torn \subseteq Keys
  /\ during \in [Request -> SUBSET Seq(created)]

Init ==
  /\ created = {}
  /\ chains = [k \in Keys |-> None]
  /\ routes = [k \in Keys |-> None]
  /\ calls = 0
  /\ phase = [r \in Request |-> "new"]
  /\ key = [r \in Request |-> None]
  /\ handler = [r \in Request |-> None]
  /\ ran = [r \in Request |-> <<>>]
  /\ outcome = [r \in Request |-> "none"]
  /\ given = [k \in Keys |-> None]
  /\ guards = [k \in Keys |-> None]
  /\ torn = {}
  /\ during = [r \in Request |-> {}]
-----------------------------------------------------------------------------
(* countPathParameters: one scan over the path, which throws at a brace out *)
(* of turn and at the end of a path that leaves one open; Reads is the      *)
(* body of its loop.                                                        *)
OpenBrace == "{"
CloseBrace == "}"
Thrown == [at |-> "thrown", count |-> 0]

Reads(s, c) ==
  IF \/ s.at = "thrown"
     \/ c = OpenBrace /\ s.at = "inside"
     \/ c = CloseBrace /\ s.at = "outside"
  THEN Thrown
  ELSE CASE c = OpenBrace -> [at |-> "inside", count |-> s.count + 1]
         [] c = CloseBrace -> [at |-> "outside", count |-> s.count]
         [] OTHER -> s

Scan(path) ==
  LET after[i \in 0..Len(path)] ==
        IF i = 0 THEN [at |-> "outside", count |-> 0] ELSE Reads(after[i - 1], path[i])
  IN after[Len(path)]

(* Faulty: a path that ends inside braces is accepted. *)
AcceptedOpen(path) == LET s == Scan(path) IN s.at # "thrown" /\ s.count <= 6

Accepted(path) == LET s == Scan(path) IN s.at = "outside" /\ s.count <= 6

(* Lua's length of a table with holes is any of its borders.                *)
Borders(list) == {n \in 0..Len(list) : /\ n = 0 \/ list[n] # Nil
                                       /\ n = Len(list) \/ list[n + 1] = Nil}

(* Faulty: the entries are not looked at. *)
ChainsOfUnchecked(list) == {SubSeq(list, 1, n) : n \in Borders(list)}

(* luaTableToChain takes the entries up to the length; any other value than *)
(* a middleware, nil included, makes it throw.                              *)
ChainsOf(list) == {SubSeq(list, 1, n) : n \in {m \in Borders(list) :
                                                 \A i \in 1..m : list[i] \in created}}
MayThrow(list) == \E n \in Borders(list) : \E i \in 1..n : list[i] \notin created

Walking(k) == {r \in Request : phase[r] = "walking" /\ key[r] = k}

(* Faulty: the method is no part of the key. *)
StorePathOnly(k, list, chain) ==
  /\ chains' = [x \in Keys |-> IF x[2] = k[2] THEN chain ELSE chains[x]]
  /\ given' = [given EXCEPT ![k] = list]
  /\ during' = [r \in Request |-> IF r \in Walking(k) THEN during[r] \cup {chain} ELSE during[r]]

(* LuaMiddlewareManager::add puts the new chain where the old one is, under *)
(* the pointers that requests hold to it.                                   *)
Store(k, list, chain) ==
  /\ chains' = [chains EXCEPT ![k] = chain]
  /\ given' = [given EXCEPT ![k] = list]
  /\ during' = [r \in Request |-> IF r \in Walking(k) THEN during[r] \cup {chain} ELSE during[r]]

Registers(k, kind) == kind \in {"table", "function"} /\ Accepted(k[2])

(* registerRoute and registerAsyncRoute throw, or Drogon takes the handler  *)
(* in the place of an earlier one.                                          *)
RegisterRoute(k, mode, kind) ==
  routes' = IF Registers(k, kind) THEN [routes EXCEPT ![k] = [mode |-> mode, kind |-> kind]]
                                  ELSE routes

(* History: the list that came with the route, None when none did. *)
Remember(k, kind, list) ==
  /\ guards' = IF Registers(k, kind) THEN [guards EXCEPT ![k] = list] ELSE guards
  /\ torn' = IF Registers(k, kind) THEN torn \ {k}
             ELSE IF list = None THEN torn ELSE torn \cup {k}

Call == calls < MaxCalls /\ calls' = calls + 1

(* luaRegister and luaRegisterAsync: the chain first, if one is given, and  *)
(* then the route.  What throws in between is an error of the call.         *)
RegisterAlone(k, mode, kind) ==
  /\ Call
  /\ RegisterRoute(k, mode, kind) /\ Remember(k, kind, None)
  /\ UNCHANGED <<created, chains, given, during, requestVars>>

RegisterWith(k, mode, kind, list) ==
  /\ Call
  /\ \E chain \in ChainsOf(list) : Store(k, list, chain)
  /\ RegisterRoute(k, mode, kind) /\ Remember(k, kind, list)
  /\ UNCHANGED <<created, requestVars>>

(* Faulty: the chain is built in the place of the old one, entry by entry.  *)
RegisterFailsHalfway(list) ==
  /\ Call
  /\ list \in Lists /\ MayThrow(list)
  /\ \E k \in Keys, n \in 0..Len(list) :
       /\ \A i \in 1..n : list[i] \in created
       /\ chains' = [chains EXCEPT ![k] = SubSeq(list, 1, n)]
  /\ UNCHANGED <<created, routes, given, guards, torn, during, requestVars>>

(* The list is no table, or an entry of it is refused: nothing is stored.   *)
RegisterFails(list) ==
  /\ Call
  /\ list = NotTable \/ (list \in Lists /\ MayThrow(list))
  /\ UNCHANGED <<created, chains, routes, given, guards, torn, during, requestVars>>

Create(m) ==
  /\ m \notin created
  /\ created' = created \cup {m}
  /\ UNCHANGED <<chains, routes, calls, given, guards, torn, during, requestVars>>
-----------------------------------------------------------------------------
HasChain(k) == chains[k] # None /\ chains[k] # <<>>

(* executeRoute and executeRouteAsync: without a chain the handler runs.    *)
ArriveAlone(r, k) ==
  /\ phase[r] = "new" /\ routes[k] # None /\ ~HasChain(k)
  /\ phase' = [phase EXCEPT ![r] = "over"]
  /\ key' = [key EXCEPT ![r] = k]
  /\ handler' = [handler EXCEPT ![r] = routes[k]]
  /\ outcome' = [outcome EXCEPT ![r] = "handler"]
  /\ UNCHANGED <<created, chains, routes, calls, ran, given, guards, torn, during>>

AsyncTable == [mode |-> "async", kind |-> "table"]

(* With one, its first middleware runs. *)
ArriveWalks(r, k) ==
  /\ phase[r] = "new" /\ routes[k] # None /\ HasChain(k) /\ routes[k] # AsyncTable
  /\ phase' = [phase EXCEPT ![r] = "walking"]
  /\ key' = [key EXCEPT ![r] = k]
  /\ handler' = [handler EXCEPT ![r] = routes[k]]
  /\ ran' = [ran EXCEPT ![r] = <<chains[k][1]>>]
  /\ during' = [during EXCEPT ![r] = {chains[k]}]
  /\ UNCHANGED <<created, chains, routes, calls, outcome, given, guards, torn>>

(* executeLuaFunctionAsync refuses a handler that is a table. *)
ArriveFails(r, k) ==
  /\ phase[r] = "new" /\ routes[k] = AsyncTable /\ HasChain(k)
  /\ phase' = [phase EXCEPT ![r] = "over"]
  /\ key' = [key EXCEPT ![r] = k]
  /\ handler' = [handler EXCEPT ![r] = routes[k]]
  /\ outcome' = [outcome EXCEPT ![r] = "error"]
  /\ UNCHANGED <<created, chains, routes, calls, ran, given, guards, torn, during>>

(* Faulty: the end of the chain is one too early. *)
NextTooEarly(r) ==
  /\ phase[r] = "walking"
  /\ LET chain == chains[key[r]]
         n == Len(ran[r]) IN
     \/ /\ n + 1 < Len(chain)
        /\ ran' = [ran EXCEPT ![r] = Append(@, chain[n + 1])]
        /\ UNCHANGED <<phase, outcome>>
     \/ /\ n + 1 >= Len(chain)
        /\ phase' = [phase EXCEPT ![r] = "over"]
        /\ outcome' = [outcome EXCEPT ![r] = "handler"]
        /\ UNCHANGED ran
  /\ UNCHANGED <<created, chains, routes, calls, key, handler, given, guards, torn, during>>

(* next() goes on with the chain that is stored now, at the request's index. *)
NextLayer(r) ==
  /\ phase[r] = "walking"
  /\ LET chain == chains[key[r]]
         n == Len(ran[r]) IN
     \/ /\ n < Len(chain)
        /\ ran' = [ran EXCEPT ![r] = Append(@, chain[n + 1])]
        /\ UNCHANGED <<phase, outcome>>
     \/ /\ n >= Len(chain)
        /\ phase' = [phase EXCEPT ![r] = "over"]
        /\ outcome' = [outcome EXCEPT ![r] = "handler"]
        /\ UNCHANGED ran
  /\ UNCHANGED <<created, chains, routes, calls, key, handler, given, guards, torn, during>>

(* A middleware answers without next(), or raises an error. *)
Stop(r) ==
  /\ phase[r] = "walking"
  /\ phase' = [phase EXCEPT ![r] = "over"]
  /\ outcome' = [outcome EXCEPT ![r] = "stopped"]
  /\ UNCHANGED <<created, chains, routes, calls, key, handler, ran, given, guards, torn, during>>

Next ==
  \/ \E k \in Keys, mode \in Mode, kind \in Kind :
       \/ RegisterAlone(k, mode, kind)
       \/ \E list \in Lists : RegisterWith(k, mode, kind, list)
  \/ \E list \in Lists \cup {NotTable} : RegisterFails(list)
  \/ \E m \in Mw : Create(m)
  \/ \E r \in Request :
       \/ \E k \in Keys : ArriveAlone(r, k) \/ ArriveWalks(r, k) \/ ArriveFails(r, k)
       \/ NextLayer(r) \/ Stop(r)

Spec == Init /\ [][Next]_regVars
-----------------------------------------------------------------------------
(* Properties *)

Braces(path) == {i \in DOMAIN path : path[i] \in {OpenBrace, CloseBrace}}
Opening(path) == {i \in DOMAIN path : path[i] = OpenBrace}

(* The braces of a path alternate, the first opens and the last closes one, *)
(* and there are at most six pairs.                                         *)
Placeholders(path) ==
  /\ \A i \in Braces(path) :
       /\ path[i] = CloseBrace => \E j \in Braces(path) : j < i
       /\ path[i] = OpenBrace => \E j \in Braces(path) : j > i
       /\ \A j \in Braces(path) : i < j /\ path[i] = path[j] =>
            \E x \in Braces(path) : i < x /\ x < j /\ path[x] # path[i]
  /\ Cardinality(Opening(path)) <= 6

(* The one scan of countPathParameters lets through the paths with well     *)
(* formed placeholders and no others; a route has such a path.              *)
PathsWellFormed ==
  \A k \in Keys : /\ routes[k] # None => Placeholders(k[2])
                  /\ Placeholders(k[2]) => Accepted(k[2])

(* The front of a list, whole, or cut off at one of its holes. *)
CutAtHole(chain, list) ==
  /\ Len(chain) <= Len(list)
  /\ \A i \in DOMAIN chain : chain[i] = list[i]
  /\ Len(chain) < Len(list) => list[Len(chain) + 1] = Nil

(* The chain of a method and path is the list that was last stored for it,  *)
(* whole, or cut off at a hole of the list, which nothing reports.          *)
ChainIsGivenList ==
  \A k \in Keys : chains[k] # None =>
    given[k] # None /\ CutAtHole(chains[k], given[k])

(* A request gets to its handler at the end of a chain that its route had   *)
(* meanwhile, and each middleware that ran before stands at its place in    *)
(* such a chain: that is, all of the chain ran, in order, unless a          *)
(* registration of the same method and path overtook the request.           *)
WalksCurrentChains ==
  \A r \in Request : outcome[r] = "handler" =>
    /\ during[r] = {} => ran[r] = <<>>
    /\ during[r] # {} => \E c \in during[r] : Len(c) <= Len(ran[r])
    /\ \A i \in DOMAIN ran[r] : \E c \in during[r] : i \in DOMAIN c /\ c[i] = ran[r][i]

(* As long as no call failed between its chain and its route, the handler   *)
(* in force is behind the list that was given with it: no registration of   *)
(* another method or path, and none that fails in its list, puts another    *)
(* chain before it or takes one away.                                       *)
RouteKeepsGuards ==
  \A k \in Keys : guards[k] # None /\ k \notin torn =>
    chains[k] # None /\ CutAtHole(chains[k], guards[k])
=============================================================================
