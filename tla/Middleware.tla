------------------------------ MODULE Middleware ------------------------------
(***************************************************************************)
(* The walk of one request through the middleware chain of its route:      *)
(* executeMiddlewareChain (LuaRoutes.cc) of synchronous routes, where each *)
(* next() remembers its place in the chain, and next() with its            *)
(* continuations (LuaMiddleware.cc) of asynchronous ones, which count in   *)
(* the middlewareIndex of the one context that all of them share.          *)
(*                                                                         *)
(* Layers 1..size are the middleware, layer size + 1 is the route handler. *)
(* Between two steps of an asynchronous walk its coroutine may be suspended *)
(* (AsyncRoutes); nothing else touches the context meanwhile.              *)
(***************************************************************************)
EXTENDS Integers

CONSTANTS Sizes,      \* numbers of middleware of the routes
          SyncNexts,  \* bound: how often a synchronous middleware calls next()
          AsyncNexts  \* the same of an asynchronous one; nothing limits either

ASSUME MiddlewareAssumption == /\ Sizes \subseteq Nat \ {0}
                               /\ SyncNexts \in Nat /\ AsyncNexts \in Nat

VARIABLES
  mode,      \* "sync" or "async"
  size,      \* length of the chain
  index,     \* LuaAsyncMiddlewareContext::middlewareIndex
  at,        \* the layer that runs, 0 when the request is over
  caller,    \* caller[p]: the layer whose next() entered layer p
  nexts,     \* nexts[p]: calls of next() by the running layer p
  response,  \* "res" or "route": context->response, or what a layer returned
  raising,   \* an error is on its way up
  freed,     \* the LuaResponse that Lua knows as res was destroyed
  marked,    \* res was given a header before next() was called
  dangling,  \* res was used after it had been destroyed
  reply,     \* what was sent
  visited,   \* history: the layers that were entered
  again      \* history: an asynchronous middleware called next() once more

mwVars == <<mode, size, index, at, caller, nexts, response, raising, freed, marked,
            dangling, reply, visited, again>>

Layers == 1..(size + 1)
Handler == size + 1

TypeOK ==
  /\ mode \in {"sync", "async"}
  /\ size \in Sizes
  /\ index \in Nat
  /\ at \in 0..(size + 1)
  /\ caller \in [Layers -> 0..size]
  /\ nexts \in [Layers -> Nat]
  /\ response \in {"res", "route"}
  /\ raising \in BOOLEAN /\ freed \in BOOLEAN
  /\ marked \in BOOLEAN /\ dangling \in BOOLEAN
  /\ reply \in {"none", "res", "route", "error"}
  /\ visited \subseteq Layers
  /\ again \in BOOLEAN

Init ==
  /\ mode \in {"sync", "async"}
  /\ size \in Sizes
  /\ index = 0
  /\ at = 1
  /\ caller = [p \in Layers |-> 0]
  /\ nexts = [p \in Layers |-> 0]
  /\ response = "res"
  /\ raising = FALSE /\ freed = FALSE /\ marked = FALSE /\ dangling = FALSE
  /\ reply = "none"
  /\ visited = {1} /\ again = FALSE
-----------------------------------------------------------------------------
Running(p) == at = p /\ ~raising
Middle(p) == Running(p) /\ p \in 1..size

(* Layer p is called by the layer that runs, as a fresh activation. *)
Descend(p) == /\ at' = p
              /\ caller' = [caller EXCEPT ![p] = at]
              /\ nexts' = [nexts EXCEPT ![at] = @ + 1, ![p] = 0]
              /\ visited' = visited \cup {p}

(* next() of a synchronous middleware: the place in the chain was captured. *)
NextSync ==
  /\ mode = "sync" /\ Middle(at) /\ nexts[at] < SyncNexts
  /\ Descend(at + 1)
  /\ UNCHANGED <<mode, size, index, response, raising, freed, marked, dangling, reply,
                 again>>

(* Faulty: the index is advanced when next() is called and when it goes on. *)
NextAsyncTwice ==
  /\ mode = "async" /\ Middle(at) /\ nexts[at] < AsyncNexts
  /\ index' = index + 2
  /\ Descend(IF index' < size THEN index' + 1 ELSE Handler)
  /\ again' = (again \/ nexts[at] > 0)
  /\ UNCHANGED <<mode, size, response, raising, freed, marked, dangling, reply>>

(* next() of an asynchronous middleware, once its coroutine is resumed: the *)
(* shared index says which layer is entered.                                *)
NextAsync ==
  /\ mode = "async" /\ Middle(at) /\ nexts[at] < AsyncNexts
  /\ index' = index + 1
  /\ Descend(IF index' < size THEN index' + 1 ELSE Handler)
  /\ again' = (again \/ nexts[at] > 0)
  /\ UNCHANGED <<mode, size, response, raising, freed, marked, dangling, reply>>

(* Faulty: the short circuit of a synchronous middleware is not seen.       *)
ReturnKeepsResponse ==
  /\ Middle(at)
  /\ at' = caller[at]
  /\ UNCHANGED response
  /\ reply' = IF at' = 0 THEN response' ELSE reply
  /\ UNCHANGED <<mode, size, index, caller, nexts, raising, freed, marked, dangling,
                 visited, again>>

(* Faulty: each middleware takes its step of the index back, the first too. *)
ReturnRewinds ==
  /\ Middle(at)
  /\ at' = caller[at]
  /\ index' = index - 1
  /\ response' = IF mode = "sync" /\ nexts[at] = 0 THEN "res" ELSE response
  /\ reply' = IF at' = 0 THEN response' ELSE reply
  /\ UNCHANGED <<mode, size, caller, nexts, raising, freed, marked, dangling,
                 visited, again>>

(* A middleware returns.  A synchronous one hands up what its last next()   *)
(* returned, or res; the context of an asynchronous one keeps its response. *)
Return ==
  /\ Middle(at)
  /\ at' = caller[at]
  /\ response' = IF mode = "sync" /\ nexts[at] = 0 THEN "res" ELSE response
  /\ reply' = IF at' = 0 THEN response' ELSE reply
  /\ UNCHANGED <<mode, size, index, caller, nexts, raising, freed, marked, dangling,
                 visited, again>>

(* Faulty: the response of a synchronous route is replaced as well.         *)
HandlerReturnsFrees ==
  /\ Running(Handler)
  /\ at' = caller[at]
  /\ response' = "route"
  /\ freed' = TRUE
  /\ UNCHANGED <<mode, size, index, caller, nexts, raising, marked, dangling, reply,
                 visited, again>>

(* The handler returns.  captureRouteResult replaces the response of an     *)
(* asynchronous route, which destroys the object behind res.                *)
HandlerReturns ==
  /\ Running(Handler)
  /\ at' = caller[at]
  /\ response' = "route"
  /\ freed' = (freed \/ mode = "async")
  /\ UNCHANGED <<mode, size, index, caller, nexts, raising, marked, dangling, reply,
                 visited, again>>

Raise ==
  /\ Running(at) /\ at > 0
  /\ raising' = TRUE
  /\ UNCHANGED <<mode, size, index, at, caller, nexts, response, freed, marked, dangling,
                 reply, visited, again>>

(* The error reaches the next() of the layer above, which may be protected  *)
(* by pcall; a C++ exception of a synchronous route passes through pcall.   *)
(* It hands up no response, while the context of an asynchronous one stays.  *)
Propagate ==
  /\ raising
  /\ at' = caller[at]
  /\ response' = IF mode = "sync" THEN "res" ELSE response
  /\ IF at' = 0 THEN raising' = FALSE /\ reply' = "error"
                ELSE /\ raising' \in BOOLEAN
                     /\ mode = "sync" => raising'
                     /\ UNCHANGED reply
  /\ UNCHANGED <<mode, size, index, caller, nexts, freed, marked, dangling, visited, again>>

(* The running middleware sets a header of res. *)
TouchRes ==
  /\ Middle(at)
  /\ marked' = (marked \/ (nexts[at] = 0 /\ ~freed))
  /\ dangling' = (dangling \/ freed)
  /\ UNCHANGED <<mode, size, index, at, caller, nexts, response, raising, freed, reply,
                 visited, again>>

Rest == at = 0 /\ UNCHANGED mwVars

Next == NextSync \/ NextAsync \/ Return \/ HandlerReturns \/ Raise \/ Propagate
        \/ TouchRes \/ Rest

Safety == Init /\ [][Next]_mwVars

(* Middleware and handlers end, and suspended ones are resumed.             *)
Spec == Safety /\ WF_mwVars(Next)
-----------------------------------------------------------------------------
(* Properties *)

(* The handler runs only when every middleware of its route has been        *)
(* entered, however often and wherever next() was called.  It runs inside   *)
(* all of them, one in the other, as long as no asynchronous middleware has *)
(* called next() a second time: that call goes on where the shared index    *)
(* stands (LuaMiddleware.cc:132), past layers that have returned.           *)
HandlerInnermost ==
  at = Handler => /\ 1..size \subseteq visited
                  /\ ~again => \A p \in Layers : caller[p] = p - 1

(* Both walks implement the nested chain: the synchronous one for any use   *)
(* of next(), the asynchronous one step by step until one of its middleware *)
(* calls next() once more.  Each of them ends.                              *)
Chain == INSTANCE NestedChain WITH
           depth <- at, entered <- at > 0 /\ nexts[at] > 0, result <- response = "route"
StepsNest == [][again' \/ [Chain!ChainNext]_(Chain!chainVars)]_mwVars
ImplementsChain == Chain!ChainInit /\ StepsNest /\ <>(at = 0)

(* docs/middleware.md:56: the response contains the headers that a          *)
(* middleware set before it called next().                                  *)
HeadersKept == marked => reply # "route"

(* docs/middleware.md:102: a middleware can work before and after the       *)
(* layers below it, and res is the current response.  It is destroyed while *)
(* middleware can still use it only in asynchronous routes, when the        *)
(* handler has answered.                                                    *)
DanglesOnlyAsync == dangling => mode = "async" /\ response = "route"
=============================================================================
