# Drogua: specifications of the Lua web framework on Drogon

Drogua lets Lua scripts define the routes of a Drogon web server. The C++ code in
`drogua/lua_bindings` binds Lua to Drogon's requests, responses, database and HTTP
clients, and runs asynchronous route handlers on Lua coroutines that suspend while an
operation is outstanding. This directory holds TLA+ specifications of that code, the
TLC configurations that check them on small instances, and proofs that TLAPS checks
for every size. Line numbers refer to the files of `drogua/lua_bindings`, unless a
path is given.

    tlc -workers 2 -config AsyncRoutes.cfg MCAsyncRoutes.tla     # check a model
    tlapm AsyncRoutesProofs.tla                                  # check the proofs

`PROJECT.json` lists runs, theorems, findings and hazards, and maps each definition to
the lines of code that it models.

## 1. Inventory

### Asynchronous route engine (`LuaRoutes.cc/.h`, `LuaAsyncContext.h`)

State: one `LuaAsyncRouteContext` for each request (coroutine, response callback, owner
loop, resume callback), one `LuaAsyncMiddlewareContext` when the route has middleware,
one context for each operation that the coroutine waits for. Operations: dispatch
(`executeRouteAsync`, `executeLuaFunctionAsync`), yield (`handleAsyncYield`), resume
(`resumeAsyncRoute`), finish, fail, clean up. It calls the registry and the coroutines,
is called by Drogon (dispatch), by the clients' callbacks (through `resumeCallback`) and
by the event loop (queued tasks). Hard: an operation's callback comes from another
thread and may come before the coroutine has yielded; the client may leave between the
callback and the queued resume; the response callback is held in several copies; an
error takes another way before the first suspension than after it. Correct when: every
request gets at most one answer, and one if its client stays; a coroutine that waits has
exactly one thing that resumes it; nothing of an answered request stays behind.

### Context registry (`LuaAsyncContextRegistry.h`)

State: for each type of context a map from `lua_State*` to a shared pointer, behind a
mutex. Operations: set, get, clear, each atomic. What it holds is kept alive: a context
that nobody clears keeps its coroutine, its callback and its result.

### Coroutines (`LuaCoroutineManager.cc`)

State: a Lua thread and the reference that keeps it from the collector. Operations:
create, resume, release.

### Middleware (`LuaMiddleware.cc`, `executeMiddlewareChain` in `LuaRoutes.cc`)

State: the place in the chain (an argument in synchronous routes, `middlewareIndex` of
the shared context in asynchronous ones), the current response. Operations: `next()` in
both modes, the continuations after it, capture of the handler's result. Hard: `next()`
may be called again or not at all, errors may be caught between layers, the objects that
Lua sees may be replaced below it. Correct when: the layers are nested, the handler is
the innermost, and the response is the handler's or that of the layer that stopped.

### Registration and middleware manager (`luaRegister` in `LuaRoutes.cc`, `LuaMiddlewareManager.cc`)

State: Drogon's handlers by method and path, the chains by the same key, and the middleware
objects. Operations: `Drogua.Routes.get` and its nine kin (store the chain, then register
the route), `Middleware.create`, lookup of the chain when a request arrives. Usually called
by `app.lua` before the server runs, but nothing keeps a handler or a middleware from it.
Hard: a call may fail between chain and route; requests keep a pointer to the chain and an
index while they walk it; the length of a list with holes is not determined. Correct when:
a chain is the list that was given, and a request that reaches its handler went through a
chain of its route.

### Database client (`LuaDatabase.cc`, `LuaDbUtils.h`)

State: a handle of Drogon's `DbClient`, whose pool has `number_of_connections`
connections (1 in `drogua/config.json:65`). Operations: `query`, `begin` (blocking),
`queryAsync`, `beginAsync` (suspending). Hard: a blocking call keeps the event loop
while it waits for a connection that another route or Lua's garbage must give back.

### Transactions (`LuaTransaction.cc`)

State: Drogon's transaction and `finished_`. Operations: query, queryAsync, commit,
rollback, and the destructor, which Lua's collector calls. Hard: `commit()` and
`rollback()` return before their statement has run; a transaction may be forgotten, its
handler may fail, its client may leave; Drogon commits a transaction that is destroyed
open. Correct when: nothing is committed that no `commit()` asked for, no statement
follows the last one, and every connection comes back.

### HTTP client (`LuaHttp.cc`)

State: `LuaAsyncHttpContext` (retry options and counter, result) for each call, and a
cache of clients by authority and event loop. Operations: first attempt, retry timer,
retry, their callbacks. Hard: a chain of callbacks in which the client may leave at any
point, errors that are reported, retried or thrown. Correct when: the route is resumed at
most once, with an error only after the retries that were asked for, and always resumed.

### Tables that leave Lua (`LuaRoutes.cc`, `LuaResponse.cc`, `LuaHttp.cc`, `LuaDbUtils.h`)

Four walks over a Lua table: `luaTableToJson` (a table route, the body of an outgoing
request), `luaValueToJson` (`Response:json`), the headers in `buildRequest`, and
`bindLuaParameters`; and two readers of JSON. State: the key on Lua's stack, from which
`lua_next` goes on, and what the first pass found out. Hard: the order of a walk is Lua's
own; `lua_tostring` changes a number on the stack into a string, and `lua_next` then goes on
from another key; the two converters decide in two ways what an array is. Correct when:
sequences become arrays, no member is lost, every walk ends.

### Synchronous routes, requests, results

A synchronous route runs its Lua function to the end on the event loop; the loop does
nothing else meanwhile. `LuaRequest::connected` is the one method of a request that
anything depends on; the results and rows are read-only views.

### The rest

`LuaHttpAppFramework.cc` forwards settings to Drogon, `LuaBindings.cc` registers the
functions, `main.cc` runs `app.lua`. Tests, build files, container files, the example
application and the licences have no behaviour of the program.

### How they interact

                     Drogon: event loops, pool of connections, HTTP clients
             dispatch |   ^ answer        ^ statements       ^ attempts
                      v   |               |                  |
      Middleware <-> AsyncRoutes  --->  Transactions      HttpCalls
       (next())       engine      <---  (operations that the coroutine waits for;
                        |                their callbacks queue a resume)
                  registry, coroutines

Registration decides which chain and handler a request meets, and every answer that Lua
makes of a table passes through the walks.  The engine is the hub: `AsyncRoutes` has an operation as a thing that is pending and
then has an outcome (`AsyncOperation`), `HttpCalls` is shown to be one, `Transactions`
has the operations of the database together with what they do to the pool. That a route
waits for one operation after the other, and takes the outcome of each before it begins the
next, is `OperationSlot`, which both `AsyncRoutes` and `Transactions` are shown to implement.
`Middleware` looks into the part of a request in which the engine only sees suspensions.

## 2. Modules

| Module | What it is |
|---|---|
| `AsyncRoutes` | the engine, registry and coroutines, several requests and loops |
| `RequestContract` | abstract: what a route promises Drogon for each request |
| `HttpCalls` | outgoing HTTP requests with retries and client cache |
| `AsyncOperation` | abstract: what a route assumes of an operation |
| `OperationSlot` | abstract: the operations of one route, one after the other |
| `Transactions` | transactions, their statements, the pool, the collector |
| `Middleware` | the walk of one request through its chain, in both modes |
| `Registration` | registering routes and chains while requests walk them |
| `TableWalks` | the four walks over a Lua table, and JSON read back |
| `NestedChain` | abstract: nested layers, as `docs/middleware.md` describes them |
| `PathScanProofs` | what the scan of a path computes, for paths of any length |
| `*Proofs` | invariants and theorems about the module of that name |
| `MC*` | definitions for TLC: sets of numbers, tables, paths and lists, symmetry |

A definition whose comment begins with "Faulty:" is not part of a specification: it is
the definition that follows it with a plausible mistake, and the property named beside
it in `PROJECT.json` ("mutants") is violated when the mistake takes its place.

### AsyncRoutes

| Variable | Code |
|---|---|
| `owner` | `LuaAsyncContext::ownerLoop` |
| `current` | the handler or task that the event loop is in |
| `queue` | tasks that `queueInLoop` has posted, each a `resumeAsyncRoute` |
| `co` | `context->coroutine` and the status that `lua_resume` left it in |
| `reg` | the contexts under the coroutine's key in the registry |
| `cb` | which places hold a response callback that was not moved out: the catch clause of the route (`binder`) and the contexts |
| `op` | the operation's context: pending, result, error, or dropped for a client that left |
| `connected` | `HttpRequest::connected()` |
| `sent`, `verdict`, `raised` | history: invocations of the callback and exceptions into Drogon |

| Action | Code |
|---|---|
| `AnswerTable`, `RejectHandler`, `StartRoute` | `executeRouteAsync` to the first `lua_resume` |
| `StartOp`, `YieldForOp` | `queryAsyncLua` and its like, and the yield after it, as two steps: the callback may come between them |
| `CallNext` | `luaNextAsync`, whose yield of a boolean makes `handleAsyncYield` queue the resume |
| `HandlerReturns`, `HandlerFails` | `handleAsyncFinished`, `finishAsyncRoute`, `failAsyncRoute`, and the catch clause before the first suspension |
| `CompleteOp` | the callbacks of an operation |
| `ResumeTask`, `DropTask` | `resumeAsyncRoute` |
| `Disconnect` | the client leaves |

Abstracted: what Lua computes (any of the steps above may come next), the kinds of
operation (all of them follow the same protocol), the contents of results. A handler
suspends through Drogua's functions and from places where Lua can yield. A piece of Lua
between two yields runs on one loop at a time; pieces on different loops interleave. The
`lua_State` is shared by the loops without a lock, which is not modelled: a data race in
the interpreter has no outcome to enumerate (`docs/app.md:41` asks for few threads).

### HttpCalls

`todo[c]` is the set of callbacks of call `c` that are still to come: its start, the
reply to the first attempt, the timer of the retry, the reply to the retry. Each action
is one callback with all it calls: `FirstError` is the error callback of
`requestAsync(lua_State*)`, `Conclude` the success callback and both callbacks of
`scheduleRetry`, `Send` is `getClient` with its cache and `sendRequest`, `Refused` an
authority that makes `getClient` throw. The delay of a retry is the moment when
`TimerSends` or `TimerThrows` happens. `asked[c]` is the count that the script gave and
`maxRetries[c]` what the cast to `int` made of it (`ToInt`). What is sent and received is left
out.

### Transactions

`lua[r]` is where the handler stands (running, suspended in `beginAsync` or `queryAsync`,
suspended in a query outside the
transaction, blocked in `begin` or `query`, ended), `handle[r]` who refers to the Lua object, `stmts[r]`
the statements under way on its connection, `db[r]` the state of the transaction in the
database, `holds` the requests whose transaction has a connection. A statement that fails
rolls the transaction back. Drogon's transaction goes away with its last reference
(`Release`), commits what is open and gives the connection back. External, modelled from
how the code uses it: the pool, the database, Drogon's transaction, the collector, which
runs on any loop that is not blocked. Each request makes at most one
transaction; it may also query outside it, blocking (`Block`) or suspending
(`QueryOutside`), and then needs a connection beside the one that it holds. The path of a resume is that of
`AsyncRoutes`, reduced to the call that the handler waits in.

### Middleware

Layers 1 to `size` are the middleware and layer `size + 1` the handler. `caller[p]` is the
layer whose `next()` entered layer p. In synchronous routes `next()` goes to the layer
below its own; in asynchronous ones the shared `index` says where (`NextAsync`). `visited`
and `again` are histories: the layers that were entered, and whether an asynchronous
middleware has called `next()` more than once.
`Propagate` takes an error up: in asynchronous routes `pcall` may stop it at each layer,
in synchronous ones it is a C++ exception and `pcall` does not. That such an exception
leaves Lua's frames at all depends on how Lua was compiled and is assumed.

### Registration

`chains` is `routes_` of the manager, `routes` what Drogon has, `created` the middleware
objects; `phase`, `key`, `handler`, `ran` and `outcome` follow each request. `RegisterAlone`
and `RegisterWith` are `luaRegister` and `luaRegisterAsync` without and with a list; both store
the chain first (`Store`) and then register the route, which an unsuitable handler or path
makes throw (`RegisterRoute`): a part of the same action, since Lua gets control back only
afterwards. `ChainsOf(list)` are the chains that `luaTableToChain` may make of a list, one for
each border that Lua may take for its length. `Scan` is `countPathParameters`, over paths
whose characters are braces and others. A suspended request is at index `Len(ran[r])` of the
chain that its key has now: `add` assigns to the vector to which the request points.
`given`, `guards`, `torn` and `during` are histories. A repeated or missing `next()` and errors are Middleware's
subject; here a layer calls `next()` once (`NextLayer`) or stops (`Stop`). A walk of a
synchronous route is one call, in which only its own middleware could register; the model
also lets other registrations in, as in an asynchronous one.

Drogon asserts, in debug builds, that handlers are registered before `run()`. In other
builds it takes them; in every build a call whose path or handler is refused has replaced
the chain by then.

### TableWalks

A table is the sequence of its keys in the order of `lua_next`; a key is a number, the text
of a number, a name, or something else. `opaque` are the keys whose value has no JSON form,
is no string (headers) or cannot be bound. `pos` is where the key on the stack lies in the
order, and `GoOnBehind(k)` is `lua_next` after the key on the stack was changed into `k`: the
walk goes on behind `k`, or raises an error if there is no such key. `out` says for each
member of the result whose value it got. `RouteCounts`, `RouteDecides` and `RouteFills` are
`luaTableToJson`; `ResponseExpects`, `ResponseDecides`, `ResponseAppends` and `ResponseFills`
`luaValueToJson`; `HeaderAdds` and `Bind` the other two; `ReadBack` the readers. A nested table
is a value that is converted by the same walk one level down.

## 3. What the runs check

The runs that pass:

| Run | Instance | States | Properties |
|---|---|---|---|
| `routes` | 2 requests, 2 loops, up to 3 suspensions each | 71 thousand | `TypeOK`, `OneWaker`, `AnsweredAtMostOnce`, `LeftBehindOnlyByDeparture`, `ResumedOnlyWhenFed`, `SuspendsOnOperations`, `ConnectedIsServed`, `KeepsContract` |
| `http_calls` | 2 calls, 2 loops, a good and a refused authority, counts -7, -1, 0, 1, 3, 5 where `int` is -4..3 | 213 thousand | `TypeOK`, `CompletesOnce`, `AttemptsWithinCount`, `LostOnlyByRetry`, `OneSchemePerClient`, `ImplementsOperation` |
| `transactions` | 2 routes, each blocking or suspending, whose clients may leave, 2 loops, 1 connection, 2 calls each | 278 thousand | `TypeOK`, `CommittedOnlyIfAsked`, `StatementsInTurn`, `KeptOnlyByDeparture`, `NeverStuck`, `CallsAreOperations`, `PoolRecovers` |
| `middleware_chain` | chains of 1 to 4, up to two calls of `next()` in each middleware of both modes | 4452 | `TypeOK`, `HandlerInnermost`, `DanglesOnlyAsync`, `ImplementsChain` |
| `tables` | all tables of up to 3 keys among four numbers, their texts, a name and another key, in every order, with every set of opaque values | 197 thousand | `TypeOK`, `ConvertersAgree`, `LostOnlyByJumps`, `RaisesOnlyFor`, `ParametersInPlace`, `SurvivesRoundTrip`, `Ends`, `GetsFurther` |
| `registration` | 3 registrations, 2 middleware, 5 lists, 2 methods on one path and 3 paths at the limits of the scan, 1 request | 227 thousand | `TypeOK`, `PathsWellFormed`, `ChainIsGivenList`, `WalksCurrentChains`, `RouteKeepsGuards` |

Their bounds, and why they are enough:

* Requests of `AsyncRoutes` share nothing but the loops and their queues. Two requests
  are on the same loop in some initial states and on different ones in others, so that
  tasks queue behind each other and handlers run in parallel. `MaxYields = 3` has an
  operation after an operation, after `next()`, and before one: a context of one
  operation can be met by the next.
* Calls of `HttpCalls` share the client cache. Two calls with every pair of schemes,
  authorities and loops meet in it in every way. The counts are a negative number, none,
  one, more than the code ever makes, and two beyond an `int`: `MaxInt = 3` makes it narrow
  enough that 5 becomes negative and -7 positive, as 2^31 and -2^32 + 1 do in the code.
* One connection is what `config.json` has, and the pool on which routes depend most on
  each other. Two calls let a route begin and then query in the transaction, outside it,
  or not at all.
* A middleware's step touches its own layer and the next one; chains of one to four have
  a first, a last and two inner layers. With two calls of `next()` a synchronous middleware
  has a second pass over everything below, and an asynchronous one goes on with an index
  that has passed the layers below it.
* Three keys in a walk are the fewest in which it can jump over one: a number, a member,
  and the text of the number. The numbers have one that is no index (0), and 1 to 3 make
  sequences, holes, and sequences in a wrong order.
* Three registrations are a first chain, another one under a walking request, and one after
  it. The lists are an empty one, one and two middleware, one with a hole, and one with a
  value that is no middleware; the paths have nested, unclosed and seven placeholders.

The safety properties of all of these, and the safety parts of `KeepsContract`,
`ImplementsOperation` and `ImplementsChain`, are proved without bounds (section 5). `Rest` steps say where a system has nothing left to do, so that
TLC reports every other stop as a deadlock. Three configurations switch that off: in
`transactions` and `transactions_departure` a connection that was never given back, or a loop
that is blocked, does stop the rest (`PoolRecovers` says when it does not), and in
`registration` the bound on calls and requests leaves an idle server.

`PoolRecovers` and `NeverStuck` have a condition, `Cooperative`, and the code needs each
part of it. `NeverStuck` is the part that needs no fairness: as long as the routes have kept
to the condition, something that one of the waiting routes needs can happen at once. In
`NeverStuck` the condition is one of the present state; `PoolRecovers` has it for ever.

* No client leaves: see `transactions_departure` below.
* No route asks for a connection beside the one of its transaction. On a pool of one
  connection `tx = db:begin()` followed by `db:query()` or `db:queryAsync()` waits for ever
  (`LuaDatabase.cc:73`, `:86`).
* No loop is blocked on which an open transaction must still be ended. A route that
  suspended in its transaction, or was granted one by `beginAsync`, cannot go on while
  another route blocks the same loop in `begin()`, waiting for that very connection. A
  forgotten transaction is harmless only as long as some loop can run Lua's collector.

The remaining runs state what the documentation or a comment says and find it violated:

| Run | Said | What the code does |
|---|---|---|
| `routes_errors` | `docs/middleware.md:279`: errors "are propagated through Drogua" | An error before the first suspension reaches a catch clause whose callback was moved into the context (`LuaRoutes.cc:607`): invoking it throws `bad_function_call` into Drogon, and the message is lost. |
| `http_retries` | `docs/http-request.md:566`: count = 3 "allows up to three retries" | The retry's error callback is final: one retry, whatever the count (`LuaHttp.cc:115`). |
| `http_scheme` | `docs/http-request.md:691`: accepts HTTP and HTTPS URLs | The client is cached without its scheme: https goes over a plain client, or the reverse (`LuaHttp.cc:389`). `OneSchemePerClient` states what does hold: one scheme, that of a call which was made, for each authority and loop. |
| `transactions_departure` | `LuaTransaction.cc:21`, `docs/database-transaction.md:181`: abandoned transactions are rolled back | A client that leaves during a statement leaves the operation's context in the registry, and with it the coroutine, the transaction and its connection. |
| `middleware_headers` | `docs/middleware.md:56`: the response has the header that a middleware set before `next()` | The handler's response replaces `res` and its headers (`LuaRoutes.cc:311`). |
| `response_arrays` | `docs/response.md:110`: "Sequential Lua tables are converted to JSON arrays" | `Response:json` asks `lua_next` for 1, 2, 3 in this order (`LuaResponse.cc:108`). A sequence in the hash part of a table may come as 2, 1: it becomes an object, or the conversion raises an error. `luaTableToJson` has no such condition. |

Other disagreements are stated exactly, by properties that pass, rather than by a run that
fails:

* `docs/http-request.md:606` has failures "reported as an error from `requestAsync()`". A URL
  that `getClient` refuses is retried from a timer in which nothing catches the exception
  (`LuaHttp.cc:248`), and the route waits for ever. `LostOnlyByRetry`: this, and nothing else,
  loses an outcome.
* `docs/middleware.md:102` has work "before and after" the next layer. In asynchronous routes
  `res` is destroyed when the handler's result is captured (`LuaMiddleware.cc:229`), so that a
  use of it after `next()` reads freed memory. `DanglesOnlyAsync`: never in synchronous ones,
  and never before the handler has answered.
* A transaction that is forgotten is rolled back when Lua's collector runs, which may be
  never; `docs/database-transaction.md:194` has it rolled back where it goes out of scope.
  `PoolRecovers` says under which condition it is.
* `docs/database-transaction.md:121-134` has four placeholders and a list of four parameters
  of which the last is `nil`. Lua's length of that table is 3, so that `bindLuaParameters`
  (`LuaDbUtils.h:19`) never binds the fourth: the code does not do what the text shows. A
  table in Lua does not know that a `nil` ended its constructor, so `TableWalks` cannot tell
  the two lists apart either. `ParametersInPlace` says what the code does bind: each value or
  NULL at its own placeholder, none skipped, and values left out only behind a `nil`.
* A list of middleware with a `nil` in it may lose what stands behind without an error, or be
  refused, although `LuaMiddlewareManager.cc:94` looks for `nil`. `ChainIsGivenList` and
  `RouteKeepsGuards`: a chain that is shorter than its list ends at a hole, and nothing else
  is lost. They allow the cut, since no text says what such a list should become.
* A registration that fails in its handler or path has replaced the chain of the route that
  stays (`LuaRoutes.cc:56`). `RouteKeepsGuards`: a handler is behind the list that was given
  with it, unless such a call came after it (`torn`). Which chain should then stay is written
  nowhere; the code's answer is recorded, not judged.
* `retry.count` is cast to `int` (`LuaHttp.cc:50`). `AttemptsWithinCount`: there are never
  more attempts than were asked for, but for one retry where a count below every `int` is
  cast to a positive one. A count above every `int` may lose its retry.
* An object with a key that is a number makes `Response:json` raise an error, and a
  table with 2 and "2" may be walked for ever (`LuaResponse.cc:139`): {["2"] = ..., [2] = ...}
  in this order jumps back each time. `RaisesOnlyFor`, `LostOnlyByJumps` and `Ends` say for
  which tables. `luaTableToJson` leaves numbers out of objects instead (`SurvivesRoundTrip`).
* An asynchronous table route with middleware is registered and then answers every request
  with an error (`LuaRoutes.cc:360`); `ArriveFails` models it.
* An asynchronous middleware that calls `next()` a second time, after a `pcall` of the first
  say, goes on where the shared index was left (`LuaMiddleware.cc:132`): the layers below it
  that have run are not entered again, and the handler may run outside them, or once more
  after a layer that had refused to call `next()`. In a synchronous route the second call
  enters the layer below. `docs/routes.md:601` says that asynchronous middleware uses "the
  same `next()` model as regular middleware", and `docs/middleware.md:172` that the model is
  the nested one. The runs have such calls, and `again` marks a walk from the first of them.
  `HandlerInnermost` says what still holds then, that all middleware of the route was entered
  before the handler, and the walk still ends; the nesting, and with it `StepsNest` of
  `ImplementsChain`, holds for synchronous routes without a condition and for asynchronous
  ones up to that call.

## 4. Fairness

* `AsyncRoutes`: weak fairness of each loop's tasks (an event loop runs what is queued on
  it), of a running piece of Lua (it ends: returns, fails or suspends), of the yield after
  an operation was started (straight-line code), and of each operation's callback
  (Drogon calls one of the two; `HttpCalls` shows it for HTTP). No fairness of dispatch or
  of departures.
* `HttpCalls`: weak fairness of every callback of a call that has been started: timers
  fire and Drogon's HTTP client reports each request, by its own timeout at the latest.
* `Transactions`: handlers end, statements are answered, a free connection is given to
  one that waits, loops run their tasks, and Lua's collector runs again. Weak fairness is
  enough because each handler makes a bounded number of calls. The collector's
  fairness is the one that is an assumption about the application: Lua collects as it
  allocates, so it holds while requests keep coming.
* `Middleware`: every layer ends.
* `TableWalks`: a walk is a loop of one thread, and goes on.
* `Registration` has no liveness property and no fairness.

## 5. What is proved

The theorems hold for every value of the constants under the `ASSUME`s of the modules (an
idle loop is told apart from a request, bounds are natural numbers, a pool has a
connection, refused authorities are authorities, chains are not empty).

* **AsyncRoutes** (`AsyncRoutesProofs`): `TypeCorrect`, `NoWakeupLostOrDoubled`,
  `NoSecondAnswer`, `NothingLeftBehind`, `ResumesAreFed`
  (an action property) and `ImplementsContract` (every step is one of `RequestContract`
  or a stutter). `OneWaker` is inductive with `RunInv`, which says that a request runs Lua
  exactly on the loop whose `current` it is, and `RequestInv`, which says for each state of
  a coroutine which contexts are registered, which of them hold a callback, how far the
  operation is and whether an answer was given. It is needed because "at most one
  answer" depends on which copies of the callback are left at each place.
  `EngineUsesSlots`: the engine implements `OperationSlot`. A task finds an outcome, or
  nothing when it was `next()` that yielded, and never a pending operation (`OneWaker`); a
  handler that runs has an empty slot (`RequestInv`).
* **HttpCalls** (`HttpCallsProofs`): `TypeCorrect`, `ResumedOnce`, `AttemptsBounded`,
  `LostInRetries`, `ImplementsOperationSafely`. `CallInv` lists the five stages of a call: exactly one
  callback is to come, and tells how many attempts and retries there were. `AttemptsBounded`
  speaks of the count that the script gave: `CastIsInt` and `Kept` say what the cast makes of
  it, for an `int` of any width.
  `ClientsShareScheme` rests on `CacheInv`: a call that was sent went over the scheme in the
  cache, and the scheme in the cache is that of a call which was sent. The cache is only
  ever filled, so both stay true through retries.
* **Transactions** (`TransactionsProofs`): `TypeCorrect`, `NoAccidentalCommit`,
  `NothingAfterTheLastStatement`, `ConnectionsKeptOnlyByDeparture`. `ObjectInv` ties the Lua
  object to the transaction, `StatementInv` the statements to `finished_` (an open
  transaction whose object is finished has its last statement under way: this is what
  keeps Drogon from committing it), `PlaceInv` the place of the handler to who refers to
  the object. `NoDeadlock` (`NeverStuck`): if a connection is out, its transaction is finished
  and can be answered or released, or its handler runs, or has a result to go on with on a
  loop that somebody else occupies, or waits for its own statement, or it is garbage and some
  loop can collect it; a loop that is blocked blocks no open transaction, by `Cooperative`. If
  none is out, the pool has a free one for whoever waits (a finite set with no members has
  fewer than `Connections`). This takes the converse of the link between statements and
  suspensions, which `StatementInv` has for it: who waits in `queryAsync` has its statement
  under way. `DatabaseUsesSlots`: the suspended calls implement `OperationSlot`; an answer
  of the database finds the call that it belongs to still pending.
* **Middleware** (`MiddlewareProofs`): `TypeCorrect`, `InnermostHandler`,
  `ImplementsChainSafely`, `SyncWalkImplementsChain` and `ResOutlivesSyncRoutes`, for chains of
  any length and any number of calls of `next()`. `Entered` carries the unconditional half of
  `HandlerInnermost`: what the shared index has passed was entered, and the handler is entered
  only when the index has reached the end. `Nested` and `IndexFollows` hold until `again`: the
  layers above the running one were entered one by one, and the shared index is that of the
  running layer until it calls `next()`, which is what makes the two walks agree. A
  synchronous walk never sets `again`.
* **TableWalks** (`TableWalksProofs`): `TypeCorrect`, `ConversionIsExact`, `LossIsByJumps`,
  `RaisesAreKnown`, `ParametersKeepPlace`, `RoundTripIsExact`, for tables of any size and any
  keys. The invariant says for each converter what the first pass knows of the part behind it
  (`count` is the number of indexes among the keys visited, `maxIndex` the greatest) and what
  the second has put. That `luaTableToJson` recognises sequences rests on a counting
  argument: n different positive integers that are at most n are all of them.
  `WalksGetFurther` is the safety core of `Ends`: where numbers come before their texts, the
  key that `lua_tostring` made lies behind the one it replaced, so that `pos` grows with
  every step and an ended pass never begins again.
* **Registration** (`RegistrationProofs`): `TypeCorrect`, `ChainsAreLists`, `NothingSkipped`,
  `GuardsStay`, for any lists, routes and requests. `Walk(r)` is what makes
  `WalksCurrentChains` inductive: each middleware that ran stands at its place in a chain of
  `during[r]`, of which the present one is a member as long as the request walks.
  `RoutesHavePlaceholders` has the scan of `countPathParameters` in the invariant: what Drogon
  was given had been accepted.
* **The scan of a path** (`PathScanProofs`): `ScanIsExact` says that the loop accepts a path
  exactly when its braces alternate, begin with an opening and end with a closing one, and
  the opening ones are at most six, for paths of any length. The recursive function of `Scan`
  is not opened by an induction rule: `After(path, i)` is a closed form of what the loop knows
  after i characters (thrown if an earlier brace repeats the one before it or comes too
  soon; else inside or outside by the last brace, and the number of opening ones), and if
  the function differed from it anywhere, it would do so at a least place (`LeastElement`),
  which one turn of the loop excludes.

Only model-checked: everything about liveness (`ConnectedIsServed`, `PoolRecovers`, `Ends`, the
fairness of the contracts, the end of each chain), which the prover has no means for. Their
safety cores are proved: `OneWaker` (a waiting coroutine has something that will resume it),
`NeverStuck` and `GetsFurther`.

## 6. Not modelled, and why

* Columns of results and rows, bodies, log messages, settings: data and I/O. `row:isNull(1)`
  of `docs/database-row.md:57` reaches the overload for names, the only one that
  `LuaBindings.cc:118` registers.
* Texts of URLs: the port that `getClient` parses, and its default of 80 for https as well.
* Start-up and the application framework: straight lines.
* The Lua stack: what happens when C++ exceptions cross Lua frames (compiler), how deep a
  nested table may be.
* Data races in the shared `lua_State`.
* Operations that are started where Lua cannot yield (in a comparison of `table.sort`), and a
  handler that yields by itself: excluded from `AsyncRoutes` by assumption.
* Drogon's own reactions: what it does with a statement whose parameters were not all bound,
  or with a route that is registered while it runs.

## 7. Plan

Written so far, in this order: the engine with its contract; HTTP calls and the operation
they implement; transactions and the pool; middleware and the nested chain; the walks over
tables; registration; the proofs of each. What is left:

1. **Composition**: a module in which the operation of `AsyncRoutes` is a call of
   `HttpCalls`, with the engine's `CompleteOp` replaced by its callbacks, and the proof that
   it implements both. `OperationSlot` is the interface at which the two meet.
2. **AsyncRoutes**: operations started where Lua cannot yield, as a run of their own.
3. **Proofs**: for `ConnectedIsServed`, a measure of what is left of a request that each fair
   step lowers, as `GetsFurther` is for the walks.
