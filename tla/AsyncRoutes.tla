------------------------------ MODULE AsyncRoutes ------------------------------
(***************************************************************************)
(* The engine of Drogua's asynchronous routes (LuaRoutes.cc): each request *)
(* runs its Lua handler on a coroutine of its own, the handler suspends    *)
(* while a database or HTTP operation is outstanding or while next() hands *)
(* over to the rest of the middleware chain, and the coroutine is resumed  *)
(* by a task queued on the event loop that accepted the request.           *)
(*                                                                         *)
(* The actors are the event loops, which run Lua and queued tasks one at a *)
(* time, the database and HTTP clients, whose callbacks come from another  *)
(* thread at any moment after the operation was started, and the clients   *)
(* of the requests, which may leave at any moment.                         *)
(***************************************************************************)
EXTENDS Naturals, Sequences

CONSTANTS Request,    \* the requests Drogon dispatches to asynchronous routes
          Loop,       \* the event loops (setThreadNum)
          Idle,       \* the value of "current" for a loop that runs no Lua
          MaxYields   \* how often one handler suspends (bounds the Lua program)

ASSUME ConstantsAssumption == /\ Idle \notin Request
                              /\ MaxYields \in Nat

VARIABLES
  owner,      \* owner[r]: the loop that dispatched r (LuaAsyncContext::ownerLoop)
  current,    \* current[l]: the request whose Lua code loop l is executing
  queue,      \* queue[l]: tasks posted with queueInLoop, as the requests they resume
  co,         \* co[r]: the coroutine of r, as the context of r sees it
  reg,        \* reg[r]: which contexts the registry holds under r's lua_State
  cb,         \* cb[r]: the holders of a non-empty copy of the response callback
  op,         \* op[r]: the operation the coroutine of r waits for
  yields,     \* yields[r]: suspensions of r so far
  connected,  \* connected[r]: HttpRequest::connected()
  sent,       \* sent[r]: how many times the response callback was invoked
  verdict,    \* verdict[r]: what it was last invoked with
  raised      \* raised[r]: an exception left the route's handler

vars == <<owner, current, queue, co, reg, cb, op, yields, connected,
          sent, verdict, raised>>

(* No context keeps a coroutine that has ended, which Lua calls dead. *)
CoState == {"none",       \* no coroutine created
            "running",    \* executing Lua
            "yielding",   \* inside a C function that has started an operation
            "suspended",
            "released"}   \* context->coroutine was reset
Context == {"route", "mw", "op"}
Holder  == {"binder"} \cup Context
OpState == {"none",
            "pending",    \* neither callback has been called yet
            "ok", "err",  \* asyncResult or asyncError is set
            "dropped"}    \* the callback found the client gone and returned

TypeOK == /\ owner \in [Request -> Loop]
          /\ current \in [Loop -> Request \cup {Idle}]
          /\ queue \in [Loop -> Seq(Request)]
          /\ co \in [Request -> CoState]
          /\ reg \in [Request -> SUBSET Context]
          /\ cb \in [Request -> SUBSET Holder]
          /\ op \in [Request -> OpState]
          /\ yields \in [Request -> 0..MaxYields]
          /\ connected \in [Request -> BOOLEAN]
          /\ sent \in [Request -> Nat]
          /\ verdict \in [Request -> {"none", "answered", "error"}]
          /\ raised \in [Request -> BOOLEAN]

Init == /\ owner \in [Request -> Loop]
        /\ current = [l \in Loop |-> Idle]
        /\ queue = [l \in Loop |-> <<>>]
        /\ co = [r \in Request |-> "none"]
        /\ reg = [r \in Request |-> {}]
        /\ cb = [r \in Request |-> {"binder"}]
        /\ op = [r \in Request |-> "none"]
        /\ yields = [r \in Request |-> 0]
        /\ connected = [r \in Request |-> TRUE]
        /\ sent = [r \in Request |-> 0]
        /\ verdict = [r \in Request |-> "none"]
        /\ raised = [r \in Request |-> FALSE]
-----------------------------------------------------------------------------
(* Shared steps.  Each constrains only the variables it names. *)

Unseen(r) == co[r] = "none" /\ sent[r] = 0
Live(r)   == co[r] \in {"running", "yielding", "suspended"}

(* executeLuaFunctionAsync is still on the C++ stack: an exception can      *)
(* reach the caller.  Afterwards only queued tasks touch the request.       *)
Attached(r) == yields[r] = 0

(* The callback held by h is moved out and, unless it is empty, invoked. *)
Invoke(r, h, v) ==
  IF h \in cb[r]
    THEN /\ sent' = [sent EXCEPT ![r] = @ + 1]
         /\ verdict' = [verdict EXCEPT ![r] = v]
    ELSE UNCHANGED <<sent, verdict>>

(* Faulty: the contexts keep the coroutine that has run to its end. *)
CleanupKeepsCoroutine(r) == /\ reg' = [reg EXCEPT ![r] = @ \ {"route", "mw"}]
                            /\ cb' = [cb EXCEPT ![r] = @ \ {"route", "mw"}]
                            /\ co' = [co EXCEPT ![r] = IF @ = "running" THEN "dead" ELSE @]

(* Faulty: the middleware context stays in the registry. *)
CleanupKeepsMiddleware(r) == /\ reg' = [reg EXCEPT ![r] = @ \ {"route"}]
                             /\ cb' = [cb EXCEPT ![r] = @ \ {"route", "mw"}]
                             /\ co' = [co EXCEPT ![r] = "released"]

(* cleanupAsyncRoute: the contexts of an operation are not its business. *)
Cleanup(r) == /\ reg' = [reg EXCEPT ![r] = @ \ {"route", "mw"}]
              /\ cb' = [cb EXCEPT ![r] = @ \ {"route", "mw"}]
              /\ co' = [co EXCEPT ![r] = "released"]

(* Faulty: the contexts are cleaned up before the callback is moved out. *)
SettleAfterCleanup(r, v) == /\ Cleanup(r)
                            /\ UNCHANGED <<sent, verdict, raised>>

(* finishAsyncRoute and failAsyncRoute: the middleware's copy is used when *)
(* there is a middleware context, and both copies are dropped.             *)
Settle(r, v) == /\ Invoke(r, IF "mw" \in reg[r] THEN "mw" ELSE "route", v)
                /\ Cleanup(r)
                /\ UNCHANGED raised

(* The catch clause of registerAsyncRouteImpl: sendErrorResponse through    *)
(* the handler's own callback.  Invoking one that was moved from throws.    *)
SendError(r) == /\ Invoke(r, "binder", "error")
                /\ raised' = [raised EXCEPT ![r] = "binder" \notin cb[r]]

(* resumeCallback: weak_ptr::lock() and the coroutine check, then           *)
(* queueInLoop on the owner loop.                                           *)
Wake(r) == queue' = IF Live(r)
                      THEN [queue EXCEPT ![owner[r]] = Append(@, r)]
                      ELSE queue

Leaves(r) == current' = [current EXCEPT ![owner[r]] = Idle]
-----------------------------------------------------------------------------
(* Dispatch.  A loop that runs Lua dispatches nothing else. *)

Dispatchable(r) == Unseen(r) /\ current[owner[r]] = Idle

(* executeHandlerAsync on a handler that is a table: answered at once. *)
AnswerTable(r) ==
  /\ Dispatchable(r)
  /\ Invoke(r, "binder", "answered")
  /\ cb' = [cb EXCEPT ![r] = {}]
  /\ UNCHANGED <<owner, current, queue, co, reg, op, yields, connected, raised>>

(* executeRouteAsync throws before the callback was moved: the handler is   *)
(* neither a table nor a function, or it is a table behind middleware.      *)
RejectHandler(r) ==
  /\ Dispatchable(r)
  /\ SendError(r)
  /\ cb' = [cb EXCEPT ![r] = {}]
  /\ UNCHANGED <<owner, current, queue, co, reg, op, yields, connected>>

(* executeLuaFunctionAsync up to the first lua_resume: the contexts are     *)
(* built and registered, with a middleware chain (m) or without; the        *)
(* callback moves into the route context and is copied to the middleware's. *)
StartRoute(r, m) ==
  LET contexts == IF m THEN {"route", "mw"} ELSE {"route"} IN
  /\ Dispatchable(r)
  /\ co' = [co EXCEPT ![r] = "running"]
  /\ reg' = [reg EXCEPT ![r] = contexts]
  /\ cb' = [cb EXCEPT ![r] = contexts]
  /\ current' = [current EXCEPT ![owner[r]] = r]
  /\ UNCHANGED <<owner, queue, op, yields, connected, sent, verdict, raised>>
-----------------------------------------------------------------------------
(* What running Lua code may do. *)

(* queryAsync, beginAsync or requestAsync: the operation's context is       *)
(* registered with a copy of the callback and the operation is handed to    *)
(* its client.  Its callbacks may come before the coroutine has yielded.    *)
StartOp(r) ==
  /\ co[r] = "running"
  /\ yields[r] < MaxYields
  /\ co' = [co EXCEPT ![r] = "yielding"]
  /\ yields' = [yields EXCEPT ![r] = @ + 1]
  /\ op' = [op EXCEPT ![r] = "pending"]
  /\ reg' = [reg EXCEPT ![r] = @ \cup {"op"}]
  /\ cb' = [cb EXCEPT ![r] = @ \cup {"op"}]
  /\ UNCHANGED <<owner, current, queue, connected, sent, verdict, raised>>

(* Faulty: every yield queues a resume, not only next()'s boolean. *)
YieldForOpWakes(r) ==
  /\ co[r] = "yielding"
  /\ co' = [co EXCEPT ![r] = "suspended"]
  /\ Wake(r)
  /\ Leaves(r)
  /\ UNCHANGED <<owner, reg, cb, op, yields, connected, sent, verdict, raised>>

(* lua_yieldk with no value, seen by handleAsyncYield: no resume is queued. *)
YieldForOp(r) ==
  /\ co[r] = "yielding"
  /\ co' = [co EXCEPT ![r] = "suspended"]
  /\ Leaves(r)
  /\ UNCHANGED <<owner, queue, reg, cb, op, yields, connected, sent, verdict, raised>>

(* Faulty: the boolean that next() yields is not recognised. *)
CallNextForgotten(r) ==
  /\ co[r] = "running"
  /\ "mw" \in reg[r]
  /\ yields[r] < MaxYields
  /\ co' = [co EXCEPT ![r] = "suspended"]
  /\ yields' = [yields EXCEPT ![r] = @ + 1]
  /\ Leaves(r)
  /\ UNCHANGED <<owner, queue, reg, cb, op, connected, sent, verdict, raised>>

(* next() yields one boolean, for which handleAsyncYield queues the resume  *)
(* itself.                                                                  *)
CallNext(r) ==
  /\ co[r] = "running"
  /\ "mw" \in reg[r]
  /\ yields[r] < MaxYields
  /\ co' = [co EXCEPT ![r] = "suspended"]
  /\ yields' = [yields EXCEPT ![r] = @ + 1]
  /\ Wake(r)
  /\ Leaves(r)
  /\ UNCHANGED <<owner, reg, cb, op, connected, sent, verdict, raised>>

(* The coroutine finishes with something to answer: a table, a Response, or *)
(* behind middleware always, as the context's response is never null.       *)
HandlerReturns(r) ==
  /\ co[r] = "running"
  /\ Settle(r, "answered")
  /\ Leaves(r)
  /\ UNCHANGED <<owner, queue, op, yields, connected>>

(* Faulty: a failure before the first suspension is answered and thrown. *)
HandlerFailsTwice(r) ==
  /\ co[r] = "running"
  /\ Invoke(r, "route", "error") /\ Cleanup(r)
  /\ raised' = [raised EXCEPT ![r] = Attached(r)]
  /\ Leaves(r)
  /\ UNCHANGED <<owner, queue, op, yields, connected>>

(* A Lua error, or a result that is no response.  Before the first          *)
(* suspension the exception passes through executeLuaFunctionAsync to the   *)
(* catch clause of the route; afterwards failAsyncRoute answers.            *)
HandlerFails(r) ==
  /\ co[r] = "running"
  /\ \/ Attached(r) /\ Cleanup(r) /\ SendError(r)
     \/ ~Attached(r) /\ Settle(r, "error")
  /\ Leaves(r)
  /\ UNCHANGED <<owner, queue, op, yields, connected>>
-----------------------------------------------------------------------------
(* Callbacks of the operation, from the thread of its client. *)

(* Faulty: the error callback records the error and resumes nobody. *)
CompleteOpSilently(r, result) ==
  /\ op[r] = "pending"
  /\ IF connected[r]
       THEN op' = [op EXCEPT ![r] = result] /\ IF result = "ok" THEN Wake(r) ELSE UNCHANGED queue
       ELSE op' = [op EXCEPT ![r] = "dropped"] /\ UNCHANGED queue
  /\ UNCHANGED <<owner, current, co, reg, cb, yields, connected, sent, verdict, raised>>

(* Faulty: the client is not looked at. *)
CompleteOpUnchecked(r, result) ==
  /\ op[r] = "pending"
  /\ op' = [op EXCEPT ![r] = result] /\ Wake(r)
  /\ UNCHANGED <<owner, current, co, reg, cb, yields, connected, sent, verdict, raised>>

CompleteOp(r, result) ==
  /\ op[r] = "pending"
  /\ IF connected[r]
       THEN op' = [op EXCEPT ![r] = result] /\ Wake(r)
       ELSE op' = [op EXCEPT ![r] = "dropped"] /\ UNCHANGED queue
  /\ UNCHANGED <<owner, current, co, reg, cb, yields, connected, sent, verdict, raised>>

Disconnect(r) ==
  /\ ~Unseen(r)
  /\ connected[r]
  /\ connected' = [connected EXCEPT ![r] = FALSE]
  /\ UNCHANGED <<owner, current, queue, co, reg, cb, op, yields, sent, verdict, raised>>
-----------------------------------------------------------------------------
(* resumeAsyncRoute, the task at the head of a loop's queue. *)

NextTask(l, r) == /\ current[l] = Idle
                  /\ queue[l] # <<>>
                  /\ r = Head(queue[l])
                  /\ queue' = [queue EXCEPT ![l] = Tail(@)]

(* Nothing to resume: the coroutine was released, or the client has left    *)
(* and the route is cleaned up without an answer.                           *)
DropTask(l, r) ==
  /\ NextTask(l, r)
  /\ co[r] = "released" \/ ~connected[r]
  /\ Cleanup(r)
  /\ UNCHANGED <<owner, current, op, yields, connected, sent, verdict, raised>>

(* The coroutine continues; the continuation of an operation takes the      *)
(* result out of its context and clears the context.  What the Lua code     *)
(* makes of an error (it may be caught) is up to the steps that follow.     *)
ResumeTask(l, r) ==
  /\ NextTask(l, r)
  /\ co[r] # "released" /\ connected[r]
  /\ co' = [co EXCEPT ![r] = "running"]
  /\ current' = [current EXCEPT ![l] = r]
  /\ op' = [op EXCEPT ![r] = "none"]
  /\ reg' = [reg EXCEPT ![r] = @ \ {"op"}]
  /\ cb' = [cb EXCEPT ![r] = @ \ {"op"}]
  /\ UNCHANGED <<owner, yields, connected, sent, verdict, raised>>
-----------------------------------------------------------------------------
LuaStep(r) == StartOp(r) \/ CallNext(r) \/ HandlerReturns(r) \/ HandlerFails(r)
OpStep(r)  == \E result \in {"ok", "err"} : CompleteOp(r, result)
Task(l)    == \E r \in Request : DropTask(l, r) \/ ResumeTask(l, r)

Dispatch(r) == AnswerTable(r) \/ RejectHandler(r)
               \/ \E m \in BOOLEAN : StartRoute(r, m)

(* What became of each request, as RequestContract has it. *)
outcome ==
  [r \in Request |->
     IF sent[r] > 0 THEN verdict[r]
     ELSE IF raised[r] THEN "raised"
     ELSE IF Unseen(r) THEN "unseen"
     ELSE IF co[r] = "released" \/ op[r] = "dropped" THEN "abandoned"
     ELSE "waiting"]

(* Nothing is left to do until another client comes. *)
Rest == /\ \A r \in Request : outcome[r] \notin {"unseen", "waiting"}
        /\ \A l \in Loop : queue[l] = <<>>
        /\ UNCHANGED vars

Next == \/ \E r \in Request : \/ Dispatch(r) \/ LuaStep(r) \/ YieldForOp(r)
                              \/ OpStep(r) \/ Disconnect(r)
        \/ \E l \in Loop : Task(l)
        \/ Rest

(* A loop runs the tasks queued on it and each piece of Lua code ends; the  *)
(* database and HTTP clients call one of the two callbacks.                 *)
Fairness == /\ \A l \in Loop : WF_vars(Task(l))
            /\ \A r \in Request : /\ WF_vars(LuaStep(r))
                                  /\ WF_vars(YieldForOp(r))
                                  /\ WF_vars(OpStep(r))

Safety == Init /\ [][Next]_vars
Spec == Safety /\ Fairness
-----------------------------------------------------------------------------
(* Properties *)

Queued(r) == \E l \in Loop : \E i \in DOMAIN queue[l] : queue[l][i] = r

(* A coroutine that waits has exactly one thing that will resume it, an     *)
(* outstanding operation or one task on its own loop, and any other has     *)
(* none: no wake-up is lost and none comes twice.  The one exception is the *)
(* callback that found the client gone (LuaDatabase.cc:122, 130): nothing   *)
(* resumes that coroutine again.                                            *)
QueuesDistinct ==
  \A l1, l2 \in Loop : \A i \in DOMAIN queue[l1], j \in DOMAIN queue[l2] :
     queue[l1][i] = queue[l2][j] => l1 = l2 /\ i = j
QueuesOwned ==
  \A l \in Loop : \A i \in DOMAIN queue[l] : owner[queue[l][i]] = l
WakersMatch ==
  \A r \in Request :
     IF co[r] \in {"yielding", "suspended"} /\ op[r] # "dropped"
       THEN Queued(r) <=> op[r] # "pending"
       ELSE ~Queued(r) /\ op[r] # "pending"
OneWaker == QueuesDistinct /\ QueuesOwned /\ WakersMatch

(* The response callback is used at most once for each request, whichever   *)
(* of its copies is used, and never when the failure was raised instead.    *)
AnsweredAtMostOnce == \A r \in Request : /\ sent[r] <= 1
                                         /\ raised[r] => sent[r] = 0

(* A request that has been answered, or that failed, leaves no context in   *)
(* the registry and no copy of its callback behind.  What a released        *)
(* coroutine may leave is the context of the operation it was waiting for,  *)
(* and only after its client has left without an answer.                    *)
LeftBehindOnlyByDeparture ==
  \A r \in Request :
    /\ sent[r] > 0 \/ raised[r] => reg[r] = {} /\ cb[r] = {} /\ op[r] = "none"
    /\ co[r] = "released" /\ reg[r] # {} => ~connected[r]

(* A coroutine is resumed only while it is suspended, by next() or with the *)
(* outcome of its operation in the registry for the continuation to take.   *)
ResumedOnlyWhenFed ==
  [][\A r \in Request : co[r] # "none" /\ co[r] # "running" /\ co'[r] = "running"
        => /\ co[r] = "suspended"
           /\ op[r] = "none" \/ (op[r] \in {"ok", "err"} /\ "op" \in reg[r])]_vars

(* What a handler waits for is one operation after the other, each begun    *)
(* when the outcome before it was taken, and its outcome delivered once, to *)
(* a client that is still there (LuaHttp.cc:71, LuaDatabase.cc:122).        *)
Slot == INSTANCE OperationSlot WITH Call <- Request
SuspendsOnOperations == Slot!SlotSafety

(* A request whose client stays is answered.  Only a handler that has never *)
(* suspended may raise its failure to the framework instead: a later one    *)
(* finds nobody to catch it and must become an answer.                      *)
ConnectedIsServed ==
  \A r \in Request :
     Live(r) ~> (sent[r] = 1 \/ (raised[r] /\ Attached(r)) \/ ~connected[r])

(* The route keeps the contract with Drogon: one outcome for each request,  *)
(* never an abandoned client that is still connected, and always a decision. *)
Contract == INSTANCE RequestContract WITH outcome <- outcome, connected <- connected
KeepsContract == Contract!ContractSpec

(* docs/middleware.md:279 and 288: an error raised by a middleware is        *)
(* propagated through Drogua, which answers it (LuaRoutes.h:73-75).          *)
ErrorsAreAnswered == \A r \in Request : ~raised[r]
=============================================================================
