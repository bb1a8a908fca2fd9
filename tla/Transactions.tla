----------------------------- MODULE Transactions -----------------------------
(***************************************************************************)
(* Database transactions of routes (LuaDatabase.cc, LuaTransaction.cc):    *)
(* the life of a LuaTransaction object, the statements it sends and the    *)
(* connection of the pool that it keeps, from begin or beginAsync to the   *)
(* destruction of the object by Lua's garbage collector.                   *)
(*                                                                         *)
(* Each request holds at most one transaction.  A route blocks its event   *)
(* loop in begin and in db:query, and suspends in beginAsync and in the    *)
(* queryAsync of a transaction or of the database, which only asynchronous *)
(* routes can call: a synchronous route is one that never does.  The       *)
(* suspension of a route is AsyncRoutes' and is reduced here to the call   *)
(* that it waits in.                                                       *)
(***************************************************************************)
EXTENDS Integers, FiniteSets

CONSTANTS Request,        \* requests of routes that use the database
          Loop,           \* event loops
          Connections,    \* number_of_connections of the database client
          MaxCalls        \* bound: database calls of one handler

ASSUME TransactionAssumption ==
  Connections \in Nat \ {0} /\ MaxCalls \in Nat

VARIABLES
  loop,      \* the event loop that runs the route
  lua,       \* where the handler stands
  outcome,   \* of the call it is suspended in; a result is queued to resume it
  calls,     \* database calls so far
  handle,    \* who refers to the LuaTransaction
  finished,  \* LuaTransaction::finished_
  stmts,     \* statements sent on the connection and not yet answered
  db,        \* the transaction in the database
  holds,     \* requests whose transaction keeps a connection
  asked,     \* history: commit() was called and returned
  connected  \* the client of the route

txVars == <<loop, lua, outcome, calls, handle, finished, stmts, db, holds, asked, connected>>

Suspended == {"begin", "query", "outside"}
Blocked == {"blockedBegin", "blockedQuery"}
Statement == {"query", "COMMIT", "ROLLBACK"}

(* Lua is given no object without a transaction behind it. *)
TypeOK ==
  /\ loop \in [Request -> Loop]
  /\ lua \in [Request -> {"idle", "running", "ended"} \cup Suspended \cup Blocked]
  /\ outcome \in [Request -> {"none", "pending", "ok", "err", "dropped"}]
  /\ calls \in [Request -> 0..MaxCalls]
  /\ handle \in [Request -> {"none", "context", "lua", "garbage", "collected"}]
  /\ finished \in [Request -> BOOLEAN]
  /\ stmts \in [Request -> SUBSET Statement]
  /\ db \in [Request -> {"none", "open", "committed", "rolledback"}]
  /\ holds \subseteq Request
  /\ asked \in [Request -> BOOLEAN]
  /\ connected \in [Request -> BOOLEAN]

Init ==
  /\ loop \in [Request -> Loop]
  /\ lua = [r \in Request |-> "idle"]
  /\ outcome = [r \in Request |-> "none"]
  /\ calls = [r \in Request |-> 0]
  /\ handle = [r \in Request |-> "none"]
  /\ finished = [r \in Request |-> FALSE]
  /\ stmts = [r \in Request |-> {}]
  /\ db = [r \in Request |-> "none"]
  /\ holds = {}
  /\ asked = [r \in Request |-> FALSE]
  /\ connected = [r \in Request |-> TRUE]
-----------------------------------------------------------------------------
(* A loop runs one handler at a time, and no other while one blocks it.     *)
Occupied(l) == \E r \in Request : loop[r] = l /\ (lua[r] = "running" \/ lua[r] \in Blocked)

FreeConnection == Cardinality(holds) < Connections

(* valid(): the object has neither been committed nor rolled back.          *)
Usable(r) == lua[r] = "running" /\ handle[r] = "lua" /\ ~finished[r]

Goto(r, l) == lua' = [lua EXCEPT ![r] = l]

(* The handler calls the database and waits in state l. *)
Await(r, l) == /\ lua[r] = "running" /\ calls[r] < MaxCalls
              /\ calls' = [calls EXCEPT ![r] = @ + 1]
              /\ Goto(r, l)

(* finished_ is set, the reference dropped and a last statement sent.       *)
Finish(r, s) == /\ finished' = [finished EXCEPT ![r] = TRUE]
                /\ stmts' = [stmts EXCEPT ![r] = @ \cup {s}]

(* Faulty: the callbacks do not look at the client. *)
ReportUnchecked(r, o) == outcome' = [outcome EXCEPT ![r] = o]

(* The callbacks look at the client before they resume the route.           *)
Report(r, o) ==
  outcome' = [outcome EXCEPT ![r] = IF connected[r] THEN o ELSE "dropped"]

(* A failing statement rolls the transaction back, and so does ROLLBACK.    *)
RolledBack(r) == db' = [db EXCEPT ![r] = IF @ = "open" THEN "rolledback" ELSE @]
-----------------------------------------------------------------------------
(* The handler *)

Start(r) ==
  /\ lua[r] = "idle" /\ ~Occupied(loop[r])
  /\ Goto(r, "running")
  /\ UNCHANGED <<loop, outcome, calls, handle, finished, stmts, db, holds, asked, connected>>

BeginAsync(r) ==
  /\ handle[r] = "none"
  /\ Await(r, "begin")
  /\ outcome' = [outcome EXCEPT ![r] = "pending"]
  /\ UNCHANGED <<loop, handle, finished, stmts, db, holds, asked, connected>>

(* db:queryAsync runs outside the transaction, if the handler has one.       *)
QueryOutside(r) ==
  /\ Await(r, "outside")
  /\ outcome' = [outcome EXCEPT ![r] = "pending"]
  /\ UNCHANGED <<loop, handle, finished, stmts, db, holds, asked, connected>>

(* begin, and db:query outside the transaction, wait for a connection.      *)
Block(r) ==
  /\ \/ handle[r] = "none" /\ Await(r, "blockedBegin")
     \/ Await(r, "blockedQuery")
  /\ UNCHANGED <<loop, outcome, handle, finished, stmts, db, holds, asked, connected>>

(* Faulty: no ensureValid, the connection is used although it is finished.  *)
QueryAsyncUnchecked(r) ==
  /\ lua[r] = "running" /\ handle[r] = "lua"
  /\ Await(r, "query")
  /\ outcome' = [outcome EXCEPT ![r] = "pending"]
  /\ stmts' = [stmts EXCEPT ![r] = @ \cup {"query"}]
  /\ UNCHANGED <<loop, handle, finished, db, holds, asked, connected>>

QueryAsync(r) ==
  /\ Usable(r)
  /\ Await(r, "query")
  /\ outcome' = [outcome EXCEPT ![r] = "pending"]
  /\ stmts' = [stmts EXCEPT ![r] = @ \cup {"query"}]
  /\ UNCHANGED <<loop, handle, finished, db, holds, asked, connected>>

(* tx:query blocks on the transaction's own connection; an error is raised. *)
QueryFails(r) ==
  /\ Usable(r)
  /\ RolledBack(r)
  /\ UNCHANGED <<loop, lua, outcome, calls, handle, finished, stmts, holds, asked, connected>>

Commit(r) ==
  /\ Usable(r)
  /\ Finish(r, "COMMIT")
  /\ asked' = [asked EXCEPT ![r] = TRUE]
  /\ UNCHANGED <<loop, lua, outcome, calls, handle, db, holds, connected>>

Rollback(r) ==
  /\ Usable(r)
  /\ Finish(r, "ROLLBACK")
  /\ UNCHANGED <<loop, lua, outcome, calls, handle, db, holds, asked, connected>>

(* The last Lua variable that refers to the transaction goes out of scope.  *)
LoseHandle(r) ==
  /\ lua[r] = "running" /\ handle[r] = "lua"
  /\ handle' = [handle EXCEPT ![r] = "garbage"]
  /\ UNCHANGED <<loop, lua, outcome, calls, finished, stmts, db, holds, asked, connected>>

(* Faulty: the continuation left its context in the registry, and with it   *)
(* the coroutine whose stack refers to the transaction.                     *)
EndKeepsCoroutine(r) ==
  /\ lua[r] = "running" /\ Goto(r, "ended")
  /\ UNCHANGED <<loop, outcome, calls, handle, finished, stmts, db, holds, asked, connected>>

(* The handler returns or fails: its contexts and coroutine are released.   *)
End(r) ==
  /\ lua[r] = "running" /\ Goto(r, "ended")
  /\ handle' = [handle EXCEPT ![r] = IF @ = "lua" THEN "garbage" ELSE @]
  /\ UNCHANGED <<loop, outcome, calls, finished, stmts, db, holds, asked, connected>>

Handler(r) == BeginAsync(r) \/ QueryOutside(r) \/ Block(r) \/ QueryAsync(r) \/ QueryFails(r) \/ Commit(r)
              \/ Rollback(r) \/ LoseHandle(r) \/ End(r)
-----------------------------------------------------------------------------
(* The pool gives a connection to a new transaction. *)
Open(r) == /\ FreeConnection
           /\ holds' = holds \cup {r}
           /\ db' = [db EXCEPT ![r] = "open"]

(* beginAsync's callback wraps the transaction and puts it in the context;  *)
(* for a client that has left the object is destroyed at once.              *)
GrantAsync(r) ==
  /\ lua[r] = "begin" /\ outcome[r] = "pending"
  /\ Open(r) /\ Report(r, "ok")
  /\ handle' = [handle EXCEPT ![r] = IF connected[r] THEN "context" ELSE "collected"]
  /\ IF connected[r] THEN UNCHANGED <<finished, stmts>> ELSE Finish(r, "ROLLBACK")
  /\ UNCHANGED <<loop, lua, calls, asked, connected>>

(* The client could not begin, or gave a null transaction.                  *)
BeginFails(r) ==
  /\ lua[r] = "begin" /\ outcome[r] = "pending"
  /\ Report(r, "err")
  /\ UNCHANGED <<loop, lua, calls, handle, finished, stmts, db, holds, asked, connected>>

(* Faulty: begin wraps the null transaction of a BEGIN that failed.         *)
UnblockUnchecked(r) ==
  /\ \/ lua[r] = "blockedBegin" /\ Open(r) /\ handle' = [handle EXCEPT ![r] = "lua"]
     \/ /\ lua[r] = "blockedBegin" /\ FreeConnection /\ UNCHANGED <<holds, db>>
        /\ handle' = [handle EXCEPT ![r] = "empty"]
     \/ lua[r] = "blockedQuery" /\ FreeConnection /\ UNCHANGED <<holds, db, handle>>
  /\ Goto(r, "running")
  /\ UNCHANGED <<loop, outcome, calls, finished, stmts, asked, connected>>

(* Blocking calls: begin makes the object, or raises the error of a BEGIN   *)
(* that failed (LuaTransaction.cc:13 refuses a null transaction), and       *)
(* db:query gives the connection back before it returns or raises an error. *)
Unblock(r) ==
  /\ \/ lua[r] = "blockedBegin" /\ Open(r) /\ handle' = [handle EXCEPT ![r] = "lua"]
     \/ lua[r] \in Blocked /\ FreeConnection /\ UNCHANGED <<holds, db, handle>>
  /\ Goto(r, "running")
  /\ UNCHANGED <<loop, outcome, calls, finished, stmts, asked, connected>>

(* A query outside is given a connection while it runs.                     *)
AnswerOutside(r) ==
  /\ lua[r] = "outside" /\ outcome[r] = "pending" /\ FreeConnection
  /\ Report(r, "ok") \/ Report(r, "err")
  /\ UNCHANGED <<loop, lua, calls, handle, finished, stmts, db, holds, asked, connected>>

(* Faulty: an error of the statement is not handed on to the route.         *)
AnswerErrorsLost(r) ==
  /\ "query" \in stmts[r]
  /\ stmts' = [stmts EXCEPT ![r] = @ \ {"query"}]
  /\ \/ db[r] = "open" /\ Report(r, "ok") /\ UNCHANGED db
     \/ UNCHANGED outcome /\ RolledBack(r)
  /\ UNCHANGED <<loop, lua, calls, handle, finished, holds, asked, connected>>

(* A statement of queryAsync is answered, with an error when it fails or    *)
(* when the transaction was rolled back before.                             *)
Answer(r) ==
  /\ "query" \in stmts[r]
  /\ stmts' = [stmts EXCEPT ![r] = @ \ {"query"}]
  /\ \/ db[r] = "open" /\ Report(r, "ok") /\ UNCHANGED db
     \/ Report(r, "err") /\ RolledBack(r)
  /\ UNCHANGED <<loop, lua, calls, handle, finished, holds, asked, connected>>

(* COMMIT is answered; when it fails, ROLLBACK is sent.                     *)
CommitAnswered(r) ==
  /\ "COMMIT" \in stmts[r]
  /\ \/ /\ db[r] = "open"
        /\ db' = [db EXCEPT ![r] = "committed"]
        /\ stmts' = [stmts EXCEPT ![r] = @ \ {"COMMIT"}]
     \/ /\ RolledBack(r)
        /\ stmts' = [stmts EXCEPT ![r] = (@ \ {"COMMIT"}) \cup {"ROLLBACK"}]
  /\ UNCHANGED <<loop, lua, outcome, calls, handle, finished, holds, asked, connected>>

RollbackAnswered(r) ==
  /\ "ROLLBACK" \in stmts[r]
  /\ RolledBack(r)
  /\ stmts' = [stmts EXCEPT ![r] = @ \ {"ROLLBACK"}]
  /\ UNCHANGED <<loop, lua, outcome, calls, handle, finished, holds, asked, connected>>

(* Drogon's transaction goes away with its last reference, the object's or  *)
(* a statement's; it commits what is still open and frees the connection.   *)
Release(r) ==
  /\ r \in holds /\ finished[r] /\ stmts[r] = {}
  /\ holds' = holds \ {r}
  /\ db' = [db EXCEPT ![r] = IF @ = "open" THEN "committed" ELSE @]
  /\ UNCHANGED <<loop, lua, outcome, calls, handle, finished, stmts, asked, connected>>

Database(r) == GrantAsync(r) \/ BeginFails(r) \/ Unblock(r) \/ AnswerOutside(r) \/ Answer(r)
               \/ CommitAnswered(r) \/ RollbackAnswered(r) \/ Release(r)
-----------------------------------------------------------------------------
(* The queued resume: a continuation hands the outcome to Lua. *)
Resume(r) ==
  /\ lua[r] \in Suspended /\ outcome[r] \in {"ok", "err"} /\ ~Occupied(loop[r])
  /\ connected[r]
  /\ Goto(r, "running")
  /\ outcome' = [outcome EXCEPT ![r] = "none"]
  /\ handle' = [handle EXCEPT ![r] = IF @ = "context" THEN "lua" ELSE @]
  /\ UNCHANGED <<loop, calls, finished, stmts, db, holds, asked, connected>>

(* For a client that has left, the route is released, but not the context   *)
(* of the operation, which refers to the object or to the coroutine.        *)
ResumeDropped(r) ==
  /\ lua[r] \in Suspended /\ outcome[r] \in {"ok", "err"} /\ ~Occupied(loop[r])
  /\ ~connected[r]
  /\ Goto(r, "ended")
  /\ outcome' = [outcome EXCEPT ![r] = "none"]
  /\ UNCHANGED <<loop, calls, handle, finished, stmts, db, holds, asked, connected>>

(* Lua runs its collector in handlers, on a loop that none of them blocks.  *)
CanCollect ==
  \E q \in Request : \A r \in Request : loop[r] = loop[q] => lua[r] \notin Blocked

(* Faulty: the destructor leaves the transaction to Drogon.                 *)
CollectForgets(r) ==
  /\ handle[r] = "garbage" /\ CanCollect
  /\ handle' = [handle EXCEPT ![r] = "collected"]
  /\ finished' = [finished EXCEPT ![r] = TRUE]
  /\ UNCHANGED <<loop, lua, outcome, calls, stmts, db, holds, asked, connected>>

(* The collector calls the destructor of the object: it rolls back what was *)
(* neither committed nor rolled back.                                       *)
Collect(r) ==
  /\ handle[r] = "garbage" /\ CanCollect
  /\ handle' = [handle EXCEPT ![r] = "collected"]
  /\ IF finished[r] THEN UNCHANGED <<finished, stmts>> ELSE Finish(r, "ROLLBACK")
  /\ UNCHANGED <<loop, lua, outcome, calls, db, holds, asked, connected>>

Disconnect(r) ==
  /\ connected[r] /\ lua[r] # "idle"
  /\ connected' = [connected EXCEPT ![r] = FALSE]
  /\ UNCHANGED <<loop, lua, outcome, calls, handle, finished, stmts, db, holds, asked>>

Rest == /\ holds = {}
        /\ \A r \in Request : lua[r] = "ended" /\ handle[r] # "garbage"
        /\ UNCHANGED txVars

Next == Rest \/ \E r \in Request : \/ Start(r) \/ Handler(r) \/ Database(r) \/ Resume(r)
                                   \/ ResumeDropped(r) \/ Collect(r) \/ Disconnect(r)

Safety == Init /\ [][Next]_txVars

(* Handlers end, the database answers, the pool gives out connections that  *)
(* are free, the loops run their tasks and Lua its collector.               *)
Fairness ==
  \A r \in Request :
     /\ WF_txVars(Handler(r))
     /\ WF_txVars(GrantAsync(r) \/ Unblock(r) \/ AnswerOutside(r))
     /\ WF_txVars(Answer(r) \/ CommitAnswered(r) \/ RollbackAnswered(r) \/ Release(r))
     /\ WF_txVars(Resume(r) \/ ResumeDropped(r))
     /\ WF_txVars(Collect(r))

Spec == Safety /\ Fairness
-----------------------------------------------------------------------------
(* Properties *)

(* Drogon commits a transaction that it destroys open: a transaction is     *)
(* committed only when the handler's commit() returned, whatever becomes of *)
(* the handler, its client and the Lua object.                              *)
CommittedOnlyIfAsked == \A r \in Request : db[r] = "committed" => asked[r]

(* A statement is sent only when the one before it was answered, and COMMIT *)
(* or ROLLBACK is the last: nothing reaches a connection that is given back. *)
StatementsInTurn ==
  \A r \in Request : /\ \A s, t \in stmts[r] : s = t
                     /\ stmts[r] # {} => r \in holds
                     /\ "query" \in stmts[r] => ~finished[r]

(* A transaction that its handler can no longer use is on its way to the    *)
(* collector, unless the client of the route has left.                      *)
KeptOnlyByDeparture ==
  \A r \in Request :
     handle[r] \in {"context", "lua"} /\ (lua[r] = "ended" \/ outcome[r] = "dropped")
       => ~connected[r]

(* Each call in which a route is suspended is an operation as AsyncRoutes   *)
(* assumes it: no statement, and no grant of a connection, finds the outcome *)
(* of another one in the context, whatever else the transaction is doing.   *)
Slot == INSTANCE OperationSlot WITH Call <- Request, op <- outcome
CallsAreOperations == Slot!SlotSafety

(* A call that needs a connection of the pool. *)
NeedsConnection(r) == \/ lua[r] \in {"begin", "outside"} /\ outcome[r] = "pending"
                      \/ lua[r] \in Blocked

(* What the routes must not do, and the clients not, for the pool to last.  *)
Cooperative ==
  \A r \in Request :
     /\ connected[r]
     /\ NeedsConnection(r) => r \notin holds
     /\ lua[r] \in Blocked => \A q \in holds : loop[q] = loop[r] => finished[q]

(* What can be done at once, in the same order as in Fairness: a handler    *)
(* that runs, the pool, the database, a queued resume and the collector.    *)
CanGoOn ==
  \E r \in Request :
     \/ lua[r] = "running"
     \/ NeedsConnection(r) /\ FreeConnection
     \/ stmts[r] # {} \/ (r \in holds /\ finished[r])
     \/ lua[r] \in Suspended /\ outcome[r] \in {"ok", "err"} /\ ~Occupied(loop[r])
     \/ handle[r] = "garbage" /\ CanCollect

(* As long as the routes keep to these conditions they do not wait for each *)
(* other in a ring of connections, blocked loops and objects that only a    *)
(* handler, or the collector, of a blocked loop can end (LuaDatabase.cc:73  *)
(* and 86 block the loop until the pool has a connection).                  *)
NeverStuck ==
  Cooperative =>
    ((holds # {} \/ \E r \in Request : lua[r] \in Suspended \cup Blocked) => CanGoOn)

(* While no client leaves, no route asks for a connection beside the one    *)
(* that its transaction holds, and no loop is blocked on which an open      *)
(* transaction must be ended, every connection comes back to the pool and   *)
(* every handler that waits goes on, also when handlers forget to commit.   *)
PoolRecovers ==
  []Cooperative => \A r \in Request :
                     /\ r \in holds ~> r \notin holds
                     /\ lua[r] \in Suspended \cup Blocked ~> lua[r] = "ended"

(* LuaTransaction.cc:21: abandoned transactions are rolled back: here the   *)
(* handler is abandoned because its client left.                            *)
AutomaticRollback == \A r \in Request : db[r] = "open" ~> db[r] # "open"
=============================================================================
