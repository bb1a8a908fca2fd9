-------------------------- MODULE TransactionsProofs --------------------------
(***************************************************************************)
(* Proofs about Transactions for any requests, loops, number of connections *)
(* and bound on the calls.                                                 *)
(***************************************************************************)
EXTENDS Transactions, FiniteSetTheorems, TLAPS

(* The object exists while the transaction does, and the last statement is  *)
(* sent exactly when the object is finished.                                *)
ObjectInv(r) ==
  /\ handle[r] = "none" => /\ ~finished[r] /\ ~asked[r] /\ stmts[r] = {}
                           /\ db[r] = "none" /\ r \notin holds
  /\ handle[r] # "none" => db[r] # "none"
  /\ handle[r] = "collected" => finished[r]
  /\ handle[r] # "none" /\ ~finished[r] =>
        r \in holds /\ db[r] \in {"open", "rolledback"} /\ ~asked[r]

(* What is still to be answered on the connection. *)
StatementInv(r) ==
  /\ stmts[r] # {} => r \in holds
  /\ "query" \in stmts[r] => ~finished[r] /\ lua[r] = "query" /\ outcome[r] = "pending"
  /\ lua[r] = "query" /\ outcome[r] = "pending" => "query" \in stmts[r]
  /\ "COMMIT" \in stmts[r] => finished[r] /\ asked[r] /\ "ROLLBACK" \notin stmts[r]
  /\ "ROLLBACK" \in stmts[r] => finished[r]
  /\ finished[r] /\ db[r] = "open" => "COMMIT" \in stmts[r] \/ "ROLLBACK" \in stmts[r]
  /\ db[r] = "committed" => asked[r]

(* Where the handler stands tells who refers to the object. *)
PlaceInv(r) ==
  /\ lua[r] \in {"idle", "blockedBegin"} => handle[r] = "none"
  /\ lua[r] \notin Suspended => outcome[r] = "none"
  /\ lua[r] = "running" => handle[r] # "context"
  /\ lua[r] = "blockedQuery" => handle[r] # "context"
  /\ lua[r] = "query" => handle[r] = "lua" /\ outcome[r] # "none"
  /\ lua[r] = "outside" => handle[r] # "context" /\ outcome[r] # "none"
  /\ lua[r] = "begin" =>
        \/ handle[r] = "none" /\ outcome[r] \in {"pending", "err", "dropped"}
        \/ handle[r] = "context" /\ outcome[r] = "ok"
        \/ handle[r] = "collected" /\ outcome[r] = "dropped"
  /\ lua[r] = "ended" /\ handle[r] \in {"context", "lua"} => ~connected[r]
  /\ outcome[r] = "dropped" => ~connected[r]

RequestInv(r) == ObjectInv(r) /\ StatementInv(r) /\ PlaceInv(r)

IInv == TypeOK /\ \A r \in Request : RequestInv(r)
-----------------------------------------------------------------------------
LEMMA InitIInv == Init => IInv
<1> SUFFICES ASSUME Init PROVE IInv
  OBVIOUS
<1>1. TypeOK
  BY TransactionAssumption DEF Init, TypeOK
<1>2. \A r \in Request : RequestInv(r)
  BY DEF Init, RequestInv, ObjectInv, StatementInv, PlaceInv, Suspended
<1> QED BY <1>1, <1>2 DEF IInv

(* What a step leaves alone of a request keeps the request's invariant.     *)
LEMMA UntouchedKeeps ==
  ASSUME NEW q \in Request, RequestInv(q),
         lua'[q] = lua[q], outcome'[q] = outcome[q], handle'[q] = handle[q],
         finished'[q] = finished[q], stmts'[q] = stmts[q], db'[q] = db[q],
         asked'[q] = asked[q], connected'[q] = connected[q], q \in holds' <=> q \in holds
  PROVE  RequestInv(q)'
BY DEF RequestInv, ObjectInv, StatementInv, PlaceInv

(* The handler's own steps.                                                 *)
LEMMA HandlerKeepsIInv ==
  ASSUME IInv, NEW r \in Request, Handler(r)
  PROVE  IInv'
<1> USE DEF Suspended, Blocked, Statement
<1>0. RequestInv(r) /\ TypeOK
  BY DEF IInv
<1>1. CASE BeginAsync(r)
  <2>1. TypeOK'
    BY <1>0, <1>1, TransactionAssumption DEF TypeOK, BeginAsync, Await, Goto
  <2>2. ObjectInv(r)'
    BY <1>0, <1>1 DEF TypeOK, RequestInv, ObjectInv, StatementInv, PlaceInv, BeginAsync, Await, Goto
  <2>3. StatementInv(r)'
    BY <1>0, <1>1 DEF TypeOK, RequestInv, ObjectInv, StatementInv, PlaceInv, BeginAsync, Await, Goto
  <2>4. PlaceInv(r)'
    BY <1>0, <1>1 DEF TypeOK, RequestInv, ObjectInv, StatementInv, PlaceInv, BeginAsync, Await, Goto
  <2>5. ASSUME NEW q \in Request, q # r PROVE RequestInv(q)'
    BY <1>0, <1>1, <2>5, UntouchedKeeps DEF IInv, TypeOK, BeginAsync, Await, Goto
  <2> QED BY <2>1, <2>2, <2>3, <2>4, <2>5 DEF IInv, RequestInv
<1>2. CASE Block(r)
  <2>1. TypeOK'
    BY <1>0, <1>2, TransactionAssumption DEF TypeOK, Block, Await, Goto
  <2>2. ObjectInv(r)'
    BY <1>0, <1>2 DEF TypeOK, RequestInv, ObjectInv, StatementInv, PlaceInv, Block, Await, Goto
  <2>3. StatementInv(r)'
    BY <1>0, <1>2 DEF TypeOK, RequestInv, ObjectInv, StatementInv, PlaceInv, Block, Await, Goto
  <2>4. PlaceInv(r)'
    BY <1>0, <1>2 DEF TypeOK, RequestInv, ObjectInv, StatementInv, PlaceInv, Block, Await, Goto
  <2>5. ASSUME NEW q \in Request, q # r PROVE RequestInv(q)'
    BY <1>0, <1>2, <2>5, UntouchedKeeps DEF IInv, TypeOK, Block, Await, Goto
  <2> QED BY <2>1, <2>2, <2>3, <2>4, <2>5 DEF IInv, RequestInv
<1>3. CASE QueryAsync(r)
  <2>1. TypeOK'
    BY <1>0, <1>3, TransactionAssumption DEF TypeOK, QueryAsync, Await, Goto, Usable
  <2>2. ObjectInv(r)'
    BY <1>0, <1>3 DEF TypeOK, RequestInv, ObjectInv, StatementInv, PlaceInv, QueryAsync, Await, Goto, Usable
  <2>3. StatementInv(r)'
    BY <1>0, <1>3 DEF TypeOK, RequestInv, ObjectInv, StatementInv, PlaceInv, QueryAsync, Await, Goto, Usable
  <2>4. PlaceInv(r)'
    BY <1>0, <1>3 DEF TypeOK, RequestInv, ObjectInv, StatementInv, PlaceInv, QueryAsync, Await, Goto, Usable
  <2>5. ASSUME NEW q \in Request, q # r PROVE RequestInv(q)'
    BY <1>0, <1>3, <2>5, UntouchedKeeps DEF IInv, TypeOK, QueryAsync, Await, Goto, Usable
  <2> QED BY <2>1, <2>2, <2>3, <2>4, <2>5 DEF IInv, RequestInv
<1>4. CASE QueryFails(r)
  <2>1. TypeOK'
    BY <1>0, <1>4 DEF TypeOK, QueryFails, Usable, RolledBack
  <2>2. ObjectInv(r)'
    BY <1>0, <1>4 DEF TypeOK, RequestInv, ObjectInv, StatementInv, PlaceInv, QueryFails, Usable, RolledBack
  <2>3. StatementInv(r)'
    BY <1>0, <1>4 DEF TypeOK, RequestInv, ObjectInv, StatementInv, PlaceInv, QueryFails, Usable, RolledBack
  <2>4. PlaceInv(r)'
    BY <1>0, <1>4 DEF TypeOK, RequestInv, ObjectInv, StatementInv, PlaceInv, QueryFails, Usable, RolledBack
  <2>5. ASSUME NEW q \in Request, q # r PROVE RequestInv(q)'
    BY <1>0, <1>4, <2>5, UntouchedKeeps DEF IInv, TypeOK, QueryFails, Usable, RolledBack
  <2> QED BY <2>1, <2>2, <2>3, <2>4, <2>5 DEF IInv, RequestInv
<1>5. CASE Commit(r)
  <2>1. TypeOK'
    BY <1>0, <1>5 DEF TypeOK, Commit, Usable, Finish
  <2>2. ObjectInv(r)'
    BY <1>0, <1>5 DEF TypeOK, RequestInv, ObjectInv, StatementInv, PlaceInv, Commit, Usable, Finish
  <2>3. StatementInv(r)'
    BY <1>0, <1>5 DEF TypeOK, RequestInv, ObjectInv, StatementInv, PlaceInv, Commit, Usable, Finish
  <2>4. PlaceInv(r)'
    BY <1>0, <1>5 DEF TypeOK, RequestInv, ObjectInv, StatementInv, PlaceInv, Commit, Usable, Finish
  <2>5. ASSUME NEW q \in Request, q # r PROVE RequestInv(q)'
    BY <1>0, <1>5, <2>5, UntouchedKeeps DEF IInv, TypeOK, Commit, Usable, Finish
  <2> QED BY <2>1, <2>2, <2>3, <2>4, <2>5 DEF IInv, RequestInv
<1>6. CASE Rollback(r)
  <2>1. TypeOK'
    BY <1>0, <1>6 DEF TypeOK, Rollback, Usable, Finish
  <2>2. ObjectInv(r)'
    BY <1>0, <1>6 DEF TypeOK, RequestInv, ObjectInv, StatementInv, PlaceInv, Rollback, Usable, Finish
  <2>3. StatementInv(r)'
    BY <1>0, <1>6 DEF TypeOK, RequestInv, ObjectInv, StatementInv, PlaceInv, Rollback, Usable, Finish
  <2>4. PlaceInv(r)'
    BY <1>0, <1>6 DEF TypeOK, RequestInv, ObjectInv, StatementInv, PlaceInv, Rollback, Usable, Finish
  <2>5. ASSUME NEW q \in Request, q # r PROVE RequestInv(q)'
    BY <1>0, <1>6, <2>5, UntouchedKeeps DEF IInv, TypeOK, Rollback, Usable, Finish
  <2> QED BY <2>1, <2>2, <2>3, <2>4, <2>5 DEF IInv, RequestInv
<1>7. CASE LoseHandle(r)
  <2>1. TypeOK'
    BY <1>0, <1>7 DEF TypeOK, LoseHandle
  <2>2. ObjectInv(r)'
    BY <1>0, <1>7 DEF TypeOK, RequestInv, ObjectInv, StatementInv, PlaceInv, LoseHandle
  <2>3. StatementInv(r)'
    BY <1>0, <1>7 DEF TypeOK, RequestInv, ObjectInv, StatementInv, PlaceInv, LoseHandle
  <2>4. PlaceInv(r)'
    BY <1>0, <1>7 DEF TypeOK, RequestInv, ObjectInv, StatementInv, PlaceInv, LoseHandle
  <2>5. ASSUME NEW q \in Request, q # r PROVE RequestInv(q)'
    BY <1>0, <1>7, <2>5, UntouchedKeeps DEF IInv, TypeOK, LoseHandle
  <2> QED BY <2>1, <2>2, <2>3, <2>4, <2>5 DEF IInv, RequestInv
<1>8. CASE End(r)
  <2>1. TypeOK'
    BY <1>0, <1>8 DEF TypeOK, End, Goto
  <2>2. ObjectInv(r)'
    BY <1>0, <1>8 DEF TypeOK, RequestInv, ObjectInv, StatementInv, PlaceInv, End, Goto
  <2>3. StatementInv(r)'
    BY <1>0, <1>8 DEF TypeOK, RequestInv, ObjectInv, StatementInv, PlaceInv, End, Goto
  <2>4. PlaceInv(r)'
    BY <1>0, <1>8 DEF TypeOK, RequestInv, ObjectInv, StatementInv, PlaceInv, End, Goto
  <2>5. ASSUME NEW q \in Request, q # r PROVE RequestInv(q)'
    BY <1>0, <1>8, <2>5, UntouchedKeeps DEF IInv, TypeOK, End, Goto
  <2> QED BY <2>1, <2>2, <2>3, <2>4, <2>5 DEF IInv, RequestInv
<1>9. CASE QueryOutside(r)
  <2>1. TypeOK'
    BY <1>0, <1>9, TransactionAssumption DEF TypeOK, QueryOutside, Await, Goto
  <2>2. ObjectInv(r)'
    BY <1>0, <1>9 DEF TypeOK, RequestInv, ObjectInv, StatementInv, PlaceInv, QueryOutside, Await, Goto
  <2>3. StatementInv(r)'
    BY <1>0, <1>9 DEF TypeOK, RequestInv, ObjectInv, StatementInv, PlaceInv, QueryOutside, Await, Goto
  <2>4. PlaceInv(r)'
    BY <1>0, <1>9 DEF TypeOK, RequestInv, ObjectInv, StatementInv, PlaceInv, QueryOutside, Await, Goto
  <2>5. ASSUME NEW q \in Request, q # r PROVE RequestInv(q)'
    BY <1>0, <1>9, <2>5, UntouchedKeeps DEF IInv, TypeOK, QueryOutside, Await, Goto
  <2> QED BY <2>1, <2>2, <2>3, <2>4, <2>5 DEF IInv, RequestInv
<1> QED BY <1>1, <1>2, <1>3, <1>4, <1>5, <1>6, <1>7, <1>8, <1>9 DEF Handler

(* The steps of the pool and the database.                                  *)
LEMMA DatabaseKeepsIInv ==
  ASSUME IInv, NEW r \in Request, Database(r)
  PROVE  IInv'
<1> USE DEF Suspended, Blocked, Statement
<1>0. RequestInv(r) /\ TypeOK
  BY DEF IInv
<1>1. CASE GrantAsync(r)
  <2>1. TypeOK'
    <3>1. finished' \in [Request -> BOOLEAN]
      BY <1>0, <1>1 DEF TypeOK, GrantAsync, Finish
    <3>2. stmts' \in [Request -> SUBSET Statement]
      BY <1>0, <1>1 DEF TypeOK, GrantAsync, Finish
    <3> QED BY <1>0, <1>1, <3>1, <3>2 DEF TypeOK, GrantAsync, Open, Report
  <2>2. ObjectInv(r)'
    BY <1>0, <1>1 DEF TypeOK, RequestInv, ObjectInv, StatementInv, PlaceInv, GrantAsync, Open, Report, Finish
  <2>3. StatementInv(r)'
    BY <1>0, <1>1 DEF TypeOK, RequestInv, ObjectInv, StatementInv, PlaceInv, GrantAsync, Open, Report, Finish
  <2>4. PlaceInv(r)'
    BY <1>0, <1>1 DEF TypeOK, RequestInv, ObjectInv, StatementInv, PlaceInv, GrantAsync, Open, Report, Finish
  <2>5. ASSUME NEW q \in Request, q # r PROVE RequestInv(q)'
    BY <1>0, <1>1, <2>5, UntouchedKeeps DEF IInv, TypeOK, GrantAsync, Open, Report, Finish
  <2> QED BY <2>1, <2>2, <2>3, <2>4, <2>5 DEF IInv, RequestInv
<1>2. CASE BeginFails(r)
  <2>1. TypeOK'
    BY <1>0, <1>2 DEF TypeOK, BeginFails, Report
  <2>2. ObjectInv(r)'
    BY <1>0, <1>2 DEF TypeOK, RequestInv, ObjectInv, StatementInv, PlaceInv, BeginFails, Report
  <2>3. StatementInv(r)'
    BY <1>0, <1>2 DEF TypeOK, RequestInv, ObjectInv, StatementInv, PlaceInv, BeginFails, Report
  <2>4. PlaceInv(r)'
    BY <1>0, <1>2 DEF TypeOK, RequestInv, ObjectInv, StatementInv, PlaceInv, BeginFails, Report
  <2>5. ASSUME NEW q \in Request, q # r PROVE RequestInv(q)'
    BY <1>0, <1>2, <2>5, UntouchedKeeps DEF IInv, TypeOK, BeginFails, Report
  <2> QED BY <2>1, <2>2, <2>3, <2>4, <2>5 DEF IInv, RequestInv
<1>3. CASE Unblock(r)
  <2>1. TypeOK'
    BY <1>0, <1>3 DEF TypeOK, Unblock, Open, Goto
  <2>2. ObjectInv(r)'
    BY <1>0, <1>3 DEF TypeOK, RequestInv, ObjectInv, StatementInv, PlaceInv, Unblock, Open, Goto
  <2>3. StatementInv(r)'
    BY <1>0, <1>3 DEF TypeOK, RequestInv, ObjectInv, StatementInv, PlaceInv, Unblock, Open, Goto
  <2>4. PlaceInv(r)'
    BY <1>0, <1>3 DEF TypeOK, RequestInv, ObjectInv, StatementInv, PlaceInv, Unblock, Open, Goto
  <2>5. ASSUME NEW q \in Request, q # r PROVE RequestInv(q)'
    BY <1>0, <1>3, <2>5, UntouchedKeeps DEF IInv, TypeOK, Unblock, Open, Goto
  <2> QED BY <2>1, <2>2, <2>3, <2>4, <2>5 DEF IInv, RequestInv
<1>4. CASE Answer(r)
  <2>1. TypeOK'
    BY <1>0, <1>4 DEF TypeOK, Answer, Report, RolledBack
  <2>2. ObjectInv(r)'
    BY <1>0, <1>4 DEF TypeOK, RequestInv, ObjectInv, StatementInv, PlaceInv, Answer, Report, RolledBack
  <2>3. StatementInv(r)'
    BY <1>0, <1>4 DEF TypeOK, RequestInv, ObjectInv, StatementInv, PlaceInv, Answer, Report, RolledBack
  <2>4. PlaceInv(r)'
    BY <1>0, <1>4 DEF TypeOK, RequestInv, ObjectInv, StatementInv, PlaceInv, Answer, Report, RolledBack
  <2>5. ASSUME NEW q \in Request, q # r PROVE RequestInv(q)'
    BY <1>0, <1>4, <2>5, UntouchedKeeps DEF IInv, TypeOK, Answer, Report, RolledBack
  <2> QED BY <2>1, <2>2, <2>3, <2>4, <2>5 DEF IInv, RequestInv
<1>5. CASE CommitAnswered(r)
  <2>1. TypeOK'
    BY <1>0, <1>5 DEF TypeOK, CommitAnswered, RolledBack
  <2>2. ObjectInv(r)'
    BY <1>0, <1>5 DEF TypeOK, RequestInv, ObjectInv, StatementInv, PlaceInv, CommitAnswered, RolledBack
  <2>3. StatementInv(r)'
    BY <1>0, <1>5 DEF TypeOK, RequestInv, ObjectInv, StatementInv, PlaceInv, CommitAnswered, RolledBack
  <2>4. PlaceInv(r)'
    BY <1>0, <1>5 DEF TypeOK, RequestInv, ObjectInv, StatementInv, PlaceInv, CommitAnswered, RolledBack
  <2>5. ASSUME NEW q \in Request, q # r PROVE RequestInv(q)'
    BY <1>0, <1>5, <2>5, UntouchedKeeps DEF IInv, TypeOK, CommitAnswered, RolledBack
  <2> QED BY <2>1, <2>2, <2>3, <2>4, <2>5 DEF IInv, RequestInv
<1>6. CASE RollbackAnswered(r)
  <2>1. TypeOK'
    BY <1>0, <1>6 DEF TypeOK, RollbackAnswered, RolledBack
  <2>2. ObjectInv(r)'
    BY <1>0, <1>6 DEF TypeOK, RequestInv, ObjectInv, StatementInv, PlaceInv, RollbackAnswered, RolledBack
  <2>3. StatementInv(r)'
    BY <1>0, <1>6 DEF TypeOK, RequestInv, ObjectInv, StatementInv, PlaceInv, RollbackAnswered, RolledBack
  <2>4. PlaceInv(r)'
    BY <1>0, <1>6 DEF TypeOK, RequestInv, ObjectInv, StatementInv, PlaceInv, RollbackAnswered, RolledBack
  <2>5. ASSUME NEW q \in Request, q # r PROVE RequestInv(q)'
    BY <1>0, <1>6, <2>5, UntouchedKeeps DEF IInv, TypeOK, RollbackAnswered, RolledBack
  <2> QED BY <2>1, <2>2, <2>3, <2>4, <2>5 DEF IInv, RequestInv
<1>7. CASE Release(r)
  <2>1. TypeOK'
    BY <1>0, <1>7 DEF TypeOK, Release
  <2>2. ObjectInv(r)'
    BY <1>0, <1>7 DEF TypeOK, RequestInv, ObjectInv, StatementInv, PlaceInv, Release
  <2>3. StatementInv(r)'
    BY <1>0, <1>7 DEF TypeOK, RequestInv, ObjectInv, StatementInv, PlaceInv, Release
  <2>4. PlaceInv(r)'
    BY <1>0, <1>7 DEF TypeOK, RequestInv, ObjectInv, StatementInv, PlaceInv, Release
  <2>5. ASSUME NEW q \in Request, q # r PROVE RequestInv(q)'
    BY <1>0, <1>7, <2>5, UntouchedKeeps DEF IInv, TypeOK, Release
  <2> QED BY <2>1, <2>2, <2>3, <2>4, <2>5 DEF IInv, RequestInv
<1>8. CASE AnswerOutside(r)
  <2>1. TypeOK'
    BY <1>0, <1>8 DEF TypeOK, AnswerOutside, Report
  <2>2. ObjectInv(r)'
    BY <1>0, <1>8 DEF TypeOK, RequestInv, ObjectInv, StatementInv, PlaceInv, AnswerOutside, Report
  <2>3. StatementInv(r)'
    BY <1>0, <1>8 DEF TypeOK, RequestInv, ObjectInv, StatementInv, PlaceInv, AnswerOutside, Report
  <2>4. PlaceInv(r)'
    BY <1>0, <1>8 DEF TypeOK, RequestInv, ObjectInv, StatementInv, PlaceInv, AnswerOutside, Report
  <2>5. ASSUME NEW q \in Request, q # r PROVE RequestInv(q)'
    BY <1>0, <1>8, <2>5, UntouchedKeeps DEF IInv, TypeOK, AnswerOutside, Report
  <2> QED BY <2>1, <2>2, <2>3, <2>4, <2>5 DEF IInv, RequestInv
<1> QED BY <1>1, <1>2, <1>3, <1>4, <1>5, <1>6, <1>7, <1>8 DEF Database

(* The steps of the loops, the collector and the client.                    *)
LEMMA RuntimeKeepsIInv ==
  ASSUME IInv, NEW r \in Request, Start(r) \/ Resume(r) \/ ResumeDropped(r) \/ Collect(r) \/ Disconnect(r)
  PROVE  IInv'
<1> USE DEF Suspended, Blocked, Statement
<1>0. RequestInv(r) /\ TypeOK
  BY DEF IInv
<1>1. CASE Start(r)
  <2>1. TypeOK'
    BY <1>0, <1>1 DEF TypeOK, Start, Goto
  <2>2. ObjectInv(r)'
    BY <1>0, <1>1 DEF TypeOK, RequestInv, ObjectInv, StatementInv, PlaceInv, Start, Goto
  <2>3. StatementInv(r)'
    BY <1>0, <1>1 DEF TypeOK, RequestInv, ObjectInv, StatementInv, PlaceInv, Start, Goto
  <2>4. PlaceInv(r)'
    BY <1>0, <1>1 DEF TypeOK, RequestInv, ObjectInv, StatementInv, PlaceInv, Start, Goto
  <2>5. ASSUME NEW q \in Request, q # r PROVE RequestInv(q)'
    BY <1>0, <1>1, <2>5, UntouchedKeeps DEF IInv, TypeOK, Start, Goto
  <2> QED BY <2>1, <2>2, <2>3, <2>4, <2>5 DEF IInv, RequestInv
<1>2. CASE Resume(r)
  <2>1. TypeOK'
    BY <1>0, <1>2 DEF TypeOK, Resume, Goto
  <2>2. ObjectInv(r)'
    BY <1>0, <1>2 DEF TypeOK, RequestInv, ObjectInv, StatementInv, PlaceInv, Resume, Goto
  <2>3. StatementInv(r)'
    BY <1>0, <1>2 DEF TypeOK, RequestInv, ObjectInv, StatementInv, PlaceInv, Resume, Goto
  <2>4. PlaceInv(r)'
    BY <1>0, <1>2 DEF TypeOK, RequestInv, ObjectInv, StatementInv, PlaceInv, Resume, Goto
  <2>5. ASSUME NEW q \in Request, q # r PROVE RequestInv(q)'
    BY <1>0, <1>2, <2>5, UntouchedKeeps DEF IInv, TypeOK, Resume, Goto
  <2> QED BY <2>1, <2>2, <2>3, <2>4, <2>5 DEF IInv, RequestInv
<1>3. CASE ResumeDropped(r)
  <2>1. TypeOK'
    BY <1>0, <1>3 DEF TypeOK, ResumeDropped, Goto
  <2>2. ObjectInv(r)'
    BY <1>0, <1>3 DEF TypeOK, RequestInv, ObjectInv, StatementInv, PlaceInv, ResumeDropped, Goto
  <2>3. StatementInv(r)'
    BY <1>0, <1>3 DEF TypeOK, RequestInv, ObjectInv, StatementInv, PlaceInv, ResumeDropped, Goto
  <2>4. PlaceInv(r)'
    BY <1>0, <1>3 DEF TypeOK, RequestInv, ObjectInv, StatementInv, PlaceInv, ResumeDropped, Goto
  <2>5. ASSUME NEW q \in Request, q # r PROVE RequestInv(q)'
    BY <1>0, <1>3, <2>5, UntouchedKeeps DEF IInv, TypeOK, ResumeDropped, Goto
  <2> QED BY <2>1, <2>2, <2>3, <2>4, <2>5 DEF IInv, RequestInv
<1>4. CASE Collect(r)
  <2>1. TypeOK'
    <3>1. finished' \in [Request -> BOOLEAN]
      BY <1>0, <1>4 DEF TypeOK, Collect, Finish
    <3>2. stmts' \in [Request -> SUBSET Statement]
      BY <1>0, <1>4 DEF TypeOK, Collect, Finish
    <3> QED BY <1>0, <1>4, <3>1, <3>2 DEF TypeOK, Collect
  <2>2. ObjectInv(r)'
    BY <1>0, <1>4 DEF TypeOK, RequestInv, ObjectInv, StatementInv, PlaceInv, Collect, Finish
  <2>3. StatementInv(r)'
    BY <1>0, <1>4 DEF TypeOK, RequestInv, ObjectInv, StatementInv, PlaceInv, Collect, Finish
  <2>4. PlaceInv(r)'
    BY <1>0, <1>4 DEF TypeOK, RequestInv, ObjectInv, StatementInv, PlaceInv, Collect, Finish
  <2>5. ASSUME NEW q \in Request, q # r PROVE RequestInv(q)'
    BY <1>0, <1>4, <2>5, UntouchedKeeps DEF IInv, TypeOK, Collect, Finish
  <2> QED BY <2>1, <2>2, <2>3, <2>4, <2>5 DEF IInv, RequestInv
<1>5. CASE Disconnect(r)
  <2>1. TypeOK'
    BY <1>0, <1>5 DEF TypeOK, Disconnect
  <2>2. ObjectInv(r)'
    BY <1>0, <1>5 DEF TypeOK, RequestInv, ObjectInv, StatementInv, PlaceInv, Disconnect
  <2>3. StatementInv(r)'
    BY <1>0, <1>5 DEF TypeOK, RequestInv, ObjectInv, StatementInv, PlaceInv, Disconnect
  <2>4. PlaceInv(r)'
    BY <1>0, <1>5 DEF TypeOK, RequestInv, ObjectInv, StatementInv, PlaceInv, Disconnect
  <2>5. ASSUME NEW q \in Request, q # r PROVE RequestInv(q)'
    BY <1>0, <1>5, <2>5, UntouchedKeeps DEF IInv, TypeOK, Disconnect
  <2> QED BY <2>1, <2>2, <2>3, <2>4, <2>5 DEF IInv, RequestInv
<1> QED BY <1>1, <1>2, <1>3, <1>4, <1>5

LEMMA NextIInv == IInv /\ [Next]_txVars => IInv'
<1> SUFFICES ASSUME IInv, [Next]_txVars PROVE IInv'
  OBVIOUS
<1>1. CASE UNCHANGED txVars
  BY <1>1 DEF txVars, IInv, TypeOK, RequestInv, ObjectInv, StatementInv, PlaceInv
<1>2. ASSUME NEW r \in Request,
             \/ Start(r) \/ Handler(r) \/ Database(r) \/ Resume(r)
             \/ ResumeDropped(r) \/ Collect(r) \/ Disconnect(r)
      PROVE  IInv'
  BY <1>2, HandlerKeepsIInv, DatabaseKeepsIInv, RuntimeKeepsIInv
<1>3. CASE Rest
  BY <1>1, <1>3 DEF Rest
<1> QED BY <1>1, <1>2, <1>3 DEF Next

THEOREM Invariance == Safety => []IInv
BY InitIInv, NextIInv, PTL DEF Safety
-----------------------------------------------------------------------------
(* The results *)

(* Every variable keeps its type.                                           *)
THEOREM TypeCorrect == Safety => []TypeOK
<1>1. IInv => TypeOK
  BY DEF IInv
<1> QED BY <1>1, Invariance, PTL

(* However the handler, the client and the collector interleave, only what  *)
(* commit() was called for is committed: no transaction reaches Drogon's    *)
(* commit at destruction while it is open.                                  *)
THEOREM NoAccidentalCommit == Safety => []CommittedOnlyIfAsked
<1>1. IInv => CommittedOnlyIfAsked
  BY DEF IInv, RequestInv, StatementInv, CommittedOnlyIfAsked
<1> QED BY <1>1, Invariance, PTL

(* At most one statement of a transaction is under way, always on a         *)
(* connection that it still has, and none follows COMMIT or ROLLBACK.       *)
THEOREM NothingAfterTheLastStatement == Safety => []StatementsInTurn
<1>1. IInv => StatementsInTurn
  <2> SUFFICES ASSUME IInv, NEW r \in Request
               PROVE  /\ \A s, t \in stmts[r] : s = t
                      /\ stmts[r] # {} => r \in holds
                      /\ "query" \in stmts[r] => ~finished[r]
    BY DEF StatementsInTurn
  <2>1. StatementInv(r) /\ stmts[r] \subseteq Statement
    BY DEF IInv, RequestInv, TypeOK
  <2> QED BY <2>1 DEF StatementInv, Statement
<1> QED BY <1>1, Invariance, PTL

(* A transaction that is kept from the collector although its handler is    *)
(* over, or never resumed, is one whose client left.                        *)
THEOREM ConnectionsKeptOnlyByDeparture == Safety => []KeptOnlyByDeparture
<1>1. IInv => KeptOnlyByDeparture
  BY DEF IInv, RequestInv, PlaceInv, KeptOnlyByDeparture
<1> QED BY <1>1, Invariance, PTL

(* A connection that is kept while the routes are Cooperative is kept by    *)
(* somebody who can go on: the loop of an open transaction is not blocked.  *)
LEMMA HoldersGoOn ==
  ASSUME IInv, Cooperative, NEW r \in holds
  PROVE  CanGoOn
<1> USE DEF Suspended, Blocked
<1>1. r \in Request /\ TypeOK /\ RequestInv(r)
  BY DEF IInv, TypeOK
<1>2. connected[r] /\ ~NeedsConnection(r)
  BY <1>1 DEF Cooperative
<1>3. CASE finished[r] \/ lua[r] = "running" \/ stmts[r] # {}
  BY <1>1, <1>3 DEF CanGoOn
<1>4. CASE ~finished[r] /\ lua[r] # "running" /\ stmts[r] = {}
  <2>1. \A q \in Request : lua[q] \in Blocked => loop[r] # loop[q]
    BY <1>4 DEF Cooperative
  <2>2. CASE handle[r] = "garbage"
    <3>1. CanCollect
      BY <1>1, <2>1 DEF CanCollect
    <3> QED BY <1>1, <2>2, <3>1 DEF CanGoOn
  <2>3. CASE handle[r] # "garbage"
    <3>1. lua[r] \in Suspended /\ outcome[r] \in {"ok", "err"}
      <4>1. handle[r] \in {"context", "lua"}
        BY <1>1, <1>4, <2>3 DEF TypeOK, RequestInv, ObjectInv
      <4>2. lua[r] \in Suspended
        BY <1>1, <1>2, <1>4, <4>1 DEF TypeOK, RequestInv, PlaceInv, NeedsConnection
      <4> QED BY <1>1, <1>2, <1>4, <4>1, <4>2
              DEF TypeOK, RequestInv, StatementInv, PlaceInv, NeedsConnection
    <3>2. CASE Occupied(loop[r])
      BY <2>1, <3>2 DEF Occupied, CanGoOn
    <3>3. CASE ~Occupied(loop[r])
      BY <1>1, <3>1, <3>3 DEF CanGoOn
    <3> QED BY <3>2, <3>3
  <2> QED BY <2>2, <2>3
<1> QED BY <1>3, <1>4

LEMMA WaitersGoOn ==
  ASSUME IInv, Cooperative, NEW r \in Request, NeedsConnection(r)
  PROVE  CanGoOn
<1>1. CASE holds = {}
  <2>1. FreeConnection
    BY <1>1, FS_EmptySet, TransactionAssumption DEF FreeConnection
  <2> QED BY <2>1 DEF CanGoOn
<1>2. CASE holds # {}
  BY <1>2, HoldersGoOn
<1> QED BY <1>1, <1>2

(* Connections, blocked loops and the collector form no ring: whatever the  *)
(* number of routes, loops and connections, Cooperative routes that wait    *)
(* always wait for something that can happen.                               *)
THEOREM NoDeadlock == Safety => []NeverStuck
<1>1. IInv => NeverStuck
  <2> SUFFICES ASSUME IInv, Cooperative,
                      holds # {} \/ \E r \in Request : lua[r] \in Suspended \cup Blocked
               PROVE  CanGoOn
    BY DEF NeverStuck
  <2>1. CASE holds # {}
    BY <2>1, HoldersGoOn
  <2>2. ASSUME NEW r \in Request, lua[r] \in Suspended \cup Blocked, holds = {}
        PROVE  CanGoOn
    <3>1. connected[r] /\ TypeOK /\ RequestInv(r)
      BY DEF Cooperative, IInv
    <3>2. CASE NeedsConnection(r)
      BY <3>2, WaitersGoOn
    <3>3. CASE ~NeedsConnection(r)
      <4>1. lua[r] \in Suspended /\ outcome[r] \in {"ok", "err"}
        BY <2>2, <3>1, <3>3
           DEF TypeOK, RequestInv, StatementInv, PlaceInv, NeedsConnection, Suspended, Blocked
      <4>2. CASE Occupied(loop[r])
        <5>1. PICK q \in Request : lua[q] = "running" \/ lua[q] \in Blocked
          BY <4>2 DEF Occupied
        <5>2. CASE lua[q] = "running"
          BY <5>2 DEF CanGoOn
        <5>3. CASE lua[q] \in Blocked
          BY <5>3, WaitersGoOn DEF NeedsConnection
        <5> QED BY <5>1, <5>2, <5>3
      <4>3. CASE ~Occupied(loop[r])
        BY <4>1, <4>3 DEF CanGoOn
      <4> QED BY <4>2, <4>3
    <3> QED BY <3>2, <3>3
  <2> QED BY <2>1, <2>2
<1> QED BY <1>1, Invariance, PTL
-----------------------------------------------------------------------------
(* The calls of a route, as OperationSlot has them. *)

(* A handler that runs has taken the outcome of its last call, so that the  *)
(* next one finds the slot empty.                                           *)
LEMMA HandlerUsesSlot ==
  ASSUME IInv, NEW r \in Request, Handler(r)
  PROVE  Slot!Begin(r) \/ UNCHANGED <<outcome, connected>>
<1>1. lua[r] = "running" => outcome[r] = "none"
  BY DEF IInv, RequestInv, PlaceInv, Suspended
<1>2. CASE BeginAsync(r) \/ QueryOutside(r) \/ QueryAsync(r)
  BY <1>1, <1>2 DEF BeginAsync, QueryOutside, QueryAsync, Await, Slot!Begin
<1>3. CASE Block(r) \/ QueryFails(r) \/ Commit(r) \/ Rollback(r) \/ LoseHandle(r) \/ End(r)
  BY <1>3 DEF Block, QueryFails, Commit, Rollback, LoseHandle, End
<1> QED BY <1>2, <1>3 DEF Handler

(* What the callbacks make of a call that is pending.                       *)
LEMMA ReportFillsSlot ==
  ASSUME NEW r \in Request, NEW o \in {"ok", "err"}, Report(r, o),
         outcome[r] = "pending", UNCHANGED connected, connected \in [Request -> BOOLEAN]
  PROVE  Slot!Deliver(r) \/ Slot!Drop(r)
<1>1. CASE connected[r]
  BY <1>1 DEF Report, Slot!Deliver
<1>2. CASE ~connected[r]
  BY <1>2 DEF Report, Slot!Drop
<1> QED BY <1>1, <1>2

(* The pool and the database answer only a call that is pending.            *)
LEMMA DatabaseUsesSlot ==
  ASSUME IInv, NEW r \in Request, Database(r)
  PROVE  Slot!Deliver(r) \/ Slot!Drop(r) \/ UNCHANGED <<outcome, connected>>
<1>0. connected \in [Request -> BOOLEAN]
  BY DEF IInv, TypeOK
<1>1. CASE GrantAsync(r) \/ BeginFails(r) \/ AnswerOutside(r)
  <2>1. outcome[r] = "pending" /\ UNCHANGED connected /\ (Report(r, "ok") \/ Report(r, "err"))
    BY <1>1 DEF GrantAsync, BeginFails, AnswerOutside
  <2> QED BY <1>0, <2>1, ReportFillsSlot
<1>2. CASE Answer(r)
  <2>1. outcome[r] = "pending"
    BY <1>2 DEF IInv, RequestInv, StatementInv, Answer
  <2>2. UNCHANGED connected /\ (Report(r, "ok") \/ Report(r, "err"))
    BY <1>2 DEF Answer
  <2> QED BY <1>0, <2>1, <2>2, ReportFillsSlot
<1>3. CASE Unblock(r) \/ CommitAnswered(r) \/ RollbackAnswered(r) \/ Release(r)
  BY <1>3 DEF Unblock, CommitAnswered, RollbackAnswered, Release
<1> QED BY <1>1, <1>2, <1>3 DEF Database

LEMMA NextUsesSlot ==
  IInv /\ [Next]_txVars => [Slot!SlotNext]_(Slot!operationVars)
<1> SUFFICES ASSUME IInv, [Next]_txVars
             PROVE  Slot!SlotNext \/ UNCHANGED <<outcome, connected>>
  BY DEF Slot!operationVars
<1> USE DEF Slot!SlotNext, Slot!OperationNext
<1>1. CASE UNCHANGED txVars \/ Rest
  BY <1>1 DEF txVars, Rest
<1>2. ASSUME NEW r \in Request, Handler(r) \/ Database(r)
      PROVE  Slot!SlotNext \/ UNCHANGED <<outcome, connected>>
  BY <1>2, HandlerUsesSlot, DatabaseUsesSlot
<1>3. ASSUME NEW r \in Request, Resume(r) \/ ResumeDropped(r) PROVE Slot!SlotNext
  BY <1>3 DEF Resume, ResumeDropped, Slot!Take
<1>4. ASSUME NEW r \in Request, Start(r) \/ Collect(r) PROVE UNCHANGED <<outcome, connected>>
  BY <1>4 DEF Start, Collect
<1>5. ASSUME NEW r \in Request, Disconnect(r) PROVE Slot!SlotNext
  BY <1>5 DEF Disconnect, Slot!Depart
<1> QED BY <1>1, <1>2, <1>3, <1>4, <1>5 DEF Next

(* The suspended calls of a transaction are operations in the engine's      *)
(* sense, whatever COMMIT, ROLLBACK and the collector do at the same time.  *)
THEOREM DatabaseUsesSlots == Safety => CallsAreOperations
<1>1. Init => Slot!OperationInit
  BY DEF Init, Slot!OperationInit
<1> QED BY <1>1, NextUsesSlot, Invariance, PTL
        DEF Safety, CallsAreOperations, Slot!SlotSafety
=============================================================================
