-------------------------- MODULE AsyncRoutesProofs --------------------------
(***************************************************************************)
(* Proofs about AsyncRoutes for any requests, any loops and any bound on   *)
(* the suspensions of a handler.                                           *)
(***************************************************************************)
EXTENDS AsyncRoutes, TLAPS

-----------------------------------------------------------------------------
(* The inductive invariant. *)

(* A loop executes the Lua code of a request that it owns, and every        *)
(* coroutine that executes is the current one of its loop.                  *)
RunInv ==
  /\ \A l \in Loop : current[l] # Idle => /\ owner[current[l]] = l
                                          /\ co[current[l]] \in {"running", "yielding"}
  /\ \A r \in Request : co[r] \in {"running", "yielding"} => current[owner[r]] = r

(* How the contexts, the copies of the callback and the operation of one    *)
(* request go with the state of its coroutine.                              *)
RequestInv(r) ==
  /\ co[r] = "none" => /\ reg[r] = {} /\ op[r] = "none"
                       /\ sent[r] = 0 => cb[r] = {"binder"}
                       /\ sent[r] > 0 => cb[r] = {}
                       /\ sent[r] <= 1 /\ ~raised[r] /\ yields[r] = 0
  /\ co[r] # "none" => /\ cb[r] = reg[r]
                       /\ "op" \in reg[r] <=> op[r] # "none"
  /\ Live(r) => "route" \in reg[r] /\ sent[r] = 0 /\ ~raised[r]
  /\ co[r] = "running" => op[r] = "none"
  /\ co[r] = "yielding" => op[r] # "none"
  /\ co[r] \in {"yielding", "suspended"} => yields[r] > 0
  /\ op[r] = "dropped" => ~connected[r]
  /\ co[r] = "released" => /\ "route" \notin reg[r] /\ "mw" \notin reg[r]
                           /\ op[r] \in {"none", "ok", "err"}
                           /\ sent[r] <= 1
                           /\ raised[r] => sent[r] = 0 /\ yields[r] = 0
                           /\ sent[r] > 0 \/ raised[r] => op[r] = "none"
                           /\ op[r] # "none" => ~connected[r]

IInv == TypeOK /\ RunInv /\ OneWaker /\ \A r \in Request : RequestInv(r)
-----------------------------------------------------------------------------
(* Queues *)

(* Appending a task keeps the tasks before it in their places and adds one  *)
(* at the end.                                                              *)
LEMMA AppendFacts ==
  ASSUME NEW q \in Seq(Request), NEW r \in Request
  PROVE  /\ Append(q, r) \in Seq(Request)
         /\ DOMAIN Append(q, r) = DOMAIN q \cup {Len(q) + 1}
         /\ Len(q) + 1 \notin DOMAIN q
         /\ \A i \in DOMAIN q : Append(q, r)[i] = q[i]
         /\ Append(q, r)[Len(q) + 1] = r
OBVIOUS

(* Taking the first task leaves the others in their order. *)
LEMMA TailFacts ==
  ASSUME NEW q \in Seq(Request), q # <<>>
  PROVE  /\ Tail(q) \in Seq(Request)
         /\ 1 \in DOMAIN q /\ Head(q) = q[1] /\ Head(q) \in Request
         /\ \A i \in DOMAIN Tail(q) : /\ i + 1 \in DOMAIN q /\ i + 1 # 1
                                      /\ Tail(q)[i] = q[i + 1]
         /\ \A i \in DOMAIN q : i # 1 => /\ i - 1 \in DOMAIN Tail(q)
                                         /\ Tail(q)[i - 1] = q[i]
         /\ DOMAIN q \subseteq Nat /\ DOMAIN Tail(q) \subseteq Nat
OBVIOUS

(* Queueing a task for a request that has none keeps the queues in order,   *)
(* and only that request becomes queued.                                    *)
LEMMA WakeQueues ==
  ASSUME TypeOK, QueuesDistinct, QueuesOwned, UNCHANGED owner,
         NEW r \in Request, ~Queued(r), Live(r), Wake(r)
  PROVE  /\ queue' \in [Loop -> Seq(Request)]
         /\ QueuesDistinct' /\ QueuesOwned'
         /\ \A x \in Request : Queued(x)' <=> Queued(x) \/ x = r
<1> DEFINE k == owner[r]
           n == Len(queue[k]) + 1
<1>1. /\ k \in Loop /\ queue[k] \in Seq(Request)
      /\ queue' = [queue EXCEPT ![k] = Append(queue[k], r)]
      /\ queue \in [Loop -> Seq(Request)]
  BY DEF TypeOK, Wake
<1>2. /\ queue'[k] \in Seq(Request)
      /\ DOMAIN queue'[k] = DOMAIN queue[k] \cup {n}
      /\ n \notin DOMAIN queue[k]
      /\ \A i \in DOMAIN queue[k] : queue'[k][i] = queue[k][i]
      /\ queue'[k][n] = r
  BY <1>1, AppendFacts
<1>3. \A l \in Loop : l # k => queue'[l] = queue[l]
  BY <1>1
<1> HIDE DEF k, n
<1>4. queue' \in [Loop -> Seq(Request)]
  BY <1>1, <1>2
<1>5. \A l \in Loop : \A i \in DOMAIN queue[l] : queue[l][i] # r
  BY DEF Queued
<1>6. \A l \in Loop : \A i \in DOMAIN queue'[l] :
         (l = k /\ i = n /\ queue'[l][i] = r)
         \/ (i \in DOMAIN queue[l] /\ queue'[l][i] = queue[l][i])
  BY <1>2, <1>3
<1>7. QueuesDistinct'
  BY <1>5, <1>6 DEF QueuesDistinct
<1>8. QueuesOwned'
  BY <1>6 DEF QueuesOwned, k
<1>9. \A x \in Request : Queued(x)' <=> Queued(x) \/ x = r
  BY <1>1, <1>2, <1>3, <1>6 DEF Queued
<1> QED BY <1>4, <1>7, <1>8, <1>9

(* Taking a task off its queue keeps the queues in order, and the request   *)
(* it was for, which the loop owns, is no longer queued.                    *)
LEMMA TaskQueues ==
  ASSUME TypeOK, QueuesDistinct, QueuesOwned, UNCHANGED owner,
         NEW l \in Loop, NEW r \in Request, NextTask(l, r)
  PROVE  /\ queue' \in [Loop -> Seq(Request)]
         /\ QueuesDistinct' /\ QueuesOwned'
         /\ Queued(r) /\ owner[r] = l
         /\ \A x \in Request : Queued(x)' <=> Queued(x) /\ x # r
<1>1. /\ queue[l] \in Seq(Request) /\ queue[l] # <<>> /\ r = Head(queue[l])
      /\ queue' = [queue EXCEPT ![l] = Tail(queue[l])]
      /\ queue \in [Loop -> Seq(Request)]
  BY DEF TypeOK, NextTask
<1>2. /\ queue'[l] \in Seq(Request)
      /\ 1 \in DOMAIN queue[l] /\ r = queue[l][1]
      /\ \A i \in DOMAIN queue'[l] : /\ i + 1 \in DOMAIN queue[l] /\ i + 1 # 1
                                     /\ queue'[l][i] = queue[l][i + 1]
      /\ \A i \in DOMAIN queue[l] : i # 1 => /\ i - 1 \in DOMAIN queue'[l]
                                             /\ queue'[l][i - 1] = queue[l][i]
      /\ DOMAIN queue[l] \subseteq Nat /\ DOMAIN queue'[l] \subseteq Nat
  BY <1>1, TailFacts
<1>3. \A k \in Loop : k # l => queue'[k] = queue[k]
  BY <1>1
<1>4. queue' \in [Loop -> Seq(Request)]
  BY <1>1, <1>2
<1>5. QueuesDistinct'
  <2> SUFFICES ASSUME NEW l1 \in Loop, NEW l2 \in Loop,
                      NEW i \in DOMAIN queue'[l1], NEW j \in DOMAIN queue'[l2],
                      queue'[l1][i] = queue'[l2][j]
               PROVE  l1 = l2 /\ i = j
    BY DEF QueuesDistinct
  <2>1. CASE l1 = l /\ l2 = l
    BY <2>1, <1>2 DEF QueuesDistinct
  <2>2. CASE l1 # l /\ l2 # l
    BY <2>2, <1>3 DEF QueuesDistinct
  <2>3. CASE l1 = l /\ l2 # l
    <3>1. i + 1 \in DOMAIN queue[l] /\ queue[l][i + 1] = queue'[l1][i]
      BY <2>3, <1>2
    <3>2. j \in DOMAIN queue[l2] /\ queue[l2][j] = queue'[l2][j]
      BY <2>3, <1>3
    <3>3. l = l2
      BY <3>1, <3>2 DEF QueuesDistinct
    <3> QED BY <3>3, <2>3
  <2>4. CASE l1 # l /\ l2 = l
    <3>1. j + 1 \in DOMAIN queue[l] /\ queue[l][j + 1] = queue'[l2][j]
      BY <2>4, <1>2
    <3>2. i \in DOMAIN queue[l1] /\ queue[l1][i] = queue'[l1][i]
      BY <2>4, <1>3
    <3>3. l = l1
      BY <3>1, <3>2 DEF QueuesDistinct
    <3> QED BY <3>3, <2>4
  <2> QED BY <2>1, <2>2, <2>3, <2>4
<1>6. QueuesOwned'
  <2> SUFFICES ASSUME NEW k \in Loop, NEW i \in DOMAIN queue'[k]
               PROVE  owner[queue'[k][i]] = k
    BY DEF QueuesOwned
  <2>1. CASE k = l
    BY <2>1, <1>2 DEF QueuesOwned
  <2>2. CASE k # l
    BY <2>2, <1>3 DEF QueuesOwned
  <2> QED BY <2>1, <2>2
<1>7. Queued(r) /\ owner[r] = l
  BY <1>2 DEF Queued, QueuesOwned
<1>8. ASSUME NEW x \in Request, Queued(x), x # r
      PROVE  Queued(x)'
  <2>1. PICK k \in Loop : \E i \in DOMAIN queue[k] : queue[k][i] = x
    BY <1>8 DEF Queued
  <2>2. PICK i \in DOMAIN queue[k] : queue[k][i] = x
    BY <2>1
  <2>3. CASE k = l
    <3>1. i # 1
      BY <2>2, <2>3, <1>2, <1>8
    <3> QED BY <3>1, <2>2, <2>3, <1>2 DEF Queued
  <2>4. CASE k # l
    BY <2>4, <2>2, <1>3 DEF Queued
  <2> QED BY <2>3, <2>4
<1>9. ASSUME NEW x \in Request, Queued(x)'
      PROVE  Queued(x) /\ x # r
  <2>1. PICK k \in Loop : \E i \in DOMAIN queue'[k] : queue'[k][i] = x
    BY <1>9 DEF Queued
  <2>2. PICK i \in DOMAIN queue'[k] : queue'[k][i] = x
    BY <2>1
  <2>3. CASE k = l
    <3>1. i + 1 \in DOMAIN queue[l] /\ i + 1 # 1 /\ queue[l][i + 1] = x
      BY <2>2, <2>3, <1>2
    <3>2. x # r
      BY <3>1, <1>2 DEF QueuesDistinct
    <3> QED BY <3>1, <3>2 DEF Queued
  <2>4. CASE k # l
    <3>1. i \in DOMAIN queue[k] /\ queue[k][i] = x
      BY <2>2, <2>4, <1>3
    <3>2. x # r
      BY <3>1, <2>4, <1>2 DEF QueuesDistinct
    <3> QED BY <3>1, <3>2 DEF Queued
  <2> QED BY <2>3, <2>4
<1> QED BY <1>4, <1>5, <1>6, <1>7, <1>8, <1>9

(* A step that queues nothing keeps the queues in order. *)
LEMMA SameQueues ==
  ASSUME QueuesDistinct, QueuesOwned, UNCHANGED <<owner, queue>>
  PROVE  /\ QueuesDistinct' /\ QueuesOwned'
         /\ \A x \in Request : Queued(x)' <=> Queued(x)
BY DEF QueuesDistinct, QueuesOwned, Queued
-----------------------------------------------------------------------------
(* Every action keeps the inductive invariant. *)

LEMMA InitIInv == Init => IInv
<1> SUFFICES ASSUME Init PROVE IInv
  OBVIOUS
<1>1. TypeOK
  BY ConstantsAssumption DEF Init, TypeOK, CoState, Context, Holder, OpState
<1>2. RunInv
  BY DEF Init, RunInv
<1>3. \A r \in Request : ~Queued(r)
  <2>1. \A l \in Loop : queue[l] = <<>> /\ DOMAIN queue[l] = {}
    BY DEF Init
  <2> QED BY <2>1 DEF Queued
<1>4. OneWaker
  BY <1>3 DEF Init, OneWaker, QueuesDistinct, QueuesOwned, WakersMatch
<1>5. ASSUME NEW r \in Request PROVE RequestInv(r)
  <2>1. /\ co[r] = "none" /\ reg[r] = {} /\ cb[r] = {"binder"} /\ op[r] = "none"
        /\ sent[r] = 0 /\ ~raised[r] /\ yields[r] = 0
    BY DEF Init
  <2> QED BY <2>1 DEF RequestInv, Live
<1> QED BY <1>1, <1>2, <1>4, <1>5 DEF IInv

LEMMA DirectAnswerKeepsIInv ==
  ASSUME IInv, NEW r \in Request, AnswerTable(r) \/ RejectHandler(r)
  PROVE  IInv'
<1>1. /\ co[r] = "none" /\ sent[r] = 0 /\ "binder" \in cb[r]
      /\ sent' = [sent EXCEPT ![r] = sent[r] + 1]
      /\ cb' = [cb EXCEPT ![r] = {}]
      /\ \E v \in {"answered", "error"} : verdict' = [verdict EXCEPT ![r] = v]
      /\ raised' = raised
      /\ UNCHANGED <<owner, current, queue, co, reg, op, yields, connected>>
  BY DEF IInv, TypeOK, RequestInv, AnswerTable, RejectHandler, Dispatchable, Unseen,
         SendError, Invoke
<1>2. TypeOK'
  BY <1>1 DEF IInv, TypeOK
<1>3. RunInv'
  BY <1>1 DEF IInv, RunInv
<1>4. OneWaker'
  BY <1>1, SameQueues DEF IInv, OneWaker, WakersMatch
<1>5. \A x \in Request : RequestInv(x)'
  BY <1>1 DEF IInv, TypeOK, RequestInv, Live
<1> QED BY <1>2, <1>3, <1>4, <1>5 DEF IInv

LEMMA StartRouteKeepsIInv ==
  ASSUME IInv, NEW r \in Request, NEW m \in BOOLEAN, StartRoute(r, m)
  PROVE  IInv'
<1> DEFINE contexts == IF m THEN {"route", "mw"} ELSE {"route"}
<1>1. /\ co[r] = "none" /\ sent[r] = 0 /\ current[owner[r]] = Idle
      /\ contexts \subseteq {"route", "mw"} /\ "route" \in contexts
      /\ co' = [co EXCEPT ![r] = "running"]
      /\ reg' = [reg EXCEPT ![r] = contexts]
      /\ cb' = [cb EXCEPT ![r] = contexts]
      /\ current' = [current EXCEPT ![owner[r]] = r]
      /\ UNCHANGED <<owner, queue, op, yields, connected, sent, verdict, raised>>
  BY DEF StartRoute, Dispatchable, Unseen
<1> HIDE DEF contexts
<1>2. TypeOK'
  BY <1>1 DEF IInv, TypeOK, CoState, Context, Holder
<1>3. RunInv'
  BY <1>1, ConstantsAssumption DEF IInv, TypeOK, RunInv
<1>4. OneWaker'
  BY <1>1, SameQueues DEF IInv, TypeOK, OneWaker, WakersMatch
<1>5. \A x \in Request : RequestInv(x)'
  BY <1>1 DEF IInv, TypeOK, RequestInv, Live
<1> QED BY <1>2, <1>3, <1>4, <1>5 DEF IInv

LEMMA StartOpKeepsIInv ==
  ASSUME IInv, NEW r \in Request, StartOp(r)
  PROVE  IInv'
<1>1. TypeOK'
  BY ConstantsAssumption DEF IInv, TypeOK, StartOp, CoState, Context, Holder, OpState
<1>2. RunInv'
  BY DEF IInv, TypeOK, RunInv, StartOp
<1>3. ~Queued(r)
  BY DEF IInv, OneWaker, WakersMatch, StartOp
<1>4. OneWaker'
  BY <1>3, SameQueues DEF IInv, TypeOK, OneWaker, WakersMatch, StartOp
<1>5. \A x \in Request : RequestInv(x)'
  BY DEF IInv, TypeOK, RequestInv, Live, StartOp
<1> QED BY <1>1, <1>2, <1>4, <1>5 DEF IInv

LEMMA YieldForOpKeepsIInv ==
  ASSUME IInv, NEW r \in Request, YieldForOp(r)
  PROVE  IInv'
<1>1. TypeOK'
  BY DEF IInv, TypeOK, YieldForOp, Leaves, CoState
<1>2. RunInv'
  BY ConstantsAssumption DEF IInv, TypeOK, RunInv, YieldForOp, Leaves
<1>3. OneWaker'
  BY SameQueues DEF IInv, TypeOK, OneWaker, WakersMatch, YieldForOp
<1>4. \A x \in Request : RequestInv(x)'
  BY DEF IInv, TypeOK, RequestInv, Live, YieldForOp
<1> QED BY <1>1, <1>2, <1>3, <1>4 DEF IInv

LEMMA CallNextKeepsIInv ==
  ASSUME IInv, NEW r \in Request, CallNext(r)
  PROVE  IInv'
<1>1. ~Queued(r) /\ Live(r) /\ op[r] = "none"
  BY DEF IInv, OneWaker, WakersMatch, RequestInv, Live, CallNext
<1>2. /\ queue' \in [Loop -> Seq(Request)]
      /\ QueuesDistinct' /\ QueuesOwned'
      /\ \A x \in Request : Queued(x)' <=> Queued(x) \/ x = r
  BY <1>1, WakeQueues DEF IInv, OneWaker, CallNext
<1>3. TypeOK'
  <2>1. yields' \in [Request -> 0..MaxYields]
    BY ConstantsAssumption DEF IInv, TypeOK, CallNext
  <2>2. co' \in [Request -> CoState]
    BY DEF IInv, TypeOK, CallNext, CoState
  <2>3. current' \in [Loop -> Request \cup {Idle}]
    BY DEF IInv, TypeOK, CallNext, Leaves
  <2> QED BY <1>2, <2>1, <2>2, <2>3 DEF IInv, TypeOK, CallNext
<1>4. RunInv'
  BY ConstantsAssumption DEF IInv, TypeOK, RunInv, CallNext, Leaves
<1>5. OneWaker'
  BY <1>1, <1>2 DEF IInv, TypeOK, OneWaker, WakersMatch, CallNext
<1>6. \A x \in Request : RequestInv(x)'
  BY DEF IInv, TypeOK, RequestInv, Live, CallNext
<1> QED BY <1>3, <1>4, <1>5, <1>6 DEF IInv

(* finishAsyncRoute and failAsyncRoute find the copy of the callback that   *)
(* they use, so the request is answered.                                    *)
LEMMA SettleAnswers ==
  ASSUME IInv, NEW r \in Request, co[r] = "running", NEW v, Settle(r, v)
  PROVE  /\ sent' = [sent EXCEPT ![r] = sent[r] + 1]
         /\ verdict' = [verdict EXCEPT ![r] = v]
         /\ UNCHANGED raised
BY DEF IInv, RequestInv, Live, Settle, Invoke

(* The steps that end the handler's run: with the answer v, or raised.      *)
LEMMA EndKeepsIInv ==
  ASSUME IInv, NEW r \in Request, HandlerReturns(r) \/ HandlerFails(r)
  PROVE  IInv'
<1>1. /\ co[r] = "running" /\ op[r] = "none" /\ ~Queued(r) /\ sent[r] = 0
      /\ ~raised[r] /\ cb[r] = reg[r] /\ "op" \notin reg[r]
  BY DEF IInv, RequestInv, Live, OneWaker, WakersMatch, HandlerReturns, HandlerFails
<1>2. /\ Cleanup(r) /\ Leaves(r)
      /\ UNCHANGED <<owner, queue, op, yields, connected>>
  BY DEF HandlerReturns, HandlerFails, Settle
<1>3. \/ /\ sent' = [sent EXCEPT ![r] = sent[r] + 1]
         /\ \E v \in {"answered", "error"} : verdict' = [verdict EXCEPT ![r] = v]
         /\ UNCHANGED raised
      \/ /\ UNCHANGED <<sent, verdict>>
         /\ raised' = [raised EXCEPT ![r] = TRUE]
         /\ yields[r] = 0
  <2>1. CASE HandlerReturns(r)
    BY <2>1, <1>1, SettleAnswers DEF HandlerReturns
  <2>2. CASE HandlerFails(r) /\ Attached(r) /\ Cleanup(r) /\ SendError(r)
    <3>1. "binder" \notin cb[r]
      BY <1>1 DEF IInv, TypeOK, Context
    <3> QED BY <2>2, <3>1 DEF SendError, Invoke, Attached
  <2>3. CASE HandlerFails(r) /\ ~Attached(r) /\ Settle(r, "error")
    BY <2>3, <1>1, SettleAnswers
  <2> QED BY <2>1, <2>2, <2>3 DEF HandlerFails
<1>4. TypeOK'
  <2>1. /\ co' \in [Request -> CoState]
        /\ reg' \in [Request -> SUBSET Context]
        /\ cb' \in [Request -> SUBSET Holder]
        /\ current' \in [Loop -> Request \cup {Idle}]
    BY <1>2 DEF IInv, TypeOK, Cleanup, Leaves, CoState
  <2>2. sent' \in [Request -> Nat]
    <3>1. sent \in [Request -> Nat]
      BY DEF IInv, TypeOK
    <3> QED BY <1>3, <3>1
  <2>3. verdict' \in [Request -> {"none", "answered", "error"}]
    <3>1. verdict \in [Request -> {"none", "answered", "error"}]
      BY DEF IInv, TypeOK
    <3> QED BY <1>3, <3>1
  <2>4. raised' \in [Request -> BOOLEAN]
    <3>1. raised \in [Request -> BOOLEAN]
      BY DEF IInv, TypeOK
    <3> QED BY <1>3, <3>1
  <2> QED BY <1>2, <2>1, <2>2, <2>3, <2>4 DEF IInv, TypeOK
<1>5. RunInv'
  BY <1>1, <1>2, ConstantsAssumption DEF IInv, TypeOK, RunInv, Cleanup, Leaves
<1>6. OneWaker'
  BY <1>1, <1>2, SameQueues DEF IInv, TypeOK, OneWaker, WakersMatch, Cleanup
<1>7. \A x \in Request : RequestInv(x)'
  BY <1>1, <1>2, <1>3 DEF IInv, TypeOK, RequestInv, Live, Cleanup
<1> QED BY <1>4, <1>5, <1>6, <1>7 DEF IInv

LEMMA CompleteOpKeepsIInv ==
  ASSUME IInv, NEW r \in Request, NEW result \in {"ok", "err"}, CompleteOp(r, result)
  PROVE  IInv'
<1>1. /\ op[r] = "pending" /\ ~Queued(r) /\ Live(r)
      /\ co[r] \in {"yielding", "suspended"}
  BY DEF IInv, OneWaker, WakersMatch, Live, CompleteOp
<1>2. CASE connected[r]
  <2>1. /\ queue' \in [Loop -> Seq(Request)]
        /\ QueuesDistinct' /\ QueuesOwned'
        /\ \A x \in Request : Queued(x)' <=> Queued(x) \/ x = r
    BY <1>1, <1>2, WakeQueues DEF IInv, OneWaker, CompleteOp
  <2>2. op' = [op EXCEPT ![r] = result]
    BY <1>2 DEF CompleteOp
  <2>3. TypeOK'
    BY <2>1, <2>2 DEF IInv, TypeOK, CompleteOp, OpState
  <2>4. OneWaker'
    BY <1>1, <2>1, <2>2 DEF IInv, TypeOK, OneWaker, WakersMatch, CompleteOp
  <2>5. \A x \in Request : RequestInv(x)'
    BY <1>1, <2>2 DEF IInv, TypeOK, RequestInv, Live, CompleteOp
  <2>6. RunInv'
    BY DEF IInv, RunInv, CompleteOp
  <2> QED BY <2>3, <2>4, <2>5, <2>6 DEF IInv
<1>3. CASE ~connected[r]
  <2>1. op' = [op EXCEPT ![r] = "dropped"] /\ queue' = queue
    BY <1>3 DEF CompleteOp
  <2>2. TypeOK'
    BY <2>1 DEF IInv, TypeOK, CompleteOp, OpState
  <2>3. OneWaker'
    BY <1>1, <2>1, SameQueues DEF IInv, TypeOK, OneWaker, WakersMatch, CompleteOp
  <2>4. \A x \in Request : RequestInv(x)'
    BY <1>1, <1>3, <2>1 DEF IInv, TypeOK, RequestInv, Live, CompleteOp
  <2>5. RunInv'
    BY DEF IInv, RunInv, CompleteOp
  <2> QED BY <2>2, <2>3, <2>4, <2>5 DEF IInv
<1> QED BY <1>2, <1>3

LEMMA DisconnectKeepsIInv ==
  ASSUME IInv, NEW r \in Request, Disconnect(r)
  PROVE  IInv'
<1>1. TypeOK'
  BY DEF IInv, TypeOK, Disconnect
<1>2. RunInv'
  BY DEF IInv, RunInv, Disconnect
<1>3. OneWaker'
  BY SameQueues DEF IInv, OneWaker, WakersMatch, Disconnect
<1>4. \A x \in Request : RequestInv(x)'
  BY DEF IInv, TypeOK, RequestInv, Live, Disconnect
<1> QED BY <1>1, <1>2, <1>3, <1>4 DEF IInv

(* A task only ever finds a suspended coroutine that has been given the     *)
(* outcome it waits for: DropTask never meets a coroutine already released. *)
LEMMA TaskFindsWaiter ==
  ASSUME IInv, NEW l \in Loop, NEW r \in Request, NextTask(l, r), UNCHANGED owner
  PROVE  /\ Queued(r) /\ owner[r] = l /\ current[l] = Idle
         /\ co[r] = "suspended" /\ op[r] \in {"none", "ok", "err"}
<1>1. Queued(r) /\ owner[r] = l /\ current[l] = Idle
  BY TaskQueues DEF IInv, OneWaker, NextTask
<1>2. co[r] \in {"yielding", "suspended"} /\ op[r] \in {"none", "ok", "err"}
  BY <1>1 DEF IInv, TypeOK, OneWaker, WakersMatch, OpState
<1>3. co[r] # "yielding"
  BY <1>1, ConstantsAssumption DEF IInv, RunInv
<1> QED BY <1>1, <1>2, <1>3

LEMMA DropTaskKeepsIInv ==
  ASSUME IInv, NEW l \in Loop, NEW r \in Request, DropTask(l, r)
  PROVE  IInv'
<1>1. /\ co[r] = "suspended" /\ op[r] \in {"none", "ok", "err"} /\ ~connected[r]
      /\ UNCHANGED <<owner, current, op, yields, connected, sent, verdict, raised>>
      /\ Cleanup(r) /\ NextTask(l, r)
  BY TaskFindsWaiter DEF DropTask
<1>2. /\ queue' \in [Loop -> Seq(Request)] /\ QueuesDistinct' /\ QueuesOwned'
      /\ \A x \in Request : Queued(x)' <=> Queued(x) /\ x # r
  BY <1>1, TaskQueues DEF IInv, OneWaker
<1>3. TypeOK'
  BY <1>1, <1>2 DEF IInv, TypeOK, Cleanup, CoState
<1>4. RunInv'
  BY <1>1 DEF IInv, TypeOK, RunInv, Cleanup
<1>5. OneWaker'
  BY <1>1, <1>2 DEF IInv, TypeOK, OneWaker, WakersMatch, Cleanup
<1>6. \A x \in Request : RequestInv(x)'
  BY <1>1 DEF IInv, TypeOK, RequestInv, Live, Cleanup
<1> QED BY <1>3, <1>4, <1>5, <1>6 DEF IInv

LEMMA ResumeTaskKeepsIInv ==
  ASSUME IInv, NEW l \in Loop, NEW r \in Request, ResumeTask(l, r)
  PROVE  IInv'
<1>1. /\ co[r] = "suspended" /\ owner[r] = l /\ current[l] = Idle
      /\ NextTask(l, r) /\ UNCHANGED owner
  BY TaskFindsWaiter DEF ResumeTask
<1>2. /\ queue' \in [Loop -> Seq(Request)] /\ QueuesDistinct' /\ QueuesOwned'
      /\ \A x \in Request : Queued(x)' <=> Queued(x) /\ x # r
  BY <1>1, TaskQueues DEF IInv, OneWaker
<1>3. TypeOK'
  BY <1>1, <1>2 DEF IInv, TypeOK, ResumeTask, CoState, OpState
<1>4. RunInv'
  BY <1>1, ConstantsAssumption DEF IInv, TypeOK, RunInv, ResumeTask
<1>5. OneWaker'
  BY <1>1, <1>2 DEF IInv, TypeOK, OneWaker, WakersMatch, ResumeTask
<1>6. \A x \in Request : RequestInv(x)'
  BY <1>1 DEF IInv, TypeOK, RequestInv, Live, ResumeTask
<1> QED BY <1>3, <1>4, <1>5, <1>6 DEF IInv

LEMMA NextIInv == IInv /\ [Next]_vars => IInv'
<1> SUFFICES ASSUME IInv, [Next]_vars PROVE IInv'
  OBVIOUS
<1>1. CASE UNCHANGED vars
  <2>1. UNCHANGED <<owner, current, queue, co, reg, cb, op, yields, connected, sent,
                    verdict, raised>>
    BY <1>1 DEF vars
  <2>2. TypeOK' /\ RunInv'
    BY <2>1 DEF IInv, TypeOK, RunInv
  <2>3. OneWaker'
    BY <2>1, SameQueues DEF IInv, OneWaker, WakersMatch
  <2>4. \A x \in Request : RequestInv(x)'
    BY <2>1 DEF IInv, RequestInv, Live
  <2> QED BY <2>2, <2>3, <2>4 DEF IInv
<1>2. ASSUME NEW r \in Request, Dispatch(r) PROVE IInv'
  BY <1>2, DirectAnswerKeepsIInv, StartRouteKeepsIInv DEF Dispatch
<1>3. ASSUME NEW r \in Request, LuaStep(r) PROVE IInv'
  BY <1>3, StartOpKeepsIInv, CallNextKeepsIInv, EndKeepsIInv DEF LuaStep
<1>4. ASSUME NEW r \in Request, YieldForOp(r) PROVE IInv'
  BY <1>4, YieldForOpKeepsIInv
<1>5. ASSUME NEW r \in Request, OpStep(r) PROVE IInv'
  BY <1>5, CompleteOpKeepsIInv DEF OpStep
<1>6. ASSUME NEW r \in Request, Disconnect(r) PROVE IInv'
  BY <1>6, DisconnectKeepsIInv
<1>7. ASSUME NEW l \in Loop, Task(l) PROVE IInv'
  BY <1>7, DropTaskKeepsIInv, ResumeTaskKeepsIInv DEF Task
<1>8. CASE Rest
  BY <1>1, <1>8 DEF Rest
<1> QED BY <1>1, <1>2, <1>3, <1>4, <1>5, <1>6, <1>7, <1>8 DEF Next

(* The inductive invariant holds in every reachable state. *)
THEOREM Invariance == Safety => []IInv
BY InitIInv, NextIInv, PTL DEF Safety
-----------------------------------------------------------------------------
(* The results *)

(* Every variable keeps its type. *)
THEOREM TypeCorrect == Safety => []TypeOK
<1>1. IInv => TypeOK
  BY DEF IInv
<1> QED BY <1>1, Invariance, PTL

(* No wake-up is lost and none comes twice: a waiting coroutine has exactly *)
(* one outstanding operation or queued task, every other has none.          *)
THEOREM NoWakeupLostOrDoubled == Safety => []OneWaker
<1>1. IInv => OneWaker
  BY DEF IInv
<1> QED BY <1>1, Invariance, PTL

(* The response callback is used at most once, and not after the failure    *)
(* was raised instead.                                                      *)
THEOREM NoSecondAnswer == Safety => []AnsweredAtMostOnce
<1>1. IInv => AnsweredAtMostOnce
  <2> SUFFICES ASSUME IInv, NEW r \in Request
               PROVE  sent[r] <= 1 /\ (raised[r] => sent[r] = 0)
    BY DEF AnsweredAtMostOnce
  <2>1. RequestInv(r) /\ co[r] \in CoState
    BY DEF IInv, TypeOK
  <2> QED BY <2>1 DEF RequestInv, Live, CoState
<1> QED BY <1>1, Invariance, PTL

(* Only a client that left without an answer leaves a context behind. *)
THEOREM NothingLeftBehind == Safety => []LeftBehindOnlyByDeparture
<1>1. IInv => LeftBehindOnlyByDeparture
  <2> SUFFICES ASSUME IInv, NEW r \in Request
               PROVE  /\ sent[r] > 0 \/ raised[r] =>
                             reg[r] = {} /\ cb[r] = {} /\ op[r] = "none"
                      /\ co[r] = "released" /\ reg[r] # {} => ~connected[r]
    BY DEF LeftBehindOnlyByDeparture
  <2>1. RequestInv(r) /\ co[r] \in CoState /\ reg[r] \subseteq Context /\ sent[r] \in Nat
    BY DEF IInv, TypeOK
  <2>2. co[r] = "released" => reg[r] \subseteq {"op"}
    BY <2>1 DEF RequestInv, Context
  <2> QED BY <2>1, <2>2 DEF RequestInv, Live, CoState
<1> QED BY <1>1, Invariance, PTL

(* A coroutine is resumed only while suspended, with what it waits for. *)
THEOREM ResumesAreFed == Safety => ResumedOnlyWhenFed
<1> DEFINE Fed(r) == co[r] # "none" /\ co[r] # "running" /\ co'[r] = "running"
                       => /\ co[r] = "suspended"
                          /\ op[r] = "none"
                             \/ (op[r] \in {"ok", "err"} /\ "op" \in reg[r])
<1>1. IInv /\ [Next]_vars => [\A r \in Request : Fed(r)]_vars
  <2> SUFFICES ASSUME IInv, Next, NEW r \in Request,
                      co[r] # "none", co[r] # "running", co'[r] = "running"
               PROVE  /\ co[r] = "suspended"
                      /\ op[r] = "none" \/ (op[r] \in {"ok", "err"} /\ "op" \in reg[r])
    OBVIOUS
  <2>1. PICK l \in Loop : ResumeTask(l, r)
    <3>1. co \in [Request -> CoState]
      BY DEF IInv, TypeOK
    <3>2. ASSUME NEW x \in Request,
                 Dispatch(x) \/ LuaStep(x) \/ YieldForOp(x) \/ OpStep(x) \/ Disconnect(x)
          PROVE  FALSE
      BY <3>1, <3>2 DEF Dispatch, AnswerTable, RejectHandler, StartRoute, Dispatchable,
         Unseen, LuaStep, StartOp, CallNext, HandlerReturns, HandlerFails, Settle, Cleanup,
         YieldForOp, OpStep, CompleteOp, Disconnect
    <3>3. ASSUME NEW l \in Loop, Task(l) PROVE \E k \in Loop : ResumeTask(k, r)
      BY <3>1, <3>3 DEF Task, DropTask, ResumeTask, Cleanup
    <3>4. ~Rest
      BY DEF Rest, vars
    <3> QED BY <3>2, <3>3, <3>4 DEF Next
  <2>2. co[r] = "suspended" /\ op[r] \in {"none", "ok", "err"}
    BY <2>1, TaskFindsWaiter DEF ResumeTask
  <2>3. op[r] # "none" => "op" \in reg[r]
    BY <2>2 DEF IInv, RequestInv
  <2> QED BY <2>2, <2>3
<1> QED BY <1>1, Invariance, PTL DEF Safety, ResumedOnlyWhenFed
-----------------------------------------------------------------------------
(* AsyncRoutes implements the safety part of RequestContract. *)

LiveOutcome(r) == Live(r) /\ op[r] # "dropped"

(* A request whose coroutine is alive and can be resumed is waiting. *)
LEMMA LiveIsWaiting ==
  ASSUME NEW r \in Request, LiveOutcome(r), sent[r] = 0, ~raised[r]
  PROVE  outcome[r] = "waiting"
BY DEF outcome, Unseen, Live, LiveOutcome

(* A step that changes only request r changes only the outcome of r. *)
LEMMA OthersKeepOutcome ==
  ASSUME NEW r \in Request,
         \A x \in Request : x # r => /\ sent'[x] = sent[x] /\ verdict'[x] = verdict[x]
                                    /\ raised'[x] = raised[x]
                                    /\ co'[x] = co[x] /\ op'[x] = op[x]
  PROVE  outcome' = [outcome EXCEPT ![r] = outcome'[r]]
<1>1. ASSUME NEW x \in Request, x # r PROVE outcome'[x] = outcome[x]
  BY <1>1 DEF outcome, Unseen
<1>2. /\ outcome = [x \in Request |-> outcome[x]]
      /\ outcome' = [x \in Request |-> outcome'[x]]
  BY DEF outcome
<1> HIDE DEF outcome
<1> QED BY <1>1, <1>2

(* The initial states are the contract's. *)
LEMMA InitImplements == Init => Contract!ContractInit
<1> SUFFICES ASSUME Init PROVE Contract!ContractInit
  OBVIOUS
<1>1. outcome = [r \in Request |-> "unseen"]
  BY DEF Init, outcome, Unseen
<1> QED BY <1>1 DEF Init, Contract!ContractInit

(* Lua code that goes on running, or suspends, keeps its request waiting. *)
LEMMA RunningImplements ==
  ASSUME IInv, NEW r \in Request, StartOp(r) \/ YieldForOp(r) \/ CallNext(r)
  PROVE  UNCHANGED Contract!contractVars
<1>1. /\ Live(r) /\ Live(r)' /\ sent[r] = 0 /\ ~raised[r]
      /\ UNCHANGED <<connected, sent, verdict, raised>>
  BY DEF IInv, TypeOK, RequestInv, Live, StartOp, YieldForOp, CallNext
<1>2. CASE op[r] # "dropped"
  <2>1. LiveOutcome(r) /\ LiveOutcome(r)'
    BY <1>1, <1>2 DEF IInv, TypeOK, LiveOutcome, Live, StartOp, YieldForOp, CallNext
  <2>2. outcome[r] = "waiting"
    BY <1>1, <2>1, LiveIsWaiting
  <2>3. outcome'[r] = "waiting"
    BY <1>1, <2>1 DEF outcome, Unseen, Live, LiveOutcome
  <2>4. outcome' = [outcome EXCEPT ![r] = outcome'[r]]
    BY <1>1, OthersKeepOutcome DEF IInv, TypeOK, StartOp, YieldForOp, CallNext
  <2> QED BY <1>1, <2>2, <2>3, <2>4 DEF Contract!contractVars, outcome
<1>3. CASE op[r] = "dropped"
  <2>1. YieldForOp(r)
    BY <1>3 DEF IInv, RequestInv, StartOp, CallNext
  <2>2. outcome' = [outcome EXCEPT ![r] = outcome'[r]]
    BY <1>1, <2>1, OthersKeepOutcome DEF IInv, TypeOK, YieldForOp
  <2>3. outcome[r] = "abandoned" /\ outcome'[r] = "abandoned"
    BY <1>1, <1>3, <2>1 DEF YieldForOp, outcome, Unseen, Live
  <2> QED BY <1>1, <2>2, <2>3 DEF Contract!contractVars, outcome
<1> QED BY <1>2, <1>3

(* A handler that ends is answered or raised, once. *)
LEMMA EndImplements ==
  ASSUME IInv, NEW r \in Request, HandlerReturns(r) \/ HandlerFails(r)
  PROVE  Contract!Answer(r)
<1>1. /\ co[r] = "running" /\ op[r] = "none" /\ sent[r] = 0 /\ ~raised[r]
      /\ cb[r] = reg[r] /\ "binder" \notin cb[r]
  BY DEF IInv, TypeOK, Context, RequestInv, Live, HandlerReturns, HandlerFails
<1>2. outcome[r] = "waiting"
  BY <1>1, LiveIsWaiting DEF LiveOutcome, Live
<1>3. Cleanup(r) /\ UNCHANGED <<op, connected>>
  BY DEF HandlerReturns, HandlerFails, Settle
<1>4. \/ /\ sent' = [sent EXCEPT ![r] = sent[r] + 1]
         /\ \E v \in {"answered", "error"} : verdict' = [verdict EXCEPT ![r] = v]
         /\ UNCHANGED raised
      \/ UNCHANGED <<sent, verdict>> /\ raised' = [raised EXCEPT ![r] = TRUE]
  <2>1. CASE HandlerReturns(r)
    BY <2>1, <1>1, SettleAnswers DEF HandlerReturns
  <2>2. CASE HandlerFails(r) /\ Attached(r) /\ Cleanup(r) /\ SendError(r)
    BY <2>2, <1>1 DEF SendError, Invoke
  <2>3. CASE HandlerFails(r) /\ ~Attached(r) /\ Settle(r, "error")
    BY <2>3, <1>1, SettleAnswers
  <2> QED BY <2>1, <2>2, <2>3 DEF HandlerFails
<1>5. /\ sent \in [Request -> Nat] /\ raised \in [Request -> BOOLEAN]
      /\ verdict \in [Request -> {"none", "answered", "error"}]
  BY DEF IInv, TypeOK
<1>6. outcome'[r] \in {"answered", "error", "raised"}
  BY <1>1, <1>4, <1>5 DEF outcome
<1>7. outcome' = [outcome EXCEPT ![r] = outcome'[r]]
  BY <1>3, <1>4, <1>5, OthersKeepOutcome DEF IInv, TypeOK, Cleanup
<1> QED BY <1>2, <1>3, <1>6, <1>7 DEF Contract!Answer

(* A request that is dispatched is accepted, or answered in the same step. *)
LEMMA DispatchImplements ==
  ASSUME IInv, NEW r \in Request, Dispatch(r)
  PROVE  Contract!Accept(r) \/ Contract!Answer(r)
<1>1. /\ co[r] = "none" /\ sent[r] = 0 /\ ~raised[r] /\ op[r] = "none"
      /\ "binder" \in cb[r] /\ UNCHANGED <<connected, op>>
  BY DEF IInv, RequestInv, Dispatch, AnswerTable, RejectHandler, StartRoute,
     Dispatchable, Unseen
<1>2. outcome[r] = "unseen"
  BY <1>1 DEF outcome, Unseen
<1>3. CASE AnswerTable(r) \/ RejectHandler(r)
  <2>1. /\ sent' = [sent EXCEPT ![r] = sent[r] + 1]
        /\ \E v \in {"answered", "error"} : verdict' = [verdict EXCEPT ![r] = v]
        /\ raised' = raised /\ co' = co
    BY <1>1, <1>3 DEF IInv, TypeOK, AnswerTable, RejectHandler, SendError, Invoke
  <2>2. sent \in [Request -> Nat] /\ verdict \in [Request -> {"none", "answered", "error"}]
    BY DEF IInv, TypeOK
  <2>3. outcome'[r] \in {"answered", "error"}
    BY <1>1, <2>1, <2>2 DEF outcome
  <2>4. outcome' = [outcome EXCEPT ![r] = outcome'[r]]
    BY <1>1, <2>1, <2>2, OthersKeepOutcome
  <2> QED BY <1>1, <1>2, <2>3, <2>4 DEF Contract!Answer
<1>4. CASE \E m \in BOOLEAN : StartRoute(r, m)
  <2>1. co' = [co EXCEPT ![r] = "running"] /\ UNCHANGED <<sent, verdict, raised>>
    BY <1>4 DEF StartRoute
  <2>2. outcome'[r] = "waiting"
    BY <1>1, <2>1 DEF IInv, TypeOK, outcome, Unseen
  <2>3. outcome' = [outcome EXCEPT ![r] = outcome'[r]]
    BY <1>1, <2>1, OthersKeepOutcome DEF IInv, TypeOK
  <2> QED BY <1>1, <1>2, <2>2, <2>3 DEF Contract!Accept
<1> QED BY <1>3, <1>4 DEF Dispatch

(* The callback of an operation changes nothing for a client that is there, *)
(* and gives up the request of one that has left.                           *)
LEMMA CompleteOpImplements ==
  ASSUME IInv, NEW r \in Request, NEW result \in {"ok", "err"}, CompleteOp(r, result)
  PROVE  Contract!Abandon(r) \/ UNCHANGED Contract!contractVars
<1>1. /\ op[r] = "pending" /\ Live(r) /\ sent[r] = 0 /\ ~raised[r]
      /\ UNCHANGED <<connected, sent, verdict, raised, co>>
  BY DEF IInv, OneWaker, WakersMatch, RequestInv, Live, CompleteOp
<1>2. outcome[r] = "waiting"
  BY <1>1, LiveIsWaiting DEF LiveOutcome
<1>3. \E o \in OpState : op' = [op EXCEPT ![r] = o]
  BY DEF CompleteOp, OpState
<1>4. outcome' = [outcome EXCEPT ![r] = outcome'[r]]
  BY <1>1, <1>3, OthersKeepOutcome DEF IInv, TypeOK
<1>5. CASE connected[r]
  <2>1. op'[r] # "dropped"
    BY <1>5 DEF IInv, TypeOK, CompleteOp
  <2>2. outcome'[r] = "waiting"
    BY <1>1, <2>1 DEF outcome, Unseen, Live
  <2> QED BY <1>1, <1>2, <1>4, <2>2 DEF Contract!contractVars, outcome
<1>6. CASE ~connected[r]
  <2>1. op'[r] = "dropped"
    BY <1>6 DEF IInv, TypeOK, CompleteOp
  <2>2. outcome'[r] = "abandoned"
    BY <1>1, <2>1 DEF outcome, Unseen, Live
  <2> QED BY <1>1, <1>2, <1>4, <1>6, <2>2 DEF Contract!Abandon
<1> QED BY <1>5, <1>6

LEMMA DisconnectImplements ==
  ASSUME IInv, NEW r \in Request, Disconnect(r)
  PROVE  Contract!Leave(r)
<1>1. outcome[r] # "unseen"
  BY DEF IInv, TypeOK, Disconnect, outcome
<1>2. outcome' = outcome
  BY DEF Disconnect, outcome, Unseen
<1> QED BY <1>1, <1>2 DEF Disconnect, Contract!Leave

(* A task resumes the request, which goes on waiting, or gives it up.       *)
LEMMA TaskImplements ==
  ASSUME IInv, NEW l \in Loop, NEW r \in Request, DropTask(l, r) \/ ResumeTask(l, r)
  PROVE  Contract!Abandon(r) \/ UNCHANGED Contract!contractVars
<1>1. /\ co[r] = "suspended" /\ op[r] \in {"none", "ok", "err"}
      /\ UNCHANGED <<connected, sent, verdict, raised>>
  BY TaskFindsWaiter DEF DropTask, ResumeTask
<1>2. sent[r] = 0 /\ ~raised[r]
  BY <1>1 DEF IInv, RequestInv, Live
<1>3. outcome[r] = "waiting"
  BY <1>1, <1>2, LiveIsWaiting DEF LiveOutcome, Live
<1>4. outcome' = [outcome EXCEPT ![r] = outcome'[r]]
  BY <1>1, OthersKeepOutcome DEF IInv, TypeOK, DropTask, ResumeTask, Cleanup
<1>5. CASE DropTask(l, r)
  <2>1. ~connected[r] /\ co'[r] = "released"
    BY <1>1, <1>5 DEF IInv, TypeOK, DropTask, Cleanup
  <2>2. outcome'[r] = "abandoned"
    BY <1>1, <1>2, <2>1 DEF outcome, Unseen
  <2> QED BY <1>1, <1>3, <1>4, <2>1, <2>2 DEF Contract!Abandon
<1>6. CASE ResumeTask(l, r)
  <2>1. co'[r] = "running" /\ op'[r] = "none"
    BY <1>6 DEF IInv, TypeOK, ResumeTask
  <2>2. outcome'[r] = "waiting"
    BY <1>1, <1>2, <2>1 DEF outcome, Unseen
  <2> QED BY <1>1, <1>3, <1>4, <2>2 DEF Contract!contractVars, outcome
<1> QED BY <1>5, <1>6

LEMMA NextImplements ==
  IInv /\ [Next]_vars => [Contract!ContractNext]_(Contract!contractVars)
<1> SUFFICES ASSUME IInv, [Next]_vars
             PROVE  Contract!ContractNext \/ UNCHANGED Contract!contractVars
  OBVIOUS
<1>1. CASE UNCHANGED vars
  BY <1>1 DEF vars, Contract!contractVars, outcome, Unseen
<1>2. ASSUME NEW r \in Request, Dispatch(r) PROVE Contract!ContractNext
  BY <1>2, DispatchImplements DEF Contract!ContractNext
<1>3. ASSUME NEW r \in Request, LuaStep(r)
      PROVE  Contract!ContractNext \/ UNCHANGED Contract!contractVars
  BY <1>3, RunningImplements, EndImplements DEF LuaStep, Contract!ContractNext
<1>4. ASSUME NEW r \in Request, YieldForOp(r) PROVE UNCHANGED Contract!contractVars
  BY <1>4, RunningImplements
<1>5. ASSUME NEW r \in Request, OpStep(r)
      PROVE  Contract!ContractNext \/ UNCHANGED Contract!contractVars
  BY <1>5, CompleteOpImplements DEF OpStep, Contract!ContractNext
<1>6. ASSUME NEW r \in Request, Disconnect(r) PROVE Contract!ContractNext
  BY <1>6, DisconnectImplements DEF Contract!ContractNext
<1>7. ASSUME NEW l \in Loop, Task(l)
      PROVE  Contract!ContractNext \/ UNCHANGED Contract!contractVars
  BY <1>7, TaskImplements DEF Task, Contract!ContractNext
<1>8. CASE Rest
  BY <1>1, <1>8 DEF Rest
<1> QED BY <1>1, <1>2, <1>3, <1>4, <1>5, <1>6, <1>7, <1>8 DEF Next

(* An asynchronous route keeps the safety part of its contract with Drogon: *)
(* every reachable step answers, raises or gives up a request as the        *)
(* contract allows, or changes nothing that the contract speaks of.         *)
THEOREM ImplementsContract == Safety => Contract!ContractSafety
BY InitImplements, NextImplements, Invariance, PTL DEF Safety, Contract!ContractSafety
-----------------------------------------------------------------------------
(* The operation that a handler waits for, as OperationSlot has it. *)

(* A step that neither touches an operation nor a client is none of the     *)
(* slot's; the others are the slot's steps.                                 *)
LEMMA NextUsesSlot ==
  IInv /\ [Next]_vars => [Slot!SlotNext]_(Slot!operationVars)
<1> SUFFICES ASSUME IInv, [Next]_vars
             PROVE  Slot!SlotNext \/ UNCHANGED <<op, connected>>
  BY DEF Slot!operationVars
<1> USE DEF Slot!SlotNext, Slot!OperationNext
<1>0. op \in [Request -> OpState] /\ connected \in [Request -> BOOLEAN]
  BY DEF IInv, TypeOK
<1>1. CASE UNCHANGED vars
  BY <1>1 DEF vars
<1>2. ASSUME NEW r \in Request, Dispatch(r) \/ YieldForOp(r) PROVE UNCHANGED <<op, connected>>
  BY <1>2 DEF Dispatch, AnswerTable, RejectHandler, StartRoute, YieldForOp
<1>3. ASSUME NEW r \in Request, LuaStep(r)
      PROVE  Slot!SlotNext \/ UNCHANGED <<op, connected>>
  <2>1. CASE StartOp(r)
    <3>1. op[r] = "none"
      BY <2>1 DEF IInv, RequestInv, StartOp
    <3>2. Slot!Begin(r)
      BY <2>1, <3>1 DEF StartOp, Slot!Begin
    <3> QED BY <3>2
  <2>2. CASE CallNext(r) \/ HandlerReturns(r) \/ HandlerFails(r)
    BY <2>2 DEF CallNext, HandlerReturns, HandlerFails
  <2> QED BY <1>3, <2>1, <2>2 DEF LuaStep
<1>4. ASSUME NEW r \in Request, OpStep(r) PROVE Slot!SlotNext
  <2>1. PICK result \in {"ok", "err"} : CompleteOp(r, result)
    BY <1>4 DEF OpStep
  <2>2. CASE connected[r]
    BY <2>1, <2>2 DEF CompleteOp, Slot!Deliver
  <2>3. CASE ~connected[r]
    BY <2>1, <2>3 DEF CompleteOp, Slot!Drop
  <2> QED BY <2>2, <2>3
<1>5. ASSUME NEW r \in Request, Disconnect(r) PROVE Slot!SlotNext
  BY <1>5 DEF Disconnect, Slot!Depart
<1>6. ASSUME NEW l \in Loop, NEW r \in Request, DropTask(l, r) PROVE UNCHANGED <<op, connected>>
  BY <1>6 DEF DropTask
<1>7. ASSUME NEW l \in Loop, NEW r \in Request, ResumeTask(l, r)
      PROVE  Slot!SlotNext \/ UNCHANGED <<op, connected>>
  <2>1. op[r] \in {"none", "ok", "err"}
    BY <1>7, TaskFindsWaiter DEF ResumeTask
  <2>2. op' = [op EXCEPT ![r] = "none"] /\ UNCHANGED connected
    BY <1>7 DEF ResumeTask
  <2>3. CASE op[r] = "none"
    BY <1>0, <2>2, <2>3
  <2>4. CASE op[r] \in {"ok", "err"}
    BY <2>2, <2>4 DEF Slot!Take
  <2> QED BY <2>1, <2>3, <2>4
<1>8. CASE Rest
  BY <1>1, <1>8 DEF Rest
<1> QED BY <1>1, <1>2, <1>3, <1>4, <1>5, <1>6, <1>7, <1>8 DEF Next, Task

(* Whatever the handlers do, operations of one route follow one another: a  *)
(* new one never overwrites the outcome of the last, and no outcome reaches *)
(* a route whose client has gone.                                           *)
THEOREM EngineUsesSlots == Safety => SuspendsOnOperations
<1>1. Init => Slot!OperationInit
  BY DEF Init, Slot!OperationInit
<1> QED BY <1>1, NextUsesSlot, Invariance, PTL
        DEF Safety, SuspendsOnOperations, Slot!SlotSafety
=============================================================================
