--------------------------- MODULE RequestContract ---------------------------
(***************************************************************************)
(* What an asynchronous route promises to Drogon for each request it is    *)
(* handed: the response callback is used at most once, a request is given  *)
(* up without an answer only when its client has gone, and a failure that  *)
(* is not answered by the route is raised to the framework.                *)
(*                                                                         *)
(* LuaRoutes::registerAsyncRouteImpl hands the request over (Accept);      *)
(* everything between that and the answer is hidden here.                  *)
(***************************************************************************)
CONSTANT Request        \* the requests that Drogon may dispatch

VARIABLES outcome,      \* what became of each request
          connected     \* whether the client of each request is still there

contractVars == <<outcome, connected>>

Settled == {"answered", "error", "raised", "abandoned"}
Outcome == {"unseen", "waiting"} \cup Settled

ContractTypeOK == /\ outcome \in [Request -> Outcome]
                  /\ connected \in [Request -> BOOLEAN]

ContractInit == /\ outcome = [r \in Request |-> "unseen"]
                /\ connected = [r \in Request |-> TRUE]

(* Drogon dispatches the request to the route. *)
Accept(r) == /\ outcome[r] = "unseen"
             /\ outcome' = [outcome EXCEPT ![r] = "waiting"]
             /\ UNCHANGED connected

(* The client closes its connection, at any moment after the dispatch. *)
Leave(r) == /\ outcome[r] # "unseen"
            /\ connected[r]
            /\ connected' = [connected EXCEPT ![r] = FALSE]
            /\ UNCHANGED outcome

(* The callback is used, with the handler's response or an error body, or  *)
(* the failure is raised to the framework.  A route that needs no Lua is    *)
(* answered in the step that accepts it.                                    *)
Answer(r) == /\ outcome[r] \in {"unseen", "waiting"}
             /\ \E o \in {"answered", "error", "raised"} :
                    outcome' = [outcome EXCEPT ![r] = o]
             /\ UNCHANGED connected

(* The route drops the request unanswered: only once the client has left. *)
Abandon(r) == /\ outcome[r] = "waiting"
              /\ ~connected[r]
              /\ outcome' = [outcome EXCEPT ![r] = "abandoned"]
              /\ UNCHANGED connected

ContractNext == \E r \in Request : Accept(r) \/ Leave(r) \/ Answer(r) \/ Abandon(r)

(* A dispatched request is eventually answered, raised or abandoned. *)
Resolution(r) == Answer(r) \/ Abandon(r)

ContractSafety == ContractInit /\ [][ContractNext]_contractVars

ContractSpec == /\ ContractSafety
                /\ \A r \in Request : WF_contractVars(outcome[r] = "waiting" /\ Resolution(r))
=============================================================================
