----------------------------- MODULE NestedChain -----------------------------
(***************************************************************************)
(* What middleware is promised (docs/middleware.md, "Multiple Middleware"): *)
(* the layers of a route are nested.  next() enters the layer below the    *)
(* one that calls it, the last one being the route handler, and returns to *)
(* it; the response is the handler's, or that of the layer that stopped.   *)
(***************************************************************************)
EXTENDS Naturals

CONSTANT Sizes        \* numbers of middleware that routes have

VARIABLES size,       \* middleware of this route: layers 1..size
          depth,      \* the layer that runs, size + 1 the handler, 0 none
          entered,    \* it has called next() before
          result,     \* the last layer that returned brought a handler's result
          reply       \* the response that was sent

chainVars == <<size, depth, entered, result, reply>>

ChainInit == /\ size \in Sizes
             /\ depth = 1 /\ entered = FALSE /\ result = FALSE /\ reply = "none"

Enter == /\ depth \in 1..size
         /\ depth' = depth + 1
         /\ entered' = FALSE
         /\ UNCHANGED <<size, result, reply>>

(* The running layer returns to the one above it, or ends the request. *)
LeaveTo(r) == /\ depth' = depth - 1
              /\ IF depth = 1 THEN entered' = FALSE /\ reply' = r
                              ELSE entered' = TRUE /\ UNCHANGED reply
              /\ UNCHANGED size

HandlerReturns == /\ depth = size + 1
                  /\ result' = TRUE
                  /\ LeaveTo("route")

Leave == /\ depth \in 1..size
         /\ result' = (entered /\ result)
         /\ LeaveTo(IF result' THEN "route" ELSE "res")

(* A layer fails: it hands up the handler's result only if its own next()   *)
(* had returned one.                                                        *)
Abort == /\ depth > 0
         /\ result' \in BOOLEAN /\ (result' => entered /\ result)
         /\ LeaveTo("error")

ChainNext == Enter \/ HandlerReturns \/ Leave \/ Abort

ChainSafety == ChainInit /\ [][ChainNext]_chainVars
ChainSpec == ChainSafety /\ WF_chainVars(ChainNext) /\ <>(depth = 0)
=============================================================================
