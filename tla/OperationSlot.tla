----------------------------- MODULE OperationSlot -----------------------------
(***************************************************************************)
(* The operations of one route after another: a route that is resumed takes *)
(* the outcome out of the operation's context and only then can it begin    *)
(* the next one.  Between the two an outcome is neither lost nor            *)
(* overwritten.  AsyncRoutes and Transactions implement this, the engine    *)
(* for any operation, the database for its own.                             *)
(***************************************************************************)
EXTENDS AsyncOperation

(* The continuation takes the outcome (the context is cleared). *)
Take(c) == /\ op[c] \in {"ok", "err"}
           /\ op' = [op EXCEPT ![c] = "none"]
           /\ UNCHANGED connected

SlotNext == OperationNext \/ \E c \in Call : Take(c)

SlotSafety == OperationInit /\ [][SlotNext]_operationVars
=============================================================================
