----------------------------- MODULE MCMiddleware -----------------------------
(* Middleware for TLC: chains of one to four middleware.                     *)
EXTENDS Middleware

MCSizes == 1..4
=============================================================================
