----------------------------- MODULE MCHttpCalls -----------------------------
(* HttpCalls for TLC, with an int of three bits: 5 is cast to -3, -7 to 1.   *)
EXTENDS HttpCalls

MCRetryCount == {-7, -1, 0, 1, 3, 5}
=============================================================================
