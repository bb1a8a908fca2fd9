---------------------------- MODULE MCAsyncRoutes ----------------------------
(* AsyncRoutes for TLC: requests, loops and Idle are model values of the cfg. *)
EXTENDS AsyncRoutes
=============================================================================
