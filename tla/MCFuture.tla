------------------------------- MODULE MCFuture -------------------------------
(* Two threads share a future, whose function may return either of two. *)
EXTENDS Future
===============================================================================
