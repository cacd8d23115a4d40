------------------------------- MODULE MCCanRx -------------------------------
(* CanRx on a small instance: queues of two frames each, which both overflow. *)
EXTENDS CanRx
=============================================================================
