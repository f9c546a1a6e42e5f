----------------------------- MODULE MCSession -----------------------------
(* Two workers, a block more than the ring buffer holds answers.           *)
EXTENDS Session, TLC

CONSTANTS w1, w2

MCWorkers == {w1, w2}
===========================================================================
