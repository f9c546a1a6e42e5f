---------------------------- MODULE MCRingBuffer ----------------------------
(* Instances of RingBuffer for TLC.                                        *)
EXTENDS RingBuffer, TLC

\* Workers are interchangeable.
WorkerSymmetry == Permutations(Workers)
=============================================================================
