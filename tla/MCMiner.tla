------------------------------ MODULE MCMiner ------------------------------
(* Instances of Miner for TLC. *)
EXTENDS Miner, TLC

CONSTANTS i1, i2, w1, w2, bad

OneThread == {i1}
TwoThreads == {i1, i2}
AllWork == {w1, w2, bad}
SomeBadWork == {bad}
GoodWork == {w1}
NoBadWork == {}

ThreadSymmetry == Permutations(TwoThreads)
=============================================================================
