---------------------------- MODULE MCDataStream ----------------------------
(* Instances of DataStream for TLC.                                         *)
EXTENDS DataStream, TLC

CONSTANTS
    MaxInport,   \* segments a client writes
    MaxOutport,  \* segments a relay writes
    FairLinks    \* the links that are not blackholed

MCMaxSegs == [e \in End |-> IF e = "inport" THEN MaxInport ELSE MaxOutport]

FairSpec == Spec /\ Fairness(FairLinks)

Symmetry == Permutations(Links) \cup Permutations(Payloads)
=============================================================================
