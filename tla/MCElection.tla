----------------------------- MODULE MCElection -----------------------------
(* Instances of Election for model checking.                               *)
EXTENDS Election, TLC

CONSTANTS A, B, C

ThreeNodes == {A, B, C}
OneTie == {1}
Two == {2}
TwoOrThree == {2, 3}
NotFirst == Node \ {First}
SwapFollowers == Permutations({B, C})
=============================================================================
