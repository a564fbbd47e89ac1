------------------------------ MODULE MCHubLink ------------------------------
(* HubLink with interchangeable calls.                                      *)
EXTENDS HubLink, TLC

Symmetry == Permutations(Call)
=============================================================================
