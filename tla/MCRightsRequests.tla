-------------------------- MODULE MCRightsRequests --------------------------
(***************************************************************************)
(* RightsDesk on small instances.                                          *)
(***************************************************************************)
EXTENDS RightsDesk, TLC

\* Clerks are interchangeable in every action and in the safety properties.
ClerkSymmetry == Permutations(Clerks)
=============================================================================
