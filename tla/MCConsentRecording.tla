------------------------- MODULE MCConsentRecording -------------------------
(***************************************************************************)
(* ConsentRecording on small instances: every template has every purpose.  *)
(***************************************************************************)
EXTENDS ConsentRecording, TLC

AllPurposes == [t \in Templates |-> Purposes]

\* Calls and subjects are interchangeable in every action and property, and so
\* are purposes, of which every template has all.
VisitSymmetry ==
  Permutations(Visitors) \cup Permutations(Subjects) \cup Permutations(Purposes)
=============================================================================
