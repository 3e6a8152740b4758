----------------------------- MODULE MCFileRing -----------------------------
(***************************************************************************)
(* Instances of FileRing for TLC.                                          *)
(***************************************************************************)
EXTENDS FileRing

CONSTANT MaxKinds  \* bound: kinds of disturbance in one behaviour

AllDisturbances == Disturbances

FewKinds == Cardinality(seen) <= MaxKinds
=============================================================================
