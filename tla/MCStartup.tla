----------------------------- MODULE MCStartup ------------------------------
(* Instances of the start of the API for TLC.                              *)
EXTENDS StartupProperties

CONSTANTS p1, p2

TwoProcs == {p1, p2}
ThreeNames == {"root", "ann", "bob"}
TwoRoles == {"operator", "admin"}
=============================================================================
