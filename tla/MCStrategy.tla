------------------------------ MODULE MCStrategy ------------------------------
(***************************************************************************)
(* Instances of Strategy for TLC.                                           *)
(***************************************************************************)
EXTENDS Strategy

CONSTANTS s1, s2

OneServer  == <<s1>>
TwoServers == <<s1, s2>>
=============================================================================
