---------------------------- MODULE MCMultiError ----------------------------
(* MultiError for TLC.                                                     *)
EXTENDS MultiError, TLC

Spec == MultiErrorInit /\ [][MultiErrorNext]_multiErrorVars
=============================================================================
