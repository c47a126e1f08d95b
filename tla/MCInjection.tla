---------------------------- MODULE MCInjection ----------------------------
(***************************************************************************)
(* Instances of Injection for TLC: the constants are model values.         *)
(***************************************************************************)
EXTENDS Injection, TLC
=============================================================================
