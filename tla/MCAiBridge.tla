----------------------------- MODULE MCAiBridge -----------------------------
(* Instances of AiBridge for TLC.                                          *)
EXTENDS AiBridge
=============================================================================
