--------------------------- MODULE MCHostRegistry ---------------------------
(* Model of HostRegistry for TLC.                                          *)
EXTENDS HostRegistry, TLC

=============================================================================
