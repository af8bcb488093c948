------------------------------ MODULE MCBundle ------------------------------
(***************************************************************************)
(* Bundle, and with it StepDirs, with one parachain.                       *)
(***************************************************************************)
EXTENDS Bundle, TLC

CONSTANTS rc, para, noDir

OnePara == <<para>>

=============================================================================
