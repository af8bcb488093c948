----------------------------- MODULE MCStepDirs -----------------------------
(***************************************************************************)
(* StepDirs with a relay chain alone, and with one parachain.              *)
(***************************************************************************)
EXTENDS StepDirs, TLC

CONSTANTS rc, para, noDir

NoParas == <<>>
OnePara == <<para>>

=============================================================================
