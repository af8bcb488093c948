------------------------------ MODULE MCOptions -------------------------------
(***************************************************************************)
(* Options with one parachain.                                             *)
(***************************************************************************)
EXTENDS Options

CONSTANTS rc, para

OnePara == {para}

=============================================================================
