-------------------------------- MODULE MCFork --------------------------------
(* Fork with two parachains of up to four cores each: from no core at all to *)
(* one more than there are dev validators.                                   *)
EXTENDS Fork

=============================================================================
