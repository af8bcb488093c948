------------------------------- MODULE MCStartup -------------------------------
(* A relay chain and one parachain; a comparison two blocks after the bite, *)
(* two finalized blocks to see, and waits of one poll.                     *)
EXTENDS Startup
=============================================================================
