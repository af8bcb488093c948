------------------------------ MODULE MCMonitor ------------------------------
(***************************************************************************)
(* Monitor on the network of one relay chain and one parachain.            *)
(***************************************************************************)
EXTENDS Monitor, TLC

CONSTANTS alice, bob, collator, noCollator

=============================================================================
