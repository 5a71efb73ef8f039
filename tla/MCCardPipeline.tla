--------------------------- MODULE MCCardPipeline ---------------------------
(* Passes over one session of a single segment, without --force-reencode.     *)
EXTENDS CardPipeline

Plain == {[preset |-> "slow", rotation |-> 0, force |-> FALSE, skip |-> FALSE]}
=============================================================================
