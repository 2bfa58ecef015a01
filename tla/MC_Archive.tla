----------------------------- MODULE MC_Archive -----------------------------
(* Five rounds ending in any order under retention limits one to three. *)
EXTENDS Archive

MCRoundIds == 1 .. 5
MCRetentions == 1 .. 3
=============================================================================
