----------------------------- MODULE MC_Overlap -----------------------------
(* Overlap for TLC, with the instances of MC_Moderation.                   *)
EXTENDS MC_Moderation, Overlap
=============================================================================
