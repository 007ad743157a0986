---------------------------- MODULE MCAsrSample ----------------------------
(* One chunk to a unit, so that a file of two units is fed in two turns. *)
EXTENDS AsrSample

Heard == {"MUSIC", "other"}
=============================================================================
