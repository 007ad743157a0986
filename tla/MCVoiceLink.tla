---------------------------- MODULE MCVoiceLink ----------------------------
(* Two units to a buffer, as many as segments that 2048 bytes take. *)
EXTENDS VoiceLink

Heard == {"MUSIC", "other"}
=============================================================================
