---------------------------- MODULE MCMicSample ----------------------------
(* The recorder's thread feeds as long as the device runs; a file has up to   *)
(* two chunks.                                                                *)
EXTENDS MicSample
=============================================================================
