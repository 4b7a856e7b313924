---------------------------- MODULE MCMd5Stream ------------------------------
(* Blocks of 8 bytes and a bit count of two bytes for TLC: the low half    *)
(* wraps every 32 bytes.                                                   *)
EXTENDS Md5Stream
==============================================================================
