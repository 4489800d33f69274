--------------------------- MODULE MCDurableStream ---------------------------
(***************************************************************************)
(* DurableStream on small instances: streams are numbered from 1, byte i   *)
(* of the output is the number i.                                          *)
(***************************************************************************)
EXTENDS DurableStream

MCStream == 1..MaxStreams
MCWriter == Stream \union {Loop}
MCByte == 1..MaxBytes
=============================================================================
