--------------------------- MODULE MCStdinReader ----------------------------
(***************************************************************************)
(* Instances of StdinReader for TLC.                                       *)
(***************************************************************************)
EXTENDS StdinReader

MCSize == 8

\* Every way to put newlines into a stream of that length.
MCStreams == SUBSET (1..MCSize)
=============================================================================
