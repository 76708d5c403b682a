------------------------------ MODULE MCMatrix ------------------------------
(***************************************************************************)
(* Instances of Matrix for TLC.                                            *)
(***************************************************************************)
EXTENDS Matrix

\* A runner of the workflow starts without a results file.
MCFresh == {}

\* A machine on which an earlier job found every case compatible.
MCEarlier == {[case : Cases, status : {"compatible"}]}
=============================================================================
