----------------------------- MODULE MCPipeline -----------------------------
(***************************************************************************)
(* A small instance of Pipeline: an IP header of the least length and one  *)
(* of TCP with an option, against a capture that is 4 bytes longer than    *)
(* the least frame, so that a segment of each size is padded, fits or is   *)
(* cut.  A length field that is too small by 30 makes the first of the two *)
(* differences wrap for the least size, and the second for the others.     *)
(***************************************************************************)
EXTENDS Pipeline

MCHdrWords == {5}
MCOffWords == {6}
MCSize == {1, 6, 11}
MCWrong == {0, -30}
=============================================================================
