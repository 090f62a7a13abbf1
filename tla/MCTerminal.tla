---------------------------- MODULE MCTerminal ----------------------------
(***************************************************************************)
(* The instance of Terminal.  Two characters, zero and another: a sequence *)
(* of three that is not kept in order is told from it by one that has a    *)
(* zero at the right place.                                                *)
(***************************************************************************)
EXTENDS Terminal

MCChar == {"0", "a"}
=============================================================================
