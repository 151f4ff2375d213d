---------------------------- MODULE MC_PCS_Path ----------------------------
(***************************************************************************)
(* Constants of PCS_Path for model checking: all paths of up to five       *)
(* characters, among them a slash, a backslash, a dot and a letter.        *)
(***************************************************************************)
EXTENDS PCS_Path

MC_Char == {"a", "."}
=============================================================================
