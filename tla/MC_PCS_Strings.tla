--------------------------- MODULE MC_PCS_Strings ---------------------------
(***************************************************************************)
(* One file and its strings, shared by two threads.                        *)
(***************************************************************************)
EXTENDS PCS_Strings

CONSTANTS t1, t2, null

MC_Node == {"f"}
MC_FileList == <<"f">>
MC_SymbolFiles == <<>>
=============================================================================
