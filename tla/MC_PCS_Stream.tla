--------------------------- MODULE MC_PCS_Stream ---------------------------
(***************************************************************************)
(* Two files, one of them empty, and a directory, with their streams and   *)
(* their shared strings.                                                   *)
(***************************************************************************)
EXTENDS PCS_Stream

CONSTANTS t1, t2, s1, s2, d1, d2, d3, null

MC_Node == {"dir", "f", "g"}
MC_DirNode == {"dir"}
MC_Items == [dir |-> <<"f", "g">>, f |-> <<1, 2, 3>>, g |-> <<>>]
MC_NodeAt == [dir |-> "dir", f |-> "f", g |-> "g", none |-> null, short |-> "dir"]
MC_ShortUri == {"short"}

MC_FileList == <<"f">>
MC_SymbolFiles == <<"f">>

MC_Mode == {"rb", "w"}
MC_ReadSize == {1, 4}
MC_Offset == {-1, 1, 4}

\* last is written by every operation and read by none: it tells no two states
\* apart, and ImplementsCursor is checked for every step all the same.
MC_View == <<stringVars, dp, stream, handles>>
=============================================================================
