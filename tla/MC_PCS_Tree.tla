---------------------------- MODULE MC_PCS_Tree ----------------------------
(***************************************************************************)
(* Constants of PCS_Tree for model checking.                               *)
(***************************************************************************)
EXTENDS PCS_Tree

CONSTANTS n0, n1, n2, n3, t1, t2, null

MC_Addr == {n0, n1, n2, n3}
MC_EntryName == {"a", "b"}
MC_Data == {"x"}

\* "a" as a file or directory, with an entry or another file beside it, and a
\* path that fails halfway because '..' is not a name
MC_RegPath == {<<"a">>, <<"a", "b">>, <<"b">>, <<"b", "..">>}

\* A canonical path, an alias that goes above the root and ends in '.', and one
\* through an entry that may be a file, a directory or missing
MC_LookupPath == {<<"a", "b">>, <<"..", "a", ".">>, <<"b", "..", "a">>}
=============================================================================
