----------------------------- MODULE MC_PCS_API -----------------------------
(***************************************************************************)
(* A small disk, and what clients register of it.                          *)
(***************************************************************************)
EXTENDS PCS_API

CONSTANTS n0, n1, n2, n3, n4, n5, n6, n7, n8, b1, b2, b3, b4, b5, b6, t1, t2, null

MC_Addr == {n0, n1, n2, n3, n4, n5, n6, n7, n8}
MC_Buffer == {b1, b2, b3, b4, b5, b6}
MC_ClientData == {"x"}
MC_Data == MC_Buffer \cup MC_ClientData
MC_EntryName == {"v", "a", ".bc", "s", "p"}

Self(o) == {<<".", o>>, <<"..", o>>}
Leaf(kind) == [kind |-> kind, entries |-> {}]

\* "top" has two files, one of them hidden, and a directory with a file and a
\* pipe; "bad" a file and an entry that is gone when it is looked at.  ("top" is
\* listed without its two own entries to have fewer orders of them.)
MC_Disk ==
    [top    |-> [kind |-> "dir", entries |->
                   {<<"a", "f1">>, <<".bc", "f2">>, <<"s", "sub">>}],
     sub    |-> [kind |-> "dir", entries |-> Self("sub") \cup
                   {<<"a", "f3">>, <<"p", "pipe">>}],
     bad    |-> [kind |-> "dir", entries |-> Self("bad") \cup
                   {<<"a", "f1">>, <<"p", "gone">>}],
     f1     |-> Leaf("file"), f2 |-> Leaf("file"), f3 |-> Leaf("file"),
     pipe   |-> Leaf("other"), gone |-> Leaf("missing"),
     locked |-> Leaf("unscannable"), secret |-> Leaf("unopenable"),
     log    |-> Leaf("shrinking")]
MC_Object == DOMAIN MC_Disk

MC_Source == {"top", "bad"}
MC_VirtualPath == {<<"v">>, <<"v", "s">>}

\* Every registerPath call there may be, the nested ones included
MC_Place ==
    LET calls[d \in 0..3] ==
          IF d = 0 THEN Source \X VirtualPath
          ELSE calls[d - 1] \cup
               UNION {{<<e[2], Append(q[2], e[1])>> :
                         e \in {x \in Disk[q[1]].entries : ~IsSkipped(x[1])}} :
                        q \in calls[d - 1]}
    IN  calls[3]

MC_EmbeddedList ==
    {<<[version |-> 0, path |-> <<"a">>, data |-> "x"],
       [version |-> 0, path |-> <<"s", "a">>, data |-> "x"]>>}
\* A list that the program cannot handle, and a path that is refused
MC_BadList ==
    MC_EmbeddedList \cup
    {<<[version |-> 0, path |-> <<"a">>, data |-> "x"],
       [version |-> 1, path |-> <<"s">>, data |-> "x"]>>,
     <<[version |-> 0, path |-> <<"s", "..">>, data |-> "x"]>>}
MC_ListedPath == {<<"a">>, <<"s">>, <<"s", "a">>, <<"s", "..">>}
MC_RegPath ==
    {q[2] : q \in MC_Place} \cup MC_ListedPath
    \cup {p \o q : p \in VirtualPath, q \in MC_ListedPath}

\* For the runs at one virtual path
MC_AllSource == MC_Source \cup {"locked", "secret"}
MC_LogSource == {"log", "top"}
MC_OnePath == {<<"v">>}
MC_NoList == {}
MC_NoLookup == {}
MC_AliasLookup == {<<".", "v", "a">>}
=============================================================================
