----------------------------- MODULE ReadCursor -----------------------------
(***************************************************************************)
(* What a stream on the virtual file tree promises to PHP code, without    *)
(* buffers, private data or memory: a position in a sequence of items that *)
(* never changes, the bytes of a file or the entries of a directory.       *)
(* Reading delivers the items from the position on, and nothing only at    *)
(* the end; a seek moves the position to where it is asked to, kept within *)
(* the sequence.  A shared (persistent) stream that is opened again goes   *)
(* on where it is.                                                         *)
(***************************************************************************)
EXTENDS Integers, Sequences

CONSTANTS
    Stream,
    Items,          \* node -> the sequence of its items
    DirNode,        \* the nodes that are directories
    Target,         \* URI -> its node, or Null
    Mode,           \* modes a file is opened with
    ReadSize,       \* numbers of bytes that are asked for; entries come singly
    Offset,         \* offsets that are asked for
    MaxOffset,      \* the largest offset a stream can be asked for
    Null

VARIABLES
    cur,            \* stream -> its node, position and whether it is shared
    last            \* the operation just done, its arguments and its result

Len_(n) == Len(Items[n])
Clamp(i, n) == IF i < 0 THEN 0 ELSE IF i > Len_(n) THEN Len_(n) ELSE i

Open == {s \in Stream : cur[s] # Null}

\* Only files can be opened as files, to be read, and only directories listed:
\* how is the mode, or "dir".
Opens(u, how) ==
    Target[u] # Null /\ IF how = "dir" THEN Target[u] \in DirNode
                        ELSE Target[u] \notin DirNode /\ how \in {"r", "rb"}

Init == cur = [s \in Stream |-> Null] /\ last = [op |-> "none"]

OpenedAs(u, how, s) == last' = [op |-> "open", uri |-> u, how |-> how, stream |-> s]

OpenNew(s, u, how, shared) ==
    /\ OpenedAs(u, how, s)
    /\ cur[s] = Null /\ Opens(u, how)
    /\ cur' = [cur EXCEPT ![s] = [node |-> Target[u], pos |-> 0, shared |-> shared]]

OpenAgain(s, u, how) ==
    /\ OpenedAs(u, how, s)
    /\ Opens(u, how) /\ cur[s] # Null /\ cur[s].shared /\ cur[s].node = Target[u]
    /\ UNCHANGED cur

OpenFails(u, how) ==
    /\ OpenedAs(u, how, Null)
    /\ ~Opens(u, how)
    /\ UNCHANGED cur

Read(s, size, k) ==
    LET c == cur[s] IN
    /\ k <= size /\ c.pos + k <= Len_(c.node)
    /\ k = 0 => c.pos = Len_(c.node)
    /\ cur' = [cur EXCEPT ![s].pos = @ + k]
    /\ last' = [op |-> "read", stream |-> s, size |-> size,
                data |-> SubSeq(Items[c.node], c.pos + 1, c.pos + k)]

\* An offset that is too large for the arithmetic ends up at one of the ends
Reached(c, whence, off) ==
    LET to == CASE whence = "SET" -> off
                [] whence = "CUR" -> c.pos + off
                [] whence = "END" -> Len_(c.node) + off
    IN  IF to > MaxOffset THEN {0, Len_(c.node)} ELSE {Clamp(to, c.node)}

Seek(s, whence, off) ==
    /\ \E p \in Reached(cur[s], whence, off) : cur' = [cur EXCEPT ![s].pos = p]
    /\ last' = [op |-> "seek", stream |-> s, whence |-> whence, offset |-> off,
                told |-> cur'[s].pos]

Stat(u, n) ==
    /\ n = Target[u]
    /\ last' = [op |-> "stat", uri |-> u, dir |-> n \in DirNode,
                size |-> IF n = Null THEN -1 ELSE Len_(n)]
    /\ UNCHANGED cur

Close(S) ==
    /\ cur' = [s \in Stream |-> IF s \in S THEN Null ELSE cur[s]]
    /\ last' = [op |-> "close"]

Forget == last' = [op |-> "none"] /\ UNCHANGED cur

Next ==
    CASE last'.op = "open" ->
           \E u \in DOMAIN Target, how \in Mode \cup {"dir"} :
             \/ \E s \in Stream :
                  \/ \E shared \in BOOLEAN : OpenNew(s, u, how, shared)
                  \/ OpenAgain(s, u, how)
             \/ OpenFails(u, how)
      [] last'.op = "read" ->
           \E s \in Open, size \in ReadSize \cup {1} : \E k \in 0..size : Read(s, size, k)
      [] last'.op = "seek" ->
           \E s \in Open, w \in {"SET", "CUR", "END"}, off \in Offset \cup {0} : Seek(s, w, off)
      [] last'.op = "stat" -> \E u \in DOMAIN Target : Stat(u, Target[u])
      [] last'.op = "close" -> \E S \in SUBSET Open : Close(S)
      [] OTHER -> Forget

Spec == Init /\ [][Next]_<<cur, last>>

=============================================================================
