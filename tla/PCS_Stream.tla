----------------------------- MODULE PCS_Stream -----------------------------
(***************************************************************************)
(* The stream wrapper of PCS (src/src/PCS_Stream.c): pcs:// URIs opened,   *)
(* read, listed, moved in and closed by one thread, whose other work on    *)
(* the shared strings is that of PCS_Strings.  The streams layer of PHP is *)
(* external: it reads ahead in chunks into the buffer of the stream, turns *)
(* a relative seek into an absolute one, clears eof after a seek, keeps    *)
(* persistent streams from one request to the next and closes the others.  *)
(* URIs stand for what PCS_Tree finds at their path (see PCS_Tree and      *)
(* PCS_Path); the position of a directory is the number of entries before  *)
(* it in the table, which does not change any more.                        *)
(***************************************************************************)
EXTENDS PCS_Strings, Integers

CONSTANTS
    DirNode,        \* the nodes that are directories
    Items,          \* node -> the bytes of the file, the entries of the directory
    NodeAt,         \* URI -> what getNodeFromPath returns for it, or Null
    ShortUri,       \* URIs with less than the six characters of "pcs://"
    Stream,         \* streams (bounds how many are open)
    Dp,             \* private data of streams (bounds how many are allocated)
    Owner,          \* the thread that uses the streams
    Chunk,          \* how many bytes the streams layer asks for
    ReadSize,       \* how many bytes PHP code asks for
    Offset,         \* where PHP code seeks to
    Mode,           \* modes a file is opened with
    MaxOffset       \* the largest zend_off_t

Uri == DOMAIN NodeAt
Item(n) == {Items[n][i] : i \in 1..Len(Items[n])}

PCS_STREAM_DATA == [persistent : BOOLEAN, node : Node, offset : Nat]
php_stream ==
    [dp : Dp, id : (Mode \X Node) \cup {Null}, eof : BOOLEAN, position : Nat,
     buffer : Seq(UNION {Item(n) : n \in Node \ DirNode})]

ASSUME StreamAssumption ==
    /\ DirNode \subseteq Node /\ ShortUri \subseteq Uri
    /\ NodeAt \in [Uri -> Node \cup {Null}]
    /\ \A n \in Node : Items[n] \in Seq(Item(n)) /\ Len(Items[n]) <= MaxOffset
    /\ Owner \in Thread
    /\ Chunk \in Nat \ {0} /\ ReadSize \subseteq Nat \ {0}
    /\ MaxOffset \in Nat /\ Offset \subseteq (-MaxOffset)..MaxOffset
    /\ Null \notin PCS_STREAM_DATA \cup php_stream \cup (Mode \X Node)
    /\ Null \notin Node \cup [node : Node, pos : Nat, shared : BOOLEAN]
    /\ "dir" \notin Mode

VARIABLES
    dp,             \* the PCS_STREAM_DATA allocated, Null for the others
    stream,         \* the php_stream structures, Null for the others
    handles,        \* the streams that PHP code of this request can use
    last            \* the operation just done and its result

streamVars == <<dp, stream, handles, last>>
allVars == <<stringVars, streamVars>>

NoOp == [op |-> "none"]

StreamInit ==
    /\ StringsInit
    /\ dp = [d \in Dp |-> Null]
    /\ stream = [s \in Stream |-> Null]
    /\ handles = {}
    /\ last = NoOp

\* The allocator's choice, which does not matter
FreeDp     == CHOOSE d \in Dp : dp[d] = Null
FreeStream == CHOOSE s \in Stream : stream[s] = Null
Data(s)  == dp[stream[s].dp]
Size(n)  == Len(Items[n])
IsDir(n) == n \in DirNode

Bug_new_dp(persistent, n) == [persistent |-> FALSE, node |-> n, offset |-> 0]
new_dp(persistent, n) == [persistent |-> persistent, node |-> n, offset |-> 0]

-----------------------------------------------------------------------------
\* Opening (PCS_Stream_generic_open)

NodeFromURI(u) == IF u \in ShortUri THEN Null ELSE NodeAt[u]

\* how is the mode a file is opened with, or "dir"
MayOpen(u, how) ==
    /\ NodeFromURI(u) # Null
    /\ IF how = "dir" THEN IsDir(NodeFromURI(u))
       ELSE ~IsDir(NodeFromURI(u)) /\ how \in {"r", "rb"}

Opened(u, how, s) == last' = [op |-> "open", uri |-> u, how |-> how, stream |-> s]

\* The private data, if there is any yet, is freed
AbortOpen(u, how) ==
    /\ IdleThread(Owner)
    /\ ~MayOpen(u, how)
    /\ Opened(u, how, Null)
    /\ UNCHANGED <<stringVars, dp, stream, handles>>

PersistentId(u, how) == <<how, NodeFromURI(u)>>

\* opened_path, for callers that want it: not opendir()
ReturnPath(n, wanted) ==
    IF wanted THEN OpenedPath(Owner, n) ELSE UNCHANGED stringVars

OpenNew(u, how, persistent, wanted) ==
    LET s == FreeStream  d == FreeDp IN
      /\ IdleThread(Owner)
      /\ MayOpen(u, how)
      /\ \E x \in Stream : stream[x] = Null
      /\ \E x \in Dp : dp[x] = Null
      /\ persistent => \A x \in Stream : stream[x] # Null =>
                          stream[x].id # PersistentId(u, how)
      /\ dp' = [dp EXCEPT ![d] = new_dp(persistent, NodeFromURI(u))]
      /\ stream' = [stream EXCEPT ![s] =
                      [dp |-> d, id |-> IF persistent THEN PersistentId(u, how) ELSE Null,
                       eof |-> FALSE, position |-> 0, buffer |-> <<>>]]
      /\ handles' = handles \cup {s}
      /\ Opened(u, how, s)
      /\ ReturnPath(NodeFromURI(u), wanted)

\* The stream is there: the private data of this call is forgotten
OpenAgain(u, how, wanted) ==
    \E s \in Stream :
      /\ IdleThread(Owner)
      /\ MayOpen(u, how)
      /\ \E x \in Dp : dp[x] = Null
      /\ stream[s] # Null /\ stream[s].id = PersistentId(u, how)
      /\ dp' = [dp EXCEPT ![FreeDp] = new_dp(TRUE, NodeFromURI(u))]
      /\ handles' = handles \cup {s}
      /\ Opened(u, how, s)
      /\ ReturnPath(NodeFromURI(u), wanted)
      /\ UNCHANGED stream

-----------------------------------------------------------------------------
\* Files

\* PCS_Stream_read: the bytes, the new offset and eof
StreamRead(d, count) ==
    LET max == Size(d.node) - d.offset
        n == IF count > max THEN max ELSE count
    IN  [data |-> SubSeq(Items[d.node], d.offset + 1, d.offset + n),
         offset |-> d.offset + n, eof |-> d.offset + n = Size(d.node)]

\* fread(): first what is in the buffer, then at most one call of the stream
Read(s, size) ==
    /\ IdleThread(Owner)
    /\ s \in handles /\ ~IsDir(Data(s).node)
    /\ LET old   == stream[s].buffer
           r     == IF Len(old) < size THEN StreamRead(Data(s), Chunk)
                    ELSE [data |-> <<>>, offset |-> Data(s).offset, eof |-> stream[s].eof]
           bytes == old \o r.data
           k     == IF size > Len(bytes) THEN Len(bytes) ELSE size
       IN /\ dp' = [dp EXCEPT ![stream[s].dp].offset = r.offset]
          /\ stream' = [stream EXCEPT ![s].buffer = SubSeq(bytes, k + 1, Len(bytes)),
                                      ![s].position = @ + k, ![s].eof = r.eof]
          /\ last' = [op |-> "read", stream |-> s, size |-> size,
                      data |-> SubSeq(bytes, 1, k)]
    /\ UNCHANGED <<stringVars, handles>>

(* PCS_Stream_seek.  The sum for SEEK_END may not fit in a zend_off_t, which *)
(* is undefined: it wraps around, or the test with the length is simplified. *)
Bug_SeekSigned(d, whence, off) ==       \* not clamped at the start
    {LET to == IF whence = "END" THEN Size(d.node) + off ELSE off
     IN  IF to > Size(d.node) THEN Size(d.node) ELSE to}
SeekTargets(d, whence, off) ==
    LET to == CASE whence = "SET" -> off
                [] whence = "CUR" -> d.offset + off
                [] whence = "END" -> Size(d.node) + off
    IN  IF to > MaxOffset THEN {0, Size(d.node)}
        ELSE IF to > Size(d.node) THEN {Size(d.node)}
        ELSE IF to < 0 THEN {0} ELSE {to}

\* fseek(): within the buffer the stream is not called.  Else a relative offset
\* is made absolute, the buffer dropped, and the eof that the stream has set is
\* cleared.
InBuffer(s, whence, off) ==
    LET ahead == Len(stream[s].buffer) IN
    \/ whence = "CUR" /\ off \in 1..ahead
    \/ whence = "SET" /\ off - stream[s].position \in 1..ahead

SeekInBuffer(s, whence, off) ==
    /\ IdleThread(Owner)
    /\ s \in handles /\ ~IsDir(Data(s).node)
    /\ InBuffer(s, whence, off)
    /\ LET k == IF whence = "CUR" THEN off ELSE off - stream[s].position IN
         /\ stream' = [stream EXCEPT ![s].buffer = SubSeq(@, k + 1, Len(@)),
                                     ![s].position = @ + k, ![s].eof = FALSE]
         /\ last' = [op |-> "seek", stream |-> s, whence |-> whence, offset |-> off,
                     told |-> stream[s].position + k]
    /\ UNCHANGED <<stringVars, dp, handles>>

Seek(s, whence, off) ==
    /\ IdleThread(Owner)
    /\ s \in handles /\ ~IsDir(Data(s).node)
    /\ ~InBuffer(s, whence, off)
    /\ \E to \in IF whence = "CUR"
                  THEN SeekTargets(Data(s), "SET", stream[s].position + off)
                  ELSE SeekTargets(Data(s), whence, off) :
         /\ dp' = [dp EXCEPT ![stream[s].dp].offset = to]
         /\ stream' = [stream EXCEPT ![s].buffer = <<>>, ![s].position = to,
                                     ![s].eof = FALSE]
         /\ last' = [op |-> "seek", stream |-> s, whence |-> whence, offset |-> off,
                     told |-> to]
    /\ UNCHANGED <<stringVars, handles>>

-----------------------------------------------------------------------------
\* Directories

\* eof is the opposite, as in seekdir
Bug_ReadDir(s) ==
    /\ IdleThread(Owner)
    /\ s \in handles /\ IsDir(Data(s).node)
    /\ LET d == Data(s)
           n == IF d.offset < Size(d.node) THEN 1 ELSE 0
       IN /\ dp' = [dp EXCEPT ![stream[s].dp].offset = @ + n]
          /\ stream' = [stream EXCEPT ![s].position = @ + n,
                                      ![s].eof = d.offset + n # Size(d.node)]
          /\ last' = [op |-> "read", stream |-> s, size |-> 1,
                      data |-> SubSeq(Items[d.node], d.offset + 1, d.offset + n)]
    /\ UNCHANGED <<stringVars, handles>>

\* PCS_Stream_readdir: the entry at the position, then the next position
ReadDir(s) ==
    /\ IdleThread(Owner)
    /\ s \in handles /\ IsDir(Data(s).node)
    /\ LET d == Data(s)
           n == IF d.offset < Size(d.node) THEN 1 ELSE 0
       IN /\ dp' = [dp EXCEPT ![stream[s].dp].offset = @ + n]
          /\ stream' = [stream EXCEPT ![s].position = @ + n,
                                      ![s].eof = d.offset + n = Size(d.node)]
          /\ last' = [op |-> "read", stream |-> s, size |-> 1,
                      data |-> SubSeq(Items[d.node], d.offset + 1, d.offset + n)]
    /\ UNCHANGED <<stringVars, handles>>

\* PCS_Stream_seekdir, which sets eof for a directory with entries; the streams
\* layer clears it.
Bug_RewindDir(s) ==                     \* the cursor of the table stays
    /\ IdleThread(Owner)
    /\ s \in handles /\ IsDir(Data(s).node)
    /\ stream' = [stream EXCEPT ![s].position = 0, ![s].eof = FALSE]
    /\ last' = [op |-> "seek", stream |-> s, whence |-> "SET", offset |-> 0, told |-> 0]
    /\ UNCHANGED <<stringVars, dp, handles>>

RewindDir(s) ==
    /\ IdleThread(Owner)
    /\ s \in handles /\ IsDir(Data(s).node)
    /\ dp' = [dp EXCEPT ![stream[s].dp].offset = 0]
    /\ stream' = [stream EXCEPT ![s].position = 0, ![s].eof = FALSE]
    /\ last' = [op |-> "seek", stream |-> s, whence |-> "SET", offset |-> 0, told |-> 0]
    /\ UNCHANGED <<stringVars, handles>>

-----------------------------------------------------------------------------
\* Both

\* do_stat, for a URI (with private data of its own, freed at once) or a stream
Stat(u) ==
    /\ IdleThread(Owner)
    /\ LET n == NodeFromURI(u) IN
         last' = [op |-> "stat", uri |-> u, dir |-> n # Null /\ IsDir(n),
                  size |-> IF n = Null THEN -1 ELSE Size(n)]
    /\ UNCHANGED <<stringVars, dp, stream, handles>>

\* PCS_Stream_close and free_dp
Closed(S) ==
    /\ dp' = [d \in Dp |-> IF \E s \in S : stream[s].dp = d THEN Null ELSE dp[d]]
    /\ stream' = [s \in Stream |-> IF s \in S THEN Null ELSE stream[s]]
    /\ last' = [op |-> "close"]

Close(s) ==
    /\ IdleThread(Owner)
    /\ s \in handles
    /\ Closed({s})
    /\ handles' = handles \ {s}
    /\ UNCHANGED stringVars

\* The request's own memory is freed at its end.  (The strings that its values
\* hold are released by FreeValues.)
IsOpen(s)       == stream[s] # Null
IsPersistent(s) == IsOpen(s) /\ stream[s].id # Null

EndRequest ==
    /\ IdleThread(Owner)
    /\ handles # {}
    /\ LET S == {s \in Stream : IsOpen(s) /\ ~IsPersistent(s)} IN
         /\ stream' = [s \in Stream |-> IF s \in S THEN Null ELSE stream[s]]
         /\ dp' = [d \in Dp |-> IF dp[d] # Null /\ dp[d].persistent THEN dp[d] ELSE Null]
    /\ last' = [op |-> "close"]
    /\ handles' = {}
    /\ UNCHANGED stringVars

\* The end of the thread
CloseAll ==
    /\ IdleThread(Owner)
    /\ handles = {}
    /\ \E s \in Stream : IsOpen(s)
    /\ Closed({s \in Stream : IsOpen(s)})
    /\ UNCHANGED <<stringVars, handles>>

StreamNext ==
    \/ StringsStep /\ last' = NoOp /\ UNCHANGED <<dp, stream, handles>>
    \/ \E u \in Uri :
         \/ \E how \in Mode \cup {"dir"} : AbortOpen(u, how)
         \/ OpenNew(u, "dir", FALSE, FALSE)
         \/ \E how \in Mode, wanted \in BOOLEAN :
              \/ \E persistent \in BOOLEAN : OpenNew(u, how, persistent, wanted)
              \/ OpenAgain(u, how, wanted)
         \/ Stat(u)
    \/ \E s \in handles :
         \/ \E size \in ReadSize : Read(s, size)
         \/ \E whence \in {"SET", "CUR", "END"}, off \in Offset :
              SeekInBuffer(s, whence, off) \/ Seek(s, whence, off)
         \/ ReadDir(s) \/ RewindDir(s) \/ Close(s)
    \/ EndRequest \/ CloseAll
    \/ /\ \A s \in Stream : ~IsOpen(s)
       /\ ReleaseAll
       /\ UNCHANGED streamVars

StreamSpec == StreamInit /\ [][StreamNext]_allVars

-----------------------------------------------------------------------------
\* Properties

StreamTypeOK ==
    /\ refs \in [String -> Nat] /\ stage \in {"minit", "requests", "off"}
    /\ dp \in [Dp -> PCS_STREAM_DATA \cup {Null}]
    /\ stream \in [Stream -> php_stream \cup {Null}]
    /\ handles \subseteq {s \in Stream : IsOpen(s)}

\* The private data of an open stream is allocated, its own and as long-lived as
\* the stream, also in the requests after the one that opened it, and its node is
\* one that the operations of the stream may be applied to (the assertions of
\* PCS_Stream.c:102, 140, 235, 278).
DataOwned ==
    \A s \in Stream : IsOpen(s) =>
      /\ Data(s) # Null
      /\ Data(s).persistent = IsPersistent(s)
      /\ IsDir(Data(s).node) => ~IsPersistent(s)
      /\ \A x \in Stream \ {s} : IsOpen(x) => stream[x].dp # stream[s].dp

\* Offset and buffer agree: the buffer holds what lies between the position that
\* PHP code sees and the offset, which never leaves the node.  eof is never early:
\* a loop that reads or lists until feof() gets everything.
ReadAhead ==
    \A s \in Stream : IsOpen(s) =>
      /\ Data(s).offset \in 0..Size(Data(s).node)
      /\ stream[s].position + Len(stream[s].buffer) = Data(s).offset
      /\ stream[s].eof => Data(s).offset = Size(Data(s).node)

\* What the abstract ReadCursor sees of the streams
Cursor == [s \in Stream |->
             IF ~IsOpen(s) THEN Null
             ELSE [node |-> Data(s).node, pos |-> stream[s].position,
                   shared |-> IsPersistent(s)]]
RC == INSTANCE ReadCursor WITH cur <- Cursor, Target <- [u \in Uri |-> NodeFromURI(u)]

\* The streams implement ReadCursor: through any mixture of reads, seeks,
\* rewinds, persistent opens and ends of requests, PHP code gets every byte and
\* every entry from its position on, once and in order.
ImplementsCursor == RC!Spec
=============================================================================
