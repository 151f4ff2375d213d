------------------------- MODULE PCS_Stream_proofs -------------------------
(***************************************************************************)
(* Proofs about PCS_Stream: types, the ownership of private data, the      *)
(* agreement of offset, buffer and position, and the refinement of         *)
(* ReadCursor, for any tree, any number of streams and any sizes; and, for *)
(* one thread, the counts of the shared strings.                           *)
(***************************************************************************)
EXTENDS PCS_Stream, SequenceTheorems, FiniteSetTheorems, TLAPS

Change == [change : {"add", "release"}, string : String]

\* What a thread has to do: it adds references, or gives back all it has.
AddsOrReturns(w, h) ==
    \/ \A i \in 1..Len(w) : w[i].change = "add"
    \/ Len(w) = Len(h) /\ \A i \in 1..Len(w) : w[i].change = "release"

WorkInv(t) ==
    /\ AddsOrReturns(work[t], held[t])
    /\ reg[t] # Null => work[t] # <<>>

StringsInv ==
    /\ refs \in [String -> Nat]
    /\ work \in [Thread -> Seq(Change)]
    /\ reg \in [Thread -> Nat \cup {Null}]
    /\ held \in [Thread -> Seq(String)]
    /\ stage \in {"minit", "requests", "off"}
    /\ \A t \in Thread : WorkInv(t)

LEMMA StringsInvInit == StringsInit => StringsInv
BY StringsAssumption DEF StringsInit, StringsInv, WorkInv, AddsOrReturns

\* A step that changes what one thread has to do
LEMMA WorkInvKept ==
    ASSUME StringsInv, NEW t \in Thread,
           NEW w \in Seq(Change), NEW h \in Seq(String), NEW r \in Nat \cup {Null},
           work' = [work EXCEPT ![t] = w], held' = [held EXCEPT ![t] = h],
           reg' = [reg EXCEPT ![t] = r],
           AddsOrReturns(w, h),
           r # Null => w # <<>>,
           refs' \in [String -> Nat], stage' = stage
    PROVE  StringsInv'
<1>1. /\ work' \in [Thread -> Seq(Change)] /\ held' \in [Thread -> Seq(String)]
      /\ reg' \in [Thread -> Nat \cup {Null}]
  BY DEF StringsInv
<1>2. ASSUME NEW x \in Thread PROVE WorkInv(x)'
  <2>1. CASE x = t
    <3>1. work'[x] = w /\ held'[x] = h /\ reg'[x] = r
      BY <2>1 DEF StringsInv
    <3> QED BY <3>1 DEF WorkInv
  <2>2. CASE x # t
    <3>1. work'[x] = work[x] /\ held'[x] = held[x] /\ reg'[x] = reg[x] /\ WorkInv(x)
      BY <2>2 DEF StringsInv
    <3> QED BY <3>1 DEF WorkInv
  <2> QED BY <2>1, <2>2
<1> QED BY <1>1, <1>2 DEF StringsInv

\* The shared part of fileInfos, symbolInfos and OpenedPath
LEMMA TakeKeepsInv ==
    ASSUME StringsInv, NEW t \in Thread, NEW strings \in Seq(String),
           IdleThread(t), Take(t, strings)
    PROVE  StringsInv'
<1> DEFINE w == Changes(strings, AddRef)
<1>1. w \in Seq(Change) /\ \A i \in 1..Len(w) : w[i].change = "add"
  BY DEF Changes, AddRef, Change
<1>2. work' = [work EXCEPT ![t] = w]
  BY DEF Take
<1> HIDE DEF w
<1>3. reg[t] = Null /\ held[t] \in Seq(String) /\ reg[t] \in Nat \cup {Null}
  BY DEF IdleThread, StringsInv, WorkInv
<1>4. /\ held' = [held EXCEPT ![t] = held[t]] /\ reg' = [reg EXCEPT ![t] = reg[t]]
      /\ refs' \in [String -> Nat] /\ stage' = stage
  BY DEF Take, StringsInv
<1> QED BY <1>1, <1>2, <1>3, <1>4, WorkInvKept DEF AddsOrReturns

LEMMA PathsOfType ==
    ASSUME NEW files \in Seq(Node)
    PROVE  PathsOf(files) \in Seq(String)
BY DEF PathsOf, PathOf, String

LEMMA OpenedPathKeepsInv ==
    ASSUME StringsInv, NEW t \in Thread, NEW n \in Node, OpenedPath(t, n)
    PROVE  StringsInv'
<1>1. <<UriOf(n)>> \in Seq(String)
  BY DEF UriOf, String
<1> QED BY <1>1, TakeKeepsInv DEF OpenedPath

LEMMA StringsStepKeepsInv ==
    ASSUME StringsInv, StringsStep
    PROVE  StringsInv'
<1>1. ASSUME NEW n \in Node, CreateNode(n) PROVE StringsInv'
  BY <1>1 DEF CreateNode, StringsInv, WorkInv
<1>2. CASE FirstRequest
  BY <1>2 DEF FirstRequest, StringsInv, WorkInv
<1>3. ASSUME NEW t \in Thread, fileInfos(t) PROVE StringsInv'
  BY <1>3, PathsOfType, TakeKeepsInv, StringsAssumption DEF fileInfos
<1>4. ASSUME NEW t \in Thread, symbolInfos(t) PROVE StringsInv'
  BY <1>4, PathsOfType, TakeKeepsInv, StringsAssumption DEF symbolInfos
<1>5. ASSUME NEW t \in Thread, FreeValues(t) PROVE StringsInv'
  <2> DEFINE w == Changes(held[t], Release)
  <2>1. /\ held[t] \in Seq(String) /\ reg[t] = Null /\ reg[t] \in Nat \cup {Null}
        /\ work' = [work EXCEPT ![t] = w]
    BY <1>5 DEF FreeValues, IdleThread, StringsInv, WorkInv
  <2>2. w \in Seq(Change) /\ AddsOrReturns(w, held[t])
    BY <2>1 DEF Changes, Release, Change, AddsOrReturns
  <2> HIDE DEF w
  <2>3. /\ held' = [held EXCEPT ![t] = held[t]] /\ reg' = [reg EXCEPT ![t] = reg[t]]
        /\ refs' \in [String -> Nat] /\ stage' = stage
    BY <1>5 DEF FreeValues, StringsInv
  <2> QED BY <2>1, <2>2, <2>3, WorkInvKept
<1>6. ASSUME NEW t \in Thread, Load(t) PROVE StringsInv'
  <2>1. /\ work[t] # <<>> /\ work[t] \in Seq(Change) /\ held[t] \in Seq(String)
        /\ AddsOrReturns(work[t], held[t])
    BY <1>6 DEF Load, StringsInv, WorkInv
  <2>2. Head(work[t]) \in Change
    BY <2>1
  <2>3. refs[Head(work[t]).string] \in Nat
    BY <2>2 DEF StringsInv, Change
  <2>4. /\ held' = [held EXCEPT ![t] = held[t]] /\ work' = [work EXCEPT ![t] = work[t]]
        /\ reg' = [reg EXCEPT ![t] = refs[Head(work[t]).string]]
        /\ refs' \in [String -> Nat] /\ stage' = stage
    BY <1>6 DEF Load, StringsInv
  <2> QED BY <2>1, <2>3, <2>4, WorkInvKept
<1>7. ASSUME NEW t \in Thread, Store(t) PROVE StringsInv'
  <2> DEFINE c == Head(work[t])
             w == Tail(work[t])
             h == IF c.change = "add" THEN Append(held[t], c.string) ELSE Tail(held[t])
  <2>1. /\ work[t] # <<>> /\ work[t] \in Seq(Change) /\ held[t] \in Seq(String)
        /\ reg[t] \in Nat
        /\ AddsOrReturns(work[t], held[t])
    BY <1>7 DEF Store, StringsInv, WorkInv
  <2>2. c \in Change /\ c = work[t][1]
    BY <2>1
  <2>3. /\ w \in Seq(Change) /\ Len(w) = Len(work[t]) - 1
        /\ \A i \in 1..Len(w) : w[i] = work[t][i + 1]
    BY <2>1
  <2>4. c.change # "add" => held[t] # <<>> /\ Len(work[t]) = Len(held[t])
    BY <2>1, <2>2 DEF AddsOrReturns
  <2>5. h \in Seq(String)
    BY <2>1, <2>2, <2>4 DEF Change
  <2>6. AddsOrReturns(w, h)
    BY <2>1, <2>2, <2>3, <2>4 DEF AddsOrReturns, Change
  <2>7. Stored(c, reg[t]) \in Nat
    BY <2>1 DEF Stored
  <2>8. /\ refs' \in [String -> Nat] /\ reg' = [reg EXCEPT ![t] = Null]
        /\ work' = [work EXCEPT ![t] = w] /\ held' = [held EXCEPT ![t] = h]
        /\ stage' = stage
    BY <1>7, <2>7 DEF Store, StringsInv
  <2> HIDE DEF w, h
  <2> QED BY <2>3, <2>5, <2>6, <2>8, WorkInvKept
<1> QED BY <1>1, <1>2, <1>3, <1>4, <1>5, <1>6, <1>7 DEF StringsStep

-----------------------------------------------------------------------------
\* The streams.  That a directory has no buffer makes its rewinding right.

Byte == UNION {Item(n) : n \in Node \ DirNode}

DirUnbuffered ==
    \A s \in Stream : IsOpen(s) /\ IsDir(Data(s).node) => stream[s].buffer = <<>>

StreamInv == StringsInv /\ StreamTypeOK /\ DataOwned /\ ReadAhead /\ DirUnbuffered

LEMMA SizeType == ASSUME NEW n \in Node PROVE Size(n) \in Nat /\ Items[n] \in Seq(Item(n))
BY StreamAssumption DEF Size

LEMMA StreamInvInit == StreamInit => StreamInv
BY StringsInvInit DEF StreamInit, StringsInit, StreamInv, StreamTypeOK, StringsInv,
   DataOwned, ReadAhead, DirUnbuffered, IsOpen

\* The elements of a sequence from the one after the m-th to the n-th
LEMMA PartOfSeq ==
    ASSUME NEW S, NEW seq \in Seq(S), NEW m \in Nat, NEW n \in Nat, m <= n, n <= Len(seq)
    PROVE  /\ SubSeq(seq, m + 1, n) \in Seq(S)
           /\ Len(SubSeq(seq, m + 1, n)) = n - m
<1>1. Len(seq) \in Nat /\ \A i \in 1..Len(seq) : seq[i] \in S
  BY ElementOfSeq, LenProperties
<1>2. \A i \in (m + 1)..n : seq[i] \in S
  BY <1>1
<1> QED BY <1>2, SubSeqProperties

\* What an open stream is like
LEMMA OpenStream ==
    ASSUME StreamInv, NEW s \in Stream, IsOpen(s)
    PROVE  /\ stream[s] \in php_stream /\ stream[s].dp \in Dp
           /\ Data(s) \in PCS_STREAM_DATA /\ Data(s).node \in Node
           /\ Data(s).offset \in 0..Size(Data(s).node)
           /\ stream[s].position \in Nat /\ stream[s].buffer \in Seq(Byte)
           /\ stream[s].position + Len(stream[s].buffer) = Data(s).offset
           /\ stream[s].eof => Data(s).offset = Size(Data(s).node)
           /\ IsDir(Data(s).node) => stream[s].buffer = <<>>
<1>1. stream[s] \in php_stream
  BY DEF StreamInv, StreamTypeOK, IsOpen
<1>2. stream[s].dp \in Dp /\ stream[s].position \in Nat /\ stream[s].buffer \in Seq(Byte)
  BY <1>1 DEF php_stream, Byte
<1>3. Data(s) \in PCS_STREAM_DATA
  BY <1>2 DEF StreamInv, StreamTypeOK, DataOwned, Data
<1>4. Data(s).node \in Node
  BY <1>3 DEF PCS_STREAM_DATA
<1> QED BY <1>1, <1>2, <1>3, <1>4 DEF StreamInv, ReadAhead, DirUnbuffered

\* A stream that is moved: by reading, seeking or rewinding
LEMMA MovedKeepsInv ==
    ASSUME StreamInv, NEW s \in Stream, IsOpen(s),
           NEW o \in 0..Size(Data(s).node), NEW b \in Seq(Byte), NEW p \in Nat,
           NEW e \in BOOLEAN,
           p + Len(b) = o, e => o = Size(Data(s).node),
           IsDir(Data(s).node) => b = <<>>,
           dp' = [dp EXCEPT ![stream[s].dp] = [@ EXCEPT !.offset = o]],
           stream' = [stream EXCEPT ![s] =
                        [@ EXCEPT !.buffer = b, !.position = p, !.eof = e]],
           UNCHANGED <<stringVars, handles>>
    PROVE  StreamInv'
<1> DEFINE d == stream[s].dp
           r == [stream[s] EXCEPT !.buffer = b, !.position = p, !.eof = e]
           q == [dp[d] EXCEPT !.offset = o]
<1>1. stream[s] \in php_stream /\ d \in Dp /\ dp[d] \in PCS_STREAM_DATA /\ dp[d].node \in Node
  BY OpenStream DEF Data
<1>2. Size(dp[d].node) \in Nat
  BY <1>1, SizeType
<1>3. /\ r \in php_stream /\ r.dp = d /\ r.id = stream[s].id
      /\ r.buffer = b /\ r.position = p /\ r.eof = e
  BY <1>1 DEF php_stream, Byte
<1>4. /\ q \in PCS_STREAM_DATA /\ q.node = dp[d].node /\ q.persistent = dp[d].persistent
      /\ q.offset = o
  BY <1>1, <1>2 DEF PCS_STREAM_DATA, Data
<1>5. r # Null /\ q # Null
  BY <1>3, <1>4, StreamAssumption
<1>6. dp' = [dp EXCEPT ![d] = q] /\ stream' = [stream EXCEPT ![s] = r]
  OBVIOUS
<1> HIDE DEF r, q
<1>7. dp \in [Dp -> PCS_STREAM_DATA \cup {Null}] /\ stream \in [Stream -> php_stream \cup {Null}]
  BY DEF StreamInv, StreamTypeOK
<1>8. dp' \in [Dp -> PCS_STREAM_DATA \cup {Null}] /\ stream' \in [Stream -> php_stream \cup {Null}]
  BY <1>1, <1>3, <1>4, <1>6, <1>7
<1>9. dp'[d] = q /\ stream'[s] = r
  BY <1>1, <1>6, <1>7
<1>10. ASSUME NEW x \in Stream, x # s, IsOpen(x)
       PROVE  stream'[x] = stream[x] /\ dp'[stream[x].dp] = dp[stream[x].dp]
  <2>1. stream[x].dp \in Dp /\ stream[x].dp # d
    BY <1>10, OpenStream DEF StreamInv, DataOwned
  <2> QED BY <1>6, <1>7, <1>10, <2>1
<1>11. \A x \in Stream : IsOpen(x)' <=> IsOpen(x)
  BY <1>5, <1>6, <1>7 DEF IsOpen
<1>12. StreamTypeOK'
  <2>1. \A x \in handles' : x \in Stream /\ IsOpen(x)'
    BY <1>11 DEF StreamInv, StreamTypeOK
  <2>2. refs' \in [String -> Nat] /\ stage' \in {"minit", "requests", "off"}
    BY DEF StreamInv, StreamTypeOK, stringVars
  <2> QED BY <1>8, <2>1, <2>2 DEF StreamTypeOK
<1>13. DataOwned'
  <2> SUFFICES ASSUME NEW x \in Stream, IsOpen(x)
               PROVE  /\ Data(x)' # Null
                      /\ Data(x).persistent' = IsPersistent(x)'
                      /\ IsDir(Data(x).node)' => ~IsPersistent(x)'
                      /\ \A y \in Stream \ {x} : IsOpen(y)' => stream'[y].dp # stream'[x].dp
    BY <1>11 DEF DataOwned
  <2>1. \A y \in Stream : IsOpen(y) => stream'[y].dp = stream[y].dp /\ stream'[y].id = stream[y].id
    BY <1>3, <1>9, <1>10
  <2>2. \A y \in Stream \ {x} : IsOpen(y)' => stream'[y].dp # stream'[x].dp
    BY <1>11, <2>1 DEF StreamInv, DataOwned
  <2>3. IsPersistent(x)' = IsPersistent(x)
    BY <1>11, <2>1 DEF IsPersistent
  <2>4. Data(x)' # Null /\ Data(x).persistent' = Data(x).persistent /\ Data(x).node' = Data(x).node
    <3>1. CASE x = s
      BY <1>3, <1>4, <1>5, <1>9, <3>1 DEF Data
    <3>2. CASE x # s
      BY <1>10, <3>2 DEF Data, StreamInv, DataOwned
    <3> QED BY <3>1, <3>2
  <2>5. /\ Data(x).persistent = IsPersistent(x)
        /\ IsDir(Data(x).node) => ~IsPersistent(x)
    BY DEF StreamInv, DataOwned
  <2>6. Data(x).persistent' = IsPersistent(x)'
    BY <2>3, <2>4, <2>5
  <2>7. IsDir(Data(x).node)' => ~IsPersistent(x)'
    BY <2>3, <2>4, <2>5 DEF IsDir
  <2> QED BY <2>2, <2>4, <2>6, <2>7
<1>14. ReadAhead' /\ DirUnbuffered'
  <2> SUFFICES ASSUME NEW x \in Stream, IsOpen(x)
               PROVE  /\ Data(x).offset' \in 0..Size(Data(x).node')
                      /\ stream'[x].position + Len(stream'[x].buffer) = Data(x).offset'
                      /\ stream'[x].eof => Data(x).offset' = Size(Data(x).node')
                      /\ IsDir(Data(x).node') => stream'[x].buffer = <<>>
    BY <1>11 DEF ReadAhead, DirUnbuffered, Size, IsDir
  <2>1. CASE x = s
    BY <1>3, <1>4, <1>9, <2>1 DEF Data
  <2>2. CASE x # s
    BY <1>10, <2>2, OpenStream DEF Data
  <2> QED BY <2>1, <2>2
<1>15. StringsInv'
  BY DEF StreamInv, StringsInv, WorkInv, stringVars
<1> QED BY <1>12, <1>13, <1>14, <1>15 DEF StreamInv

\* The operations that move a stream, one by one
LEMMA StreamReadType ==
    ASSUME NEW d \in PCS_STREAM_DATA, ~IsDir(d.node), d.offset \in 0..Size(d.node)
    PROVE  LET r == StreamRead(d, Chunk) IN
             /\ r.data \in Seq(Byte) /\ r.offset \in 0..Size(d.node) /\ r.eof \in BOOLEAN
             /\ Len(r.data) = r.offset - d.offset
             /\ r.eof => r.offset = Size(d.node)
<1> DEFINE max == Size(d.node) - d.offset
           c == IF Chunk > max THEN max ELSE Chunk
           data == SubSeq(Items[d.node], d.offset + 1, d.offset + c)
<1>1. d.node \in Node \ DirNode
  BY DEF PCS_STREAM_DATA, IsDir
<1>2. Size(d.node) \in Nat /\ Items[d.node] \in Seq(Byte) /\ Len(Items[d.node]) = Size(d.node)
  BY <1>1, SizeType DEF Byte, Size
<1>3. c \in 0..max /\ max \in Nat
  BY <1>2, StreamAssumption
<1>4. StreamRead(d, Chunk) =
        [data |-> data, offset |-> d.offset + c, eof |-> d.offset + c = Size(d.node)]
  BY DEF StreamRead
<1> HIDE DEF c
<1>5. data \in Seq(Byte) /\ Len(data) = c
  <2>1. /\ d.offset \in Nat /\ d.offset + c \in Nat
        /\ d.offset <= d.offset + c /\ d.offset + c <= Len(Items[d.node])
    BY <1>2, <1>3
  <2> DEFINE o == d.offset + c
  <2> HIDE DEF o
  <2>2. SubSeq(Items[d.node], d.offset + 1, o) \in Seq(Byte)
        /\ Len(SubSeq(Items[d.node], d.offset + 1, o)) = o - d.offset
    BY <1>2, <2>1, PartOfSeq DEF o
  <2> QED BY <1>2, <1>3, <2>2 DEF o
<1> HIDE DEF data
<1> DEFINE r == StreamRead(d, Chunk)
<1>6. r.data = data /\ r.offset = d.offset + c /\ r.eof = (d.offset + c = Size(d.node))
  BY <1>4
<1> HIDE DEF r
<1>7. r.eof \in BOOLEAN /\ (r.eof => r.offset = Size(d.node))
  BY <1>6
<1>8. r.offset \in 0..Size(d.node) /\ Len(r.data) = r.offset - d.offset /\ r.data \in Seq(Byte)
  BY <1>2, <1>3, <1>5, <1>6
<1> QED BY <1>7, <1>8 DEF r

\* What is left of a buffer, after more was read into it, when k bytes were taken
Left(old, more, k) == SubSeq(old \o more, k + 1, Len(old \o more))

\* Then buffer and position, which was pos, agree with the offset o.
LeftAgrees(old, more, pos, k, o) ==
    /\ Left(old, more, k) \in Seq(Byte)
    /\ pos + k \in Nat
    /\ pos + k + Len(Left(old, more, k)) = o

LEMMA Taken ==
    ASSUME NEW old \in Seq(Byte), NEW more \in Seq(Byte),
           NEW pos \in Nat, NEW o \in Nat, NEW k \in Nat,
           pos + Len(old) + Len(more) = o, k <= Len(old \o more)
    PROVE  LeftAgrees(old, more, pos, k, o)
<1> DEFINE bytes == old \o more
           l == Len(bytes)
           b == SubSeq(bytes, k + 1, l)
<1>1. /\ bytes \in Seq(Byte) /\ l \in Nat /\ l = Len(old) + Len(more)
      /\ Len(old) \in Nat /\ Len(more) \in Nat
  BY ConcatProperties, LenProperties
<1>2. k <= l /\ l <= Len(bytes)
  BY <1>1
<1> HIDE DEF bytes, l
<1>3. b \in Seq(Byte) /\ Len(b) = l - k
  BY <1>1, <1>2, PartOfSeq
<1> HIDE DEF b
<1>4. Len(old) \in Nat
  BY <1>1
<1>5. Len(more) \in Nat
  BY <1>1
<1>6. Len(b) = Len(old) + Len(more) - k
  BY <1>1, <1>3
<1>7. pos + k + Len(b) = o
  BY <1>4, <1>5, <1>6
<1>8. pos + k \in Nat
  OBVIOUS
<1> QED BY <1>3, <1>7, <1>8 DEF b, l, bytes, Left, LeftAgrees

LEMMA ReadKeepsInv ==
    ASSUME StreamInv, NEW s \in handles, NEW size \in ReadSize, Read(s, size)
    PROVE  StreamInv'
<1> DEFINE old == stream[s].buffer
           r == IF Len(old) < size THEN StreamRead(Data(s), Chunk)
                ELSE [data |-> <<>>, offset |-> Data(s).offset, eof |-> stream[s].eof]
           bytes == old \o r.data
           k == IF size > Len(bytes) THEN Len(bytes) ELSE size
<1>1. s \in Stream /\ IsOpen(s) /\ ~IsDir(Data(s).node)
  BY DEF Read, StreamInv, StreamTypeOK
<1>2. /\ dp' = [dp EXCEPT ![stream[s].dp].offset = r.offset]
      /\ stream' = [stream EXCEPT ![s].buffer = SubSeq(bytes, k + 1, Len(bytes)),
                                  ![s].position = @ + k, ![s].eof = r.eof]
      /\ UNCHANGED <<stringVars, handles>>
  BY DEF Read
<1>3. /\ Data(s) \in PCS_STREAM_DATA /\ Data(s).offset \in 0..Size(Data(s).node)
      /\ old \in Seq(Byte) /\ stream[s] \in php_stream
      /\ Data(s).node \in Node /\ Size(Data(s).node) \in Nat
      /\ stream[s].eof => Data(s).offset = Size(Data(s).node)
  BY <1>1, OpenStream, SizeType
<1>4. /\ r.data \in Seq(Byte) /\ r.offset \in 0..Size(Data(s).node) /\ r.eof \in BOOLEAN
      /\ Len(r.data) = r.offset - Data(s).offset
      /\ r.eof => r.offset = Size(Data(s).node)
  <2>1. CASE Len(old) < size
    <3>1. r = StreamRead(Data(s), Chunk)
      BY <2>1
    <3> HIDE DEF r
    <3> QED BY <1>1, <1>3, <3>1, StreamReadType
  <2>2. CASE ~(Len(old) < size)
    <3>1. r.data = <<>> /\ r.offset = Data(s).offset /\ r.eof = stream[s].eof
      BY <2>2
    <3>2. stream[s].eof \in BOOLEAN
      BY <1>3 DEF php_stream
    <3> HIDE DEF r
    <3>3. r.data \in Seq(Byte) /\ Len(r.data) = 0
      BY <3>1
    <3>4. r.eof \in BOOLEAN /\ (r.eof => r.offset = Size(Data(s).node))
      BY <1>3, <3>1, <3>2
    <3> QED BY <1>3, <3>1, <3>3, <3>4
  <2> QED BY <2>1, <2>2
<1> HIDE DEF r
<1> DEFINE b == SubSeq(bytes, k + 1, Len(bytes))
           p == stream[s].position + k
<1>5. Len(bytes) \in Nat
  BY <1>3, <1>4, ConcatProperties, LenProperties
<1>6. k \in Nat /\ k <= Len(bytes)
  <2> HIDE DEF bytes
  <2> QED BY <1>5, StreamAssumption
<1> HIDE DEF k
<1>7. stream[s].position + Len(old) + Len(r.data) = r.offset /\ stream[s].position \in Nat
  BY <1>1, <1>3, <1>4, OpenStream
<1> DEFINE pos == stream[s].position
           o == r.offset
<1>8. o \in Nat
  BY <1>3, <1>4
<1>9. k \in Nat
  BY <1>6
<1>10. b \in Seq(Byte) /\ pos + k \in Nat /\ pos + k + Len(b) = o
  <2> DEFINE more == r.data
  <2>1. old \in Seq(Byte)
    BY <1>3
  <2>2. more \in Seq(Byte)
    BY <1>4
  <2>3. pos \in Nat
    BY <1>7
  <2>4. pos + Len(old) + Len(more) = o
    BY <1>7
  <2>5. k <= Len(old \o more)
    BY <1>6
  <2> HIDE DEF old, more, pos, o
  <2>6. LeftAgrees(old, more, pos, k, o)
    BY <1>8, <1>9, <2>1, <2>2, <2>3, <2>4, <2>5, Taken
  <2> QED BY <2>6 DEF more, Left, LeftAgrees
<1>11. /\ dp' = [dp EXCEPT ![stream[s].dp] = [@ EXCEPT !.offset = r.offset]]
       /\ stream' = [stream EXCEPT ![s] =
                       [@ EXCEPT !.buffer = b, !.position = p, !.eof = r.eof]]
  BY <1>2
<1>12. b \in Seq(Byte) /\ p \in Nat /\ p + Len(b) = r.offset
  BY <1>10
<1> HIDE DEF b, p, bytes
<1> QED BY <1>1, <1>2, <1>4, <1>11, <1>12, MovedKeepsInv

\* Moving on within the buffer leaves the private data as it is
LEMMA DataSame ==
    ASSUME StreamInv, NEW s \in Stream, IsOpen(s)
    PROVE  dp = [dp EXCEPT ![stream[s].dp] = [@ EXCEPT !.offset = Data(s).offset]]
<1>1. dp \in [Dp -> PCS_STREAM_DATA \cup {Null}]
  BY DEF StreamInv, StreamTypeOK
<1>2. stream[s].dp \in Dp /\ Data(s) \in PCS_STREAM_DATA
  BY OpenStream
<1>3. Data(s) = [Data(s) EXCEPT !.offset = Data(s).offset]
  BY <1>2 DEF PCS_STREAM_DATA
<1> QED BY <1>1, <1>2, <1>3 DEF Data

LEMMA SeekInBufferKeepsInv ==
    ASSUME StreamInv, NEW s \in handles, NEW whence \in {"SET", "CUR", "END"},
           NEW off \in Offset, SeekInBuffer(s, whence, off)
    PROVE  StreamInv'
<1> DEFINE old == stream[s].buffer
           pos == stream[s].position
           o == Data(s).offset
           k == IF whence = "CUR" THEN off ELSE off - pos
           b == SubSeq(old, k + 1, Len(old))
<1>1. s \in Stream /\ IsOpen(s) /\ ~IsDir(Data(s).node)
  BY DEF SeekInBuffer, StreamInv, StreamTypeOK
<1>2. /\ old \in Seq(Byte) /\ pos \in Nat /\ pos + Len(old) = o
      /\ o \in 0..Size(Data(s).node) /\ Size(Data(s).node) \in Nat
  BY <1>1, OpenStream, SizeType
<1>3. stream' = [stream EXCEPT ![s] = [@ EXCEPT !.buffer = b, !.position = pos + k, !.eof = FALSE]]
  BY DEF SeekInBuffer
<1>4. k \in 1..Len(old)
  BY DEF SeekInBuffer, InBuffer
<1>5. UNCHANGED <<stringVars, dp, handles>>
  BY DEF SeekInBuffer
<1>6. dp' = [dp EXCEPT ![stream[s].dp] = [@ EXCEPT !.offset = o]]
  BY <1>1, <1>5, DataSame
<1> HIDE DEF k
<1>7. Len(old) \in Nat /\ old \in Seq(Byte)
  BY <1>2, LenProperties
<1> DEFINE l == Len(old)
<1>8. b \in Seq(Byte) /\ Len(b) = Len(old) - k
  <2>1. l \in Nat
    BY <1>7
  <2>2. k \in Nat
    BY <1>4, <1>7
  <2>3. k <= l /\ l <= Len(old)
    BY <1>4, <1>7
  <2> HIDE DEF l
  <2>4. SubSeq(old, k + 1, l) \in Seq(Byte) /\ Len(SubSeq(old, k + 1, l)) = l - k
    BY <1>7, <2>1, <2>2, <2>3, PartOfSeq
  <2> QED BY <2>4 DEF l
<1> HIDE DEF b, pos, l, old, o
<1>9. pos + k \in Nat
  BY <1>2, <1>4, <1>7
<1>10. pos + k + Len(b) = o
  <2>1. pos \in Nat
    BY <1>2
  <2>2. k \in Nat
    BY <1>4, <1>7
  <2>3. Len(old) \in Nat
    BY <1>7
  <2>4. pos + Len(old) = o
    BY <1>2
  <2>5. Len(b) = Len(old) - k
    BY <1>8
  <2> QED BY <2>1, <2>2, <2>3, <2>4, <2>5
<1> HIDE DEF SeekInBuffer
<1> DEFINE p == pos + k
<1>11. p \in Nat /\ p + Len(b) = o
  BY <1>9, <1>10
<1>12. stream' = [stream EXCEPT ![s] = [@ EXCEPT !.buffer = b, !.position = p, !.eof = FALSE]]
  BY <1>3
<1> HIDE DEF p
<1> QED BY <1>1, <1>2, <1>5, <1>6, <1>8, <1>11, <1>12, MovedKeepsInv

LEMMA SeekTargetsType ==
    ASSUME NEW d \in PCS_STREAM_DATA, d.offset \in 0..Size(d.node),
           NEW whence \in {"SET", "CUR", "END"}, NEW off \in Int,
           NEW to \in SeekTargets(d, whence, off)
    PROVE  to \in 0..Size(d.node)
<1>1. Size(d.node) \in Nat
  BY SizeType DEF PCS_STREAM_DATA
<1>2. d.offset \in Nat
  BY <1>1
<1>3. MaxOffset \in Nat
  BY StreamAssumption
<1> QED BY <1>1, <1>2, <1>3 DEF SeekTargets

LEMMA SeekKeepsInv ==
    ASSUME StreamInv, NEW s \in handles, NEW whence \in {"SET", "CUR", "END"},
           NEW off \in Offset, Seek(s, whence, off)
    PROVE  StreamInv'
<1>1. s \in Stream /\ IsOpen(s) /\ ~IsDir(Data(s).node)
  BY DEF Seek, StreamInv, StreamTypeOK
<1>2. /\ stream[s].position \in Nat /\ Data(s) \in PCS_STREAM_DATA
      /\ Data(s).offset \in 0..Size(Data(s).node)
      /\ Data(s).node \in Node /\ Size(Data(s).node) \in Nat
  BY <1>1, OpenStream, SizeType
<1>3. off \in Int
  BY StreamAssumption
<1>4. PICK to \in IF whence = "CUR"
                  THEN SeekTargets(Data(s), "SET", stream[s].position + off)
                  ELSE SeekTargets(Data(s), whence, off) :
         /\ dp' = [dp EXCEPT ![stream[s].dp].offset = to]
         /\ stream' = [stream EXCEPT ![s].buffer = <<>>, ![s].position = to,
                                     ![s].eof = FALSE]
         /\ UNCHANGED <<stringVars, handles>>
  BY DEF Seek
<1>5. to \in 0..Size(Data(s).node)
  <2>1. CASE whence = "CUR"
    <3>1. stream[s].position + off \in Int
      BY <1>2, <1>3
    <3>2. to \in SeekTargets(Data(s), "SET", stream[s].position + off)
      BY <1>4, <2>1
    <3> QED BY <1>2, <3>1, <3>2, SeekTargetsType
  <2>2. CASE whence # "CUR"
    <3>1. to \in SeekTargets(Data(s), whence, off)
      BY <1>4, <2>2
    <3> QED BY <1>2, <1>3, <3>1, SeekTargetsType
  <2> QED BY <2>1, <2>2
<1>6. to \in Nat /\ <<>> \in Seq(Byte) /\ Len(<<>>) = 0
  BY <1>2, <1>5
<1> DEFINE b == <<>>
<1>7. /\ dp' = [dp EXCEPT ![stream[s].dp] = [@ EXCEPT !.offset = to]]
      /\ stream' = [stream EXCEPT ![s] =
                      [@ EXCEPT !.buffer = b, !.position = to, !.eof = FALSE]]
  BY <1>4
<1>8. b \in Seq(Byte) /\ to + Len(b) = to
  BY <1>6
<1> HIDE DEF b
<1> QED BY <1>1, <1>4, <1>5, <1>6, <1>7, <1>8, MovedKeepsInv

\* Reading the next entry of a directory, and rewinding it, move offset and
\* position to o.
DirMove(s, o, e) ==
    /\ dp' = [dp EXCEPT ![stream[s].dp].offset = o]
    /\ stream' = [stream EXCEPT ![s].position = o, ![s].eof = e]
    /\ UNCHANGED <<stringVars, handles>>

LEMMA DirMoveKeepsInv ==
    ASSUME StreamInv, NEW s \in handles, IsDir(Data(s).node),
           NEW o, o \in 0..Size(Data(s).node), NEW e, e \in BOOLEAN,
           e => o = Size(Data(s).node),
           DirMove(s, o, e)
    PROVE  StreamInv'
<1>1. s \in Stream /\ IsOpen(s)
  BY DEF StreamInv, StreamTypeOK
<1>2. /\ stream[s] \in php_stream /\ stream[s].buffer = <<>>
      /\ Data(s).node \in Node /\ Size(Data(s).node) \in Nat
  BY <1>1, OpenStream, SizeType
<1> DEFINE b == <<>>
<1>3. [stream[s] EXCEPT !.buffer = b, !.position = o, !.eof = e]
        = [stream[s] EXCEPT !.position = o, !.eof = e]
  BY <1>2 DEF php_stream
<1>4. stream' = [stream EXCEPT ![s] = [@ EXCEPT !.buffer = b, !.position = o, !.eof = e]]
  BY <1>3 DEF DirMove
<1>5. dp' = [dp EXCEPT ![stream[s].dp] = [@ EXCEPT !.offset = o]]
  BY DEF DirMove
<1>6. o \in Nat
  BY <1>2
<1>7. b \in Seq(Byte)
  OBVIOUS
<1>8. o + Len(b) = o
  BY <1>6
<1>9. IsDir(Data(s).node) => b = <<>>
  OBVIOUS
<1>10. UNCHANGED <<stringVars, handles>>
  BY DEF DirMove
<1> HIDE DEF b
<1> QED BY <1>1, <1>4, <1>5, <1>6, <1>7, <1>8, <1>9, <1>10, MovedKeepsInv

LEMMA ReadDirKeepsInv ==
    ASSUME StreamInv, NEW s \in handles, ReadDir(s)
    PROVE  StreamInv'
<1> DEFINE d == Data(s)
           n == IF d.offset < Size(d.node) THEN 1 ELSE 0
           o == d.offset + n
           e == o = Size(d.node)
<1>1. s \in Stream /\ IsOpen(s) /\ IsDir(d.node)
  BY DEF ReadDir, StreamInv, StreamTypeOK
<1>2. /\ d.node \in Node /\ Size(d.node) \in Nat /\ d.offset \in 0..Size(d.node)
      /\ stream[s].position + Len(stream[s].buffer) = d.offset
      /\ stream[s].position \in Nat /\ stream[s].buffer = <<>>
  BY <1>1, OpenStream, SizeType
<1>3. stream[s].position = d.offset
  BY <1>2
<1>4. o \in 0..Size(d.node)
  BY <1>2
<1>5. /\ dp' = [dp EXCEPT ![stream[s].dp].offset = @ + n]
      /\ stream' = [stream EXCEPT ![s].position = @ + n, ![s].eof = e]
      /\ UNCHANGED <<stringVars, handles>>
  BY DEF ReadDir
<1>6. DirMove(s, o, e)
  BY <1>3, <1>5 DEF DirMove, Data
<1>7. e \in BOOLEAN /\ (e => o = Size(d.node))
  OBVIOUS
<1> HIDE DEF o, e
<1> QED BY <1>1, <1>4, <1>6, <1>7, DirMoveKeepsInv

LEMMA RewindDirKeepsInv ==
    ASSUME StreamInv, NEW s \in handles, RewindDir(s)
    PROVE  StreamInv'
<1>1. s \in Stream /\ IsOpen(s) /\ IsDir(Data(s).node)
  BY DEF RewindDir, StreamInv, StreamTypeOK
<1>2. Size(Data(s).node) \in Nat
  BY <1>1, OpenStream, SizeType
<1>3. 0 \in 0..Size(Data(s).node)
  BY <1>2
<1>4. DirMove(s, 0, FALSE)
  BY DEF RewindDir, DirMove
<1> QED BY <1>1, <1>3, <1>4, DirMoveKeepsInv

-----------------------------------------------------------------------------
\* Opening and closing

\* Steps that leave the streams alone
LEMMA StreamsUnchanged ==
    ASSUME StreamInv, StringsInv', UNCHANGED <<dp, stream, handles>>
    PROVE  StreamInv'
BY DEF StreamInv, StringsInv, StreamTypeOK, DataOwned, ReadAhead, DirUnbuffered, IsOpen,
   IsPersistent, Data

LEMMA SharedKept == ASSUME StringsInv, UNCHANGED stringVars PROVE StringsInv'
BY DEF StringsInv, WorkInv, stringVars

LEMMA ReturnPathKeepsInv ==
    ASSUME StringsInv, NEW n \in Node, NEW wanted \in BOOLEAN, ReturnPath(n, wanted)
    PROVE  StringsInv'
BY OpenedPathKeepsInv, SharedKept, StreamAssumption DEF ReturnPath

\* The private data of an open stream are not free.
LEMMA FreeUnused ==
    ASSUME StreamInv, NEW d \in Dp, dp[d] = Null, NEW s \in Stream, IsOpen(s)
    PROVE  stream[s].dp # d
BY DEF StreamInv, DataOwned, Data

\* What opening and closing have in common: the streams that are open afterwards and
\* were before keep their structure and their data.
LEMMA OthersKept ==
    ASSUME StreamInv, StringsInv',
           dp' \in [Dp -> PCS_STREAM_DATA \cup {Null}],
           stream' \in [Stream -> php_stream \cup {Null}],
           handles' \subseteq {s \in Stream : stream'[s] # Null},
           \A s \in Stream : stream'[s] # Null =>
               stream'[s] = stream[s] /\ dp'[stream[s].dp] = dp[stream[s].dp]
    PROVE  StreamInv'
<1>1. ASSUME NEW s \in Stream, stream'[s] # Null
      PROVE  /\ IsOpen(s) /\ stream'[s] = stream[s] /\ dp'[stream'[s].dp] = dp[stream[s].dp]
             /\ Data(s)' = Data(s) /\ IsPersistent(s)' = IsPersistent(s)
  BY <1>1 DEF IsOpen, Data, IsPersistent
<1>2. StreamTypeOK'
  BY DEF StringsInv, StreamTypeOK, IsOpen
<1>3. DataOwned'
  BY <1>1 DEF StreamInv, DataOwned, IsOpen, IsDir
<1>4. ReadAhead' /\ DirUnbuffered'
  BY <1>1 DEF StreamInv, ReadAhead, DirUnbuffered, IsOpen, IsDir, Size
<1> QED BY <1>2, <1>3, <1>4 DEF StreamInv

LEMMA CloseKeepsInv ==
    ASSUME StreamInv, NEW S \in SUBSET Stream, \A s \in S : IsOpen(s), Closed(S),
           handles' = handles \ S, UNCHANGED stringVars
    PROVE  StreamInv'
<1>1. /\ dp \in [Dp -> PCS_STREAM_DATA \cup {Null}]
      /\ stream \in [Stream -> php_stream \cup {Null}]
      /\ handles \subseteq {s \in Stream : IsOpen(s)}
  BY DEF StreamInv, StreamTypeOK
<1>2. /\ dp' = [d \in Dp |-> IF \E s \in S : stream[s].dp = d THEN Null ELSE dp[d]]
      /\ stream' = [s \in Stream |-> IF s \in S THEN Null ELSE stream[s]]
  BY DEF Closed
<1>3. /\ dp' \in [Dp -> PCS_STREAM_DATA \cup {Null}]
      /\ stream' \in [Stream -> php_stream \cup {Null}]
  BY <1>1, <1>2
<1>4. handles' \subseteq {s \in Stream : stream'[s] # Null}
  BY <1>1, <1>2 DEF IsOpen
<1>5. ASSUME NEW s \in Stream, stream'[s] # Null
      PROVE  stream'[s] = stream[s] /\ dp'[stream[s].dp] = dp[stream[s].dp]
  <2>1. s \notin S /\ stream'[s] = stream[s] /\ IsOpen(s)
    BY <1>2, <1>5 DEF IsOpen
  <2>2. stream[s].dp \in Dp
    BY <2>1, OpenStream
  <2>3. \A x \in S : stream[x].dp # stream[s].dp
    BY <2>1 DEF StreamInv, DataOwned
  <2> QED BY <1>2, <2>1, <2>2, <2>3
<1>6. StringsInv'
  BY SharedKept DEF StreamInv
<1> QED BY <1>3, <1>4, <1>5, <1>6, OthersKept

LEMMA EndRequestKeepsInv ==
    ASSUME StreamInv, EndRequest
    PROVE  StreamInv'
<1> DEFINE S == {s \in Stream : IsOpen(s) /\ ~IsPersistent(s)}
<1>1. /\ dp \in [Dp -> PCS_STREAM_DATA \cup {Null}]
      /\ stream \in [Stream -> php_stream \cup {Null}]
  BY DEF StreamInv, StreamTypeOK
<1>2. /\ dp' = [d \in Dp |-> IF dp[d] # Null /\ dp[d].persistent THEN dp[d] ELSE Null]
      /\ stream' = [s \in Stream |-> IF s \in S THEN Null ELSE stream[s]]
      /\ handles' = {}
      /\ UNCHANGED stringVars
  BY DEF EndRequest
<1>3. /\ dp' \in [Dp -> PCS_STREAM_DATA \cup {Null}]
      /\ stream' \in [Stream -> php_stream \cup {Null}]
  BY <1>1, <1>2
<1>4. handles' \subseteq {s \in Stream : stream'[s] # Null}
  BY <1>2
<1>5. ASSUME NEW s \in Stream, stream'[s] # Null
      PROVE  stream'[s] = stream[s] /\ dp'[stream[s].dp] = dp[stream[s].dp]
  <2>1. stream'[s] = stream[s] /\ IsOpen(s) /\ IsPersistent(s)
    BY <1>2, <1>5 DEF IsOpen
  <2>2. stream[s].dp \in Dp
    BY <2>1, OpenStream
  <2>3. dp[stream[s].dp] # Null /\ dp[stream[s].dp].persistent
    BY <2>1 DEF StreamInv, DataOwned, Data
  <2> QED BY <1>2, <2>1, <2>2, <2>3
<1>6. StringsInv'
  BY <1>2, SharedKept DEF StreamInv
<1> QED BY <1>3, <1>4, <1>5, <1>6, OthersKept

LEMMA OpenAgainKeepsInv ==
    ASSUME StreamInv, NEW u \in Uri, NEW how \in Mode, NEW wanted \in BOOLEAN,
           OpenAgain(u, how, wanted)
    PROVE  StreamInv'
<1> DEFINE d == FreeDp
           n == NodeFromURI(u)
<1>1. PICK s \in Stream :
        /\ stream[s] # Null
        /\ handles' = handles \cup {s}
  BY DEF OpenAgain
<1>2. /\ n # Null /\ ReturnPath(n, wanted) /\ stream' = stream
      /\ \E x \in Dp : dp[x] = Null
      /\ dp' = [dp EXCEPT ![d] = new_dp(TRUE, n)]
  BY DEF OpenAgain, MayOpen
<1>3. n \in Node
  BY <1>2, StreamAssumption DEF NodeFromURI
<1>4. d \in Dp /\ dp[d] = Null
  BY <1>2 DEF FreeDp
<1> HIDE DEF d, n
<1>5. new_dp(TRUE, n) \in PCS_STREAM_DATA
  BY <1>3 DEF new_dp, PCS_STREAM_DATA
<1>6. /\ dp \in [Dp -> PCS_STREAM_DATA \cup {Null}]
      /\ stream \in [Stream -> php_stream \cup {Null}]
      /\ handles \subseteq {x \in Stream : IsOpen(x)}
  BY DEF StreamInv, StreamTypeOK
<1>7. dp' \in [Dp -> PCS_STREAM_DATA \cup {Null}]
  BY <1>2, <1>5, <1>6
<1>8. handles' \subseteq {x \in Stream : stream'[x] # Null}
  BY <1>1, <1>2, <1>6 DEF IsOpen
<1>9. ASSUME NEW x \in Stream, stream'[x] # Null
      PROVE  stream'[x] = stream[x] /\ dp'[stream[x].dp] = dp[stream[x].dp]
  <2>1. IsOpen(x) /\ stream'[x] = stream[x]
    BY <1>2, <1>9 DEF IsOpen
  <2>2. stream[x].dp \in Dp /\ stream[x].dp # d
    BY <1>4, <2>1, OpenStream, FreeUnused
  <2> QED BY <1>2, <1>6, <2>1, <2>2
<1>10. StringsInv'
  BY <1>2, <1>3, ReturnPathKeepsInv DEF StreamInv
<1> QED BY <1>2, <1>6, <1>7, <1>8, <1>9, <1>10, OthersKept

LEMMA OpenNewKeepsInv ==
    ASSUME StreamInv, NEW u \in Uri, NEW how \in Mode \cup {"dir"},
           NEW persistent \in BOOLEAN, NEW wanted \in BOOLEAN,
           how = "dir" => ~persistent,
           OpenNew(u, how, persistent, wanted)
    PROVE  StreamInv'
<1>0. PICK s \in Stream : s = FreeStream /\ stream[s] = Null
  BY DEF OpenNew, FreeStream
<1> DEFINE d == FreeDp
           n == NodeFromURI(u)
           id == IF persistent THEN PersistentId(u, how) ELSE Null
           q == new_dp(persistent, n)
           r == [dp |-> d, id |-> id, eof |-> FALSE, position |-> 0, buffer |-> <<>>]
<1>1. /\ n # Null /\ (how = "dir" <=> IsDir(n)) /\ ReturnPath(n, wanted)
      /\ \E x \in Dp : dp[x] = Null
      /\ dp' = [dp EXCEPT ![d] = q]
      /\ stream' = [stream EXCEPT ![s] = r]
      /\ handles' = handles \cup {s}
  BY <1>0, StreamAssumption DEF OpenNew, MayOpen
<1>2. n \in Node
  BY <1>1, StreamAssumption DEF NodeFromURI
<1>4. d \in Dp /\ dp[d] = Null
  BY <1>1 DEF FreeDp
<1>5. id \in (Mode \X Node) \cup {Null} /\ (id # Null <=> persistent)
  BY <1>2, StreamAssumption DEF PersistentId
<1>6. IsDir(n) => ~persistent
  BY <1>1
<1> HIDE DEF d, n, id
<1>7. /\ r \in php_stream /\ r.dp = d /\ r.id = id /\ r.buffer = <<>>
      /\ r.position = 0 /\ r.eof = FALSE
  BY <1>4, <1>5 DEF php_stream
<1>8. q \in PCS_STREAM_DATA /\ q.node = n /\ q.offset = 0 /\ q.persistent = persistent
  BY <1>2 DEF new_dp, PCS_STREAM_DATA
<1>9. r # Null /\ q # Null
  BY <1>7, <1>8, StreamAssumption
<1> HIDE DEF r, q
<1>10. /\ dp \in [Dp -> PCS_STREAM_DATA \cup {Null}]
       /\ stream \in [Stream -> php_stream \cup {Null}]
       /\ handles \subseteq {x \in Stream : IsOpen(x)}
  BY DEF StreamInv, StreamTypeOK
<1>11. /\ dp' \in [Dp -> PCS_STREAM_DATA \cup {Null}]
       /\ stream' \in [Stream -> php_stream \cup {Null}]
       /\ dp'[d] = q /\ stream'[s] = r
  BY <1>1, <1>4, <1>7, <1>8, <1>10
<1>12. ASSUME NEW x \in Stream, x # s, stream'[x] # Null
       PROVE  /\ IsOpen(x) /\ stream'[x] = stream[x] /\ dp'[stream'[x].dp] = dp[stream[x].dp]
              /\ stream'[x].dp # d
              /\ Data(x)' = Data(x) /\ IsPersistent(x)' = IsPersistent(x)
  <2>1. IsOpen(x) /\ stream'[x] = stream[x]
    BY <1>1, <1>10, <1>12 DEF IsOpen
  <2>2. stream[x].dp \in Dp /\ stream[x].dp # d
    BY <1>4, <2>1, OpenStream, FreeUnused
  <2>3. dp'[stream[x].dp] = dp[stream[x].dp]
    BY <1>1, <1>10, <2>2
  <2> QED BY <2>1, <2>2, <2>3 DEF Data, IsPersistent, IsOpen
<1>13. Data(s)' = q /\ IsPersistent(s)' = persistent
  <2>1. Data(s)' = dp'[r.dp]
    BY <1>11 DEF Data
  <2>2. IsPersistent(s)' = (r # Null /\ r.id # Null)
    BY <1>11 DEF IsPersistent, IsOpen
  <2> QED BY <1>5, <1>7, <1>9, <1>11, <2>1, <2>2
<1>14. StringsInv'
  BY <1>1, <1>2, ReturnPathKeepsInv DEF StreamInv
<1>15. StreamTypeOK'
  <2>1. \A x \in handles' : x \in Stream /\ stream'[x] # Null
    BY <1>1, <1>9, <1>10, <1>11 DEF IsOpen
  <2> QED BY <1>11, <1>14, <2>1 DEF StringsInv, StreamTypeOK, IsOpen
<1>16. DataOwned'
  <2> SUFFICES ASSUME NEW x \in Stream, stream'[x] # Null
               PROVE  /\ Data(x)' # Null
                      /\ Data(x)'.persistent = IsPersistent(x)'
                      /\ IsDir(Data(x)'.node) => ~IsPersistent(x)'
                      /\ \A y \in Stream \ {x} : stream'[y] # Null =>
                            stream'[y].dp # stream'[x].dp
    BY DEF DataOwned, IsOpen, IsDir
  <2>1. CASE x = s
    <3>1. Data(x)' = q /\ stream'[x].dp = d
      BY <1>7, <1>11, <1>13, <2>1
    <3>2. IsPersistent(x)' = persistent
      BY <1>13, <2>1
    <3>3. IsDir(Data(x)'.node) => ~IsPersistent(x)'
      BY <1>6, <1>8, <3>1, <3>2
    <3>4. Data(x)'.persistent = IsPersistent(x)'
      BY <1>8, <3>1, <3>2
    <3>5. \A y \in Stream \ {x} : stream'[y] # Null => stream'[y].dp # d
      BY <1>12, <2>1
    <3> QED BY <1>9, <3>1, <3>3, <3>4, <3>5
  <2>2. CASE x # s
    <3>1. /\ IsOpen(x) /\ stream'[x] = stream[x] /\ stream'[x].dp # d
          /\ Data(x)' = Data(x) /\ IsPersistent(x)' = IsPersistent(x)
      BY <1>12, <2>2
    <3>2. ASSUME NEW y \in Stream \ {x}, stream'[y] # Null
          PROVE  stream'[y].dp # stream'[x].dp
      <4>1. CASE y = s
        BY <1>7, <1>11, <3>1, <4>1
      <4>2. CASE y # s
        BY <1>12, <3>1, <3>2, <4>2 DEF StreamInv, DataOwned
      <4> QED BY <4>1, <4>2
    <3>3. /\ Data(x) # Null /\ Data(x).persistent = IsPersistent(x)
          /\ IsDir(Data(x).node) => ~IsPersistent(x)
      BY <3>1 DEF StreamInv, DataOwned
    <3> QED BY <3>1, <3>2, <3>3
  <2> QED BY <2>1, <2>2
<1>17. ReadAhead' /\ DirUnbuffered'
  <2> SUFFICES ASSUME NEW x \in Stream, stream'[x] # Null
               PROVE  /\ Data(x)'.offset \in 0..Size(Data(x)'.node)
                      /\ stream'[x].position + Len(stream'[x].buffer) = Data(x)'.offset
                      /\ stream'[x].eof => Data(x)'.offset = Size(Data(x)'.node)
                      /\ IsDir(Data(x)'.node) => stream'[x].buffer = <<>>
    BY DEF ReadAhead, DirUnbuffered, IsOpen, IsDir, Size
  <2>1. CASE x = s
    <3>1. Size(n) \in Nat
      BY <1>2, SizeType
    <3>2. 0 \in 0..Size(n)
      BY <3>1
    <3>3. Data(x)'.offset = 0 /\ Data(x)'.node = n
      BY <1>8, <1>13, <2>1
    <3>4. stream'[x].position = 0 /\ stream'[x].buffer = <<>> /\ stream'[x].eof = FALSE
      BY <1>7, <1>11, <2>1
    <3>5. stream'[x].position + Len(stream'[x].buffer) = 0
      BY <3>4
    <3> QED BY <3>2, <3>3, <3>4, <3>5
  <2>2. CASE x # s
    BY <1>12, <2>2 DEF StreamInv, ReadAhead, DirUnbuffered
  <2> QED BY <2>1, <2>2
<1> QED BY <1>14, <1>15, <1>16, <1>17 DEF StreamInv

-----------------------------------------------------------------------------

LEMMA StringsPart ==
    ASSUME StreamInv, StringsStep, UNCHANGED <<dp, stream, handles>>
    PROVE  StreamInv'
BY StringsStepKeepsInv, StreamsUnchanged DEF StreamInv

LEMMA ReleaseAllKeepsInv ==
    ASSUME StreamInv, ReleaseAll, UNCHANGED <<dp, stream, handles>>
    PROVE  StreamInv'
<1>1. \A s \in String : Owners(s) \in Nat
  BY DEF Owners
<1>2. refs' \in [String -> Nat]
  BY <1>1 DEF ReleaseAll, StreamInv, StringsInv
<1>3. StringsInv'
  BY <1>2 DEF ReleaseAll, StreamInv, StringsInv, WorkInv
<1> QED BY <1>3, StreamsUnchanged

LEMMA StreamInvNext == StreamInv /\ [StreamNext]_allVars => StreamInv'
<1> SUFFICES ASSUME StreamInv, [StreamNext]_allVars PROVE StreamInv'
  OBVIOUS
<1>0. CASE UNCHANGED allVars
  <2>1. StringsInv'
    BY <1>0, SharedKept DEF StreamInv, allVars
  <2> QED BY <1>0, <2>1, StreamsUnchanged DEF allVars, streamVars
<1>1. CASE StringsStep /\ last' = NoOp /\ UNCHANGED <<dp, stream, handles>>
  BY <1>1, StringsPart
<1>2. ASSUME NEW u \in Uri, NEW how \in Mode \cup {"dir"}, AbortOpen(u, how) PROVE StreamInv'
  BY <1>2, SharedKept, StreamsUnchanged DEF AbortOpen, StreamInv
<1>3. ASSUME NEW u \in Uri, OpenNew(u, "dir", FALSE, FALSE) PROVE StreamInv'
  BY <1>3, OpenNewKeepsInv
<1>4. ASSUME NEW u \in Uri, NEW how \in Mode, NEW wanted \in BOOLEAN,
             NEW persistent \in BOOLEAN, OpenNew(u, how, persistent, wanted)
      PROVE  StreamInv'
  BY <1>4, OpenNewKeepsInv, StreamAssumption
<1>5. ASSUME NEW u \in Uri, NEW how \in Mode, NEW wanted \in BOOLEAN,
             OpenAgain(u, how, wanted)
      PROVE  StreamInv'
  BY <1>5, OpenAgainKeepsInv
<1>6. ASSUME NEW u \in Uri, Stat(u) PROVE StreamInv'
  BY <1>6, SharedKept, StreamsUnchanged DEF Stat, StreamInv
<1>7. ASSUME NEW s \in handles, NEW size \in ReadSize, Read(s, size) PROVE StreamInv'
  BY <1>7, ReadKeepsInv
<1>8. ASSUME NEW s \in handles, NEW whence \in {"SET", "CUR", "END"}, NEW off \in Offset,
             SeekInBuffer(s, whence, off) \/ Seek(s, whence, off)
      PROVE  StreamInv'
  BY <1>8, SeekInBufferKeepsInv, SeekKeepsInv
<1>9. ASSUME NEW s \in handles, ReadDir(s) \/ RewindDir(s) PROVE StreamInv'
  BY <1>9, ReadDirKeepsInv, RewindDirKeepsInv
<1>10. ASSUME NEW s \in handles, Close(s) PROVE StreamInv'
  <2>1. {s} \in SUBSET Stream /\ \A x \in {s} : IsOpen(x)
    BY DEF StreamInv, StreamTypeOK
  <2> QED BY <1>10, <2>1, CloseKeepsInv DEF Close
<1>11. CASE EndRequest
  BY <1>11, EndRequestKeepsInv
<1>12. CASE CloseAll
  <2> DEFINE S == {s \in Stream : IsOpen(s)}
  <2>1. S \in SUBSET Stream /\ \A x \in S : IsOpen(x)
    OBVIOUS
  <2>2. Closed(S) /\ handles' = handles \ S /\ UNCHANGED stringVars
    BY <1>12 DEF CloseAll
  <2> HIDE DEF S
  <2> QED BY <2>1, <2>2, CloseKeepsInv
<1>13. CASE ReleaseAll /\ UNCHANGED streamVars
  BY <1>13, ReleaseAllKeepsInv DEF streamVars
<1> QED BY <1>0, <1>1, <1>2, <1>3, <1>4, <1>5, <1>6, <1>7, <1>8, <1>9, <1>10, <1>11, <1>12,
           <1>13 DEF StreamNext

\* What opened, read, moved and closed streams keep, whatever is done to them and in
\* whichever request.
THEOREM StreamInvariant == StreamSpec => []StreamInv
<1> QED BY StreamInvInit, StreamInvNext, PTL DEF StreamSpec

\* The counts, the private data and the streams of PCS_Stream.c stay what they are
\* declared as; PHP code only ever holds open streams.
THEOREM StreamTypes == StreamSpec => []StreamTypeOK
<1>1. StreamInv => StreamTypeOK
  BY DEF StreamInv
<1> QED BY <1>1, StreamInvariant, PTL

\* No stream ever uses private data that close(), the end of a request or another
\* stream has freed, and none is left with data of another lifetime.
THEOREM DataIsOwned == StreamSpec => []DataOwned
<1>1. StreamInv => DataOwned
  BY DEF StreamInv
<1> QED BY <1>1, StreamInvariant, PTL

\* Offsets never leave the node, whatever is sought, and agree with what was read
\* ahead; end of file is never early.
THEOREM ReadAheadAgrees == StreamSpec => []ReadAhead
<1>1. StreamInv => ReadAhead
  BY DEF StreamInv
<1> QED BY <1>1, StreamInvariant, PTL

-----------------------------------------------------------------------------
\* The refinement of ReadCursor.  The offset is that of the stream layer, so that
\* what is in the buffer must be known: it is what comes after the position that
\* PHP code sees.  And a persistent stream must be found by the node it reads.

\* b is what the node n holds behind its first pos items.
Window(n, pos, b) == \A i \in 1..Len(b) : b[i] = Items[n][pos + i]

BufferExact ==
    \A s \in Stream : IsOpen(s) => Window(Data(s).node, stream[s].position, stream[s].buffer)

IdExact ==
    \A s \in Stream : IsPersistent(s) =>
        \E how \in Mode : stream[s].id = <<how, Data(s).node>>

CursorInv == StreamInv /\ BufferExact /\ IdExact

LEMMA WindowOfRead ==
    ASSUME NEW d \in PCS_STREAM_DATA, ~IsDir(d.node), d.offset \in 0..Size(d.node)
    PROVE  Window(d.node, d.offset, StreamRead(d, Chunk).data)
<1> DEFINE max == Size(d.node) - d.offset
           c == IF Chunk > max THEN max ELSE Chunk
           data == SubSeq(Items[d.node], d.offset + 1, d.offset + c)
<1>1. d.node \in Node
  BY DEF PCS_STREAM_DATA, IsDir
<1>2. Size(d.node) \in Nat /\ Items[d.node] \in Seq(Item(d.node)) /\ Len(Items[d.node]) = Size(d.node)
  BY <1>1, SizeType DEF Size
<1>3. c \in 0..max /\ max \in Nat /\ d.offset \in Nat
  BY <1>2, StreamAssumption
<1>4. StreamRead(d, Chunk).data = data
  BY DEF StreamRead
<1> DEFINE m == d.offset
           o == m + c
<1>5. m + 1 \in Int /\ o \in Int /\ m \in Nat /\ o \in Nat /\ m <= o /\ o <= Len(Items[d.node])
  BY <1>2, <1>3
<1> HIDE DEF m, o
<1>6. \A i \in (m + 1)..o : Items[d.node][i] \in Item(d.node)
  BY <1>2, <1>5, ElementOfSeq
<1>7. /\ Len(SubSeq(Items[d.node], m + 1, o)) = IF m + 1 <= o THEN o - (m + 1) + 1 ELSE 0
      /\ \A i \in 1..(o - (m + 1) + 1) : SubSeq(Items[d.node], m + 1, o)[i]
                                           = Items[d.node][(m + 1) + i - 1]
  BY <1>5, <1>6, SubSeqProperties
<1> DEFINE w == SubSeq(Items[d.node], m + 1, o)
<1> HIDE DEF w
<1>8. Len(w) = o - m /\ \A i \in 1..(o - m) : w[i] = Items[d.node][m + i]
  BY <1>5, <1>7 DEF w
<1>9. Window(d.node, m, w)
  BY <1>8 DEF Window
<1> QED BY <1>4, <1>9 DEF w, m, o

LEMMA WindowConcat ==
    ASSUME NEW n, NEW pos \in Nat, NEW old \in Seq(Byte), NEW more \in Seq(Byte),
           Window(n, pos, old), Window(n, pos + Len(old), more)
    PROVE  Window(n, pos, old \o more)
<1> DEFINE w == old \o more
<1>1. /\ Len(old) \in Nat /\ Len(more) \in Nat /\ Len(w) = Len(old) + Len(more)
      /\ \A i \in 1..Len(old) : w[i] = old[i]
      /\ \A i \in (Len(old) + 1)..(Len(old) + Len(more)) : w[i] = more[i - Len(old)]
  BY LenProperties, ConcatProperties
<1> HIDE DEF w
<1>2. ASSUME NEW i \in 1..Len(w) PROVE w[i] = Items[n][pos + i]
  <2>1. CASE i \in 1..Len(old)
    BY <1>1, <2>1 DEF Window
  <2>2. CASE i \notin 1..Len(old)
    <3>1. i - Len(old) \in 1..Len(more) /\ i \in (Len(old) + 1)..(Len(old) + Len(more))
      BY <1>1, <2>2
    <3>2. pos + Len(old) + (i - Len(old)) = pos + i
      BY <1>1
    <3>3. more[i - Len(old)] = Items[n][pos + i]
      BY <3>1, <3>2 DEF Window
    <3> QED BY <1>1, <3>1, <3>3
  <2> QED BY <2>1, <2>2
<1> QED BY <1>2 DEF Window, w

\* Taking k items from the front
LEMMA WindowTaken ==
    ASSUME NEW n \in Node, NEW pos \in Nat, NEW b \in Seq(Byte), NEW k \in Nat,
           k <= Len(b), pos + Len(b) <= Size(n), Window(n, pos, b)
    PROVE  /\ Window(n, pos + k, SubSeq(b, k + 1, Len(b)))
           /\ SubSeq(b, 1, k) = SubSeq(Items[n], pos + 1, pos + k)
<1> DEFINE l == Len(b)
<1>1. l \in Nat /\ \A i \in 1..l : b[i] \in Byte
  BY LenProperties, ElementOfSeq
<1>2. Items[n] \in Seq(Item(n)) /\ Len(Items[n]) = Size(n) /\ Size(n) \in Nat
  BY SizeType DEF Size
<1>3. \A i \in 1..l : b[i] = Items[n][pos + i]
  BY DEF Window
<1>4. k <= l /\ pos + l <= Size(n)
  OBVIOUS
<1> HIDE DEF l
<1>5. Window(n, pos + k, SubSeq(b, k + 1, l))
  <2> DEFINE w == SubSeq(b, k + 1, l)
  <2>1. \A i \in (k + 1)..l : b[i] \in Byte
    BY <1>1
  <2>2. /\ Len(w) = IF k + 1 <= l THEN l - (k + 1) + 1 ELSE 0
        /\ \A i \in 1..(l - (k + 1) + 1) : w[i] = b[(k + 1) + i - 1]
    BY <1>1, <2>1, SubSeqProperties
  <2> HIDE DEF w
  <2>3. Len(w) = l - k
    BY <1>1, <1>4, <2>2
  <2>4. ASSUME NEW i \in 1..Len(w) PROVE w[i] = Items[n][(pos + k) + i]
    <3>1. /\ i \in 1..(l - (k + 1) + 1) /\ (k + 1) + i - 1 = k + i /\ k + i \in 1..l
          /\ pos + (k + i) = (pos + k) + i
      BY <1>1, <2>3
    <3> QED BY <1>3, <2>2, <3>1
  <2> QED BY <2>4 DEF Window, w
<1>6. SubSeq(b, 1, k) = SubSeq(Items[n], pos + 1, pos + k)
  <2> DEFINE u == SubSeq(b, 1, k)
             v == SubSeq(Items[n], pos + 1, pos + k)
  <2>1. /\ u \in Seq(Byte) /\ Len(u) = k /\ \A i \in 1..k : u[i] = b[i]
    <3>1. \A i \in 1..k : b[i] \in Byte
      BY <1>1, <1>4
    <3>2. /\ u \in Seq(Byte) /\ Len(u) = IF 1 <= k THEN k - 1 + 1 ELSE 0
          /\ \A i \in 1..(k - 1 + 1) : u[i] = b[1 + i - 1]
      BY <3>1, SubSeqProperties
    <3> HIDE DEF u
    <3> QED BY <3>2
  <2>2. v \in Seq(Item(n)) /\ Len(v) = k /\ \A i \in 1..k : v[i] = Items[n][pos + i]
    <3>1. \A i \in (pos + 1)..(pos + k) : Items[n][i] \in Item(n)
      <4>1. \A i \in (pos + 1)..(pos + k) : i \in 1..Len(Items[n])
        BY <1>1, <1>2, <1>4
      <4> QED BY <1>2, <4>1, ElementOfSeq
    <3>2. /\ v \in Seq(Item(n))
          /\ Len(v) = IF pos + 1 <= pos + k THEN pos + k - (pos + 1) + 1 ELSE 0
          /\ \A i \in 1..(pos + k - (pos + 1) + 1) : v[i] = Items[n][(pos + 1) + i - 1]
      BY <3>1, SubSeqProperties
    <3> HIDE DEF v
    <3>3. pos + k - (pos + 1) + 1 = k /\ (pos + 1 <= pos + k <=> 1 <= k)
          /\ \A i \in 1..k : (pos + 1) + i - 1 = pos + i
      OBVIOUS
    <3> QED BY <3>2, <3>3
  <2> HIDE DEF u, v
  <2>3. ASSUME NEW i \in 1..k PROVE u[i] = v[i]
    <3>1. i \in 1..l
      BY <1>1, <1>4
    <3> QED BY <1>3, <2>1, <2>2, <3>1
  <2>4. u = v
    BY <2>1, <2>2, <2>3, SeqEqual
  <2> QED BY <2>4 DEF u, v
<1> QED BY <1>5, <1>6 DEF l

-----------------------------------------------------------------------------
\* What moving a stream does to the cursors
Moves(s, o, b, p, e) ==
    /\ dp' = [dp EXCEPT ![stream[s].dp] = [@ EXCEPT !.offset = o]]
    /\ stream' = [stream EXCEPT ![s] =
                    [@ EXCEPT !.buffer = b, !.position = p, !.eof = e]]
    /\ handles' = handles

LEMMA MovedExact ==
    ASSUME CursorInv, StreamInv', NEW s \in handles,
           NEW o, NEW b, NEW p, NEW e, Window(Data(s).node, p, b),
           Moves(s, o, b, p, e)
    PROVE  /\ BufferExact' /\ IdExact'
           /\ Cursor' = [Cursor EXCEPT ![s].pos = p]
<1> DEFINE d == stream[s].dp
           r == [stream[s] EXCEPT !.buffer = b, !.position = p, !.eof = e]
           q == [dp[d] EXCEPT !.offset = o]
<1>0. /\ StreamInv /\ BufferExact /\ IdExact
      /\ s \in Stream /\ IsOpen(s) /\ stream'[s] # Null
  BY DEF CursorInv, StreamInv, StreamTypeOK, IsOpen, Moves
<1>1. stream[s] \in php_stream /\ d \in Dp /\ dp[d] \in PCS_STREAM_DATA /\ stream[s] # Null
  BY <1>0, OpenStream DEF Data, IsOpen
<1>2. /\ dp \in [Dp -> PCS_STREAM_DATA \cup {Null}]
      /\ stream \in [Stream -> php_stream \cup {Null}]
  BY <1>0 DEF StreamInv, StreamTypeOK
<1>3. /\ r.dp = d /\ r.id = stream[s].id /\ r.buffer = b /\ r.position = p
      /\ q.node = dp[d].node
  BY <1>1 DEF php_stream, PCS_STREAM_DATA
<1>4. dp' = [dp EXCEPT ![d] = q] /\ stream' = [stream EXCEPT ![s] = r]
  BY DEF Moves
<1> HIDE DEF r, q
<1>5. dp'[d] = q /\ stream'[s] = r /\ r # Null
  BY <1>0, <1>1, <1>2, <1>4
<1>6. /\ Data(s)'.node = Data(s).node /\ IsPersistent(s)' = IsPersistent(s)
      /\ stream'[s].buffer = b /\ stream'[s].position = p /\ stream'[s].id = stream[s].id
  BY <1>0, <1>3, <1>5 DEF Data, IsPersistent, IsOpen
<1>7. ASSUME NEW x \in Stream, x # s
      PROVE  /\ stream'[x] = stream[x] /\ IsOpen(x)' = IsOpen(x)
             /\ IsPersistent(x)' = IsPersistent(x)
             /\ IsOpen(x) => Data(x)' = Data(x)
  <2>1. stream'[x] = stream[x]
    BY <1>2, <1>4, <1>7
  <2>2. ASSUME IsOpen(x) PROVE dp'[stream[x].dp] = dp[stream[x].dp]
    <3>1. stream[x].dp \in Dp /\ stream[x].dp # d
      BY <1>0, <1>7, <2>2, OpenStream DEF StreamInv, DataOwned
    <3> QED BY <1>2, <1>4, <3>1
  <2> QED BY <2>1, <2>2 DEF Data, IsOpen, IsPersistent
<1>8. BufferExact'
  <2> SUFFICES ASSUME NEW x \in Stream, IsOpen(x)'
               PROVE  Window(Data(x)'.node, stream'[x].position, stream'[x].buffer)
    BY DEF BufferExact, Window
  <2>1. CASE x = s
    BY <1>6, <2>1
  <2>2. CASE x # s
    BY <1>0, <1>7, <2>2 DEF BufferExact
  <2> QED BY <2>1, <2>2
<1>9. IdExact'
  <2> SUFFICES ASSUME NEW x \in Stream, IsPersistent(x)'
               PROVE  \E how \in Mode : stream'[x].id = <<how, Data(x)'.node>>
    BY DEF IdExact
  <2>1. IsPersistent(x) /\ IsOpen(x) /\ stream'[x].id = stream[x].id /\ Data(x)'.node = Data(x).node
    BY <1>0, <1>6, <1>7 DEF IsPersistent
  <2> QED BY <1>0, <2>1 DEF IdExact
<1>10. Cursor' = [Cursor EXCEPT ![s].pos = p]
  <2>1. ASSUME NEW x \in Stream PROVE Cursor'[x] = [Cursor EXCEPT ![s].pos = p][x]
    <3>1. CASE x = s
      <4>1. Cursor'[s] = [node |-> Data(s)'.node, pos |-> stream'[s].position,
                          shared |-> IsPersistent(s)']
        BY <1>0 DEF Cursor, IsOpen
      <4>2. Cursor[s] = [node |-> Data(s).node, pos |-> stream[s].position,
                         shared |-> IsPersistent(s)]
        BY <1>0 DEF Cursor
      <4>3. [Cursor[s] EXCEPT !.pos = p] = [node |-> Data(s).node, pos |-> p,
                                            shared |-> IsPersistent(s)]
        BY <4>2
      <4>4. s \in DOMAIN Cursor
        BY <1>0 DEF Cursor
      <4> QED BY <1>6, <3>1, <4>1, <4>3, <4>4
    <3>2. CASE x # s
      <4>1. Cursor'[x] = Cursor[x]
        BY <1>7, <3>2 DEF Cursor
      <4>2. x \in DOMAIN Cursor
        BY DEF Cursor
      <4> QED BY <3>2, <4>1, <4>2
    <3> QED BY <3>1, <3>2
  <2>2. Cursor' = [x \in Stream |-> Cursor'[x]]
    BY DEF Cursor
  <2>3. [Cursor EXCEPT ![s].pos = p] = [x \in Stream |-> [Cursor EXCEPT ![s].pos = p][x]]
    <3>1. DOMAIN Cursor = Stream
      BY DEF Cursor
    <3> QED BY <3>1
  <2> QED BY <2>1, <2>2, <2>3
<1> QED BY <1>8, <1>9, <1>10

\* What opening and closing do: the streams that are open afterwards, except s, were
\* open before and keep structure and data.
Kept(x) == IsOpen(x) /\ stream'[x] = stream[x] /\ dp'[stream[x].dp] = dp[stream[x].dp]

LEMMA KeptExact ==
    ASSUME CursorInv, \A x \in Stream : stream'[x] # Null => Kept(x)
    PROVE  /\ BufferExact' /\ IdExact'
           /\ Cursor' = [x \in Stream |-> IF stream'[x] = Null THEN Null ELSE Cursor[x]]
<1>1. ASSUME NEW x \in Stream, stream'[x] # Null
      PROVE  /\ IsOpen(x) /\ stream'[x] = stream[x]
             /\ Data(x)' = Data(x) /\ IsPersistent(x)' = IsPersistent(x)
  BY <1>1 DEF Kept, Data, IsPersistent, IsOpen
<1>2. BufferExact'
  <2> SUFFICES ASSUME NEW x \in Stream, stream'[x] # Null
               PROVE  Window(Data(x)'.node, stream'[x].position, stream'[x].buffer)
    BY DEF BufferExact, Window, IsOpen
  <2> QED BY <1>1 DEF CursorInv, BufferExact
<1>3. IdExact'
  <2> SUFFICES ASSUME NEW x \in Stream, stream'[x] # Null, IsPersistent(x)'
               PROVE  \E how \in Mode : stream'[x].id = <<how, Data(x)'.node>>
    BY DEF IdExact, IsPersistent, IsOpen
  <2> QED BY <1>1 DEF CursorInv, IdExact
<1>4. ASSUME NEW x \in Stream
      PROVE  Cursor'[x] = IF stream'[x] = Null THEN Null ELSE Cursor[x]
  <2>1. Cursor'[x] = IF stream'[x] = Null THEN Null
                     ELSE [node |-> Data(x)'.node, pos |-> stream'[x].position,
                           shared |-> IsPersistent(x)']
    BY DEF Cursor, IsOpen
  <2>2. IsOpen(x) => Cursor[x] = [node |-> Data(x).node, pos |-> stream[x].position,
                                  shared |-> IsPersistent(x)]
    BY DEF Cursor
  <2> QED BY <1>1, <2>1, <2>2
<1>5. Cursor' = [x \in Stream |-> Cursor'[x]]
  BY DEF Cursor
<1> QED BY <1>2, <1>3, <1>4, <1>5

\* Steps that leave the streams alone
LEMMA SameExact ==
    ASSUME CursorInv, UNCHANGED <<dp, stream>>
    PROVE  BufferExact' /\ IdExact' /\ UNCHANGED Cursor
BY DEF CursorInv, BufferExact, IdExact, Window, Cursor, Data, IsOpen, IsPersistent

-----------------------------------------------------------------------------
\* The steps, one by one

LEMMA CursorOf ==
    ASSUME StreamInv, NEW s \in Stream, IsOpen(s)
    PROVE  /\ Cursor[s] = [node |-> Data(s).node, pos |-> stream[s].position,
                           shared |-> IsPersistent(s)]
           /\ Cursor[s] # Null /\ s \in RC!Open
<1>1. Cursor[s] = [node |-> Data(s).node, pos |-> stream[s].position,
                   shared |-> IsPersistent(s)]
  BY DEF Cursor
<1>2. IsPersistent(s) \in BOOLEAN
  BY DEF IsPersistent
<1>3. Cursor[s] # Null
  BY <1>1, <1>2, OpenStream, StreamAssumption
<1> QED BY <1>1, <1>3 DEF RC!Open

CursorStep == BufferExact' /\ IdExact' /\ [RC!Next]_<<Cursor, last>>

LEMMA ReadStep ==
    ASSUME CursorInv, StreamInv', NEW s \in handles, NEW size \in ReadSize, Read(s, size)
    PROVE  CursorStep
<1> DEFINE old == stream[s].buffer
           d == Data(s)
           r == IF Len(old) < size THEN StreamRead(d, Chunk)
                ELSE [data |-> <<>>, offset |-> d.offset, eof |-> stream[s].eof]
           bytes == old \o r.data
           k == IF size > Len(bytes) THEN Len(bytes) ELSE size
           b == SubSeq(bytes, k + 1, Len(bytes))
           pos == stream[s].position
<1>0. StreamInv /\ BufferExact /\ size \in Nat \ {0}
  BY StreamAssumption DEF CursorInv
<1>1. s \in Stream /\ IsOpen(s) /\ ~IsDir(d.node)
  BY <1>0 DEF Read, StreamInv, StreamTypeOK
<1>2. /\ dp' = [dp EXCEPT ![stream[s].dp].offset = r.offset]
      /\ stream' = [stream EXCEPT ![s].buffer = b, ![s].position = @ + k, ![s].eof = r.eof]
      /\ last' = [op |-> "read", stream |-> s, size |-> size, data |-> SubSeq(bytes, 1, k)]
      /\ handles' = handles
  BY DEF Read
<1>3. /\ d \in PCS_STREAM_DATA /\ d.offset \in 0..Size(d.node)
      /\ old \in Seq(Byte) /\ pos \in Nat /\ pos + Len(old) = d.offset
      /\ d.node \in Node /\ Size(d.node) \in Nat
  BY <1>0, <1>1, OpenStream, SizeType
<1>4. Window(d.node, pos, old)
  BY <1>0, <1>1 DEF BufferExact
<1>5. /\ r.data \in Seq(Byte) /\ Window(d.node, d.offset, r.data)
      /\ r.offset \in 0..Size(d.node) /\ Len(r.data) = r.offset - d.offset
      /\ Len(old) < size /\ Len(r.data) = 0 => d.offset = Size(d.node)
  <2>1. CASE Len(old) < size
    <3>1. r = StreamRead(d, Chunk)
      BY <2>1
    <3> HIDE DEF r, d
    <3>2. /\ r.data \in Seq(Byte) /\ r.offset \in 0..Size(d.node)
          /\ Len(r.data) = r.offset - d.offset
      BY <1>1, <1>3, <3>1, StreamReadType
    <3>3. Window(d.node, d.offset, r.data)
      BY <1>1, <1>3, <3>1, WindowOfRead
    <3>4. r.offset = d.offset => d.offset = Size(d.node)
      <4>1. r.offset = d.offset + (IF Chunk > Size(d.node) - d.offset
                                   THEN Size(d.node) - d.offset ELSE Chunk)
        BY <3>1 DEF StreamRead
      <4> QED BY <1>3, <4>1, StreamAssumption
    <3> QED BY <1>3, <3>2, <3>3, <3>4
  <2>2. CASE ~(Len(old) < size)
    <3>1. r.data = <<>> /\ r.offset = d.offset
      BY <2>2
    <3> HIDE DEF r
    <3>2. r.data \in Seq(Byte) /\ Len(r.data) = 0
      BY <3>1
    <3>3. Window(d.node, d.offset, r.data)
      BY <3>2 DEF Window
    <3> QED BY <1>3, <2>2, <3>1, <3>2, <3>3
  <2> QED BY <2>1, <2>2
<1> HIDE DEF r, d, old, pos
<1>6. bytes \in Seq(Byte) /\ Len(bytes) = Len(old) + Len(r.data)
  BY <1>3, <1>5, ConcatProperties
<1>7. Window(d.node, pos, bytes)
  BY <1>3, <1>4, <1>5, WindowConcat
<1>8. Len(old) \in Nat /\ Len(r.data) \in Nat /\ Len(bytes) \in Nat
      /\ pos + Len(bytes) = r.offset
  BY <1>3, <1>5, <1>6, LenProperties
<1> HIDE DEF bytes
<1>9. k \in 0..size /\ k <= Len(bytes) /\ (k = 0 => Len(bytes) = 0)
  BY <1>0, <1>8
<1> HIDE DEF k
<1>10. pos + Len(bytes) <= Size(d.node)
  BY <1>3, <1>5, <1>8
<1>11. /\ Window(d.node, pos + k, b)
       /\ SubSeq(bytes, 1, k) = SubSeq(Items[d.node], pos + 1, pos + k)
  <2>1. k \in Nat
    BY <1>0, <1>9
  <2> QED BY <1>3, <1>6, <1>7, <1>9, <1>10, <2>1, WindowTaken
<1> DEFINE p == pos + k
<1>12. Moves(s, r.offset, b, p, r.eof)
  BY <1>2 DEF pos, Moves
<1>13. Window(Data(s).node, p, b)
  BY <1>11 DEF d
<1> HIDE DEF b, p
<1>14. BufferExact' /\ IdExact' /\ Cursor' = [Cursor EXCEPT ![s].pos = p]
  BY <1>12, <1>13, MovedExact
<1>15. /\ Cursor[s] = [node |-> d.node, pos |-> pos, shared |-> IsPersistent(s)]
       /\ s \in RC!Open
  BY <1>0, <1>1, CursorOf DEF d, pos
<1>16. RC!Read(s, size, k)
  <2>1. k <= size /\ pos + k <= Size(d.node)
    BY <1>0, <1>3, <1>8, <1>9, <1>10
  <2>2. k = 0 => pos = Size(d.node)
    <3>1. ASSUME k = 0 PROVE pos = Size(d.node)
      <4>1. Len(old) = 0 /\ Len(r.data) = 0 /\ Len(old) < size
        BY <1>0, <1>6, <1>8, <1>9, <3>1
      <4> QED BY <1>3, <1>5, <4>1
    <3> QED BY <3>1
  <2>3. Cursor' = [Cursor EXCEPT ![s].pos = @ + k]
    BY <1>14, <1>15 DEF p
  <2>4. last' = [op |-> "read", stream |-> s, size |-> size,
                 data |-> SubSeq(Items[d.node], pos + 1, pos + k)]
    BY <1>2, <1>11
  <2> QED BY <1>15, <2>1, <2>2, <2>3, <2>4 DEF RC!Read, RC!Len_, Size
<1>17. RC!Next
  <2>1. last'.op = "read"
    BY <1>2
  <2>2. \E x \in RC!Open, z \in ReadSize \cup {1} : \E j \in 0..z : RC!Read(x, z, j)
    BY <1>9, <1>15, <1>16
  <2> QED BY <2>1, <2>2 DEF RC!Next
<1> QED BY <1>14, <1>17 DEF CursorStep

LEMMA SeekInBufferStep ==
    ASSUME CursorInv, StreamInv', NEW s \in handles, NEW whence \in {"SET", "CUR", "END"},
           NEW off \in Offset, SeekInBuffer(s, whence, off)
    PROVE  CursorStep
<1> DEFINE old == stream[s].buffer
           pos == stream[s].position
           n == Data(s).node
           k == IF whence = "CUR" THEN off ELSE off - pos
           b == SubSeq(old, k + 1, Len(old))
           p == pos + k
<1>0. StreamInv /\ BufferExact /\ off \in Int /\ MaxOffset \in Nat
  BY StreamAssumption DEF CursorInv
<1>1. s \in Stream /\ IsOpen(s)
  BY <1>0 DEF StreamInv, StreamTypeOK
<1>2. /\ old \in Seq(Byte) /\ pos \in Nat /\ pos + Len(old) = Data(s).offset
      /\ Data(s).offset \in 0..Size(n) /\ Size(n) \in Nat /\ n \in Node /\ Len(old) \in Nat
  BY <1>0, <1>1, OpenStream, SizeType, LenProperties
<1>3. /\ Moves(s, Data(s).offset, b, p, FALSE)
      /\ last' = [op |-> "seek", stream |-> s, whence |-> whence, offset |-> off, told |-> p]
  <2>1. dp' = [dp EXCEPT ![stream[s].dp] = [@ EXCEPT !.offset = Data(s).offset]]
    BY <1>0, <1>1, DataSame DEF SeekInBuffer
  <2> QED BY <2>1 DEF SeekInBuffer, Moves
<1>4. k \in 1..Len(old) /\ whence \in {"SET", "CUR"}
  BY DEF SeekInBuffer, InBuffer
<1>5. Window(n, pos, old)
  BY <1>0, <1>1 DEF BufferExact
<1> HIDE DEF k, old, pos
<1>6. Window(n, p, b)
  <2>1. k \in Nat /\ k <= Len(old) /\ pos + Len(old) <= Size(n)
    BY <1>2, <1>4
  <2> QED BY <1>2, <1>5, <2>1, WindowTaken
<1> HIDE DEF b, p
<1>7. BufferExact' /\ IdExact' /\ Cursor' = [Cursor EXCEPT ![s].pos = p]
  BY <1>3, <1>6, MovedExact
<1>8. /\ Cursor[s] = [node |-> n, pos |-> pos, shared |-> IsPersistent(s)]
      /\ s \in RC!Open
  BY <1>0, <1>1, CursorOf DEF pos
<1>9. p \in RC!Reached(Cursor[s], whence, off)
  <2>1. p = IF whence = "CUR" THEN pos + off ELSE off
    BY <1>0, <1>2 DEF p, k
  <2>2. p \in 0..Size(n) /\ Size(n) <= MaxOffset
    BY <1>2, <1>4, StreamAssumption DEF p, Size
  <2>3. RC!Reached(Cursor[s], whence, off) = IF p > MaxOffset THEN {0, Size(n)} ELSE {RC!Clamp(p, n)}
    <3>1. Cursor[s].node = n /\ Cursor[s].pos = pos
      BY <1>8
    <3>2. CASE whence = "CUR"
      BY <2>1, <3>1, <3>2 DEF RC!Reached, RC!Len_, Size
    <3>3. CASE whence = "SET"
      BY <2>1, <3>1, <3>3 DEF RC!Reached, RC!Len_, Size
    <3> QED BY <1>4, <3>2, <3>3
  <2>4. RC!Clamp(p, n) = p
    BY <1>2, <2>2 DEF RC!Clamp, RC!Len_, Size
  <2>5. ~(p > MaxOffset)
    BY <1>0, <1>2, <2>2
  <2> QED BY <2>3, <2>4, <2>5
<1>10. RC!Seek(s, whence, off)
  <2>1. Cursor'[s].pos = p
    BY <1>1, <1>7, <1>8 DEF Cursor
  <2> QED BY <1>3, <1>7, <1>9, <2>1 DEF RC!Seek
<1>11. RC!Next
  <2>1. last'.op = "seek"
    BY <1>3
  <2> QED BY <1>8, <1>10, <2>1 DEF RC!Next
<1> QED BY <1>7, <1>11 DEF CursorStep

\* Where a seek that calls the stream may end up
LEMMA SeekReaches ==
    ASSUME NEW d \in PCS_STREAM_DATA, NEW whence \in {"SET", "END"}, NEW off \in Int,
           NEW c, c.node = d.node
    PROVE  SeekTargets(d, whence, off) = RC!Reached(c, whence, off)
<1>1. Size(d.node) \in Nat /\ MaxOffset \in Nat
  BY SizeType, StreamAssumption DEF PCS_STREAM_DATA
<1> DEFINE to == IF whence = "SET" THEN off ELSE Size(d.node) + off
<1>2. to \in Int
  BY <1>1
<1>3. SeekTargets(d, whence, off) =
        IF to > MaxOffset THEN {0, Size(d.node)}
        ELSE IF to > Size(d.node) THEN {Size(d.node)}
        ELSE IF to < 0 THEN {0} ELSE {to}
  BY DEF SeekTargets
<1>4. RC!Reached(c, whence, off) =
        IF to > MaxOffset THEN {0, Size(d.node)} ELSE {RC!Clamp(to, d.node)}
  BY DEF RC!Reached, RC!Len_, Size
<1>5. RC!Clamp(to, d.node) = IF to < 0 THEN 0 ELSE IF to > Size(d.node) THEN Size(d.node) ELSE to
  BY DEF RC!Clamp, RC!Len_, Size
<1> HIDE DEF to
<1> QED BY <1>1, <1>2, <1>3, <1>4, <1>5

LEMMA SeekStep ==
    ASSUME CursorInv, StreamInv', NEW s \in handles, NEW whence \in {"SET", "CUR", "END"},
           NEW off \in Offset, Seek(s, whence, off)
    PROVE  CursorStep
<1> DEFINE pos == stream[s].position
           d == Data(s)
           targets == IF whence = "CUR" THEN SeekTargets(d, "SET", pos + off)
                      ELSE SeekTargets(d, whence, off)
<1>0. StreamInv /\ off \in Int
  BY StreamAssumption DEF CursorInv
<1>1. s \in Stream /\ IsOpen(s)
  BY <1>0 DEF StreamInv, StreamTypeOK
<1>2. d \in PCS_STREAM_DATA /\ pos \in Nat
  BY <1>0, <1>1, OpenStream
<1>3. PICK to \in targets :
        /\ dp' = [dp EXCEPT ![stream[s].dp].offset = to]
        /\ stream' = [stream EXCEPT ![s].buffer = <<>>, ![s].position = to, ![s].eof = FALSE]
        /\ last' = [op |-> "seek", stream |-> s, whence |-> whence, offset |-> off, told |-> to]
        /\ handles' = handles
  BY DEF Seek
<1> DEFINE b == <<>>
<1>4. Moves(s, to, b, to, FALSE)
  BY <1>3 DEF Moves
<1>5. Window(d.node, to, b)
  BY DEF Window
<1>6. /\ Cursor[s] = [node |-> d.node, pos |-> pos, shared |-> IsPersistent(s)]
      /\ s \in RC!Open
  BY <1>0, <1>1, CursorOf
<1> HIDE DEF b
<1>7. BufferExact' /\ IdExact' /\ Cursor' = [Cursor EXCEPT ![s].pos = to]
  BY <1>4, <1>5, MovedExact
<1>8. to \in RC!Reached(Cursor[s], whence, off)
  <2>1. Cursor[s].node = d.node /\ Cursor[s].pos = pos
    BY <1>6
  <2> HIDE DEF d, pos
  <2>2. CASE whence = "CUR"
    <3>1. pos + off \in Int
      BY <1>0, <1>2
    <3>2. SeekTargets(d, "SET", pos + off) = RC!Reached(Cursor[s], "SET", pos + off)
      BY <1>2, <2>1, <3>1, SeekReaches
    <3>3. RC!Reached(Cursor[s], "CUR", off) = RC!Reached(Cursor[s], "SET", pos + off)
      BY <2>1 DEF RC!Reached
    <3> QED BY <1>3, <2>2, <3>2, <3>3
  <2>3. CASE whence # "CUR"
    <3>1. SeekTargets(d, whence, off) = RC!Reached(Cursor[s], whence, off)
      BY <1>0, <1>2, <2>1, <2>3, SeekReaches
    <3> QED BY <1>3, <2>3, <3>1
  <2> QED BY <2>2, <2>3
<1>9. RC!Seek(s, whence, off)
  <2>1. Cursor'[s].pos = to
    BY <1>1, <1>6, <1>7 DEF Cursor
  <2> QED BY <1>3, <1>7, <1>8, <2>1 DEF RC!Seek
<1>10. RC!Next
  <2>1. last'.op = "seek"
    BY <1>3
  <2> QED BY <1>6, <1>9, <2>1 DEF RC!Next
<1> QED BY <1>7, <1>10 DEF CursorStep

\* Reading the next entry of a directory, and rewinding it
LEMMA DirMoves ==
    ASSUME CursorInv, StreamInv', NEW s \in handles, IsDir(Data(s).node),
           NEW o \in 0..Size(Data(s).node), NEW e \in BOOLEAN, DirMove(s, o, e)
    PROVE  /\ BufferExact' /\ IdExact'
           /\ Cursor' = [Cursor EXCEPT ![s].pos = o]
<1>1. StreamInv /\ s \in Stream /\ IsOpen(s)
  BY DEF CursorInv, StreamInv, StreamTypeOK
<1>2. stream[s] \in php_stream /\ stream[s].buffer = <<>>
  BY <1>1, OpenStream
<1> DEFINE b == <<>>
<1>3. [stream[s] EXCEPT !.buffer = b, !.position = o, !.eof = e]
        = [stream[s] EXCEPT !.position = o, !.eof = e]
  BY <1>2 DEF php_stream
<1>4. Moves(s, o, b, o, e)
  BY <1>3 DEF DirMove, Moves
<1>5. Window(Data(s).node, o, b)
  BY DEF Window
<1> HIDE DEF b
<1> QED BY <1>4, <1>5, MovedExact

LEMMA ReadDirStep ==
    ASSUME CursorInv, StreamInv', NEW s \in handles, ReadDir(s)
    PROVE  CursorStep
<1> DEFINE d == Data(s)
           n == IF d.offset < Size(d.node) THEN 1 ELSE 0
           o == d.offset + n
           e == o = Size(d.node)
<1>1. StreamInv /\ s \in Stream /\ IsOpen(s) /\ IsDir(d.node)
  BY DEF ReadDir, CursorInv, StreamInv, StreamTypeOK
<1>2. /\ d.node \in Node /\ Size(d.node) \in Nat /\ d.offset \in 0..Size(d.node)
      /\ stream[s].position = d.offset
  <2>1. /\ stream[s].position + Len(stream[s].buffer) = d.offset
        /\ stream[s].position \in Nat /\ stream[s].buffer = <<>>
        /\ d.node \in Node /\ d.offset \in 0..Size(d.node)
    BY <1>1, OpenStream
  <2> QED BY <2>1, SizeType
<1>3. o \in 0..Size(d.node) /\ n \in 0..1 /\ (n = 0 => d.offset = Size(d.node))
  BY <1>2
<1>4. DirMove(s, o, e)
  BY <1>2 DEF ReadDir, DirMove, Data
<1>5. last' = [op |-> "read", stream |-> s, size |-> 1,
               data |-> SubSeq(Items[d.node], d.offset + 1, d.offset + n)]
  BY DEF ReadDir
<1> HIDE DEF n, e
<1>6. BufferExact' /\ IdExact' /\ Cursor' = [Cursor EXCEPT ![s].pos = o]
  <2>1. e \in BOOLEAN
    BY DEF e
  <2> HIDE DEF o
  <2> QED BY <1>1, <1>3, <1>4, <2>1, DirMoves
<1>7. /\ Cursor[s] = [node |-> d.node, pos |-> d.offset, shared |-> IsPersistent(s)]
      /\ s \in RC!Open
  BY <1>1, <1>2, CursorOf
<1>8. RC!Read(s, 1, n)
  <2>1. Cursor[s].node = d.node /\ Cursor[s].pos = d.offset
    BY <1>7
  <2> HIDE DEF d
  <2>2. n <= 1 /\ d.offset + n <= Size(d.node) /\ (n = 0 => d.offset = Size(d.node))
    BY <1>2, <1>3
  <2>3. Cursor' = [Cursor EXCEPT ![s].pos = @ + n]
    BY <1>6, <2>1
  <2> QED BY <1>5, <2>1, <2>2, <2>3 DEF RC!Read, RC!Len_, Size
<1>9. RC!Next
  <2>1. last'.op = "read"
    BY <1>5
  <2>2. n \in 0..1 /\ 1 \in ReadSize \cup {1}
    BY <1>3
  <2> QED BY <1>7, <1>8, <2>1, <2>2 DEF RC!Next
<1> QED BY <1>6, <1>9 DEF CursorStep

LEMMA RewindDirStep ==
    ASSUME CursorInv, StreamInv', NEW s \in handles, RewindDir(s)
    PROVE  CursorStep
<1>1. StreamInv /\ s \in Stream /\ IsOpen(s) /\ IsDir(Data(s).node)
  BY DEF RewindDir, CursorInv, StreamInv, StreamTypeOK
<1>2. Size(Data(s).node) \in Nat /\ MaxOffset \in Nat
  BY <1>1, OpenStream, SizeType, StreamAssumption
<1>3. DirMove(s, 0, FALSE)
  BY DEF RewindDir, DirMove
<1>4. last' = [op |-> "seek", stream |-> s, whence |-> "SET", offset |-> 0, told |-> 0]
  BY DEF RewindDir
<1>5. BufferExact' /\ IdExact' /\ Cursor' = [Cursor EXCEPT ![s].pos = 0]
  <2>1. 0 \in 0..Size(Data(s).node)
    BY <1>2
  <2> QED BY <1>1, <1>3, <2>1, DirMoves
<1>6. /\ Cursor[s] = [node |-> Data(s).node, pos |-> stream[s].position, shared |-> IsPersistent(s)]
      /\ s \in RC!Open
  BY <1>1, CursorOf
<1>7. RC!Seek(s, "SET", 0)
  <2>1. Cursor'[s].pos = 0
    BY <1>1, <1>5, <1>6 DEF Cursor
  <2>2. 0 \in RC!Reached(Cursor[s], "SET", 0)
    <3>1. Cursor[s].node = Data(s).node
      BY <1>6
    <3> QED BY <1>2, <3>1 DEF RC!Reached, RC!Clamp, RC!Len_, Size
  <2> QED BY <1>4, <1>5, <2>1, <2>2 DEF RC!Seek
<1>8. RC!Next
  <2>1. last'.op = "seek"
    BY <1>4
  <2> QED BY <1>6, <1>7, <2>1 DEF RC!Next
<1> QED BY <1>5, <1>8 DEF CursorStep

LEMMA StatStep ==
    ASSUME CursorInv, NEW u \in Uri, Stat(u)
    PROVE  CursorStep
<1> DEFINE n == NodeFromURI(u)
           target == [v \in Uri |-> NodeFromURI(v)]
<1>1. /\ last' = [op |-> "stat", uri |-> u, dir |-> n # Null /\ IsDir(n),
                  size |-> IF n = Null THEN -1 ELSE Size(n)]
      /\ UNCHANGED <<dp, stream>>
  BY DEF Stat
<1>2. BufferExact' /\ IdExact' /\ UNCHANGED Cursor
  BY <1>1, SameExact
<1>3. (n # Null /\ IsDir(n)) = (n \in DirNode)
  BY StreamAssumption DEF IsDir
<1>4. RC!Stat(u, n)
  <2>1. last' = [op |-> "stat", uri |-> u, dir |-> n \in DirNode,
                 size |-> IF n = Null THEN -1 ELSE Size(n)]
    BY <1>1, <1>3
  <2>2. target[u] = n
    OBVIOUS
  <2> HIDE DEF n
  <2> QED BY <1>2, <2>1, <2>2 DEF RC!Stat, RC!Len_, Size
<1>5. RC!Next
  <2>1. last'.op = "stat"
    BY <1>1
  <2>2. u \in DOMAIN target /\ target[u] = n
    OBVIOUS
  <2> HIDE DEF n
  <2> QED BY <1>4, <2>1, <2>2 DEF RC!Next
<1> QED BY <1>2, <1>5 DEF CursorStep

LEMMA MayOpenOpens ==
    ASSUME NEW u \in Uri, NEW how
    PROVE  RC!Opens(u, how) <=> MayOpen(u, how)
BY DEF RC!Opens, MayOpen, IsDir

LEMMA AbortOpenStep ==
    ASSUME CursorInv, NEW u \in Uri, NEW how \in Mode \cup {"dir"}, AbortOpen(u, how)
    PROVE  CursorStep
<1>1. /\ last' = [op |-> "open", uri |-> u, how |-> how, stream |-> Null]
      /\ ~MayOpen(u, how)
      /\ UNCHANGED <<dp, stream>>
  BY DEF AbortOpen, Opened
<1>2. BufferExact' /\ IdExact' /\ UNCHANGED Cursor
  BY <1>1, SameExact
<1>3. RC!OpenFails(u, how)
  BY <1>1, <1>2, MayOpenOpens DEF RC!OpenFails, RC!OpenedAs
<1>4. RC!Next
  <2>1. last'.op = "open"
    BY <1>1
  <2>2. u \in DOMAIN [v \in Uri |-> NodeFromURI(v)]
    OBVIOUS
  <2> QED BY <1>3, <2>1, <2>2 DEF RC!Next
<1> QED BY <1>2, <1>4 DEF CursorStep

LEMMA OpenAgainStep ==
    ASSUME CursorInv, NEW u \in Uri, NEW how \in Mode, NEW wanted \in BOOLEAN,
           OpenAgain(u, how, wanted)
    PROVE  CursorStep
<1> DEFINE d == FreeDp
           n == NodeFromURI(u)
<1>0. StreamInv
  BY DEF CursorInv
<1>1. PICK s \in Stream :
        /\ stream[s] # Null /\ stream[s].id = PersistentId(u, how)
        /\ last' = [op |-> "open", uri |-> u, how |-> how, stream |-> s]
  BY DEF OpenAgain, Opened
<1>2. /\ MayOpen(u, how) /\ stream' = stream
      /\ \E x \in Dp : dp[x] = Null
      /\ dp' = [dp EXCEPT ![d] = new_dp(TRUE, n)]
  BY DEF OpenAgain
<1>3. n \in Node
  BY <1>2, StreamAssumption DEF MayOpen, NodeFromURI
<1>4. d \in Dp /\ dp[d] = Null
  BY <1>2 DEF FreeDp
<1> HIDE DEF d
<1>5. dp \in [Dp -> PCS_STREAM_DATA \cup {Null}]
  BY <1>0 DEF StreamInv, StreamTypeOK
<1>6. ASSUME NEW x \in Stream, stream'[x] # Null PROVE Kept(x)
  <2>1. IsOpen(x) /\ stream'[x] = stream[x]
    BY <1>2, <1>6 DEF IsOpen
  <2>2. stream[x].dp \in Dp /\ stream[x].dp # d
    BY <1>0, <1>4, <2>1, OpenStream, FreeUnused
  <2> QED BY <1>2, <1>5, <2>1, <2>2 DEF Kept
<1>7. /\ BufferExact' /\ IdExact'
      /\ Cursor' = [x \in Stream |-> IF stream'[x] = Null THEN Null ELSE Cursor[x]]
  BY <1>6, KeptExact
<1>8. UNCHANGED Cursor
  <2>1. \A x \in Stream : stream'[x] = Null => Cursor[x] = Null
    BY <1>2 DEF Cursor, IsOpen
  <2>2. Cursor = [x \in Stream |-> Cursor[x]]
    BY DEF Cursor
  <2> QED BY <1>7, <2>1, <2>2
<1>9. Cursor[s].shared /\ Cursor[s].node = n /\ Cursor[s] # Null
  <2>1. IsOpen(s) /\ IsPersistent(s)
    BY <1>1, <1>3, StreamAssumption DEF IsOpen, IsPersistent, PersistentId
  <2>2. Data(s).node = n
    BY <1>1, <2>1 DEF PersistentId, CursorInv, IdExact
  <2>3. /\ Cursor[s] = [node |-> Data(s).node, pos |-> stream[s].position,
                        shared |-> IsPersistent(s)]
        /\ Cursor[s] # Null
    BY <1>0, <2>1, CursorOf
  <2> QED BY <2>1, <2>2, <2>3
<1>10. RC!OpenAgain(s, u, how)
  <2>1. [v \in Uri |-> NodeFromURI(v)][u] = n
    OBVIOUS
  <2> QED BY <1>1, <1>2, <1>8, <1>9, <2>1, MayOpenOpens DEF RC!OpenAgain, RC!OpenedAs
<1>11. RC!Next
  <2>1. last'.op = "open"
    BY <1>1
  <2>2. u \in DOMAIN [v \in Uri |-> NodeFromURI(v)] /\ how \in Mode \cup {"dir"}
    OBVIOUS
  <2> QED BY <1>10, <2>1, <2>2 DEF RC!Next
<1> QED BY <1>7, <1>11 DEF CursorStep

LEMMA OpenNewStep ==
    ASSUME CursorInv, NEW u \in Uri, NEW how \in Mode \cup {"dir"},
           NEW persistent \in BOOLEAN, NEW wanted \in BOOLEAN,
           how = "dir" => ~persistent,
           OpenNew(u, how, persistent, wanted)
    PROVE  CursorStep
<1>0. PICK s \in Stream : s = FreeStream /\ stream[s] = Null
  BY DEF OpenNew, FreeStream
<1> DEFINE d == FreeDp
           n == NodeFromURI(u)
           id == IF persistent THEN PersistentId(u, how) ELSE Null
           q == new_dp(persistent, n)
           r == [dp |-> d, id |-> id, eof |-> FALSE, position |-> 0, buffer |-> <<>>]
<1>1. /\ MayOpen(u, how)
      /\ \E x \in Dp : dp[x] = Null
      /\ dp' = [dp EXCEPT ![d] = q]
      /\ stream' = [stream EXCEPT ![s] = r]
      /\ last' = [op |-> "open", uri |-> u, how |-> how, stream |-> s]
  BY <1>0 DEF OpenNew, Opened
<1>2. StreamInv /\ n \in Node
  BY <1>1, StreamAssumption DEF MayOpen, NodeFromURI, CursorInv
<1>3. d \in Dp /\ dp[d] = Null
  BY <1>1 DEF FreeDp
<1>4. id \in (Mode \X Node) \cup {Null} /\ (id # Null <=> persistent)
      /\ (persistent => how \in Mode /\ id = <<how, n>>)
  BY <1>2, StreamAssumption DEF PersistentId
<1> HIDE DEF d, n, id
<1>5. /\ r \in php_stream /\ r.dp = d /\ r.id = id /\ r.buffer = <<>> /\ r.position = 0
      /\ q.node = n
  BY <1>3, <1>4 DEF php_stream, new_dp
<1>6. r # Null
  BY <1>5, StreamAssumption
<1> HIDE DEF r, q
<1>7. /\ dp \in [Dp -> PCS_STREAM_DATA \cup {Null}]
      /\ stream \in [Stream -> php_stream \cup {Null}]
  BY <1>2 DEF StreamInv, StreamTypeOK
<1>8. dp'[d] = q /\ stream'[s] = r
  BY <1>1, <1>3, <1>7
<1>9. /\ Data(s)'.node = n /\ IsPersistent(s)' = persistent /\ IsOpen(s)'
      /\ stream'[s].position = 0 /\ stream'[s].buffer = <<>> /\ stream'[s].id = id
  <2>1. Data(s)' = q
    BY <1>5, <1>8 DEF Data
  <2>2. IsPersistent(s)' = (r # Null /\ r.id # Null)
    BY <1>8 DEF IsPersistent, IsOpen
  <2> QED BY <1>4, <1>5, <1>6, <1>8, <2>1, <2>2 DEF IsOpen
<1>10. ASSUME NEW x \in Stream, x # s
       PROVE  /\ stream'[x] = stream[x] /\ IsOpen(x)' = IsOpen(x)
              /\ IsPersistent(x)' = IsPersistent(x)
              /\ IsOpen(x) => Data(x)' = Data(x)
  <2>1. stream'[x] = stream[x]
    BY <1>1, <1>7, <1>10
  <2>2. ASSUME IsOpen(x) PROVE dp'[stream[x].dp] = dp[stream[x].dp]
    <3>1. stream[x].dp \in Dp /\ stream[x].dp # d
      BY <1>2, <1>3, <2>2, OpenStream, FreeUnused
    <3> QED BY <1>1, <1>7, <3>1
  <2> QED BY <2>1, <2>2 DEF Data, IsOpen, IsPersistent
<1>11. BufferExact'
  <2> SUFFICES ASSUME NEW x \in Stream, IsOpen(x)'
               PROVE  Window(Data(x)'.node, stream'[x].position, stream'[x].buffer)
    BY DEF BufferExact, Window
  <2>1. CASE x = s
    BY <1>9, <2>1 DEF Window
  <2>2. CASE x # s
    BY <1>10, <2>2 DEF CursorInv, BufferExact
  <2> QED BY <2>1, <2>2
<1>12. IdExact'
  <2> SUFFICES ASSUME NEW x \in Stream, IsPersistent(x)'
               PROVE  \E h \in Mode : stream'[x].id = <<h, Data(x)'.node>>
    BY DEF IdExact
  <2>1. CASE x = s
    BY <1>4, <1>9, <2>1
  <2>2. CASE x # s
    <3>1. /\ IsPersistent(x) /\ IsOpen(x) /\ stream'[x] = stream[x] /\ Data(x)' = Data(x)
      BY <1>10, <2>2 DEF IsPersistent
    <3> QED BY <3>1 DEF CursorInv, IdExact
  <2> QED BY <2>1, <2>2
<1> DEFINE cursor == [node |-> n, pos |-> 0, shared |-> persistent]
<1>13. Cursor' = [Cursor EXCEPT ![s] = cursor]
  <2>1. Cursor'[s] = cursor
    BY <1>9 DEF Cursor
  <2>2. ASSUME NEW x \in Stream, x # s PROVE Cursor'[x] = Cursor[x]
    BY <1>10, <2>2 DEF Cursor
  <2>3. Cursor' = [x \in Stream |-> Cursor'[x]] /\ Cursor = [x \in Stream |-> Cursor[x]]
    BY DEF Cursor
  <2> HIDE DEF cursor
  <2> QED BY <2>1, <2>2, <2>3
<1>14. Cursor[s] = Null
  BY <1>0 DEF Cursor, IsOpen
<1>15. RC!OpenNew(s, u, how, persistent)
  <2>1. [v \in Uri |-> NodeFromURI(v)][u] = n
    BY DEF n
  <2> QED BY <1>1, <1>13, <1>14, <2>1, MayOpenOpens DEF RC!OpenNew, RC!OpenedAs
<1>16. RC!Next
  <2>1. last'.op = "open"
    BY <1>1
  <2>2. u \in DOMAIN [v \in Uri |-> NodeFromURI(v)]
    OBVIOUS
  <2> QED BY <1>15, <2>1, <2>2 DEF RC!Next
<1> QED BY <1>11, <1>12, <1>16 DEF CursorStep

\* Closing the streams of S, one by one or at the end of a request or thread
LEMMA CloseStep ==
    ASSUME CursorInv, NEW S \in SUBSET Stream, \A s \in S : IsOpen(s),
           stream' = [s \in Stream |-> IF s \in S THEN Null ELSE stream[s]],
           \A s \in Stream : stream'[s] # Null => Kept(s),
           last' = [op |-> "close"]
    PROVE  CursorStep
<1>1. /\ BufferExact' /\ IdExact'
      /\ Cursor' = [x \in Stream |-> IF stream'[x] = Null THEN Null ELSE Cursor[x]]
  BY KeptExact
<1>2. Cursor' = [x \in Stream |-> IF x \in S THEN Null ELSE Cursor[x]]
  <2>1. ASSUME NEW x \in Stream
        PROVE  (IF stream'[x] = Null THEN Null ELSE Cursor[x])
                 = (IF x \in S THEN Null ELSE Cursor[x])
    BY DEF Cursor, IsOpen
  <2> QED BY <1>1, <2>1
<1>3. S \in SUBSET RC!Open
  BY CursorOf DEF CursorInv
<1>4. RC!Close(S)
  BY <1>2 DEF RC!Close
<1>5. RC!Next
  <2>1. last'.op = "close"
    OBVIOUS
  <2> QED BY <1>3, <1>4, <2>1 DEF RC!Next
<1> QED BY <1>1, <1>5 DEF CursorStep

LEMMA ClosedStep ==
    ASSUME CursorInv, NEW S \in SUBSET Stream, \A s \in S : IsOpen(s), Closed(S)
    PROVE  CursorStep
<1>1. dp \in [Dp -> PCS_STREAM_DATA \cup {Null}] /\ StreamInv
  BY DEF CursorInv, StreamInv, StreamTypeOK
<1>2. /\ dp' = [d \in Dp |-> IF \E s \in S : stream[s].dp = d THEN Null ELSE dp[d]]
      /\ stream' = [s \in Stream |-> IF s \in S THEN Null ELSE stream[s]]
      /\ last' = [op |-> "close"]
  BY DEF Closed
<1>3. ASSUME NEW s \in Stream, stream'[s] # Null PROVE Kept(s)
  <2>1. s \notin S /\ stream'[s] = stream[s] /\ IsOpen(s)
    BY <1>2, <1>3 DEF IsOpen
  <2>2. stream[s].dp \in Dp
    BY <1>1, <2>1, OpenStream
  <2>3. \A x \in S : stream[x].dp # stream[s].dp
    BY <1>1, <2>1 DEF StreamInv, DataOwned
  <2> QED BY <1>2, <2>1, <2>2, <2>3 DEF Kept
<1> QED BY <1>2, <1>3, CloseStep

LEMMA EndRequestStep ==
    ASSUME CursorInv, EndRequest
    PROVE  CursorStep
<1> DEFINE S == {s \in Stream : IsOpen(s) /\ ~IsPersistent(s)}
<1>1. StreamInv
  BY DEF CursorInv
<1>2. /\ dp' = [d \in Dp |-> IF dp[d] # Null /\ dp[d].persistent THEN dp[d] ELSE Null]
      /\ stream' = [s \in Stream |-> IF s \in S THEN Null ELSE stream[s]]
      /\ last' = [op |-> "close"]
  BY DEF EndRequest
<1>3. ASSUME NEW s \in Stream, stream'[s] # Null PROVE Kept(s)
  <2>1. stream'[s] = stream[s] /\ IsOpen(s) /\ IsPersistent(s)
    BY <1>2, <1>3 DEF IsOpen
  <2>2. stream[s].dp \in Dp
    BY <1>1, <2>1, OpenStream
  <2>3. dp[stream[s].dp] # Null /\ dp[stream[s].dp].persistent
    BY <1>1, <2>1 DEF StreamInv, DataOwned, Data
  <2> QED BY <1>2, <2>1, <2>2, <2>3 DEF Kept
<1>4. S \in SUBSET Stream /\ \A s \in S : IsOpen(s)
  OBVIOUS
<1> HIDE DEF S
<1> QED BY <1>2, <1>3, <1>4, CloseStep

LEMMA CursorInvInit == StreamInit => CursorInv /\ RC!Init
<1> SUFFICES ASSUME StreamInit PROVE CursorInv /\ RC!Init
  OBVIOUS
<1>1. StreamInv
  BY StreamInvInit
<1>2. \A s \in Stream : ~IsOpen(s) /\ ~IsPersistent(s)
  BY DEF StreamInit, IsOpen, IsPersistent
<1>3. Cursor = [s \in Stream |-> Null] /\ last = [op |-> "none"]
  BY <1>2 DEF Cursor, StreamInit, NoOp
<1> QED BY <1>1, <1>2, <1>3 DEF CursorInv, BufferExact, IdExact, RC!Init

LEMMA CursorNext ==
    ASSUME CursorInv, [StreamNext]_allVars
    PROVE  CursorInv' /\ [RC!Next]_<<Cursor, last>>
<1>i. StreamInv /\ StreamInv'
  BY StreamInvNext DEF CursorInv
<1> SUFFICES CursorStep
  BY <1>i DEF CursorInv, CursorStep
<1>0. CASE UNCHANGED allVars
  BY <1>0, SameExact DEF allVars, streamVars, CursorStep
<1>1. CASE StringsStep /\ last' = NoOp /\ UNCHANGED <<dp, stream, handles>>
  <2>1. BufferExact' /\ IdExact' /\ UNCHANGED Cursor
    BY <1>1, SameExact
  <2>2. RC!Forget /\ last'.op = "none"
    BY <1>1, <2>1 DEF RC!Forget, NoOp
  <2>3. RC!Next
    BY <2>2 DEF RC!Next
  <2> QED BY <2>1, <2>3 DEF CursorStep
<1>2. ASSUME NEW u \in Uri, NEW how \in Mode \cup {"dir"}, AbortOpen(u, how) PROVE CursorStep
  BY <1>2, AbortOpenStep
<1>3. ASSUME NEW u \in Uri, OpenNew(u, "dir", FALSE, FALSE) PROVE CursorStep
  BY <1>3, OpenNewStep
<1>4. ASSUME NEW u \in Uri, NEW how \in Mode, NEW wanted \in BOOLEAN,
             NEW persistent \in BOOLEAN, OpenNew(u, how, persistent, wanted)
      PROVE  CursorStep
  BY <1>4, OpenNewStep, StreamAssumption
<1>5. ASSUME NEW u \in Uri, NEW how \in Mode, NEW wanted \in BOOLEAN,
             OpenAgain(u, how, wanted)
      PROVE  CursorStep
  BY <1>5, OpenAgainStep
<1>6. ASSUME NEW u \in Uri, Stat(u) PROVE CursorStep
  BY <1>6, StatStep
<1>7. ASSUME NEW s \in handles, NEW size \in ReadSize, Read(s, size) PROVE CursorStep
  BY <1>i, <1>7, ReadStep
<1>8. ASSUME NEW s \in handles, NEW whence \in {"SET", "CUR", "END"}, NEW off \in Offset,
             SeekInBuffer(s, whence, off) \/ Seek(s, whence, off)
      PROVE  CursorStep
  BY <1>i, <1>8, SeekInBufferStep, SeekStep
<1>9. ASSUME NEW s \in handles, ReadDir(s) \/ RewindDir(s) PROVE CursorStep
  BY <1>i, <1>9, ReadDirStep, RewindDirStep
<1>10. ASSUME NEW s \in handles, Close(s) PROVE CursorStep
  <2>1. {s} \in SUBSET Stream /\ \A x \in {s} : IsOpen(x)
    BY <1>i DEF StreamInv, StreamTypeOK
  <2> QED BY <1>10, <2>1, ClosedStep DEF Close
<1>11. CASE EndRequest
  BY <1>11, EndRequestStep
<1>12. CASE CloseAll
  <2> DEFINE S == {s \in Stream : IsOpen(s)}
  <2>1. S \in SUBSET Stream /\ \A x \in S : IsOpen(x)
    OBVIOUS
  <2>2. Closed(S)
    BY <1>12 DEF CloseAll
  <2> HIDE DEF S
  <2> QED BY <2>1, <2>2, ClosedStep
<1>13. CASE ReleaseAll /\ UNCHANGED streamVars
  BY <1>13, SameExact DEF streamVars, CursorStep
<1> QED
  BY <1>0, <1>1, <1>2, <1>3, <1>4, <1>5, <1>6, <1>7, <1>8, <1>9, <1>10, <1>11, <1>12, <1>13
     DEF StreamNext

\* The streams of PCS_Stream.c, with the buffers of the streams layer, implement
\* ReadCursor: PHP code reads every byte and lists every entry from its position on,
\* once and in order, and a seek goes where it is asked to, for files of any length,
\* chunks of any size, and whatever was opened and closed in between.
THEOREM StreamImplementsCursor == StreamSpec => ImplementsCursor
<1>1. CursorInv /\ [StreamNext]_allVars => CursorInv' /\ [RC!Next]_<<Cursor, last>>
  BY CursorNext
<1> QED BY CursorInvInit, <1>1, PTL DEF StreamSpec, ImplementsCursor, RC!Spec

-----------------------------------------------------------------------------
\* The counts of the strings.  Without a second thread no change of a count gets
\* between the load and the store of another: the count is exact all the time.

OneThread == \A t, u \in Thread : t = u

Occurs(h, s) == Cardinality({i \in 1..Len(h) : h[i] = s})

LEMMA OccursType ==
    ASSUME NEW h \in Seq(String), NEW s
    PROVE  /\ Occurs(h, s) \in Nat /\ IsFiniteSet({i \in 1..Len(h) : h[i] = s})
           /\ h = <<>> => Occurs(h, s) = 0
           /\ h # <<>> /\ h[1] = s => Occurs(h, s) > 0
<1> DEFINE A == {i \in 1..Len(h) : h[i] = s}
<1>1. Len(h) \in Nat /\ (h = <<>> <=> Len(h) = 0)
  BY LenProperties, EmptySeq
<1>2. IsFiniteSet(1..Len(h))
  BY <1>1, FS_Interval
<1>3. IsFiniteSet(A)
  BY <1>2, FS_Subset
<1>4. h = <<>> => A = {}
  BY <1>1
<1>5. h # <<>> /\ h[1] = s => 1 \in A
  BY <1>1
<1>6. A # {} => Cardinality(A) # 0
  BY <1>3, FS_EmptySet
<1> HIDE DEF A
<1>7. Cardinality(A) \in Nat
  BY <1>3, FS_CardinalityType
<1> QED BY <1>3, <1>4, <1>5, <1>6, <1>7, FS_EmptySet DEF Occurs, A

LEMMA OccursAppend ==
    ASSUME NEW h \in Seq(String), NEW x \in String, NEW s
    PROVE  Occurs(Append(h, x), s) = IF x = s THEN Occurs(h, s) + 1 ELSE Occurs(h, s)
<1> DEFINE A == {i \in 1..Len(h) : h[i] = s}
           k == Append(h, x)
           B == {i \in 1..Len(k) : k[i] = s}
           n == Len(h) + 1
<1>1. Len(h) \in Nat /\ Len(k) = n /\ k[n] = x /\ \A i \in 1..Len(h) : k[i] = h[i]
  BY AppendProperties, LenProperties
<1> HIDE DEF k
<1>2. IsFiniteSet(A) /\ n \notin A
  <2>1. IsFiniteSet(A)
    BY OccursType
  <2> QED BY <1>1, <2>1
<1>3. B = IF x = s THEN A \cup {n} ELSE A
  BY <1>1
<1> HIDE DEF A, B, n
<1>4. Cardinality(A \cup {n}) = Cardinality(A) + 1
  BY <1>2, FS_AddElement
<1> QED BY <1>3, <1>4 DEF Occurs, A, B, k

LEMMA OccursTail ==
    ASSUME NEW h \in Seq(String), h # <<>>, NEW s
    PROVE  Occurs(Tail(h), s) = IF h[1] = s THEN Occurs(h, s) - 1 ELSE Occurs(h, s)
<1> DEFINE A == {i \in 1..Len(h) : h[i] = s}
           k == Tail(h)
           B == {i \in 1..Len(k) : k[i] = s}
           f == [i \in B |-> i + 1]
<1>1. /\ Len(h) \in Nat \ {0} /\ k \in Seq(String) /\ Len(k) = Len(h) - 1
      /\ \A i \in 1..Len(k) : k[i] = h[i + 1]
  BY LenProperties, EmptySeq
<1> HIDE DEF k
<1>2. IsFiniteSet(A) /\ IsFiniteSet(B)
  BY <1>1, OccursType
<1>3. f \in Bijection(B, A \ {1})
  <2>1. \A i \in B : i + 1 \in A \ {1}
    BY <1>1
  <2>2. \A j \in A \ {1} : j - 1 \in B /\ (j - 1) + 1 = j
    BY <1>1
  <2>3. \A i \in B : i \in Int
    BY <1>1
  <2>4. f \in [B -> A \ {1}]
    BY <2>1
  <2>5. \A i, j \in B : f[i] = f[j] => i = j
    BY <2>3
  <2>6. \A j \in A \ {1} : \E i \in B : f[i] = j
    BY <2>2
  <2> HIDE DEF A, B, f
  <2> QED BY <2>4, <2>5, <2>6 DEF Bijection, Injection, Surjection, IsInjective
<1>4. Cardinality(A \ {1}) = Cardinality(B)
  <2> HIDE DEF A, B, f
  <2>1. ExistsBijection(B, A \ {1})
    BY <1>3 DEF ExistsBijection
  <2> QED BY <1>2, <2>1, FS_Bijection
<1>5. 1 \in A <=> h[1] = s
  BY <1>1
<1> HIDE DEF A, B
<1>6. Cardinality(A \ {1}) = IF 1 \in A THEN Cardinality(A) - 1 ELSE Cardinality(A)
  BY <1>2, FS_RemoveElement
<1> QED BY <1>4, <1>5, <1>6 DEF Occurs, A, B, k

\* HeldCount is defined by a fold, that is by recursion: it has one term here.
LEMMA SumOfOne ==
    ASSUME StringsInv, OneThread, NEW s
    PROVE  HeldCount(s) = Occurs(held[Owner], s)
<1> DEFINE Pick(x) == CHOOSE y \in x : TRUE
           Number(u) == Cardinality({i \in 1..Len(held[u]) : held[u][i] = s})
           Rec(f) == [x \in SUBSET Thread |-> IF x = {} THEN 0
                                              ELSE Number(Pick(x)) + f[x \ {Pick(x)}]]
           at == CHOOSE f : f = Rec(f)
<1>0. Thread = {Owner}
  BY StreamAssumption DEF OneThread
<1>1. HeldCount(s) = at[Thread]
  BY DEF HeldCount, MapThenSumSet, MapThenFoldSet
<1>2. \E f : f = Rec(f)
  <2> DEFINE g == [x \in SUBSET Thread |-> IF x = {} THEN 0 ELSE Number(Owner) + 0]
  <2>1. \A x \in SUBSET Thread : x # {} => Pick(x) = Owner /\ x \ {Pick(x)} = {}
    BY <1>0
  <2> HIDE DEF Number, Pick
  <2>2. g[{}] = 0
    OBVIOUS
  <2>3. \A x \in SUBSET Thread : Rec(g)[x] = g[x]
    BY <2>1, <2>2
  <2>4. g = Rec(g)
    BY <2>3
  <2> QED BY <2>4
<1>3. at = Rec(at)
  <2> HIDE DEF Rec
  <2> QED BY <1>2
<1>4. Pick(Thread) = Owner /\ Thread \ {Owner} = {} /\ Thread # {}
  BY <1>0
<1>5. Number(Owner) = Occurs(held[Owner], s) /\ Occurs(held[Owner], s) \in Nat
  <2>1. held[Owner] \in Seq(String)
    BY StreamAssumption DEF StringsInv
  <2>2. Number(Owner) = Occurs(held[Owner], s)
    BY DEF Occurs
  <2> QED BY <2>1, <2>2, OccursType
<1> HIDE DEF at, Number, Pick
<1>6. at[{}] = 0 /\ at[Thread] = Number(Owner) + at[{}]
  BY <1>3, <1>4
<1> QED BY <1>1, <1>5, <1>6

Returned(w, h) ==
    \A i \in 1..Len(w) : w[i].change = "release" =>
        Len(w) = Len(h) /\ w[i].string = h[i]

CountInv ==
    /\ reg[Owner] # Null => reg[Owner] = refs[Head(work[Owner]).string]
    /\ Returned(work[Owner], held[Owner])
    /\ stage = "minit" =>
         /\ work[Owner] = <<>> /\ held[Owner] = <<>>
         /\ \A n \in Node : \/ refs[PathOf(n)] = 0
                            \/ refs[PathOf(n)] = 2 /\ refs[UriOf(n)] = 1
    /\ stage = "requests" =>
         \A s \in String : refs[s] = Owners(s) + Occurs(held[Owner], s)
    /\ stage = "off" => work[Owner] = <<>> /\ \A s \in String : refs[s] = 0

\* A stream works on the strings as any other code does.
LEMMA StringsOfStream == [StreamNext]_allVars => [StringsNext]_stringVars
<1> SUFFICES ASSUME [StreamNext]_allVars PROVE [StringsNext]_stringVars
  OBVIOUS
<1>0. CASE UNCHANGED allVars
  BY <1>0 DEF allVars, stringVars
<1>1. CASE StringsStep
  BY <1>1 DEF StringsNext
<1>2. ASSUME NEW u \in Uri, NEW wanted \in BOOLEAN, NodeFromURI(u) # Null,
             ReturnPath(NodeFromURI(u), wanted)
      PROVE  [StringsNext]_stringVars
  <2>1. NodeFromURI(u) \in Node /\ Owner \in Thread
    BY <1>2, StreamAssumption DEF NodeFromURI
  <2> QED BY <1>2, <2>1 DEF ReturnPath, StringsNext
<1>3. ASSUME NEW u \in Uri, OpenNew(u, "dir", FALSE, FALSE) PROVE [StringsNext]_stringVars
  BY <1>2, <1>3 DEF OpenNew, MayOpen
<1>4. ASSUME NEW u \in Uri, NEW how \in Mode, NEW wanted \in BOOLEAN,
             NEW persistent \in BOOLEAN, OpenNew(u, how, persistent, wanted)
      PROVE  [StringsNext]_stringVars
  BY <1>2, <1>4 DEF OpenNew, MayOpen
<1>5. ASSUME NEW u \in Uri, NEW how \in Mode, NEW wanted \in BOOLEAN, OpenAgain(u, how, wanted)
      PROVE  [StringsNext]_stringVars
  BY <1>2, <1>5 DEF OpenAgain, MayOpen
<1>6. CASE ReleaseAll
  BY <1>6 DEF StringsNext
<1>7. ASSUME NEW s \in handles, NEW whence, NEW off,
             SeekInBuffer(s, whence, off) \/ Seek(s, whence, off)
      PROVE  UNCHANGED stringVars
  BY <1>7 DEF SeekInBuffer, Seek
<1>8. ASSUME NEW s \in handles, NEW size, Read(s, size) PROVE UNCHANGED stringVars
  BY <1>8 DEF Read
<1> QED
  BY <1>0, <1>1, <1>3, <1>4, <1>5, <1>6, <1>7, <1>8
  DEF StreamNext, AbortOpen, Stat, ReadDir, RewindDir, Close, EndRequest, CloseAll

LEMMA CountInvInit == StringsInit => CountInv
<1> SUFFICES ASSUME StringsInit PROVE CountInv
  OBVIOUS
<1>1. Owner \in Thread
  BY StreamAssumption
<1>2. \A n \in Node : PathOf(n) \in String
  BY DEF String
<1> QED BY <1>1, <1>2 DEF StringsInit, CountInv, Returned

LEMMA TakeCounts ==
    ASSUME StringsInv, CountInv, OneThread, NEW t \in Thread, NEW strings \in Seq(String),
           IdleThread(t), Take(t, strings)
    PROVE  CountInv'
<1>1. t = Owner
  BY StreamAssumption DEF OneThread
<1>2. work[Owner] = <<>> /\ reg[Owner] = Null /\ stage = "requests"
  BY <1>1 DEF IdleThread, StringsInv, WorkInv
<1>3. work'[Owner] = Changes(strings, AddRef) /\ UNCHANGED <<refs, reg, held, stage>>
  BY <1>1 DEF Take, StringsInv
<1>4. Returned(Changes(strings, AddRef), held[Owner])
  BY DEF Returned, Changes, AddRef
<1> QED BY <1>2, <1>3, <1>4 DEF CountInv

LEMMA StoreCounts ==
    ASSUME StringsInv, CountInv, OneThread, NEW t \in Thread, Store(t)
    PROVE  CountInv'
<1> DEFINE w == work[Owner]
           h == held[Owner]
           c == Head(w)
           k == IF c.change = "add" THEN Append(h, c.string) ELSE Tail(h)
<1>0. t = Owner
  BY StreamAssumption DEF OneThread
<1>1. /\ w \in Seq(Change) /\ w # <<>> /\ h \in Seq(String) /\ reg[Owner] # Null
      /\ AddsOrReturns(w, h) /\ refs \in [String -> Nat]
      /\ work \in [Thread -> Seq(Change)] /\ held \in [Thread -> Seq(String)]
      /\ reg \in [Thread -> Nat \cup {Null}]
  BY <1>0 DEF Store, StringsInv, WorkInv
<1>2. c \in Change /\ c = w[1] /\ c.string \in String
  <2>1. c \in Change /\ c = w[1]
    BY <1>1
  <2> QED BY <2>1 DEF Change
<1>3. /\ refs' = [refs EXCEPT ![c.string] = Stored(c, reg[Owner])]
      /\ held'[Owner] = k /\ work'[Owner] = Tail(w) /\ reg'[Owner] = Null /\ stage' = stage
  BY <1>0, <1>1 DEF Store
<1>4. stage = "requests"
  BY <1>1 DEF CountInv, StringsInv
<1>5. reg[Owner] = refs[c.string]
  BY <1>1 DEF CountInv
<1>6. /\ Len(w) \in Nat \ {0} /\ Len(Tail(w)) = Len(w) - 1
      /\ \A i \in 1..Len(Tail(w)) : Tail(w)[i] = w[i + 1]
  BY <1>1
<1>7. Returned(w, h)
  BY DEF CountInv
<1>8. c.change # "add" =>
        /\ c.change = "release" /\ Len(w) = Len(h) /\ h[1] = c.string
  BY <1>2, <1>6, <1>7 DEF Change, Returned
<1>9. Returned(Tail(w), k)
  <2>1. CASE c.change = "add"
    <3>1. \A i \in 1..Len(w) : w[i].change = "add"
      <4>1. 1 \in 1..Len(w) /\ w[1].change = "add"
        BY <1>2, <1>6, <2>1
      <4> HIDE DEF w, h
      <4> QED BY <1>1, <4>1 DEF AddsOrReturns
    <3> QED BY <1>6, <3>1 DEF Returned
  <2>2. CASE c.change # "add"
    <3>1. Len(h) = Len(w) /\ k = Tail(h)
      BY <1>8, <2>2
    <3>2. Len(k) = Len(Tail(w)) /\ \A i \in 1..Len(k) : k[i] = h[i + 1]
      <4>1. h # <<>> /\ h \in Seq(String)
        BY <1>1, <1>6, <3>1
      <4> HIDE DEF h, k, w
      <4>2. Len(k) = Len(h) - 1 /\ \A i \in 1..Len(k) : k[i] = h[i + 1]
        BY <3>1, <4>1
      <4> QED BY <1>6, <3>1, <4>2
    <3> HIDE DEF k, h, w
    <3>3. ASSUME NEW i \in 1..Len(Tail(w)), Tail(w)[i].change = "release"
          PROVE  Tail(w)[i].string = k[i]
      <4>1. i + 1 \in 1..Len(w) /\ w[i + 1].change = "release"
        BY <1>6, <3>3
      <4>2. w[i + 1].string = h[i + 1]
        BY <1>7, <4>1 DEF Returned
      <4> QED BY <1>6, <3>2, <4>2
    <3> QED BY <3>2, <3>3 DEF Returned
  <2> QED BY <2>1, <2>2
<1>10. ASSUME NEW s \in String PROVE refs'[s] = Owners(s) + Occurs(k, s)
  <2>1. refs[s] = Owners(s) + Occurs(h, s) /\ Owners(s) \in 1..2 /\ Occurs(h, s) \in Nat
    <3>1. Owners(s) \in 1..2
      BY DEF Owners
    <3>2. Occurs(h, s) \in Nat
      BY <1>1, OccursType
    <3> QED BY <1>4, <3>1, <3>2 DEF CountInv
  <2>2. CASE c.change = "add"
    <3>1. refs'[s] = IF c.string = s THEN refs[s] + 1 ELSE refs[s]
      BY <1>1, <1>3, <1>5, <2>2 DEF Stored
    <3>2. Occurs(k, s) = IF c.string = s THEN Occurs(h, s) + 1 ELSE Occurs(h, s)
      <4>1. k = Append(h, c.string)
        BY <2>2
      <4> QED BY <1>1, <1>2, <4>1, OccursAppend
    <3> QED BY <2>1, <3>1, <3>2
  <2>3. CASE c.change # "add"
    <3>0. h # <<>> /\ h[1] = c.string
      BY <1>1, <1>6, <1>8, <2>3
    <3>1. Occurs(h, c.string) > 0
      BY <1>1, <3>0, OccursType
    <3>2. c.string = s => refs[s] # 0
      BY <2>1, <3>1
    <3>3. refs'[s] = IF c.string = s THEN refs[s] - 1 ELSE refs[s]
      BY <1>1, <1>3, <1>5, <2>3, <3>2 DEF Stored
    <3>4. Occurs(k, s) = IF c.string = s THEN Occurs(h, s) - 1 ELSE Occurs(h, s)
      <4>1. k = Tail(h)
        BY <2>3
      <4> QED BY <1>1, <3>0, <4>1, OccursTail
    <3> QED BY <2>1, <3>3, <3>4
  <2> QED BY <2>2, <2>3
<1> HIDE DEF w, h, c, k
<1> QED BY <1>3, <1>4, <1>9, <1>10 DEF CountInv

LEMMA CountInvNext ==
    ASSUME StringsInv, CountInv, OneThread, [StringsNext]_stringVars
    PROVE  CountInv'
<1>0. Owner \in Thread
  BY StreamAssumption
<1>1. ASSUME NEW n \in Node, CreateNode(n) PROVE CountInv'
  <2>1. \A m \in Node : PathOf(m) \in String /\ UriOf(m) \in String
    BY DEF String
  <2>2. \A m, l \in Node : PathOf(m) # UriOf(l)
    BY DEF PathOf, UriOf
  <2>3. \A m \in Node : (PathOf(m) = PathOf(n) <=> m = n) /\ (UriOf(m) = UriOf(n) <=> m = n)
    BY DEF PathOf, UriOf
  <2>4. refs \in [String -> Nat]
    BY DEF StringsInv
  <2>5. /\ refs' = [refs EXCEPT ![PathOf(n)] = 2, ![UriOf(n)] = 1]
        /\ UNCHANGED <<work, reg, held, stage>> /\ stage = "minit"
    BY <1>1 DEF CreateNode
  <2>6. \A m \in Node : \/ refs'[PathOf(m)] = 0
                        \/ refs'[PathOf(m)] = 2 /\ refs'[UriOf(m)] = 1
    BY <2>1, <2>2, <2>3, <2>4, <2>5 DEF CountInv
  <2>7. reg[Owner] = Null
    BY <1>0, <2>5 DEF CountInv, StringsInv, WorkInv
  <2> QED BY <2>5, <2>6, <2>7 DEF CountInv
<1>2. CASE FirstRequest
  <2>1. ASSUME NEW s \in String PROVE refs[s] = Owners(s) + Occurs(held[Owner], s)
    <3>1. PICK n \in Node : s = PathOf(n) \/ s = UriOf(n)
      BY DEF String
    <3>2. refs[PathOf(n)] = 2 /\ refs[UriOf(n)] = 1
      BY <1>2 DEF FirstRequest, AllNodes, CountInv
    <3>3. Owners(PathOf(n)) = 2 /\ Owners(UriOf(n)) = 1
      BY DEF Owners, PathOf, UriOf
    <3>4. Occurs(held[Owner], s) = 0
      BY <1>0, <1>2, OccursType DEF FirstRequest, CountInv, StringsInv
    <3> QED BY <3>1, <3>2, <3>3, <3>4
  <2> QED BY <1>2, <2>1 DEF FirstRequest, CountInv
<1>3. ASSUME NEW t \in Thread, fileInfos(t) PROVE CountInv'
  BY <1>3, PathsOfType, TakeCounts, StringsAssumption DEF fileInfos
<1>4. ASSUME NEW t \in Thread, symbolInfos(t) PROVE CountInv'
  BY <1>4, PathsOfType, TakeCounts, StringsAssumption DEF symbolInfos
<1>5. ASSUME NEW t \in Thread, FreeValues(t) PROVE CountInv'
  <2> DEFINE w == Changes(held[Owner], Release)
  <2>1. t = Owner /\ held[Owner] \in Seq(String)
    BY StreamAssumption DEF OneThread, StringsInv
  <2>2. work[Owner] = <<>> /\ reg[Owner] = Null /\ stage = "requests"
    BY <1>5, <2>1 DEF FreeValues, IdleThread, StringsInv, WorkInv
  <2>3. work'[Owner] = w /\ UNCHANGED <<refs, reg, held, stage>>
    BY <1>5, <2>1 DEF FreeValues, StringsInv
  <2>4. Returned(w, held[Owner])
    BY <2>1 DEF Returned, Changes, Release
  <2> HIDE DEF w
  <2> QED BY <2>2, <2>3, <2>4 DEF CountInv
<1>6. ASSUME NEW t \in Thread, Load(t) PROVE CountInv'
  <2>1. t = Owner
    BY StreamAssumption DEF OneThread
  <2>2. reg'[Owner] = refs[Head(work[Owner]).string] /\ UNCHANGED <<refs, work, held, stage>>
    BY <1>6, <2>1 DEF Load, StringsInv
  <2> QED BY <2>2 DEF CountInv
<1>7. ASSUME NEW t \in Thread, Store(t) PROVE CountInv'
  BY <1>7, StoreCounts
<1>8. ASSUME NEW t \in Thread, NEW n \in Node, OpenedPath(t, n) PROVE CountInv'
  <2>1. <<UriOf(n)>> \in Seq(String)
    BY DEF UriOf, String
  <2> QED BY <1>8, <2>1, TakeCounts DEF OpenedPath
<1>9. CASE ReleaseAll
  <2>1. work[Owner] = <<>> /\ held[Owner] = <<>> /\ reg[Owner] = Null
    BY <1>0, <1>9 DEF ReleaseAll, Quiet, StringsInv, WorkInv
  <2>2. ASSUME NEW s \in String PROVE refs'[s] = 0
    <3>1. Occurs(held[Owner], s) = 0 /\ Owners(s) \in 1..2
      <4>1. held[Owner] \in Seq(String)
        BY <1>0 DEF StringsInv
      <4>2. Owners(s) \in 1..2
        BY DEF Owners
      <4> QED BY <2>1, <4>1, <4>2, OccursType
    <3>2. refs[s] = Owners(s) + 0
      BY <1>9, <3>1 DEF ReleaseAll, CountInv
    <3> QED BY <1>9, <3>1, <3>2 DEF ReleaseAll
  <2> QED BY <1>9, <2>1, <2>2 DEF ReleaseAll, CountInv
<1>10. CASE UNCHANGED stringVars
  BY <1>10 DEF stringVars, CountInv
<1> QED BY <1>1, <1>2, <1>3, <1>4, <1>5, <1>6, <1>7, <1>8, <1>9, <1>10
        DEF StringsNext, StringsStep

LEMMA CountInvImplies ==
    ASSUME StringsInv, CountInv, OneThread
    PROVE  CountExact /\ StringsAlive
<1>1. CountExact
  BY SumOfOne DEF CountExact, CountInv
<1>2. StringsAlive
  <2>1. Owner \in Thread
    BY StreamAssumption
  <2>2. ASSUME NEW s \in String PROVE Occurs(held[Owner], s) \in Nat /\ Owners(s) \in 1..2
    <3>1. held[Owner] \in Seq(String)
      BY <2>1 DEF StringsInv
    <3>2. Owners(s) \in 1..2
      BY DEF Owners
    <3> QED BY <3>1, <3>2, OccursType
  <2> QED BY <2>2 DEF StringsAlive, CountInv
<1> QED BY <1>1, <1>2

LEMMA CountInvariant ==
    ASSUME OneThread
    PROVE  StreamSpec => [](StringsInv /\ CountInv)
<1>1. StreamInv /\ CountInv /\ [StreamNext]_allVars => CountInv'
  BY StringsOfStream, CountInvNext DEF StreamInv
<1>2. StreamInit => CountInv
  BY CountInvInit DEF StreamInit
<1>3. StreamInv => StringsInv
  BY DEF StreamInv
<1> QED BY <1>1, <1>2, <1>3, StreamInvariant, PTL DEF StreamSpec

\* If there is one thread only, as in a build without ZTS, the count of every node's
\* string is at any time between two changes what its owners and the PHP values add up
\* to, and MSHUTDOWN frees every string (CountExact).
THEOREM CountExactInvariant ==
    ASSUME OneThread
    PROVE  StreamSpec => []CountExact
<1>1. StringsInv /\ CountInv => CountExact
  BY CountInvImplies
<1> QED BY <1>1, CountInvariant, PTL

\* If there is one thread only, no string of a node is freed before the end of the
\* module, as PCS_Tree.h:68 supposes (StringsAlive): the race of two threads is all that
\* it takes to break this, and nothing less does.
THEOREM StringsAliveInvariant ==
    ASSUME OneThread
    PROVE  StreamSpec => []StringsAlive
<1>1. StringsInv /\ CountInv => StringsAlive
  BY CountInvImplies
<1> QED BY <1>1, CountInvariant, PTL
============================================================================
