---------------------------- MODULE PCS_Strings ----------------------------
(***************************************************************************)
(* The reference-counted strings that all threads share: path and URI of   *)
(* every node (src/src/PCS_Tree.c).  PCS\Mgr::fileInfos() and              *)
(* symbolInfos() (src/src/PCS_Info.c) hand the paths themselves out to PHP *)
(* code, and opening a stream hands out the URI, each time adding a        *)
(* reference.  The counts are plain integers, so that each change of one   *)
(* is a load and a store, which are two steps here.                        *)
(***************************************************************************)
EXTENDS Naturals, Sequences, SequencesExt

CONSTANTS
    Node,           \* the nodes of the tree
    FileList,       \* the file nodes in the order of their IDs
    SymbolFiles,    \* the file of every symbol in the order of the table
    Thread,
    MaxHeld,        \* bounds the references a thread's PHP values hold
    Null

ASSUME StringsAssumption ==
    /\ FileList \in Seq(Node) /\ SymbolFiles \in Seq(Node)
    /\ MaxHeld \in Nat /\ Null \notin Thread

PathOf(n) == <<"path", n>>
UriOf(n)  == <<"uri", n>>
String == {PathOf(n) : n \in Node} \cup {UriOf(n) : n \in Node}

VARIABLES
    refs,           \* string -> its count; 0: not allocated, or freed
    work,           \* thread -> the changes of counts it is going to make
    reg,            \* thread -> the count it has loaded, or Null
    held,           \* thread -> the strings its PHP values refer to
    stage           \* "minit", "requests" or "off"

stringVars == <<refs, work, reg, held, stage>>

StringsInit ==
    /\ refs = [s \in String |-> 0]
    /\ work = [t \in Thread |-> <<>>]
    /\ reg = [t \in Thread |-> Null]
    /\ held = [t \in Thread |-> <<>>]
    /\ stage = "minit"

-----------------------------------------------------------------------------
\* Start of the process: PCS_Tree_addSubNode for every node, the root first.
\* Adding a string to a hash table as a key takes a reference.
CreateNode(n) ==
    /\ stage = "minit"
    /\ refs[PathOf(n)] = 0
    /\ refs' = [refs EXCEPT ![PathOf(n)] = 2, ![UriOf(n)] = 1]
    /\ UNCHANGED <<work, reg, held, stage>>

AllNodes == \A n \in Node : refs[PathOf(n)] > 0

FirstRequest ==
    /\ stage = "minit" /\ AllNodes
    /\ stage' = "requests"
    /\ UNCHANGED <<refs, work, reg, held>>

-----------------------------------------------------------------------------
\* Requests

IdleThread(t) == stage = "requests" /\ work[t] = <<>>

AddRef(s)  == [change |-> "add", string |-> s]
Release(s) == [change |-> "release", string |-> s]
Changes(seq, Change(_)) == [i \in 1..Len(seq) |-> Change(seq[i])]

\* Bound: MaxHeld
Take(t, strings) ==
    /\ Len(held[t]) + Len(strings) <= MaxHeld
    /\ work' = [work EXCEPT ![t] = Changes(strings, AddRef)]
    /\ UNCHANGED <<refs, reg, held, stage>>

PathsOf(files) == [i \in 1..Len(files) |-> PathOf(files[i])]

fileInfos(t)   == IdleThread(t) /\ Take(t, PathsOf(FileList))
symbolInfos(t) == IdleThread(t) /\ Take(t, PathsOf(SymbolFiles))
\* PCS_Stream_generic_open for a caller that wants to know the opened path
OpenedPath(t, n) == IdleThread(t) /\ Take(t, <<UriOf(n)>>)

\* PHP frees the values, at the end of the request or before
FreeValues(t) ==
    /\ IdleThread(t)
    /\ held[t] # <<>>
    /\ work' = [work EXCEPT ![t] = Changes(held[t], Release)]
    /\ UNCHANGED <<refs, reg, held, stage>>

Load(t) ==
    /\ work[t] # <<>> /\ reg[t] = Null
    /\ reg' = [reg EXCEPT ![t] = refs[Head(work[t]).string]]
    /\ UNCHANGED <<refs, work, held, stage>>

Bug_Stored(c, n) == n + 1               \* references are never given back
Stored(c, n) == IF c.change = "add" THEN n + 1 ELSE IF n = 0 THEN 0 ELSE n - 1

\* A count that becomes 0 frees the string
Store(t) ==
    /\ reg[t] # Null
    /\ LET c == Head(work[t]) IN
         /\ refs' = [refs EXCEPT ![c.string] = Stored(c, reg[t])]
         /\ held' = [held EXCEPT ![t] = IF c.change = "add" THEN Append(@, c.string)
                                        ELSE Tail(@)]
    /\ work' = [work EXCEPT ![t] = Tail(@)]
    /\ reg' = [reg EXCEPT ![t] = Null]
    /\ UNCHANGED stage

-----------------------------------------------------------------------------
\* MSHUTDOWN: pathList releases its keys, then the nodes their strings.

Quiet == \A t \in Thread : work[t] = <<>> /\ held[t] = <<>>

\* How many of them refer to the string
Owners(s) ==
    IF s[1] = "path" THEN 2             \* the node and pathList
    ELSE 1                              \* the node

ReleaseAll ==
    /\ stage = "requests" /\ Quiet
    /\ stage' = "off"
    /\ refs' = [s \in String |-> IF refs[s] < Owners(s) THEN 0 ELSE refs[s] - Owners(s)]
    /\ UNCHANGED <<work, reg, held>>

\* All but the opening of streams and the end of the module
StringsStep ==
    \/ \E n \in Node : CreateNode(n)
    \/ FirstRequest
    \/ \E t \in Thread :
         \/ fileInfos(t) \/ symbolInfos(t) \/ FreeValues(t)
         \/ Load(t) \/ Store(t)

StringsNext ==
    \/ StringsStep
    \/ \E t \in Thread, n \in Node : OpenedPath(t, n)
    \/ ReleaseAll

StringsSpec == StringsInit /\ [][StringsNext]_stringVars

-----------------------------------------------------------------------------
\* Properties

HeldCount(s) ==
    LET count(t) == Cardinality({i \in 1..Len(held[t]) : held[t][i] = s})
    IN  MapThenSumSet(count, Thread)

\* The count of a node's string is what its owners and the PHP values of all
\* threads add up to, whatever was opened, listed and freed before, so that
\* MSHUTDOWN frees it.
CountExact ==
    \A s \in String :
      /\ stage = "requests" /\ (\A t \in Thread : reg[t] = Null) =>
            refs[s] = Owners(s) + HeldCount(s)
      /\ stage = "off" => refs[s] = 0

\* "We don't set mutexes on elements which cannot be modified after MINIT"
\* (PCS_Tree.h:68): the strings of a node stay allocated as long as the node.
StringsAlive == stage = "requests" => \A s \in String : refs[s] > 0
=============================================================================
