------------------------------ MODULE PCS_Tree ------------------------------
(***************************************************************************)
(* The virtual file tree of PCS (src/src/PCS_Tree.c): the nodes, the       *)
(* pathList cache that maps every path seen so far to its node, and the    *)
(* fileList that numbers the files.  Client extensions add nodes during    *)
(* MINIT, one call at a time.  Afterwards every request thread looks paths *)
(* up: the tree is then read without a lock, pathList is read without a    *)
(* lock and written under the pathList mutex.                              *)
(*                                                                         *)
(* The loops of the code are stepped through, one path segment per action. *)
(* A path is the sequence of its segments after PCS_Tree_cleanPath, which  *)
(* leaves no empty segment (see PCS_Path); <<>> is the empty path.         *)
(* Node flags are left out: only the loader reads them.  A Bug_ operator   *)
(* is the operator below it with a plausible mistake; nothing uses it.     *)
(***************************************************************************)
EXTENDS Naturals, Sequences

CONSTANTS
    Addr,           \* addresses a node may be allocated at (bounds the tree)
    Root,           \* the address of the root node
    Null,
    EntryName,      \* names of directory entries
    RegPath,        \* cleaned paths that client extensions register
    LookupPath,     \* cleaned paths that are looked up
    Data,           \* file contents
    Thread,         \* threads of the server
    MainThread,     \* the thread that runs MINIT
    MaxCopies       \* bounds the misses due to a pathList read during a write

Dot    == "."
DotDot == ".."
Empty  == ""

Segment == EntryName \cup {Dot, DotDot, Empty}

ASSUME AddrAssumption == Root \in Addr /\ Null \notin Addr
ASSUME NameAssumption == EntryName \cap {Dot, DotDot, Empty} = {}
ASSUME PathAssumption ==
    /\ RegPath \subseteq Seq(EntryName \cup {Dot, DotDot})
    /\ LookupPath \subseteq Seq(EntryName \cup {Dot, DotDot})
ASSUME DataAssumption == Null \notin Data
ASSUME ThreadAssumption == MainThread \in Thread /\ Null \notin Thread
ASSUME CopiesAssumption == MaxCopies \in Nat

VARIABLES
    node,           \* address -> PCS_Node, for the allocated addresses
    pathList,       \* path -> the node it finds and the number of its buckets
    fileList,       \* sequence of file nodes; file ID i is at index i + 1
    adding,         \* the PCS_Tree_addNode call in progress
    look,           \* for every thread, its PCS_Tree_getNodeFromPath call
    mutex,          \* holder of the pathList mutex
    in_startup      \* true from MINIT to the first RINIT

vars == <<node, pathList, fileList, adding, look, mutex, in_startup>>
tree == <<node, fileList>>

-----------------------------------------------------------------------------
\* Nodes

NodeType == {"dir", "file"}
EmptyFcn == [x \in {} |-> Null]

\* Adding a bucket to a hash table: the key is bound to the value
Put(f, k, v) == [x \in DOMAIN f \cup {k} |-> IF x = k THEN v ELSE f[x]]

PCS_Node(addr) == [type   : NodeType,
                   parent : addr \cup {Null},
                   path   : Seq(Segment),
                   items  : UNION {[S -> addr] : S \in SUBSET Segment},
                   id     : Nat \cup {Null},
                   data   : Data \cup {Null}]

IsDir(n)  == node[n].type = "dir"
IsFile(n) == node[n].type = "file"

\* zend_hash_str_find_ptr(PCS_DIR_HT(n), name)
Entry(n, name) ==
    IF name \in DOMAIN node[n].items THEN node[n].items[name] ELSE Null

\* The path of a new node: the root's path, which is empty, takes no '/'.
\* An empty name below the root gives the root's own path.
Bug_ChildPath(n, name) == <<name>>      \* the parent's path is not prepended
ChildPath(n, name) ==
    IF n = Root /\ name = Empty THEN <<>> ELSE Append(node[n].path, name)

\* Binding the node n to the path in pathList.  zend_hash_add_new_ptr does not
\* look for the key: a second bucket hides the first one.
Copies(p) == IF p \in DOMAIN pathList THEN pathList[p].copies ELSE 0
Listed(p, n) == Put(pathList, p, [node |-> n, copies |-> Copies(p) + 1])

NoAdd == [status |-> "idle", at |-> Null, rest |-> <<>>, type |-> "dir",
          data |-> Null]
NoLookup == [pc |-> "idle", path |-> <<>>, k |-> 0, at |-> Null]

Init ==
    /\ node = [n \in {Root} |-> [type |-> "dir", parent |-> Null, path |-> <<>>,
                                 items |-> EmptyFcn, id |-> Null, data |-> Null]]
    /\ pathList = [p \in {<<>>} |-> [node |-> Root, copies |-> 1]]
    /\ fileList = <<>>
    /\ adding = NoAdd
    /\ look = [t \in Thread |-> NoLookup]
    /\ mutex = Null
    /\ in_startup = TRUE

-----------------------------------------------------------------------------
\* Adding nodes (PCS_Tree_addNode and PCS_Tree_addSubNode)

\* PCS_register...() may be called during MINIT only
Bug_MayRegister == TRUE                 \* no startup test
MayRegister == in_startup

\* PCS_Tree_addNode enters its loop at the root; the empty path is one empty
\* segment, since the loop body runs before the first test.
AddNode(p, type, data) ==
    /\ MayRegister
    /\ adding.status = "idle"
    /\ look[MainThread].pc = "idle"
    /\ adding' = [status |-> "run", at |-> Root,
                  rest |-> IF p = <<>> THEN <<Empty>> ELSE p,
                  type |-> type, data |-> data]
    /\ UNCHANGED <<node, pathList, fileList, look, mutex, in_startup>>

Name == Head(adding.rest)
\* Only the last segment gets the type asked for
Bug_SubType == adding.type              \* the type is used for every segment
SubType == IF Len(adding.rest) = 1 THEN adding.type ELSE "dir"

Reject == adding' = [adding EXCEPT !.status = "failed", !.at = Null]
Descend(n) == adding' = [adding EXCEPT
    !.status = IF Len(adding.rest) = 1 THEN "ok" ELSE "run",
    !.at = n,
    !.rest = Tail(adding.rest)]

Bug_IsForbidden(name) == name = Dot     \* '..' is let through
IsForbidden(name) == name \in {Dot, DotDot}

SubNodeForbidden ==
    /\ adding.status = "run"
    /\ IsForbidden(Name)
    /\ Reject
    /\ UNCHANGED <<node, pathList, fileList, look, mutex, in_startup>>

Bug_MayReuse(n, type) == type = "dir"   \* a file is reused as a directory
Bug_MayReuseFile(n, type) == node[n].type = type   \* a file may be replaced
MayReuse(n, type) == IsDir(n) /\ type = "dir"

SubNodeExists ==
    /\ adding.status = "run"
    /\ ~IsForbidden(Name)
    /\ LET old == Entry(adding.at, Name) IN
        /\ old # Null
        /\ IF MayReuse(old, SubType) THEN Descend(old) ELSE Reject
    /\ UNCHANGED <<node, pathList, fileList, look, mutex, in_startup>>

\* The ID is read after the insertion into fileList
Bug_NewNode(name) ==
    [type |-> SubType, parent |-> adding.at, path |-> ChildPath(adding.at, name),
     items |-> EmptyFcn, data |-> Null,
     id |-> IF SubType = "file" THEN Len(fileList) + 1 ELSE Null]

NewNode(name) ==
    [type   |-> SubType,
     parent |-> adding.at,
     path   |-> ChildPath(adding.at, name),
     items  |-> EmptyFcn,
     id     |-> IF SubType = "file" THEN Len(fileList) ELSE Null,
     data   |-> Null]

Linked(n, name) ==
    [node EXCEPT ![adding.at].items = Put(@, name, n)]

FreeAddr == CHOOSE a \in Addr : a \notin DOMAIN node

\* The node is recorded in pathList before it is linked to its parent; no other
\* thread exists yet.  (Bound: Addr.)
SubNodeCreate ==
    /\ adding.status = "run"
    /\ ~IsForbidden(Name)
    /\ Entry(adding.at, Name) = Null
    /\ mutex = Null
    /\ Addr # DOMAIN node
    /\ node' = Put(Linked(FreeAddr, Name), FreeAddr, NewNode(Name))
    /\ pathList' = Listed(ChildPath(adding.at, Name), FreeAddr)
    /\ fileList' = IF SubType = "file" THEN Append(fileList, FreeAddr) ELSE fileList
    /\ Descend(FreeAddr)
    /\ UNCHANGED <<look, mutex, in_startup>>

\* The data is not stored in the node
Bug_AddReturn ==
    /\ adding.status \in {"ok", "failed"}
    /\ adding' = NoAdd
    /\ UNCHANGED <<node, pathList, fileList, look, mutex, in_startup>>

\* PCS_Tree_addFile stores the data in the node that addNode returned
AddReturn ==
    /\ adding.status \in {"ok", "failed"}
    /\ node' = IF adding.status = "ok" /\ adding.type = "file"
               THEN [node EXCEPT ![adding.at].data = adding.data]
               ELSE node
    /\ adding' = NoAdd
    /\ UNCHANGED <<pathList, fileList, look, mutex, in_startup>>

AddStep == SubNodeForbidden \/ SubNodeExists \/ SubNodeCreate \/ AddReturn

\* The first RINIT ends the startup phase
BeginRequests ==
    /\ in_startup
    /\ adding.status = "idle"
    /\ look[MainThread].pc = "idle"
    /\ in_startup' = FALSE
    /\ UNCHANGED <<node, pathList, fileList, adding, look, mutex>>

-----------------------------------------------------------------------------
\* Looking paths up (PCS_Tree_getNodeFromPath and PCS_Tree_resolvePath)

Goto(t, pc, n, k) ==
    look' = [look EXCEPT ![t] = [pc |-> pc, path |-> @.path, k |-> k, at |-> n]]

\* The empty path is the root, whatever pathList says
Lookup(t, p) ==
    /\ look[t].pc = "idle"
    /\ in_startup => t = MainThread /\ adding.status = "idle"
    /\ look' = [look EXCEPT ![t] = [pc |-> IF p = <<>> THEN "done" ELSE "find",
                                    path |-> p, k |-> 0, at |-> Root]]
    /\ UNCHANGED <<node, pathList, fileList, adding, mutex, in_startup>>

FindHit(t) ==
    /\ look[t].pc = "find"
    /\ look[t].path \in DOMAIN pathList
    /\ Goto(t, "done", pathList[look[t].path].node, 0)
    /\ UNCHANGED <<node, pathList, fileList, adding, mutex, in_startup>>

\* pathList is read without its mutex: while another thread is writing to it,
\* the read is a data race and may miss a path that is there.
OtherIsWriting(t) == mutex \notin {t, Null}
TornRead(t) == OtherIsWriting(t) /\ Copies(look[t].path) < MaxCopies

FindMiss(t) ==
    /\ look[t].pc = "find"
    /\ look[t].path \notin DOMAIN pathList \/ TornRead(t)
    /\ Goto(t, "walk", Root, 1)
    /\ UNCHANGED <<node, pathList, fileList, adding, mutex, in_startup>>

Follow(n, seg) ==
    CASE seg = DotDot -> IF node[n].parent = Null THEN n ELSE node[n].parent
      [] seg = Dot    -> n
      [] OTHER        -> Entry(n, seg)

\* One turn of the loop of PCS_Tree_resolvePath: the entry is missing or is a
\* file with segments left, the walk goes on below a directory, or it is over.
Target(t) == Follow(look[t].at, look[t].path[look[t].k])
AtEnd(t)  == look[t].k = Len(look[t].path)
\* A missing last segment is not told from a node found
Bug_ReachesMissing(t) == AtEnd(t) \/ (Target(t) # Null /\ IsDir(Target(t)))
\* A file may be followed by another segment
Bug_ReachesThroughFile(t) == Target(t) # Null
Reaches(t) == Target(t) # Null /\ (AtEnd(t) \/ IsDir(Target(t)))

WalkFail(t) ==
    /\ look[t].pc = "walk"
    /\ ~Reaches(t)
    /\ Goto(t, "done", Null, 0)
    /\ UNCHANGED <<node, pathList, fileList, adding, mutex, in_startup>>

\* The segment start is not moved past '/'
Bug_WalkOn(t) ==
    /\ look[t].pc = "walk"
    /\ Reaches(t) /\ ~AtEnd(t)
    /\ Goto(t, "walk", Target(t), look[t].k)
    /\ UNCHANGED <<node, pathList, fileList, adding, mutex, in_startup>>

WalkOn(t) ==
    /\ look[t].pc = "walk"
    /\ Reaches(t) /\ ~AtEnd(t)
    /\ Goto(t, "walk", Target(t), look[t].k + 1)
    /\ UNCHANGED <<node, pathList, fileList, adding, mutex, in_startup>>

WalkEnd(t) ==
    /\ look[t].pc = "walk"
    /\ Reaches(t) /\ AtEnd(t)
    /\ Goto(t, "lock", Target(t), 0)
    /\ UNCHANGED <<node, pathList, fileList, adding, mutex, in_startup>>

Lock(t) ==
    /\ look[t].pc = "lock"
    /\ mutex = Null
    /\ mutex' = t
    /\ Goto(t, "write", look[t].at, 0)
    /\ UNCHANGED <<node, pathList, fileList, adding, in_startup>>

\* The path is added and the mutex released; the path is not searched again
\* under the mutex.
Write(t) ==
    /\ look[t].pc = "write"
    /\ pathList' = Listed(look[t].path, look[t].at)
    /\ mutex' = Null
    /\ Goto(t, "done", look[t].at, 0)
    /\ UNCHANGED <<node, fileList, adding, in_startup>>

LookupReturn(t) ==
    /\ look[t].pc = "done"
    /\ look' = [look EXCEPT ![t] = NoLookup]
    /\ UNCHANGED <<node, pathList, fileList, adding, mutex, in_startup>>

LookupStep(t) ==
    \/ FindHit(t) \/ FindMiss(t)
    \/ WalkFail(t) \/ WalkOn(t) \/ WalkEnd(t)
    \/ Lock(t) \/ Write(t) \/ LookupReturn(t)

Next ==
    \/ \E p \in RegPath :
         \/ AddNode(p, "dir", Null)
         \/ \E d \in Data : AddNode(p, "file", d)
    \/ AddStep
    \/ BeginRequests
    \/ \E t \in Thread : (\E p \in LookupPath : Lookup(t, p)) \/ LookupStep(t)

Spec == Init /\ [][Next]_vars

-----------------------------------------------------------------------------
\* Properties

TypeOK ==
    /\ DOMAIN node \subseteq Addr
    /\ LET nodes == PCS_Node(Addr) IN \A n \in DOMAIN node : node[n] \in nodes
    /\ DOMAIN pathList \subseteq Seq(Segment)
    /\ \A p \in DOMAIN pathList :
          pathList[p] \in [node : DOMAIN node, copies : Nat \ {0}]
    /\ fileList \in Seq(DOMAIN node)
    /\ adding \in [status : {"idle", "run", "ok", "failed"},
                   at : DOMAIN node \cup {Null}, rest : Seq(Segment),
                   type : NodeType, data : Data \cup {Null}]
    /\ look \in [Thread -> [pc : {"idle", "find", "walk", "lock", "write", "done"},
                            path : Seq(Segment), k : Nat,
                            at : DOMAIN node \cup {Null}]]
    /\ mutex \in Thread \cup {Null}
    /\ in_startup \in BOOLEAN

\* Every node but the root is an entry of its parent directory, and every entry
\* of a directory is a node that points back to it and whose path is the
\* directory's path and the name: parent, items and path never disagree, also
\* between the steps of an addition and after one that failed halfway.
TreeShape ==
    /\ IsDir(Root) /\ node[Root].parent = Null /\ node[Root].path = <<>>
    /\ \A n \in DOMAIN node \ {Root} :
          LET up == node[n].parent IN
            up \in DOMAIN node /\ IsDir(up) /\ \E s \in EntryName : Entry(up, s) = n
    /\ \A n \in DOMAIN node : \A s \in DOMAIN node[n].items :
          LET c == node[n].items[s] IN
            /\ s \in EntryName /\ c \in DOMAIN node \ {Root}
            /\ node[c].parent = n /\ node[c].path = Append(node[n].path, s)

\* Every node is found in pathList under its own path and no other node is:
\* two nodes never share a path, although add_new does not search for the key.
PathListExact ==
    /\ \A n \in DOMAIN node :
          /\ node[n].path \in DOMAIN pathList
          /\ pathList[node[n].path].node = n
    /\ \A p \in DOMAIN pathList \cap Seq(EntryName) : node[pathList[p].node].path = p

\* tr is the sequence of nodes that a walk from the root along path p visits:
\* each but the last is a directory, '.' stays, '..' goes to the parent.
IsTrace(p, len, tr) ==
    /\ tr \in [0..len -> DOMAIN node]
    /\ tr[0] = Root
    /\ \A i \in 1..len : /\ IsDir(tr[i - 1])
                         /\ tr[i] = Follow(tr[i - 1], p[i])
Resolves(p, n) ==
    \E tr \in [0..Len(p) -> DOMAIN node] : IsTrace(p, Len(p), tr) /\ tr[Len(p)] = n

\* Whatever pathList holds, the aliases through '.' and '..' that the lookups
\* added included, is what walking the path would find now: an entry never
\* becomes stale while nodes are added.
PathListSound ==
    \A p \in DOMAIN pathList : Resolves(p, pathList[p].node)

\* The IDs are dense and never move: file ID i is the ID of the i-th file, and
\* every file is in fileList, also one whose addition has not returned yet.
FileListExact ==
    /\ \A i \in 1..Len(fileList) :
          IsFile(fileList[i]) /\ node[fileList[i]].id = i - 1
    /\ \A n \in DOMAIN node : IsFile(n) =>
          node[n].id + 1 \in 1..Len(fileList) /\ fileList[node[n].id + 1] = n

\* The reference definition of a lookup: walk the whole path.
Walk(p) ==
    LET at[i \in 0..Len(p)] ==
          IF i = 0 THEN Root
          ELSE IF at[i - 1] = Null \/ ~IsDir(at[i - 1]) THEN Null
          ELSE Follow(at[i - 1], p[i])
    IN  at[Len(p)]

\* A lookup returns what the walk finds, whether it hit pathList, missed it,
\* or missed it because another thread was writing.
LookupExact ==
    \A t \in Thread : look[t].pc = "done" => look[t].at = Walk(look[t].path)

\* "We don't set mutexes on elements which cannot be modified after MINIT"
\* (PCS_Tree.h:68): nodes and fileList, which lookups read without a lock, do
\* not change while a lookup is under way.
TreeStable == [][(\E t \in Thread : look[t].pc # "idle") => UNCHANGED tree]_vars

\* What the abstract VirtualFS sees of the tree
DirPaths  == {node[n].path : n \in {a \in DOMAIN node : IsDir(a)}}
FilePaths == [i \in 1..Len(fileList) |-> node[fileList[i]].path]
VFS == INSTANCE VirtualFS WITH dirs <- DirPaths, files <- FilePaths

\* The tree implements VirtualFS: every step adds one directory or one file
\* with the next ID at a free path below a directory, or changes nothing a
\* client can see.
ImplementsVFS == VFS!Spec

\* Every lookup returns, though it may have to wait for the mutex.
LookupReturns == \A t \in Thread : look[t].pc # "idle" ~> look[t].pc = "idle"

=============================================================================
