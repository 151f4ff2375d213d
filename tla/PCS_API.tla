------------------------------ MODULE PCS_API ------------------------------
(***************************************************************************)
(* The client API of PCS (src/src/PCS_API.c) on top of the virtual tree.   *)
(* Client extensions call PCS_registerPath, PCS_registerData and           *)
(* PCS_registerEmbedded from their MINIT, one call at a time; a call that  *)
(* fails halfway leaves what it added before.  PCS_registerPath crawls a   *)
(* directory of the disk and reads every file into a buffer of its own,    *)
(* which the file's node takes over and MSHUTDOWN frees.                   *)
(*                                                                         *)
(* Every addition runs through the steps of PCS_Tree.  A file node whose   *)
(* data is in Buffer is one with the alloc flag.  An error reported with   *)
(* php_error is followed by what the code does next, a return of FAILURE   *)
(* (Null here).                                                            *)
(***************************************************************************)
EXTENDS PCS_Tree, FiniteSets

CONSTANTS
    Object,         \* files and directories of the disk
    Disk,           \* object -> its kind and, for a directory, its entries
    Source,         \* objects that clients register
    VirtualPath,    \* virtual paths they register at
    Place,          \* object and virtual path of the (nested) registerPath calls
    EmbeddedList,   \* descriptor lists, without the final null descriptor
    ClientData,     \* data owned by clients
    Buffer          \* buffers of file contents (bounds the files read)

(* A missing object is one that stat() does not find, also because it went *)
(* away after the scan; a shrinking file gets shorter between the fstat()  *)
(* and the fread().                                                        *)
ObjectKind ==
    {"dir", "file", "other", "missing", "unopenable", "unscannable", "shrinking"}
DirKind    == {"dir", "unscannable"}

\* The rule of PCS_registerPath for the entries of a directory it leaves out:
\* name[0] is a dot, and name[1] ends the name, or is a dot, or name[2] ends it.
Bug_IsSkipped(name) == SubSeq(name, 1, 1) = Dot     \* all hidden files
IsSkipped(name) ==
    /\ SubSeq(name, 1, 1) = Dot
    /\ Len(name) > 2 => SubSeq(name, 2, 2) = Dot

ASSUME DiskAssumption ==
    /\ Null \notin Object
    /\ Disk \in [Object -> [kind : ObjectKind,
                            entries : SUBSET ((EntryName \cup {Dot, DotDot}) \X Object)]]
    /\ Source \subseteq Object
ASSUME PlaceAssumption ==
    /\ Source \X VirtualPath \subseteq Place
    /\ Place \subseteq Object \X RegPath
    /\ \A q \in Place : \A e \in Disk[q[1]].entries :
          ~IsSkipped(e[1]) => <<e[2], Append(q[2], e[1])>> \in Place
ASSUME ClientAssumption ==
    /\ Data = Buffer \cup ClientData
    /\ Buffer \cap ClientData = {}
    /\ VirtualPath \subseteq RegPath
    /\ EmbeddedList \subseteq Seq([version : Nat, path : RegPath, data : ClientData])
    /\ \A l \in EmbeddedList : \A i \in 1..Len(l) : \A p \in VirtualPath :
          p \o l[i].path \in RegPath

VARIABLES
    call,           \* the PCS_register...() call in progress
    last,           \* arguments and result of the call in progress or the last one
    heap,           \* buffer -> the object read into it; Null when it is free
    shut            \* MSHUTDOWN has run

apiVars == <<call, last, heap, shut>>
allVars == <<node, pathList, fileList, adding, look, mutex, in_startup,
             call, last, heap, shut>>

NoCall == [pc |-> "idle", obj |-> Null, vpath |-> <<>>, frames |-> <<>>,
           list |-> <<>>, count |-> 0, buf |-> Null]
NoResult == [op |-> "none", src |-> Null, vpath |-> <<>>, first |-> 0,
             value |-> Null]

ApiInit ==
    /\ Init
    /\ call = NoCall
    /\ last = NoResult
    /\ heap = [b \in Buffer |-> Null]
    /\ shut = FALSE

-----------------------------------------------------------------------------
\* Starting and ending a call

Idle == call.pc = "idle" /\ look[MainThread].pc = "idle" /\ ~shut

\* first is the number of files there were before
Begin(op, src, p) ==
    last' = [op |-> op, src |-> src, vpath |-> p, first |-> Len(fileList),
             value |-> Null]

\* The calls are refused once the startup phase is over
Refuse ==
    /\ Idle
    /\ ~in_startup
    /\ last' = NoResult
    /\ UNCHANGED <<vars, call, heap, shut>>

RegisterPath(o, p) ==
    /\ Idle
    /\ MayRegister
    /\ Begin("path", o, p)
    /\ call' = [NoCall EXCEPT !.pc = "stat", !.obj = o, !.vpath = p]
    /\ UNCHANGED <<vars, heap, shut>>

RegisterEmbedded(l, p) ==
    /\ Idle
    /\ MayRegister
    /\ Begin("embedded", Null, p)
    /\ call' = [NoCall EXCEPT !.pc = "next", !.list = l, !.vpath = p]
    /\ UNCHANGED <<vars, heap, shut>>

RegisterData(d, p) ==
    /\ Idle
    /\ Begin("data", Null, p)
    /\ call' = [NoCall EXCEPT !.pc = "adddata", !.vpath = p]
    /\ AddNode(p, "file", d)
    /\ UNCHANGED <<heap, shut>>

Result(value) == last' = [last EXCEPT !.value = value]

\* Every frame of the recursion returns FAILURE; the one that was reading a
\* file frees its buffer (CLEANUP_PCS_registerPath).
Freed(b) == IF b = Null THEN heap ELSE [heap EXCEPT ![b] = Null]
Bug_Fail ==                             \* status, -1, is added and not tested
    /\ heap' = Freed(call.buf)
    /\ IF call.frames = <<>>
       THEN call' = NoCall /\ Result(Null)
       ELSE /\ call' = [NoCall EXCEPT !.pc = "entries",
                          !.frames = [call.frames EXCEPT ![1].count = @ - 1]]
            /\ last' = last
Fail == call' = NoCall /\ Result(Null) /\ heap' = Freed(call.buf)

\* A frame of PCS_registerPath returns v to the frame above it or to the client.
\* frames[1] is the directory whose entries are being registered.
Bug_Add(f, v) == [f EXCEPT !.count = v]         \* fcount = status
Add(f, v) == [f EXCEPT !.count = @ + v]         \* fcount += status
Return(frames, v) ==
    IF frames = <<>>
    THEN call' = NoCall /\ Result(v)
    ELSE /\ call' = [NoCall EXCEPT !.pc = "entries",
                       !.frames = <<Add(Head(frames), v)>> \o Tail(frames)]
         /\ last' = last

-----------------------------------------------------------------------------
\* PCS_registerPath

Kind == Disk[call.obj].kind

\* The files added by the call are taken back, and their IDs given again
Bug_SourceFails ==
    /\ call.pc = "stat"
    /\ Kind \in {"missing", "unopenable"}
    /\ Fail
    /\ fileList' = SubSeq(fileList, 1, last.first)
    /\ UNCHANGED <<node, pathList, adding, look, mutex, in_startup, shut>>

\* stat(), fopen() fail
SourceFails ==
    /\ call.pc = "stat"
    /\ Kind \in {"missing", "unopenable"}
    /\ Fail
    /\ UNCHANGED <<vars, shut>>

\* Neither a directory nor a regular file
SourceIgnored ==
    /\ call.pc = "stat"
    /\ Kind = "other"
    /\ Return(call.frames, 0)
    /\ UNCHANGED <<vars, heap, shut>>

MakeDir ==
    /\ call.pc = "stat"
    /\ Kind \in DirKind
    /\ AddNode(call.vpath, "dir", Null)
    /\ call' = [call EXCEPT !.pc = "adddir"]
    /\ UNCHANGED <<last, heap, shut>>

\* The directory is scanned once its node is there
DirAdded ==
    /\ call.pc = "adddir"
    /\ AddReturn
    /\ IF adding.status = "ok" /\ Kind = "dir"
       THEN /\ call' = [NoCall EXCEPT !.pc = "entries",
                          !.frames = <<[vpath |-> call.vpath, count |-> 0,
                                        todo |-> Disk[call.obj].entries]>> \o call.frames]
            /\ UNCHANGED <<last, heap>>
       ELSE Fail
    /\ UNCHANGED shut

\* scandir() sorts nothing: the entries come in any order
Taken(e) == [call.frames EXCEPT ![1].todo = @ \ {e}]

SkipEntry ==
    /\ call.pc = "entries"
    /\ \E e \in call.frames[1].todo :
          /\ IsSkipped(e[1])
          /\ call' = [call EXCEPT !.frames = Taken(e)]
    /\ UNCHANGED <<vars, last, heap, shut>>

\* The recursive call for an entry; the entry is not removed from the list
Bug_CrawlEntry ==
    /\ call.pc = "entries"
    /\ \E e \in call.frames[1].todo :
          /\ ~IsSkipped(e[1])
          /\ call' = [call EXCEPT !.pc = "stat", !.obj = e[2],
                        !.vpath = Append(call.frames[1].vpath, e[1])]
    /\ UNCHANGED <<vars, last, heap, shut>>

CrawlEntry ==
    /\ call.pc = "entries"
    /\ \E e \in call.frames[1].todo :
          /\ ~IsSkipped(e[1])
          /\ call' = [call EXCEPT !.pc = "stat", !.obj = e[2],
                        !.vpath = Append(call.frames[1].vpath, e[1]),
                        !.frames = Taken(e)]
    /\ UNCHANGED <<vars, last, heap, shut>>

DirDone ==
    /\ call.pc = "entries"
    /\ call.frames[1].todo = {}
    /\ Return(Tail(call.frames), call.frames[1].count)
    /\ UNCHANGED <<vars, heap, shut>>

\* The buffer has the size that fstat() reports.  (Bound: Buffer.)
FreeBuffer == CHOOSE b \in Buffer : heap[b] = Null
Allocate ==
    /\ call.pc = "stat"
    /\ Kind \in {"file", "shrinking"}
    /\ \E b \in Buffer : heap[b] = Null
    /\ heap' = [heap EXCEPT ![FreeBuffer] = call.obj]
    /\ call' = [call EXCEPT !.pc = "read", !.buf = FreeBuffer]
    /\ UNCHANGED <<vars, last, shut>>

\* fread() is called until it fills the buffer, which it never does for a file
\* that shrank
ReadFile ==
    /\ call.pc = "read"
    /\ Kind = "file"
    /\ AddNode(call.vpath, "file", call.buf)
    /\ call' = [call EXCEPT !.pc = "addfile"]
    /\ UNCHANGED <<last, heap, shut>>

\* 'data = NULL' is missing: the cleanup at the end frees the node's buffer
Bug_FileAdded ==
    /\ call.pc = "addfile"
    /\ AddReturn
    /\ IF adding.status = "ok"
       THEN Return(call.frames, 1) /\ heap' = Freed(call.buf)
       ELSE Fail
    /\ UNCHANGED shut

\* The node owns the buffer from here on ('data = NULL')
FileAdded ==
    /\ call.pc = "addfile"
    /\ AddReturn
    /\ IF adding.status = "ok"
       THEN Return(call.frames, 1) /\ UNCHANGED heap
       ELSE Fail
    /\ UNCHANGED shut

-----------------------------------------------------------------------------
\* PCS_registerEmbedded and PCS_registerData

Descriptor == Head(call.list)

EmbeddedEnd ==
    /\ call.pc = "next"
    /\ call.list = <<>>
    /\ Return(<<>>, call.count)
    /\ UNCHANGED <<vars, heap, shut>>

BadVersion ==
    /\ call.pc = "next"
    /\ call.list # <<>> /\ Descriptor.version # 0
    /\ Fail
    /\ UNCHANGED <<vars, shut>>

AddDescriptor ==
    /\ call.pc = "next"
    /\ call.list # <<>> /\ Descriptor.version = 0
    /\ AddNode(call.vpath \o Descriptor.path, "file", Descriptor.data)
    /\ call' = [call EXCEPT !.pc = "addembedded"]
    /\ UNCHANGED <<last, heap, shut>>

DescriptorAdded ==
    /\ call.pc = "addembedded"
    /\ AddReturn
    /\ IF adding.status = "ok"
       THEN /\ call' = [call EXCEPT !.pc = "next", !.list = Tail(@), !.count = @ + 1]
            /\ UNCHANGED <<last, heap>>
       ELSE Fail
    /\ UNCHANGED shut

DataAdded ==
    /\ call.pc = "adddata"
    /\ AddReturn
    /\ IF adding.status = "ok"
       THEN Return(<<>>, node[adding.at].id) /\ UNCHANGED heap
       ELSE Fail
    /\ UNCHANGED shut

-----------------------------------------------------------------------------
\* The path of an ID, and the end of the module

PCS_getPath(id) ==
    IF id \in 0..(Len(fileList) - 1) THEN node[fileList[id + 1]].path ELSE Null

\* The nodes that PCS_Tree_destroyNode(root) reaches: each destroys its entries
Destroyed ==
    {n \in DOMAIN node :
       \A S \in SUBSET DOMAIN node :
          (Root \in S /\ \A d \in S : \A s \in DOMAIN node[d].items :
                            node[d].items[s] \in S) => n \in S}

Bug_MSHUTDOWN ==
    /\ Idle /\ ~in_startup
    /\ \A t \in Thread : look[t].pc = "idle"
    /\ shut' = TRUE
    /\ heap' = [b \in Buffer |->            \* the top directory only
                  IF \E s \in DOMAIN node[Root].items :
                       node[node[Root].items[s]].data = b THEN Null ELSE heap[b]]
    /\ UNCHANGED <<vars, call, last>>

MSHUTDOWN ==
    /\ Idle /\ ~in_startup
    /\ \A t \in Thread : look[t].pc = "idle"
    /\ shut' = TRUE
    /\ LET freed == {node[n].data : n \in Destroyed} IN
         heap' = [b \in Buffer |-> IF b \in freed THEN Null ELSE heap[b]]
    /\ UNCHANGED <<vars, call, last>>

CallStep ==
    \/ (SubNodeForbidden \/ SubNodeExists \/ SubNodeCreate) /\ UNCHANGED apiVars
    \/ SourceFails \/ SourceIgnored
    \/ MakeDir \/ DirAdded \/ SkipEntry \/ CrawlEntry \/ DirDone
    \/ Allocate \/ ReadFile \/ FileAdded
    \/ EmbeddedEnd \/ BadVersion \/ AddDescriptor \/ DescriptorAdded
    \/ DataAdded

ApiNext ==
    \/ \E p \in VirtualPath :
         \/ \E o \in Source : RegisterPath(o, p)
         \/ \E l \in EmbeddedList : RegisterEmbedded(l, p)
         \/ \E d \in ClientData : RegisterData(d, p)
    \/ Refuse
    \/ CallStep
    \/ call.pc = "idle" /\ BeginRequests /\ UNCHANGED apiVars
    \/ \E t \in Thread :
         \/ \E p \in LookupPath :
              /\ ~shut
              /\ in_startup => call.pc = "idle"
              /\ Lookup(t, p)
              /\ UNCHANGED apiVars
         \/ LookupStep(t) /\ UNCHANGED apiVars
    \/ MSHUTDOWN

ApiSpec == ApiInit /\ [][ApiNext]_allVars

\* A call runs in one thread until it returns, and threads that look a path up
\* keep running; the pathList mutex is only held across one insertion.
ApiFairSpec ==
    /\ ApiSpec
    /\ WF_allVars(CallStep)
    /\ \A t \in Thread : WF_allVars(LookupStep(t) /\ UNCHANGED apiVars)

-----------------------------------------------------------------------------
\* Properties

Frame == [vpath : RegPath, count : Nat,
          todo : SUBSET ((EntryName \cup {Dot, DotDot}) \X Object)]

ApiTypeOK ==
    /\ call \in [pc : {"idle", "stat", "adddir", "entries", "read", "addfile",
                       "next", "addembedded", "adddata"},
                 obj : Object \cup {Null}, vpath : RegPath \cup {<<>>},
                 frames : Seq(Frame),
                 list : Seq([version : Nat, path : RegPath, data : ClientData]),
                 count : Nat, buf : Buffer \cup {Null}]
    /\ last \in [op : {"none", "path", "embedded", "data"},
                 src : Object \cup {Null}, vpath : RegPath \cup {<<>>},
                 first : Nat, value : Nat \cup {Null}]
    /\ heap \in [Buffer -> Object \cup {Null}]
    /\ shut \in BOOLEAN

\* Every buffer in use has one owner, the call that reads a file or one node,
\* and no node's buffer was freed: a call that fails anywhere in the crawl
\* neither leaks its buffer nor frees one that a node took over.  After MSHUTDOWN
\* no buffer is in use.
BufferOwned ==
    IF shut THEN \A b \in Buffer : heap[b] = Null
    ELSE
      /\ \A n \in DOMAIN node : node[n].data \in Buffer =>
            /\ heap[node[n].data] # Null
            /\ node[n].data # call.buf
            /\ \A m \in DOMAIN node \ {n} : node[m].data # node[n].data
      /\ \A b \in Buffer : heap[b] # Null =>
            b = call.buf \/ \E n \in DOMAIN node : node[n].data = b

\* The data of a file is set once: no later registration replaces it.
DataKept ==
    [][\A n \in DOMAIN node :
         node[n].data # Null => node'[n].data = node[n].data]_allVars

\* "Returns the number of registered scripts" (client.h:61, 86), "the ID of the
\* registered file" (client.h:72): the count returned is the number of files
\* added during the call, and the ID is that of the file at the path given.
ReturnExact ==
    call.pc = "idle" /\ last.value # Null =>
      CASE last.op \in {"path", "embedded"} ->
             last.value = Len(fileList) - last.first
        [] last.op = "data" ->
             /\ PCS_getPath(last.value) = last.vpath
             /\ last.first = last.value /\ Len(fileList) = last.first + 1

\* The regular files below object o with their paths relative to it, every
\* entry but '.' and '..' followed
FilesUnder(o) ==
    LET files[d \in 0..Cardinality(Object)] ==
          [x \in Object |->
             IF Disk[x].kind = "file" THEN {<<<<>>, x>>}
             ELSE IF Disk[x].kind = "dir" /\ d > 0
             THEN UNION {{<<<<e[1]>> \o f[1], f[2]>> : f \in files[d - 1][e[2]]} :
                           e \in {y \in Disk[x].entries : y[1] \notin {Dot, DotDot}}}
             ELSE {}]
    IN  files[Cardinality(Object)][o]

\* "If it is a directory, the subtree is recursively crawled and registered"
\* (client.h:82): a registerPath call that succeeds added exactly the regular
\* files of the subtree, each at its own path with its own contents.
CrawlComplete ==
    call.pc = "idle" /\ last.op = "path" /\ last.value # Null /\ ~shut =>
      {<<node[fileList[i]].path, heap[node[fileList[i]].data]>> :
          i \in (last.first + 1)..Len(fileList)}
        = {<<last.vpath \o f[1], f[2]>> : f \in FilesUnder(last.src)}

\* Between two calls no file is without its data, whatever failed before.
NoFileWithoutData ==
    call.pc = "idle" => \A n \in DOMAIN node : IsFile(n) => node[n].data # Null

\* All the API does to the tree are PCS_Tree's own operations.
ImplementsTree == Spec

\* Every call returns.
CallReturns == call.pc # "idle" ~> call.pc = "idle"
=============================================================================
