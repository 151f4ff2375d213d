--------------------------- MODULE PCS_API_proofs ---------------------------
(***************************************************************************)
(* Proofs about PCS_API: what it does to the tree is what PCS_Tree allows, *)
(* so that all that is proved about the tree holds under the API, and the  *)
(* buffers, the data and the results of calls are right for every disk.    *)
(***************************************************************************)
EXTENDS PCS_API, PCS_Tree_proofs, FiniteSetTheorems

-----------------------------------------------------------------------------
\* Every step of the API is one of the tree

Adding == {"adddir", "addfile", "addembedded", "adddata"}

\* The calls of the recursion are those that the disk leads to.
CrawlOK ==
    /\ call.pc \in {"stat", "adddir", "read", "addfile"} => <<call.obj, call.vpath>> \in Place
    /\ call.pc = "entries" => call.frames # <<>>
    /\ \A i \in 1..Len(call.frames) : \A e \in call.frames[i].todo :
          ~IsSkipped(e[1]) => <<e[2], Append(call.frames[i].vpath, e[1])>> \in Place
    /\ call.pc \in {"read", "addfile"} => call.buf \in Buffer
    /\ call.buf # Null => call.pc \in {"read", "addfile"}
    /\ call.pc \in {"next", "addembedded"} =>
          \A i \in 1..Len(call.list) : call.vpath \o call.list[i].path \in RegPath
    /\ call.pc = "addembedded" => call.list # <<>>

\* What the constants say of the places that a crawl comes to.
LEMMA PlaceType ==
    ASSUME NEW o, NEW p, <<o, p>> \in Place
    PROVE  /\ o \in Object /\ p \in RegPath
           /\ Disk[o].kind \in ObjectKind
           /\ Disk[o].entries \in SUBSET ((EntryName \cup {Dot, DotDot}) \X Object)
           /\ \A e \in Disk[o].entries :
                 ~IsSkipped(e[1]) => <<e[2], Append(p, e[1])>> \in Place
<1>1. o \in Object /\ p \in RegPath
  BY PlaceAssumption
<1>2. Disk[o].kind \in ObjectKind /\
      Disk[o].entries \in SUBSET ((EntryName \cup {Dot, DotDot}) \X Object)
  BY <1>1, DiskAssumption
<1>3. \A e \in Disk[<<o, p>>[1]].entries :
        ~IsSkipped(e[1]) => <<e[2], Append(<<o, p>>[2], e[1])>> \in Place
  BY PlaceAssumption
<1> QED BY <1>1, <1>2, <1>3

\* The first element and the rest of a sequence.
LEMMA HeadType ==
    ASSUME NEW S, NEW s \in Seq(S), s # <<>>
    PROVE  Head(s) = s[1] /\ 1 \in 1..Len(s) /\ s[1] \in S /\ Len(s) \in Nat /\ Tail(s) \in Seq(S)
           /\ Len(Tail(s)) = Len(s) - 1 /\ \A i \in 1..Len(Tail(s)) : Tail(s)[i] = s[i + 1] /\ i + 1 \in 1..Len(s)
OBVIOUS

\* A step of a call takes one of the tree's steps, or none.
LEMMA CallStepIsTreeStep ==
    ASSUME ApiTypeOK, CrawlOK, CallStep
    PROVE  Next \/ UNCHANGED vars
<1>1. CASE SubNodeForbidden \/ SubNodeExists \/ SubNodeCreate
  BY <1>1 DEF Next, AddStep
<1>2. CASE SourceFails \/ SourceIgnored \/ SkipEntry \/ CrawlEntry \/ DirDone \/ Allocate
           \/ EmbeddedEnd \/ BadVersion
  BY <1>2 DEF SourceFails, SourceIgnored, SkipEntry, CrawlEntry, DirDone, Allocate,
              EmbeddedEnd, BadVersion
<1>3. CASE DirAdded \/ FileAdded \/ DescriptorAdded \/ DataAdded
  <2>1. AddReturn
    BY <1>3 DEF DirAdded, FileAdded, DescriptorAdded, DataAdded
  <2> QED BY <2>1 DEF Next, AddStep
<1>4. CASE MakeDir
  <2>1. call.vpath \in RegPath /\ AddNode(call.vpath, "dir", Null)
    BY <1>4, PlaceType DEF MakeDir, CrawlOK
  <2> QED BY <2>1 DEF Next
<1>5. CASE ReadFile
  <2>1. call.vpath \in RegPath /\ call.buf \in Data /\ AddNode(call.vpath, "file", call.buf)
    BY <1>5, PlaceType, ClientAssumption DEF ReadFile, CrawlOK
  <2> QED BY <2>1 DEF Next
<1>6. CASE AddDescriptor
  <2> DEFINE D == [version : Nat, path : RegPath, data : ClientData]
  <2>0. call.list \in Seq(D) /\ call.list # <<>>
    BY <1>6 DEF AddDescriptor, ApiTypeOK
  <2> HIDE DEF D
  <2>1. Descriptor = call.list[1] /\ 1 \in 1..Len(call.list) /\ call.list[1] \in D
    BY <2>0, HeadType DEF Descriptor
  <2>2. call.list[1] \in [version : Nat, path : RegPath, data : ClientData]
    BY <2>1 DEF D
  <2>3. call.vpath \o Descriptor.path \in RegPath /\ Descriptor.data \in Data
    BY <1>6, <2>1, <2>2, ClientAssumption DEF CrawlOK, AddDescriptor
  <2>4. AddNode(call.vpath \o Descriptor.path, "file", Descriptor.data)
    BY <1>6 DEF AddDescriptor
  <2> QED BY <2>3, <2>4 DEF Next
<1> QED
  BY <1>1, <1>2, <1>3, <1>4, <1>5, <1>6 DEF CallStep

LEMMA ApiStepIsTreeStep ==
    ASSUME ApiTypeOK, CrawlOK, [ApiNext]_allVars
    PROVE  [Next]_vars
<1>1. ASSUME NEW d \in ClientData, NEW p \in VirtualPath, RegisterData(d, p)
      PROVE  Next
  <2>1. AddNode(p, "file", d) /\ p \in RegPath /\ d \in Data
    BY <1>1, ClientAssumption DEF RegisterData
  <2> QED BY <2>1 DEF Next
<1>2. CASE CallStep
  BY <1>2, CallStepIsTreeStep
<1>3. CASE \E t \in Thread :
         \/ \E p \in LookupPath : Lookup(t, p)
         \/ LookupStep(t)
  BY <1>3 DEF Next
<1>4. CASE BeginRequests
  BY <1>4 DEF Next
<1>5. CASE Refuse \/ MSHUTDOWN \/ (\E p \in VirtualPath :
             (\E o \in Source : RegisterPath(o, p)) \/ \E l \in EmbeddedList : RegisterEmbedded(l, p))
  BY <1>5 DEF Refuse, MSHUTDOWN, RegisterPath, RegisterEmbedded
<1>6. CASE UNCHANGED allVars
  BY <1>6 DEF allVars, vars
<1> QED
  BY <1>1, <1>2, <1>3, <1>4, <1>5, <1>6 DEF ApiNext

-----------------------------------------------------------------------------
\* Data of the files, and what can be reached from the root

\* Only the file whose addition has not returned is without its data, and it is
\* the newest one.
Filled ==
    /\ adding.status # "idle" /\ adding.type = "file" => adding.data # Null
    /\ adding.status = "ok" => node[adding.at].type = adding.type
    /\ adding.status = "ok" /\ adding.type = "file" =>
          fileList # <<>> /\ adding.at = fileList[Len(fileList)]
    /\ \A n \in DOMAIN node :
          node[n].data = Null <=>
            \/ IsDir(n)
            \/ adding.status = "ok" /\ adding.type = "file" /\ adding.at = n

\* The fields of an addition that goes down to node n.
LEMMA DescendEffect ==
    ASSUME TypeInv, NEW n, Descend(n)
    PROVE  /\ adding'.status = IF Len(adding.rest) = 1 THEN "ok" ELSE "run"
           /\ adding'.at = n /\ adding'.type = adding.type /\ adding'.data = adding.data
           /\ adding'.rest = Tail(adding.rest)
BY DEF TypeInv, TypeOK, Descend

\* The end of an addition stores the data of a file and nothing else.
LEMMA AddReturnEffect ==
    ASSUME TypeInv, AddReturn
    PROVE  /\ adding'.status = "idle" /\ DOMAIN node' = DOMAIN node
           /\ adding.status \in {"ok", "failed"}
           /\ \A n \in DOMAIN node :
                 /\ node'[n].type = node[n].type /\ node'[n].items = node[n].items
                 /\ node'[n].path = node[n].path /\ node'[n].id = node[n].id
                 /\ node'[n].data = IF adding.status = "ok" /\ adding.type = "file" /\ n = adding.at
                                    THEN adding.data ELSE node[n].data
<1>1. adding' = NoAdd /\ adding.status \in {"ok", "failed"}
  BY DEF AddReturn
<1>2. CASE adding.status = "ok" /\ adding.type = "file"
  <2>1. adding.at \in DOMAIN node /\ node[adding.at] \in PCS_Node(Addr)
    BY <1>2 DEF TypeInv, TypeOK, AddingOK
  <2>2. node' = [node EXCEPT ![adding.at].data = adding.data]
    BY <1>2 DEF AddReturn
  <2>3. /\ DOMAIN node' = DOMAIN node
        /\ node'[adding.at] = [node[adding.at] EXCEPT !.data = adding.data]
        /\ \A n \in DOMAIN node \ {adding.at} : node'[n] = node[n]
    BY <2>1, <2>2
  <2>4. LET m == node'[adding.at] n == node[adding.at] IN
          m.type = n.type /\ m.items = n.items /\ m.path = n.path /\ m.id = n.id /\ m.data = adding.data
    BY <2>1, <2>3 DEF PCS_Node
  <2> QED BY <1>1, <1>2, <2>3, <2>4 DEF NoAdd
<1>3. CASE ~(adding.status = "ok" /\ adding.type = "file")
  <2>1. node' = node
    BY <1>3 DEF AddReturn
  <2> QED BY <1>1, <1>3, <2>1 DEF NoAdd
<1> QED BY <1>2, <1>3

\* What is created is a directory, or a file that ends the addition.
LEMMA CreateKinds ==
    ASSUME TypeInv, SubNodeCreate
    PROVE  /\ node'[FreeAddr].type = SubType /\ node'[FreeAddr].data = Null
           /\ SubType \in NodeType
           /\ SubType = "file" <=> adding'.status = "ok" /\ adding'.type = "file"
           /\ adding'.status \in {"ok", "run"} /\ adding'.at = FreeAddr
           /\ adding'.status = "ok" => SubType = adding'.type
           /\ adding'.type = adding.type /\ adding'.data = adding.data
           /\ adding'.rest = Tail(adding.rest)
           /\ SubType = "file" => /\ fileList' = Append(fileList, FreeAddr) /\ fileList' # <<>>
                                 /\ fileList'[Len(fileList')] = FreeAddr
                                 /\ Len(fileList') = Len(fileList) + 1
           /\ SubType # "file" => fileList' = fileList
           /\ \A n \in DOMAIN node :
                 node'[n].type = node[n].type /\ node'[n].data = node[n].data
<1>1. node'[FreeAddr].type = SubType /\ node'[FreeAddr].data = Null
  BY CreateEffect DEF NewNode
<1>2. /\ adding'.status = IF Len(adding.rest) = 1 THEN "ok" ELSE "run"
      /\ adding'.at = FreeAddr /\ adding'.type = adding.type /\ adding'.data = adding.data
      /\ adding'.rest = Tail(adding.rest)
  BY DescendEffect DEF SubNodeCreate
<1>3. adding.type \in NodeType
  BY DEF TypeInv, TypeOK
<1>4. fileList' = IF SubType = "file" THEN Append(fileList, FreeAddr) ELSE fileList
  BY DEF SubNodeCreate
<1>5. fileList \in Seq(DOMAIN node)
  BY DEF TypeInv, TypeOK
<1>6. SubType = "file" => /\ fileList' # <<>> /\ fileList'[Len(fileList')] = FreeAddr
                         /\ Len(fileList') = Len(fileList) + 1
  BY <1>4, <1>5
<1>7. \A n \in DOMAIN node : node'[n].type = node[n].type /\ node'[n].data = node[n].data
  <2>1. node[adding.at] \in PCS_Node(Addr)
    BY CreateEffect DEF TypeInv, TypeOK
  <2> QED BY <2>1, CreateEffect DEF PCS_Node
<1> QED BY <1>1, <1>2, <1>3, <1>4, <1>6, <1>7 DEF SubType, NodeType

LEMMA FilledInit == Init => Filled
<1> SUFFICES ASSUME Init PROVE Filled
  OBVIOUS
<1>1. DOMAIN node = {Root} /\ node[Root].type = "dir" /\ node[Root].data = Null
  BY DEF Init
<1>2. adding.status = "idle"
  BY DEF Init, NoAdd
<1> QED BY <1>1, <1>2 DEF Filled, IsDir

LEMMA FilledNext ==
    ASSUME TypeInv, Filled, [Next]_vars
    PROVE  Filled'
<1>1. ASSUME NEW p, NEW type, NEW d, AddNode(p, type, d), type = "file" => d # Null
      PROVE  Filled'
  <2>1. /\ adding.status = "idle" /\ adding'.status = "run" /\ adding'.type = type
        /\ adding'.data = d /\ UNCHANGED <<node, fileList>>
    BY <1>1 DEF AddNode
  <2> QED BY <1>1, <2>1 DEF Filled, IsDir
<1>2. CASE SubNodeForbidden
  <2>1. /\ adding.status = "run" /\ adding'.status = "failed" /\ adding'.type = adding.type
        /\ adding'.data = adding.data /\ UNCHANGED <<node, fileList>>
    BY <1>2 DEF SubNodeForbidden, Reject, TypeInv, TypeOK
  <2> QED BY <2>1 DEF Filled, IsDir
<1>3. CASE SubNodeExists
  <2> DEFINE old == Entry(adding.at, Name)
  <2>1. CASE MayReuse(old, SubType)
    <3>1. Descend(old) /\ node[old].type = "dir" /\ SubType = "dir" /\ adding.status = "run"
          /\ UNCHANGED <<node, fileList>>
      BY <1>3, <2>1 DEF SubNodeExists, MayReuse, IsDir
    <3>2. /\ adding'.status = IF Len(adding.rest) = 1 THEN "ok" ELSE "run"
          /\ adding'.at = old /\ adding'.type = adding.type /\ adding'.data = adding.data
      BY <3>1, DescendEffect
    <3>3. adding'.status = "ok" => adding'.type = "dir"
      BY <3>1, <3>2 DEF SubType
    <3> HIDE DEF old
    <3> QED BY <3>1, <3>2, <3>3 DEF Filled, IsDir
  <2>2. CASE ~MayReuse(old, SubType)
    <3>1. Reject /\ adding.status = "run" /\ UNCHANGED <<node, fileList>>
      BY <1>3, <2>2 DEF SubNodeExists
    <3>2. adding'.status = "failed" /\ adding'.type = adding.type /\ adding'.data = adding.data
      BY <3>1 DEF Reject, TypeInv, TypeOK
    <3> QED BY <3>1, <3>2 DEF Filled, IsDir
  <2> QED BY <2>1, <2>2
<1>4. CASE SubNodeCreate
  <2> DEFINE a == FreeAddr
  <2>1. DOMAIN node' = DOMAIN node \cup {a} /\ a \notin DOMAIN node /\ adding.status = "run"
    BY <1>4, CreateEffect DEF SubNodeCreate
  <2>2. /\ node'[a].type = SubType /\ node'[a].data = Null /\ SubType \in {"file", "dir"}
        /\ SubType = "file" <=> adding'.status = "ok" /\ adding'.type = "file"
        /\ adding'.at = a /\ adding'.type = adding.type /\ adding'.data = adding.data
        /\ adding'.status = "ok" => SubType = adding'.type
        /\ SubType = "file" => fileList' # <<>> /\ fileList'[Len(fileList')] = a
        /\ \A n \in DOMAIN node :
              node'[n].type = node[n].type /\ node'[n].data = node[n].data
    BY <1>4, CreateKinds DEF NodeType
  <2> HIDE DEF a
  <2>3. ASSUME NEW n \in DOMAIN node'
        PROVE  node'[n].data = Null <=>
                 \/ node'[n].type = "dir"
                 \/ adding'.status = "ok" /\ adding'.type = "file" /\ adding'.at = n
    <3>1. CASE n = a
      BY <2>2, <3>1
    <3>2. CASE n # a
      BY <2>1, <2>2, <3>2 DEF Filled, IsDir
    <3> QED BY <3>1, <3>2
  <2> QED BY <2>1, <2>2, <2>3 DEF Filled, IsDir
<1>5. CASE AddReturn
  <2>1. /\ adding'.status = "idle" /\ DOMAIN node' = DOMAIN node
        /\ adding.status \in {"ok", "failed"}
        /\ \A n \in DOMAIN node :
              /\ node'[n].type = node[n].type
              /\ node'[n].data = IF adding.status = "ok" /\ adding.type = "file" /\ n = adding.at
                                 THEN adding.data ELSE node[n].data
    BY <1>5, AddReturnEffect
  <2> QED BY <2>1 DEF Filled, IsDir
<1>6. CASE UNCHANGED <<node, fileList, adding>>
  BY <1>6 DEF Filled, IsDir
<1>7. ASSUME NEW p, AddNode(p, "dir", Null)
      PROVE  Filled'
  BY <1>1, <1>7
<1>8. ASSUME NEW p, NEW d \in Data, AddNode(p, "file", d)
      PROVE  Filled'
  BY <1>1, <1>8, DataAssumption
<1> QED
  BY <1>2, <1>3, <1>4, <1>5, <1>6, <1>7, <1>8
  DEF Next, AddStep, vars, BeginRequests, Lookup, LookupStep, FindHit, FindMiss, WalkFail,
      WalkOn, WalkEnd, Lock, Write, LookupReturn

\* A set of nodes that holds the root and the entries of its directories.
Closed(S) ==
    Root \in S /\ \A d \in S : \A s \in DOMAIN node[d].items : node[d].items[s] \in S

\* The root leads to every node.  (That is an induction over the tree; here it
\* is one over the steps that build it.)
Reached == \A S \in SUBSET DOMAIN node : Closed(S) => S = DOMAIN node

LEMMA ReachedInit == Init => Reached
<1> SUFFICES ASSUME Init PROVE Reached
  OBVIOUS
<1>1. DOMAIN node = {Root}
  BY DEF Init
<1> QED BY <1>1 DEF Reached, Closed

LEMMA ReachedNext ==
    ASSUME TypeInv, Reached, [Next]_vars
    PROVE  Reached'
<1>1. CASE SameTree
  <2>1. DOMAIN node' = DOMAIN node /\ \A n \in DOMAIN node : node'[n].items = node[n].items
    BY <1>1 DEF SameTree
  <2> QED BY <2>1 DEF Reached, Closed
<1>2. CASE SubNodeCreate
  <2> DEFINE a == FreeAddr
             d == adding.at
             s == Name
  <2>1. /\ a \notin DOMAIN node /\ d \in DOMAIN node /\ DOMAIN node' = DOMAIN node \cup {a}
        /\ \A n \in DOMAIN node \ {d} : node'[n] = node[n]
        /\ node'[d] = [node[d] EXCEPT !.items = Put(node[d].items, s, a)]
        /\ node[d] \in PCS_Node(Addr)
    BY <1>2, CreateEffect DEF TypeInv, TypeOK
  <2>2. s \notin DOMAIN node[d].items
    <3>1. Entry(d, s) = Null
      BY <1>2 DEF SubNodeCreate
    <3>2. s \in DOMAIN node[d].items => node[d].items[s] \in DOMAIN node
      BY <2>1 DEF TypeInv, LinksOK
    <3>3. Null \notin DOMAIN node
      BY AddrAssumption DEF TypeInv, TypeOK
    <3> HIDE DEF d, s
    <3> QED BY <3>1, <3>2, <3>3 DEF Entry
  <2> HIDE DEF a, d, s
  <2>3. node'[d].items = Put(node[d].items, s, a)
    BY <2>1 DEF PCS_Node
  <2>4. /\ s \in DOMAIN node'[d].items /\ node'[d].items[s] = a
        /\ \A x \in DOMAIN node[d].items :
              x \in DOMAIN node'[d].items /\ node'[d].items[x] = node[d].items[x]
    BY <2>2, <2>3 DEF Put
  <2>5. ASSUME NEW n \in DOMAIN node, NEW x \in DOMAIN node[n].items
        PROVE  x \in DOMAIN node'[n].items /\ node'[n].items[x] = node[n].items[x]
    BY <2>1, <2>4
  <2>6. ASSUME NEW S \in SUBSET DOMAIN node', Closed(S)'
        PROVE  S = DOMAIN node'
    <3> DEFINE T == S \cap DOMAIN node
    <3>1. Root \in T
      BY <2>6 DEF Closed, TypeInv, RootOK
    <3>2. ASSUME NEW n \in T, NEW x \in DOMAIN node[n].items
          PROVE  node[n].items[x] \in T
      <4>1. node'[n].items[x] \in S
        BY <2>5, <2>6 DEF Closed
      <4>2. node[n].items[x] \in DOMAIN node
        BY DEF TypeInv, LinksOK
      <4> QED BY <2>5, <4>1, <4>2
    <3>3. Closed(T) /\ T \in SUBSET DOMAIN node
      BY <3>1, <3>2 DEF Closed
    <3>4. T = DOMAIN node
      BY <3>3 DEF Reached
    <3>5. d \in S
      BY <2>1, <3>4
    <3>6. a \in S
      BY <2>4, <2>6, <3>5 DEF Closed
    <3> QED BY <2>1, <3>4, <3>6
  <2> QED BY <2>6 DEF Reached
<1> QED BY <1>1, <1>2, StepKinds

\* MSHUTDOWN destroys every node.
LEMMA AllDestroyed == Reached => Destroyed = DOMAIN node
BY DEF Reached, Destroyed, Closed

-----------------------------------------------------------------------------
\* The calls: types, the crawl, and when an addition is under way

CallType ==
    [pc : {"idle", "stat", "adddir", "entries", "read", "addfile",
           "next", "addembedded", "adddata"},
     obj : Object \cup {Null}, vpath : RegPath \cup {<<>>}, frames : Seq(Frame),
     list : Seq([version : Nat, path : RegPath, data : ClientData]),
     count : Nat, buf : Buffer \cup {Null}]
LastType ==
    [op : {"none", "path", "embedded", "data"}, src : Object \cup {Null},
     vpath : RegPath \cup {<<>>}, first : Nat, value : Nat \cup {Null}]

Leads(f) == \A e \in f.todo : ~IsSkipped(e[1]) => <<e[2], Append(f.vpath, e[1])>> \in Place
AllLead(fs) == fs \in Seq(Frame) /\ \A i \in 1..Len(fs) : Leads(fs[i])

\* An addition runs inside of a call, and a call inside of the startup phase.
AddingInCall ==
    /\ adding.status # "idle" <=> call.pc \in Adding
    /\ call.pc = "adddir" => adding.type = "dir"
    /\ call.pc \in Adding \ {"adddir"} => adding.type = "file"
    /\ call.pc = "addfile" => adding.data = call.buf
    /\ call.pc \in {"addembedded", "adddata"} => adding.data \in ClientData
    /\ call.pc # "idle" => in_startup
    /\ shut => ~in_startup

CallInv == ApiTypeOK /\ CrawlOK /\ AddingInCall

LEMMA NoCallType == NoCall \in CallType /\ NoResult \in LastType
<1>1. <<>> \in Seq(Frame)
  OBVIOUS
<1>2. <<>> \in Seq([version : Nat, path : RegPath, data : ClientData])
  OBVIOUS
<1> QED BY <1>1, <1>2 DEF NoCall, NoResult, CallType, LastType

\* CallInv is preserved if its parts are.
LEMMA CallInvParts ==
    ASSUME call' \in CallType, last' \in LastType, heap' \in [Buffer -> Object \cup {Null}],
           shut' \in BOOLEAN, CrawlOK', AddingInCall'
    PROVE  CallInv'
BY DEF CallType, LastType, CallInv, ApiTypeOK

LEMMA CallInvTypes ==
    ASSUME CallInv
    PROVE  /\ call \in CallType /\ last \in LastType /\ heap \in [Buffer -> Object \cup {Null}]
           /\ shut \in BOOLEAN /\ AllLead(call.frames)
BY DEF CallType, LastType, CallInv, ApiTypeOK, CrawlOK, AllLead, Leads

\* A call that is in no file, descriptor or addition.
LEMMA QuietCall ==
    ASSUME call' \in CallType, AllLead(call'.frames), call'.buf = Null,
           call'.pc \in {"idle", "entries", "stat"},
           call'.pc = "entries" => call'.frames # <<>>,
           call'.pc = "stat" => <<call'.obj, call'.vpath>> \in Place
    PROVE  CrawlOK'
BY DEF CrawlOK, AllLead, Leads

\* The result of a call.
LEMMA ResultType ==
    ASSUME CallInv, NEW v, v \in Nat \cup {Null}, Result(v)
    PROVE  last' \in LastType /\ last' = [op |-> last.op, src |-> last.src, vpath |-> last.vpath,
                                      first |-> last.first, value |-> v]
BY DEF CallInv, ApiTypeOK, Result, LastType

\* A call that fails ends at once and frees the buffer it was filling.
LEMMA FailEffect ==
    ASSUME CallInv, Fail
    PROVE  /\ call' = NoCall /\ call' \in CallType /\ last' \in LastType /\ CrawlOK'
           /\ call'.pc = "idle" /\ call'.buf = Null /\ last'.value = Null
           /\ heap' = Freed(call.buf) /\ heap' \in [Buffer -> Object \cup {Null}]
<1>1. call' = NoCall /\ Result(Null) /\ heap' = Freed(call.buf)
  BY DEF Fail
<1>2. last' \in LastType /\ last'.value = Null
  BY <1>1, ResultType
<1>3. call' \in CallType
  BY <1>1, NoCallType
<1>4. call'.pc = "idle" /\ call'.buf = Null /\ call'.frames = <<>>
  BY <1>1 DEF NoCall
<1>5. AllLead(call'.frames)
  BY <1>4 DEF AllLead
<1>6. CrawlOK'
  BY <1>3, <1>4, <1>5, QuietCall
<1>7. heap' \in [Buffer -> Object \cup {Null}]
  BY <1>1 DEF Freed, CallInv, ApiTypeOK
<1> QED BY <1>1, <1>2, <1>3, <1>4, <1>6, <1>7

\* The frame that a count was added to, and a frame on top of others.
LEMMA AddType ==
    ASSUME NEW f \in Frame, NEW v \in Nat
    PROVE  /\ Add(f, v) \in Frame /\ Add(f, v).todo = f.todo /\ Add(f, v).vpath = f.vpath
           /\ Add(f, v).count = f.count + v
BY DEF Frame, Add

LEMMA OnTopOf ==
    ASSUME NEW S, NEW x \in S, NEW s \in Seq(S)
    PROVE  /\ <<x>> \o s \in Seq(S) /\ Len(<<x>> \o s) = 1 + Len(s) /\ (<<x>> \o s)[1] = x
           /\ <<x>> \o s # <<>>
           /\ \A i \in 1..Len(<<x>> \o s) :
                 i # 1 => (<<x>> \o s)[i] = s[i - 1] /\ i - 1 \in 1..Len(s)
OBVIOUS

\* A frame returns to the one above it, or the call to its client.
LEMMA ReturnEffect ==
    ASSUME CallInv, NEW fs, AllLead(fs), NEW v \in Nat, Return(fs, v)
    PROVE  /\ call' \in CallType /\ last' \in LastType /\ CrawlOK'
           /\ call'.pc = IF fs = <<>> THEN "idle" ELSE "entries"
           /\ call'.buf = Null /\ call'.count = 0
           /\ fs = <<>> => call'.frames = <<>> /\ Result(v)
           /\ fs # <<>> => /\ call'.frames = <<Add(Head(fs), v)>> \o Tail(fs) /\ last' = last
<1>1. CASE fs = <<>>
  <2>1. call' = NoCall /\ Result(v)
    BY <1>1 DEF Return
  <2>2. last' \in LastType
    BY <2>1, ResultType
  <2>3. call' \in CallType
    BY <2>1, NoCallType
  <2>4. call'.pc = "idle" /\ call'.buf = Null /\ call'.frames = <<>> /\ call'.count = 0
    BY <2>1 DEF NoCall
  <2>5. AllLead(call'.frames)
    BY <2>4 DEF AllLead
  <2>6. CrawlOK'
    BY <2>3, <2>4, <2>5, QuietCall
  <2> QED BY <1>1, <2>1, <2>2, <2>3, <2>4, <2>6
<1>2. CASE fs # <<>>
  <2> DEFINE f == Add(Head(fs), v)
             t == Tail(fs)
             gs == <<f>> \o t
  <2>1. call' = [NoCall EXCEPT !.pc = "entries", !.frames = gs] /\ last' = last
    BY <1>2 DEF Return
  <2>2. /\ Head(fs) \in Frame /\ Leads(Head(fs)) /\ Tail(fs) \in Seq(Frame)
        /\ \A i \in 1..Len(Tail(fs)) : Leads(Tail(fs)[i])
    <3>1. fs \in Seq(Frame)
      BY DEF AllLead
    <3>2. /\ Head(fs) = fs[1] /\ 1 \in 1..Len(fs) /\ fs[1] \in Frame /\ Tail(fs) \in Seq(Frame)
          /\ \A i \in 1..Len(Tail(fs)) : Tail(fs)[i] = fs[i + 1] /\ i + 1 \in 1..Len(fs)
      BY <1>2, <3>1, HeadType
    <3> QED BY <3>2 DEF AllLead
  <2>3. f \in Frame /\ f.todo = Head(fs).todo /\ f.vpath = Head(fs).vpath
    BY <2>2, AddType
  <2>4. Leads(f)
    BY <2>2, <2>3 DEF Leads
  <2> HIDE DEF f
  <2>7. t \in Seq(Frame) /\ \A i \in 1..Len(t) : Leads(t[i])
    BY <2>2
  <2> HIDE DEF t
  <2>5. gs \in Seq(Frame) /\ gs # <<>> /\ \A i \in 1..Len(gs) : Leads(gs[i])
    <3>1. gs \in Seq(Frame) /\ Len(gs) = 1 + Len(t) /\ gs[1] = f
          /\ \A i \in 1..Len(gs) : i # 1 => gs[i] = t[i - 1] /\ i - 1 \in 1..Len(t)
          /\ gs # <<>>
      BY <2>3, <2>7, OnTopOf
    <3> QED BY <2>4, <2>7, <3>1
  <2> HIDE DEF gs
  <2>6. call' \in CallType /\ call'.pc = "entries" /\ call'.frames = gs /\ call'.buf = Null
        /\ call'.count = 0
    <3>1. call' = [NoCall EXCEPT !.pc = "entries", !.frames = gs]
      BY <2>1
    <3>2. call' \in CallType
      BY <3>1, <2>5, NoCallType DEF CallType
    <3>3. call'.pc = "entries" /\ call'.frames = gs /\ call'.buf = Null /\ call'.count = 0
      BY <3>1 DEF NoCall
    <3> QED BY <3>2, <3>3
  <2>8. AllLead(call'.frames)
    BY <2>5, <2>6 DEF AllLead
  <2>9. CrawlOK'
    BY <2>5, <2>6, <2>8, QuietCall
  <2> QED BY <1>2, <2>1, <2>6, <2>9, CallInvTypes DEF f, gs, t
<1> QED BY <1>1, <1>2

-----------------------------------------------------------------------------
\* Every action keeps CallInv

\* Steps of a call after which nothing is being added.
LEMMA NotAdding ==
    ASSUME CallInv, call.pc # "idle", call'.pc \notin Adding, adding'.status = "idle",
           UNCHANGED <<in_startup, shut>>
    PROVE  AddingInCall'
BY DEF AddingInCall, CallInv, Adding

LEMMA QuietTree ==
    ASSUME CallInv, call.pc \notin Adding, call.pc # "idle", call'.pc \notin Adding,
           UNCHANGED <<adding, in_startup, shut>>
    PROVE  AddingInCall'
BY DEF AddingInCall, CallInv, Adding

LEMMA FailKeepsInv ==
    ASSUME CallInv, Fail, call.pc # "idle", adding'.status = "idle", UNCHANGED <<in_startup, shut>>
    PROVE  CallInv'
<1>1. AddingInCall'
  BY FailEffect, NotAdding DEF Adding
<1> QED BY <1>1, FailEffect, CallInvTypes, CallInvParts

LEMMA ReturnKeepsInv ==
    ASSUME CallInv, NEW fs, AllLead(fs), NEW v \in Nat, Return(fs, v), call.pc # "idle",
           adding'.status = "idle", UNCHANGED <<heap, in_startup, shut>>
    PROVE  CallInv'
<1>1. AddingInCall'
  BY ReturnEffect, NotAdding DEF Adding
<1> QED BY <1>1, ReturnEffect, CallInvTypes, CallInvParts

RegisterStep ==
    \E p \in VirtualPath :
      \/ \E o \in Source : RegisterPath(o, p)
      \/ \E l \in EmbeddedList : RegisterEmbedded(l, p)
      \/ \E d \in ClientData : RegisterData(d, p)

LEMMA RegisterKeepsInv ==
    ASSUME TypeInv, CallInv, NEW p \in VirtualPath,
           \/ \E o \in Source : RegisterPath(o, p)
           \/ \E l \in EmbeddedList : RegisterEmbedded(l, p)
           \/ \E d \in ClientData : RegisterData(d, p)
    PROVE  CallInv'
<1>1. p \in RegPath
  BY ClientAssumption
<1>2. Len(fileList) \in Nat
  BY DEF TypeInv, TypeOK
<1>3. ASSUME NEW op \in {"path", "embedded", "data"}, NEW src \in Object \cup {Null},
             Begin(op, src, p)
      PROVE  last' \in LastType
  BY <1>1, <1>2, <1>3 DEF Begin, LastType
<1>4. Idle => ~shut /\ call.pc = "idle"
  BY DEF Idle
<1>5. ASSUME NEW o \in Source, RegisterPath(o, p)
      PROVE  CallInv'
  <2>1. o \in Object /\ <<o, p>> \in Place
    BY DiskAssumption, PlaceAssumption
  <2>2. last' \in LastType
    BY <1>3, <1>5, <2>1 DEF RegisterPath
  <2>3. call' = [NoCall EXCEPT !.pc = "stat", !.obj = o, !.vpath = p]
    BY <1>5 DEF RegisterPath
  <2>4. call' \in CallType
    BY <1>1, <2>1, <2>3, NoCallType DEF CallType
  <2>5. /\ call'.pc = "stat" /\ call'.obj = o /\ call'.vpath = p /\ call'.frames = <<>>
        /\ call'.buf = Null
    BY <2>3 DEF NoCall
  <2>6. CrawlOK'
    <3>1. AllLead(call'.frames)
      BY <2>5 DEF AllLead
    <3> QED BY <2>1, <2>4, <2>5, <3>1, QuietCall
  <2>7. AddingInCall'
    BY <1>4, <1>5, <2>5 DEF RegisterPath, MayRegister, CallInv, AddingInCall, Adding, vars
  <2>8. UNCHANGED <<heap, shut>>
    BY <1>5 DEF RegisterPath
  <2> QED BY <2>2, <2>4, <2>6, <2>7, <2>8, CallInvTypes, CallInvParts
<1>6. ASSUME NEW l \in EmbeddedList, RegisterEmbedded(l, p)
      PROVE  CallInv'
  <2>1. /\ l \in Seq([version : Nat, path : RegPath, data : ClientData])
        /\ \A i \in 1..Len(l) : p \o l[i].path \in RegPath
    BY ClientAssumption
  <2>2. last' \in LastType
    BY <1>3, <1>6 DEF RegisterEmbedded
  <2>3. call' = [NoCall EXCEPT !.pc = "next", !.list = l, !.vpath = p]
    BY <1>6 DEF RegisterEmbedded
  <2>4. call' \in CallType
    BY <1>1, <2>1, <2>3, NoCallType DEF CallType
  <2>5. /\ call'.pc = "next" /\ call'.list = l /\ call'.vpath = p /\ call'.frames = <<>>
        /\ call'.buf = Null
    BY <2>3 DEF NoCall
  <2>6. CrawlOK'
    BY <2>1, <2>5 DEF CrawlOK
  <2>7. AddingInCall'
    BY <1>4, <1>6, <2>5 DEF RegisterEmbedded, MayRegister, CallInv, AddingInCall, Adding, vars
  <2>8. UNCHANGED <<heap, shut>>
    BY <1>6 DEF RegisterEmbedded
  <2> QED BY <2>2, <2>4, <2>6, <2>7, <2>8, CallInvTypes, CallInvParts
<1>7. ASSUME NEW d \in ClientData, RegisterData(d, p)
      PROVE  CallInv'
  <2>2. last' \in LastType
    BY <1>3, <1>7 DEF RegisterData
  <2>3. call' = [NoCall EXCEPT !.pc = "adddata", !.vpath = p]
    BY <1>7 DEF RegisterData
  <2>4. call' \in CallType
    BY <1>1, <2>3, NoCallType DEF CallType
  <2>5. call'.pc = "adddata" /\ call'.frames = <<>> /\ call'.buf = Null
    BY <2>3 DEF NoCall
  <2>6. CrawlOK'
    BY <2>5 DEF CrawlOK
  <2>7. /\ adding'.status = "run" /\ adding'.type = "file" /\ adding'.data = d
        /\ in_startup /\ UNCHANGED in_startup
    BY <1>7 DEF RegisterData, AddNode, MayRegister
  <2>8. UNCHANGED <<heap, shut>>
    BY <1>7 DEF RegisterData
  <2>9. AddingInCall'
    BY <1>4, <1>7, <2>5, <2>7, <2>8 DEF RegisterData, CallInv, AddingInCall, Adding
  <2> QED BY <2>2, <2>4, <2>6, <2>8, <2>9, CallInvTypes, CallInvParts
<1> QED BY <1>5, <1>6, <1>7

\* Steps outside of calls, and those of an addition.
LEMMA SameCallKeepsInv ==
    ASSUME CallInv, UNCHANGED call, AddingInCall', last' \in LastType,
           heap' \in [Buffer -> Object \cup {Null}], shut' \in BOOLEAN
    PROVE  CallInv'
<1>1. CrawlOK'
  BY DEF CallInv, CrawlOK
<1> QED BY <1>1, CallInvTypes, CallInvParts

LEMMA OtherKeepsInv ==
    ASSUME TypeInv, CallInv,
           \/ (SubNodeForbidden \/ SubNodeExists \/ SubNodeCreate) /\ UNCHANGED apiVars
           \/ Refuse \/ MSHUTDOWN
           \/ call.pc = "idle" /\ BeginRequests /\ UNCHANGED apiVars
           \/ UNCHANGED <<adding, in_startup, call, last, heap, shut>>
    PROVE  CallInv'
<1>1. CASE (SubNodeForbidden \/ SubNodeExists \/ SubNodeCreate) /\ UNCHANGED apiVars
  <2>1. /\ adding.status # "idle" /\ adding'.status # "idle" /\ adding'.type = adding.type
        /\ adding'.data = adding.data /\ UNCHANGED in_startup
    <3>1. CASE Reject
      BY <1>1, <3>1 DEF Reject, TypeInv, TypeOK, SubNodeForbidden, SubNodeExists, SubNodeCreate
    <3>2. ASSUME NEW n, Descend(n)
          PROVE  adding'.status # "idle" /\ adding'.type = adding.type
                 /\ adding'.data = adding.data
      BY <3>2, DescendEffect
    <3> QED BY <1>1, <3>1, <3>2 DEF SubNodeForbidden, SubNodeExists, SubNodeCreate
  <2>2. UNCHANGED <<call, last, heap, shut>>
    BY <1>1 DEF apiVars
  <2>3. AddingInCall'
    BY <2>1, <2>2 DEF CallInv, AddingInCall
  <2> QED BY <2>2, <2>3, SameCallKeepsInv, CallInvTypes
<1>2. CASE Refuse
  <2>1. UNCHANGED <<call, heap, shut, adding, in_startup>> /\ last' = NoResult
    BY <1>2 DEF Refuse, vars
  <2>2. AddingInCall'
    BY <2>1 DEF CallInv, AddingInCall
  <2> QED BY <2>1, <2>2, SameCallKeepsInv, CallInvTypes, NoCallType
<1>3. CASE MSHUTDOWN
  <2>1. /\ UNCHANGED <<call, last, adding, in_startup>> /\ shut' = TRUE /\ ~in_startup
        /\ heap' \in [Buffer -> Object \cup {Null}]
    BY <1>3, CallInvTypes DEF MSHUTDOWN, vars
  <2>2. AddingInCall'
    BY <2>1 DEF CallInv, AddingInCall
  <2> QED BY <2>1, <2>2, SameCallKeepsInv, CallInvTypes
<1>4. CASE call.pc = "idle" /\ BeginRequests /\ UNCHANGED apiVars
  <2>1. UNCHANGED <<call, last, heap, shut, adding>> /\ in_startup' = FALSE /\ call.pc = "idle"
    BY <1>4 DEF BeginRequests, apiVars
  <2>2. AddingInCall'
    BY <2>1 DEF CallInv, AddingInCall
  <2> QED BY <2>1, <2>2, SameCallKeepsInv, CallInvTypes
<1>5. CASE UNCHANGED <<adding, in_startup, call, last, heap, shut>>
  <2>1. AddingInCall'
    BY <1>5 DEF CallInv, AddingInCall
  <2> QED BY <1>5, <2>1, SameCallKeepsInv, CallInvTypes
<1> QED BY <1>1, <1>2, <1>3, <1>4, <1>5

LEMMA FailingKeepsInv ==
    ASSUME CallInv, SourceFails \/ BadVersion
    PROVE  CallInv'
<1>1. /\ Fail /\ call.pc \in {"stat", "next"} /\ UNCHANGED <<adding, in_startup, shut>>
  BY DEF SourceFails, BadVersion, vars
<1>2. adding.status = "idle"
  BY <1>1 DEF CallInv, AddingInCall, Adding
<1> QED BY <1>1, <1>2, FailKeepsInv

LEMMA ReturningKeepsInv ==
    ASSUME CallInv, SourceIgnored \/ DirDone \/ EmbeddedEnd
    PROVE  CallInv'
<1>1. /\ call.pc \in {"stat", "next", "entries"}
      /\ UNCHANGED <<adding, in_startup, shut, heap>>
  BY DEF SourceIgnored, DirDone, EmbeddedEnd, vars
<1>2. adding.status = "idle"
  BY <1>1 DEF CallInv, AddingInCall, Adding
<1>3. CASE SourceIgnored
  <2>1. Return(call.frames, 0) /\ AllLead(call.frames) /\ 0 \in Nat
    BY <1>3, CallInvTypes DEF SourceIgnored
  <2> QED BY <1>1, <1>2, <2>1, ReturnKeepsInv
<1>4. CASE DirDone
  <2>1. call.frames \in Seq(Frame) /\ call.frames # <<>>
    BY <1>4 DEF DirDone, CallInv, CrawlOK, ApiTypeOK
  <2>2. AllLead(Tail(call.frames)) /\ call.frames[1] \in Frame
    BY <2>1, HeadType, CallInvTypes DEF AllLead
  <2>3. call.frames[1].count \in Nat
    BY <2>2 DEF Frame
  <2>4. Return(Tail(call.frames), call.frames[1].count)
    BY <1>4 DEF DirDone
  <2> QED BY <1>1, <1>2, <2>2, <2>3, <2>4, ReturnKeepsInv
<1>5. CASE EmbeddedEnd
  <2>1. Return(<<>>, call.count) /\ call.count \in Nat
    BY <1>5 DEF EmbeddedEnd, CallInv, ApiTypeOK
  <2>2. AllLead(<<>>)
    BY DEF AllLead
  <2> QED BY <1>1, <1>2, <2>1, <2>2, ReturnKeepsInv
<1> QED BY <1>3, <1>4, <1>5

\* Beginning an addition.
LEMMA BeginAddKeepsInv ==
    ASSUME CallInv, MakeDir \/ ReadFile \/ AddDescriptor
    PROVE  CallInv'
<1>1. UNCHANGED <<last, heap, shut>>
  BY DEF MakeDir, ReadFile, AddDescriptor
<1>2. CASE MakeDir
  <2>1. call' = [call EXCEPT !.pc = "adddir"] /\ call.pc = "stat"
        /\ AddNode(call.vpath, "dir", Null)
    BY <1>2 DEF MakeDir
  <2>2. /\ call' \in CallType /\ call'.pc = "adddir" /\ call'.obj = call.obj
        /\ call'.vpath = call.vpath /\ call'.frames = call.frames /\ call'.buf = call.buf
    BY <2>1, CallInvTypes DEF CallType
  <2>3. adding'.status = "run" /\ adding'.type = "dir" /\ UNCHANGED in_startup
    BY <2>1 DEF AddNode
  <2>4. CrawlOK'
    BY <2>1, <2>2 DEF CallInv, CrawlOK
  <2>5. AddingInCall'
    BY <1>1, <2>1, <2>2, <2>3 DEF CallInv, AddingInCall, Adding
  <2> QED BY <1>1, <2>2, <2>4, <2>5, CallInvTypes, CallInvParts
<1>3. CASE ReadFile
  <2>1. call' = [call EXCEPT !.pc = "addfile"] /\ call.pc = "read"
        /\ AddNode(call.vpath, "file", call.buf)
    BY <1>3 DEF ReadFile
  <2>2. /\ call' \in CallType /\ call'.pc = "addfile" /\ call'.obj = call.obj
        /\ call'.vpath = call.vpath /\ call'.frames = call.frames /\ call'.buf = call.buf
    BY <2>1, CallInvTypes DEF CallType
  <2>3. /\ adding'.status = "run" /\ adding'.type = "file" /\ adding'.data = call.buf
        /\ UNCHANGED in_startup
    BY <2>1 DEF AddNode
  <2>4. CrawlOK'
    BY <2>1, <2>2 DEF CallInv, CrawlOK
  <2>5. AddingInCall'
    BY <1>1, <2>1, <2>2, <2>3 DEF CallInv, AddingInCall, Adding
  <2> QED BY <1>1, <2>2, <2>4, <2>5, CallInvTypes, CallInvParts
<1>4. CASE AddDescriptor
  <2>1. call' = [call EXCEPT !.pc = "addembedded"] /\ call.pc = "next" /\ call.list # <<>>
        /\ AddNode(call.vpath \o Descriptor.path, "file", Descriptor.data)
    BY <1>4 DEF AddDescriptor
  <2>2. /\ call' \in CallType /\ call'.pc = "addembedded" /\ call'.list = call.list
        /\ call'.vpath = call.vpath /\ call'.frames = call.frames /\ call'.buf = call.buf
    BY <2>1, CallInvTypes DEF CallType
  <2>3. /\ adding'.status = "run" /\ adding'.type = "file" /\ adding'.data = Descriptor.data
        /\ UNCHANGED in_startup
    BY <2>1 DEF AddNode
  <2>4. CrawlOK'
    BY <2>1, <2>2 DEF CallInv, CrawlOK
  <2>5. Descriptor.data \in ClientData
    <3> DEFINE D == [version : Nat, path : RegPath, data : ClientData]
    <3>1. call.list \in Seq(D) /\ call.list # <<>>
      BY <2>1 DEF CallInv, ApiTypeOK
    <3> HIDE DEF D
    <3>2. Descriptor \in D
      BY <3>1, HeadType DEF Descriptor
    <3> QED BY <3>2 DEF D
  <2>6. AddingInCall'
    BY <1>1, <2>1, <2>2, <2>3, <2>5 DEF CallInv, AddingInCall, Adding
  <2> QED BY <1>1, <2>2, <2>4, <2>6, CallInvTypes, CallInvParts
<1> QED BY <1>2, <1>3, <1>4

\* Steps of the crawl that add nothing.
LEMMA CrawlKeepsInv ==
    ASSUME CallInv, SkipEntry \/ CrawlEntry \/ Allocate
    PROVE  CallInv'
<1>1. call.pc \in {"entries", "stat"} /\ UNCHANGED <<last, shut, adding, in_startup>>
  BY DEF SkipEntry, CrawlEntry, Allocate, vars
<1>2. ASSUME call.pc = "entries", NEW e \in call.frames[1].todo
      PROVE  /\ Taken(e) \in Seq(Frame) /\ Taken(e) # <<>> /\ AllLead(Taken(e))
             /\ e \in (EntryName \cup {Dot, DotDot}) \X Object
             /\ ~IsSkipped(e[1]) => <<e[2], Append(call.frames[1].vpath, e[1])>> \in Place
  <2> DEFINE fs == call.frames
             g == [fs[1] EXCEPT !.todo = @ \ {e}]
  <2>1. fs \in Seq(Frame) /\ fs # <<>> /\ AllLead(fs)
    BY <1>2, CallInvTypes DEF CallInv, CrawlOK, ApiTypeOK
  <2>2. Taken(e) = [fs EXCEPT ![1] = g]
    BY DEF Taken
  <2>3. fs[1] \in Frame /\ Leads(fs[1]) /\ 1 \in 1..Len(fs)
    BY <2>1, HeadType DEF AllLead
  <2>4. g \in Frame /\ Leads(g)
    BY <2>3 DEF Frame, Leads
  <2>5. e \in (EntryName \cup {Dot, DotDot}) \X Object
        /\ (~IsSkipped(e[1]) => <<e[2], Append(fs[1].vpath, e[1])>> \in Place)
    BY <1>2, <2>3 DEF Frame, Leads
  <2> HIDE DEF fs, g
  <2>6. /\ Taken(e) \in Seq(Frame) /\ Len(Taken(e)) = Len(fs) /\ Taken(e) # <<>>
        /\ \A i \in 1..Len(fs) : Taken(e)[i] = IF i = 1 THEN g ELSE fs[i]
    BY <2>1, <2>2, <2>3, <2>4
  <2>7. AllLead(Taken(e))
    BY <2>1, <2>4, <2>6 DEF AllLead
  <2> QED BY <2>5, <2>6, <2>7 DEF fs
<1>3. CASE SkipEntry
  <2>1. PICK e \in call.frames[1].todo : call' = [call EXCEPT !.frames = Taken(e)]
    BY <1>3 DEF SkipEntry
  <2>2. call.pc = "entries" /\ UNCHANGED heap
    BY <1>3 DEF SkipEntry
  <2>3. Taken(e) \in Seq(Frame) /\ Taken(e) # <<>> /\ AllLead(Taken(e))
    BY <1>2, <2>2
  <2>4. call' \in CallType /\ call'.pc = "entries" /\ call'.frames = Taken(e)
        /\ call'.buf = call.buf
    BY <2>1, <2>2, <2>3, CallInvTypes DEF CallType
  <2>5. call.buf = Null
    BY <2>2 DEF CallInv, CrawlOK
  <2>6. AllLead(call'.frames)
    BY <2>3, <2>4 DEF AllLead
  <2>7. CrawlOK'
    BY <2>3, <2>4, <2>5, <2>6, QuietCall
  <2>8. AddingInCall'
    BY <1>1, <2>2, <2>4, QuietTree DEF Adding
  <2> QED BY <1>1, <2>2, <2>4, <2>7, <2>8, CallInvTypes, CallInvParts
<1>4. CASE CrawlEntry
  <2>1. PICK e \in call.frames[1].todo :
           /\ ~IsSkipped(e[1])
           /\ call' = [call EXCEPT !.pc = "stat", !.obj = e[2],
                        !.vpath = Append(call.frames[1].vpath, e[1]),
                        !.frames = Taken(e)]
    BY <1>4 DEF CrawlEntry
  <2>2. call.pc = "entries" /\ UNCHANGED heap
    BY <1>4 DEF CrawlEntry
  <2>3. /\ Taken(e) \in Seq(Frame) /\ Taken(e) # <<>> /\ AllLead(Taken(e))
        /\ <<e[2], Append(call.frames[1].vpath, e[1])>> \in Place
    BY <1>2, <2>1, <2>2
  <2>4. e[2] \in Object /\ Append(call.frames[1].vpath, e[1]) \in RegPath
    BY <2>3, PlaceType
  <2>5. call' \in CallType /\ call'.pc = "stat" /\ call'.frames = Taken(e)
        /\ call'.buf = call.buf /\ call'.obj = e[2]
        /\ call'.vpath = Append(call.frames[1].vpath, e[1])
    BY <2>1, <2>3, <2>4, CallInvTypes DEF CallType
  <2>6. call.buf = Null
    BY <2>2 DEF CallInv, CrawlOK
  <2>7. AllLead(call'.frames)
    BY <2>3, <2>5 DEF AllLead
  <2>8. CrawlOK'
    BY <2>3, <2>5, <2>6, <2>7, QuietCall
  <2>9. AddingInCall'
    BY <1>1, <2>2, <2>5, QuietTree DEF Adding
  <2> QED BY <1>1, <2>2, <2>5, <2>8, <2>9, CallInvTypes, CallInvParts
<1>5. CASE Allocate
  <2> DEFINE b == FreeBuffer
  <2>1. /\ call.pc = "stat" /\ heap' = [heap EXCEPT ![b] = call.obj]
        /\ call' = [call EXCEPT !.pc = "read", !.buf = b]
    BY <1>5 DEF Allocate
  <2>2. b \in Buffer
    BY <1>5 DEF Allocate, FreeBuffer
  <2> HIDE DEF b
  <2>3. <<call.obj, call.vpath>> \in Place /\ call.obj \in Object
    BY <2>1, PlaceType DEF CallInv, CrawlOK
  <2>4. call' \in CallType /\ call'.pc = "read" /\ call'.frames = call.frames
        /\ call'.buf = b /\ call'.obj = call.obj /\ call'.vpath = call.vpath
    BY <2>1, <2>2, CallInvTypes DEF CallType
  <2>5. heap' \in [Buffer -> Object \cup {Null}]
    BY <2>1, <2>3, CallInvTypes
  <2>6. CrawlOK'
    BY <2>2, <2>3, <2>4 DEF CallInv, CrawlOK
  <2>7. AddingInCall'
    BY <1>1, <2>1, <2>4, QuietTree DEF Adding
  <2> QED BY <1>1, <2>4, <2>5, <2>6, <2>7, CallInvTypes, CallInvParts
<1> QED BY <1>3, <1>4, <1>5

\* The ID that the newest file has.
LEMMA NewestID ==
    ASSUME TypeInv, Filled, FileListExact, adding.status = "ok", adding.type = "file"
    PROVE  /\ adding.at \in DOMAIN node /\ IsFile(adding.at)
           /\ Len(fileList) \in Nat \ {0} /\ fileList[Len(fileList)] = adding.at
           /\ node[adding.at].id = Len(fileList) - 1
<1>1. fileList \in Seq(DOMAIN node) /\ fileList # <<>> /\ adding.at = fileList[Len(fileList)]
  BY DEF Filled, TypeInv, TypeOK
<1>2. Len(fileList) \in Nat \ {0} /\ Len(fileList) \in 1..Len(fileList)
  BY <1>1
<1>3. adding.at \in DOMAIN node /\ IsFile(adding.at)
  BY DEF Filled, IsFile, TypeInv, AddingOK
<1>4. node[fileList[Len(fileList)]].id = Len(fileList) - 1
  BY <1>2 DEF FileListExact
<1> QED BY <1>1, <1>2, <1>3, <1>4

\* Ending an addition.
LEMMA EndAddKeepsInv ==
    ASSUME TypeInv, Filled, FileListExact, CallInv,
           DirAdded \/ FileAdded \/ DescriptorAdded \/ DataAdded
    PROVE  CallInv'
<1>1. /\ AddReturn /\ call.pc \in Adding /\ UNCHANGED shut
  BY DEF DirAdded, FileAdded, DescriptorAdded, DataAdded, Adding
<1>2. adding'.status = "idle" /\ UNCHANGED in_startup /\ call.pc # "idle"
  BY <1>1, AddReturnEffect DEF AddReturn, Adding
<1>3. CASE Fail
  BY <1>1, <1>2, <1>3, FailKeepsInv
<1>4. CASE DirAdded /\ adding.status = "ok" /\ Kind = "dir"
  <2> DEFINE f == [vpath |-> call.vpath, count |-> 0, todo |-> Disk[call.obj].entries]
             fs == <<f>> \o call.frames
  <2>1. /\ call' = [NoCall EXCEPT !.pc = "entries", !.frames = fs]
        /\ call.pc = "adddir" /\ UNCHANGED <<last, heap>>
    BY <1>4 DEF DirAdded
  <2>2. <<call.obj, call.vpath>> \in Place
    BY <2>1 DEF CallInv, CrawlOK
  <2>3. f \in Frame /\ Leads(f)
    BY <2>2, PlaceType DEF Frame, Leads
  <2>4. call.frames \in Seq(Frame) /\ AllLead(call.frames)
    BY CallInvTypes DEF AllLead
  <2> HIDE DEF f
  <2>5. /\ fs \in Seq(Frame) /\ Len(fs) = 1 + Len(call.frames) /\ fs[1] = f /\ fs # <<>>
        /\ \A i \in 1..Len(fs) :
              i # 1 => fs[i] = call.frames[i - 1] /\ i - 1 \in 1..Len(call.frames)
    BY <2>3, <2>4, OnTopOf
  <2> HIDE DEF fs
  <2>6. AllLead(fs)
    BY <2>3, <2>4, <2>5 DEF AllLead
  <2>7. call' \in CallType
    BY <2>1, <2>5, NoCallType DEF CallType
  <2>8. call'.pc = "entries" /\ call'.frames = fs /\ call'.buf = Null
    BY <2>1 DEF NoCall
  <2>9. AllLead(call'.frames)
    BY <2>6, <2>8 DEF AllLead
  <2>10. CrawlOK'
    BY <2>5, <2>7, <2>8, <2>9, QuietCall
  <2>11. AddingInCall'
    BY <1>1, <1>2, <2>8, NotAdding DEF Adding
  <2> QED BY <1>1, <2>1, <2>7, <2>10, <2>11, CallInvTypes, CallInvParts
<1>5. CASE FileAdded /\ adding.status = "ok"
  <2>1. Return(call.frames, 1) /\ UNCHANGED heap /\ AllLead(call.frames) /\ 1 \in Nat
    BY <1>5, CallInvTypes DEF FileAdded
  <2> QED BY <1>1, <1>2, <2>1, ReturnKeepsInv
<1>6. CASE DescriptorAdded /\ adding.status = "ok"
  <2>1. /\ call' = [call EXCEPT !.pc = "next", !.list = Tail(@), !.count = @ + 1]
        /\ call.pc = "addembedded" /\ UNCHANGED <<last, heap>>
    BY <1>6 DEF DescriptorAdded
  <2> DEFINE D == [version : Nat, path : RegPath, data : ClientData]
             l == call.list
             r == Tail(l)
  <2>2. l \in Seq(D) /\ l # <<>>
    BY <2>1 DEF CallInv, CrawlOK, ApiTypeOK
  <2> HIDE DEF D
  <2>3. r \in Seq(D) /\ \A i \in 1..Len(r) : r[i] = l[i + 1] /\ i + 1 \in 1..Len(l)
    BY <2>2, HeadType
  <2> HIDE DEF r
  <2>4. call.count + 1 \in Nat
    BY CallInvTypes DEF CallType
  <2>5. /\ call' \in CallType /\ call'.pc = "next" /\ call'.list = r /\ call'.vpath = call.vpath
        /\ call'.frames = call.frames /\ call'.buf = call.buf
    BY <2>1, <2>3, <2>4, CallInvTypes DEF CallType, D, r
  <2>6. \A i \in 1..Len(call'.list) : call'.vpath \o call'.list[i].path \in RegPath
    BY <2>1, <2>3, <2>5 DEF CallInv, CrawlOK
  <2>7. CrawlOK'
    BY <2>1, <2>5, <2>6 DEF CallInv, CrawlOK
  <2>8. AddingInCall'
    BY <1>1, <1>2, <2>5, NotAdding DEF Adding
  <2> QED BY <1>1, <2>1, <2>5, <2>7, <2>8, CallInvTypes, CallInvParts
<1>7. CASE DataAdded /\ adding.status = "ok"
  <2>1. Return(<<>>, node[adding.at].id) /\ UNCHANGED heap /\ adding.type = "file"
    BY <1>7 DEF DataAdded, CallInv, AddingInCall, Adding
  <2>2. node[adding.at].id \in Nat
    BY <1>7, <2>1, NewestID
  <2>3. AllLead(<<>>)
    BY DEF AllLead
  <2> QED BY <1>1, <1>2, <2>1, <2>2, <2>3, ReturnKeepsInv
<1> QED
  BY <1>3, <1>4, <1>5, <1>6, <1>7 DEF DirAdded, FileAdded, DescriptorAdded, DataAdded

LEMMA CallStepKeepsInv ==
    ASSUME TypeInv, Filled, FileListExact, CallInv, CallStep
    PROVE  CallInv'
BY FailingKeepsInv, ReturningKeepsInv, BeginAddKeepsInv, CrawlKeepsInv, EndAddKeepsInv,
   OtherKeepsInv
DEF CallStep

LEMMA CallInvNext ==
    ASSUME TypeInv, Filled, FileListExact, CallInv, [ApiNext]_allVars
    PROVE  CallInv'
<1>1. ASSUME NEW t \in Thread,
             ((\E p \in LookupPath : Lookup(t, p)) \/ LookupStep(t)) /\ UNCHANGED apiVars
      PROVE  CallInv'
  <2>1. UNCHANGED <<adding, in_startup, call, last, heap, shut>>
    BY <1>1 DEF apiVars, Lookup, LookupStep, FindHit, FindMiss, WalkFail, WalkOn, WalkEnd,
                Lock, Write, LookupReturn
  <2> QED BY <2>1, OtherKeepsInv
<1>2. CASE UNCHANGED allVars
  BY <1>2, OtherKeepsInv DEF allVars
<1> QED BY <1>1, <1>2, CallStepKeepsInv, RegisterKeepsInv, OtherKeepsInv DEF ApiNext

-----------------------------------------------------------------------------
\* Theorems that hold for every disk

ApiInv == TypeInv /\ FileListExact /\ Filled /\ Reached /\ CallInv

LEMMA ApiInvInit == ApiInit => ApiInv
<1> SUFFICES ASSUME ApiInit PROVE ApiInv
  OBVIOUS
<1>1. Init
  BY DEF ApiInit
<1>2. FileListExact
  BY <1>1 DEF Init, FileListExact, IsFile
<1>3. CallInv
  <2>1. /\ call = NoCall /\ last = NoResult /\ heap \in [Buffer -> Object \cup {Null}]
        /\ shut = FALSE
    BY DEF ApiInit
  <2>2. ApiTypeOK
    BY <2>1, NoCallType DEF ApiTypeOK, CallType, LastType
  <2>3. call.pc = "idle" /\ call.frames = <<>> /\ call.buf = Null
    BY <2>1 DEF NoCall
  <2>4. CrawlOK
    BY <2>3 DEF CrawlOK
  <2>5. adding.status = "idle"
    BY <1>1 DEF Init, NoAdd
  <2>6. AddingInCall
    BY <2>1, <2>3, <2>5 DEF AddingInCall, Adding
  <2> QED BY <2>2, <2>4, <2>6 DEF CallInv
<1> QED BY <1>1, <1>2, <1>3, TypeInit, FilledInit, ReachedInit DEF ApiInv

LEMMA ApiInvNext == ApiInv /\ [ApiNext]_allVars => ApiInv'
<1> SUFFICES ASSUME ApiInv, [ApiNext]_allVars PROVE ApiInv'
  OBVIOUS
<1>1. [Next]_vars
  BY ApiStepIsTreeStep DEF ApiInv, CallInv
<1>2. TypeInv' /\ FileListExact' /\ Filled' /\ Reached'
  BY <1>1, TypeNext, FileListNext, FilledNext, ReachedNext DEF ApiInv
<1> QED BY <1>2, CallInvNext DEF ApiInv

\* The invariant of the theorems below: the tree's, its data, what the root reaches,
\* and the calls.
THEOREM ApiInvariant == ApiSpec => []ApiInv
BY ApiInvInit, ApiInvNext, PTL DEF ApiSpec

\* The call in progress, its result and the buffers stay well typed for every disk,
\* to any depth of the crawl.
THEOREM ApiTypes == ApiSpec => []ApiTypeOK
<1>1. ApiInv => ApiTypeOK
  BY DEF ApiInv, CallInv
<1> QED BY <1>1, ApiInvariant, PTL

\* The API does nothing to the tree but what PCS_Tree allows.
THEOREM ApiImplementsTree == ApiSpec => ImplementsTree
<1>1. ApiInv /\ [ApiNext]_allVars => [Next]_vars
  BY ApiStepIsTreeStep DEF ApiInv, CallInv
<1>2. ApiInit => Init
  BY DEF ApiInit
<1> QED BY <1>1, <1>2, ApiInvariant, PTL DEF ApiSpec, ImplementsTree, Spec

\* What a step of the tree does to the data of its nodes.
LEMMA DataEffect ==
    ASSUME TypeInv, [Next]_vars
    PROVE  /\ DOMAIN node \subseteq DOMAIN node'
           /\ \A n \in DOMAIN node :
                 \/ node'[n].data = node[n].data
                 \/ AddReturn /\ adding.status = "ok" /\ adding.type = "file" /\ n = adding.at
           /\ \A n \in DOMAIN node' \ DOMAIN node : node'[n].data = Null
<1>1. CASE AddReturn
  BY <1>1, AddReturnEffect
<1>2. CASE SubNodeCreate
  BY <1>2, CreateEffect, CreateKinds
<1>3. CASE UNCHANGED node
  BY <1>3
<1> QED
  BY <1>1, <1>2, <1>3
  DEF Next, AddNode, AddStep, SubNodeForbidden, SubNodeExists, vars, BeginRequests, Lookup,
      LookupStep, FindHit, FindMiss, WalkFail, WalkOn, WalkEnd, Lock, Write, LookupReturn

\* No registration replaces the data of a file.
THEOREM DataIsKept == ApiSpec => DataKept
<1>1. ApiInv /\ [ApiNext]_allVars
        => [\A n \in DOMAIN node : node[n].data # Null => node'[n].data = node[n].data]_allVars
  <2> SUFFICES ASSUME ApiInv, [ApiNext]_allVars, NEW n \in DOMAIN node, node[n].data # Null
               PROVE  node'[n].data = node[n].data
    OBVIOUS
  <2>1. [Next]_vars
    BY ApiStepIsTreeStep DEF ApiInv, CallInv
  <2>2. ~(adding.status = "ok" /\ adding.type = "file" /\ n = adding.at)
    BY DEF ApiInv, Filled
  <2> QED BY <2>1, <2>2, DataEffect DEF ApiInv
<1> QED BY <1>1, ApiInvariant, PTL DEF ApiSpec, DataKept

\* Between two calls every file has its data, whatever calls failed before.
THEOREM NoFileIsWithoutData == ApiSpec => []NoFileWithoutData
<1>1. ApiInv => NoFileWithoutData
  BY DEF ApiInv, CallInv, AddingInCall, Adding, Filled, NoFileWithoutData, IsFile, IsDir
<1> QED BY <1>1, ApiInvariant, PTL

-----------------------------------------------------------------------------
\* Buffers

InUse == call.buf # Null => heap[call.buf] # Null

OwnInv == BufferOwned /\ InUse

\* Steps that do not touch what is in a buffer or the data of a node.
LEMMA SameBuffers ==
    ASSUME ApiInv, OwnInv, UNCHANGED <<heap, shut>>, call'.buf = call.buf,
           DOMAIN node \subseteq DOMAIN node',
           \A n \in DOMAIN node : node'[n].data = node[n].data \/ (node[n].data = Null /\ node'[n].data \notin Buffer),
           \A n \in DOMAIN node' \ DOMAIN node : node'[n].data = Null
    PROVE  OwnInv'
<1>1. Null \notin Buffer
  BY DataAssumption, ClientAssumption
<1>2. \A n \in DOMAIN node' : node'[n].data \in Buffer => n \in DOMAIN node /\ node'[n].data = node[n].data
  BY <1>1
<1>3. \A n \in DOMAIN node : node[n].data \in Buffer => node'[n].data = node[n].data
  BY <1>1
<1> QED BY <1>2, <1>3 DEF OwnInv, BufferOwned, InUse

\* Every step keeps the owners.
LEMMA OwnNext ==
    ASSUME ApiInv, OwnInv, [ApiNext]_allVars
    PROVE  OwnInv'
<1> USE DEF ApiInv
<1>1. Null \notin Buffer /\ Null \notin Object /\ Buffer \cap ClientData = {}
  BY DataAssumption, ClientAssumption, DiskAssumption
<1>2. [Next]_vars
  BY ApiStepIsTreeStep DEF CallInv
<1>3. /\ DOMAIN node \subseteq DOMAIN node'
      /\ \A n \in DOMAIN node :
            \/ node'[n].data = node[n].data
            \/ AddReturn /\ adding.status = "ok" /\ adding.type = "file" /\ n = adding.at
                /\ node[n].data = Null
      /\ \A n \in DOMAIN node' \ DOMAIN node : node'[n].data = Null
  BY <1>2, DataEffect DEF Filled
<1>4. ASSUME UNCHANGED <<heap, shut>>, call'.buf = call.buf, ~AddReturn
      PROVE  OwnInv'
  BY <1>3, <1>4, SameBuffers
<1>5. call \in CallType /\ heap \in [Buffer -> Object \cup {Null}] /\ shut \in BOOLEAN
  BY CallInvTypes
<1>6. call.pc # "idle" => ~shut
  BY DEF CallInv, AddingInCall
<1>7. CASE Fail /\ UNCHANGED shut /\ call.pc # "idle" /\
           (AddReturn => ~(adding.status = "ok" /\ adding.type = "file"))
  <2>1. \A n \in DOMAIN node' : node'[n].data \in Buffer => n \in DOMAIN node /\ node'[n].data = node[n].data
    BY <1>1, <1>3, <1>7
  <2>2. \A n \in DOMAIN node : node'[n].data = node[n].data
    BY <1>3, <1>7
  <2>3. heap' = Freed(call.buf) /\ call'.buf = Null
    BY <1>7, FailEffect
  <2>4. CASE call.buf = Null
    <3>1. heap' = heap
      BY <2>3, <2>4 DEF Freed
    <3> QED BY <1>3, <1>6, <1>7, <2>1, <2>2, <2>3, <2>4, <3>1 DEF OwnInv, BufferOwned, InUse
  <2>5. CASE call.buf # Null
    <3>1. /\ call.buf \in Buffer
          /\ \A b \in Buffer : heap'[b] = IF b = call.buf THEN Null ELSE heap[b]
      BY <1>5, <2>3, <2>5 DEF Freed, CallType
    <3> QED BY <1>1, <1>3, <1>6, <1>7, <2>1, <2>2, <2>3, <3>1 DEF OwnInv, BufferOwned, InUse
  <2> QED BY <2>4, <2>5
<1>8. CASE FileAdded /\ adding.status = "ok"
  <2> DEFINE a == adding.at
             b == call.buf
  <2>1. /\ AddReturn /\ call.pc = "addfile" /\ Return(call.frames, 1)
        /\ UNCHANGED <<heap, shut>>
    BY <1>8 DEF FileAdded
  <2>2. adding.type = "file" /\ adding.data = b /\ b \in Buffer /\ ~shut
    BY <1>6, <2>1 DEF CallInv, AddingInCall, CrawlOK, Adding
  <2>3. /\ a \in DOMAIN node /\ DOMAIN node' = DOMAIN node
        /\ node'[a].data = b /\ \A n \in DOMAIN node \ {a} : node'[n].data = node[n].data
    BY <1>8, <2>1, <2>2, AddReturnEffect DEF TypeInv, AddingOK
  <2>4. call'.buf = Null
    BY <2>1, ReturnEffect, CallInvTypes
  <2>5. heap[b] # Null /\ \A n \in DOMAIN node : node[n].data # b
    BY <1>1, <2>2 DEF OwnInv, BufferOwned, InUse
  <2>6. \A c \in Buffer : heap[c] # Null => c = b \/ \E n \in DOMAIN node : node[n].data = c
    BY <2>2 DEF OwnInv, BufferOwned
  <2>7. \A n \in DOMAIN node : node[n].data \in Buffer =>
          /\ heap[node[n].data] # Null
          /\ \A m \in DOMAIN node \ {n} : node[m].data # node[n].data
    BY <2>2 DEF OwnInv, BufferOwned
  <2>8. node[a].data = Null
    BY <1>8, <2>2, <2>3 DEF Filled
  <2> HIDE DEF a, b
  <2>9. ASSUME NEW n \in DOMAIN node', node'[n].data \in Buffer
        PROVE  /\ heap[node'[n].data] # Null
               /\ \A m \in DOMAIN node' \ {n} : node'[m].data # node'[n].data
    BY <2>3, <2>5, <2>7, <2>9
  <2>10. ASSUME NEW c \in Buffer, heap[c] # Null
         PROVE  \E n \in DOMAIN node' : node'[n].data = c
    BY <1>1, <2>3, <2>6, <2>8, <2>10
  <2>11. BufferOwned'
    BY <1>1, <2>1, <2>2, <2>4, <2>9, <2>10 DEF BufferOwned
  <2> QED BY <2>4, <2>11 DEF OwnInv, InUse
<1>9. CASE (DescriptorAdded \/ DataAdded) /\ adding.status = "ok"
  <2>1. /\ AddReturn /\ call.pc \in {"addembedded", "adddata"} /\ UNCHANGED <<heap, shut>>
    BY <1>9 DEF DescriptorAdded, DataAdded
  <2>2. call.buf = Null /\ adding.data \in ClientData
    BY <2>1 DEF CallInv, AddingInCall, CrawlOK
  <2>3. call'.buf = Null
    <3>1. CASE DescriptorAdded
      BY <1>5, <1>9, <2>2, <3>1 DEF DescriptorAdded, CallType
    <3>2. CASE DataAdded
      <4>1. Return(<<>>, node[adding.at].id)
        BY <1>9, <3>2 DEF DataAdded
      <4> QED BY <4>1 DEF Return, NoCall
    <3> QED BY <1>9, <3>1, <3>2
  <2>4. \A n \in DOMAIN node :
          node'[n].data = node[n].data \/ (node[n].data = Null /\ node'[n].data \notin Buffer)
    BY <1>1, <1>3, <2>1, <2>2, AddReturnEffect
  <2> QED BY <1>3, <2>1, <2>2, <2>3, <2>4, SameBuffers
<1>10. CASE DirAdded /\ adding.status = "ok" /\ Kind = "dir"
  <2>1. /\ AddReturn /\ call.pc = "adddir" /\ UNCHANGED <<heap, shut>>
        /\ call'.buf = Null
    BY <1>10 DEF DirAdded, NoCall
  <2>2. call.buf = Null /\ adding.type = "dir"
    BY <2>1 DEF CallInv, AddingInCall, CrawlOK
  <2> QED BY <1>3, <2>1, <2>2, SameBuffers
<1>11. CASE Allocate
  <2> DEFINE b == FreeBuffer
  <2>1. b \in Buffer /\ heap[b] = Null
    BY <1>11 DEF Allocate, FreeBuffer
  <2> HIDE DEF b
  <2>2. /\ call.pc = "stat" /\ UNCHANGED <<node, shut>>
        /\ heap' = [heap EXCEPT ![b] = call.obj]
        /\ call' = [call EXCEPT !.pc = "read", !.buf = b]
    BY <1>11 DEF Allocate, vars, b
  <2>3. call.obj \in Object /\ call.buf = Null /\ ~shut
    BY <1>6, <2>2, PlaceType DEF CallInv, CrawlOK
  <2>4. \A c \in Buffer : heap'[c] = IF c = b THEN call.obj ELSE heap[c]
    BY <1>5, <2>2
  <2>5. call'.buf = b
    BY <1>5, <2>2 DEF CallType
  <2>6. \A n \in DOMAIN node : node[n].data # b
    BY <2>1, <2>3 DEF OwnInv, BufferOwned
  <2> QED
    BY <1>1, <2>1, <2>2, <2>3, <2>4, <2>5, <2>6 DEF OwnInv, BufferOwned, InUse
<1>12. CASE MSHUTDOWN
  <2>1. /\ call.pc = "idle" /\ ~shut /\ shut' = TRUE /\ UNCHANGED <<node, call>>
        /\ heap' = [b \in Buffer |->
                      IF b \in {node[n].data : n \in Destroyed} THEN Null ELSE heap[b]]
    BY <1>12 DEF MSHUTDOWN, Idle, vars
  <2>2. Destroyed = DOMAIN node
    BY AllDestroyed
  <2>3. call.buf = Null
    BY <2>1 DEF CallInv, CrawlOK
  <2>4. \A b \in Buffer : heap'[b] = Null
    BY <1>1, <2>1, <2>2, <2>3 DEF OwnInv, BufferOwned
  <2> QED BY <2>1, <2>3, <2>4 DEF OwnInv, BufferOwned, InUse
<1>13. CASE UNCHANGED allVars
  <2>1. UNCHANGED <<node, heap, shut, call>>
    BY <1>13 DEF allVars
  <2> QED BY <2>1 DEF OwnInv, BufferOwned, InUse
<1>14. call.pc \notin Adding => ~AddReturn
  BY DEF CallInv, AddingInCall, AddReturn
<1>15. CASE RegisterStep
  <2>1. /\ UNCHANGED <<heap, shut>> /\ call.pc = "idle" /\ call'.buf = Null
    BY <1>15 DEF RegisterStep, RegisterPath, RegisterEmbedded, RegisterData, Idle, NoCall
  <2>2. call.buf = Null
    BY <2>1 DEF CallInv, CrawlOK
  <2> QED BY <1>4, <1>14, <2>1, <2>2 DEF Adding
<1>16. CASE Refuse \/ (call.pc = "idle" /\ BeginRequests /\ UNCHANGED apiVars)
  <2>1. UNCHANGED <<heap, shut, call>> /\ call.pc = "idle"
    BY <1>16 DEF Refuse, Idle, apiVars
  <2> QED BY <1>4, <1>14, <2>1 DEF Adding
<1>17. CASE (SubNodeForbidden \/ SubNodeExists \/ SubNodeCreate) /\ UNCHANGED apiVars
  BY <1>4, <1>17 DEF apiVars, SubNodeForbidden, SubNodeExists, SubNodeCreate, AddReturn
<1>18. CASE \E t \in Thread :
              ((\E p \in LookupPath : Lookup(t, p)) \/ LookupStep(t)) /\ UNCHANGED apiVars
  <2>1. UNCHANGED <<heap, shut, call, node>>
    BY <1>18 DEF apiVars, Lookup, LookupStep, FindHit, FindMiss, WalkFail, WalkOn, WalkEnd,
                 Lock, Write, LookupReturn
  <2> QED BY <2>1 DEF OwnInv, BufferOwned, InUse
<1>19. CASE SourceFails \/ BadVersion
  <2>1. Fail /\ UNCHANGED shut /\ call.pc \in {"stat", "next"}
    BY <1>19 DEF SourceFails, BadVersion
  <2> QED BY <1>7, <1>14, <2>1 DEF Adding
<1>20. CASE MakeDir \/ ReadFile \/ AddDescriptor \/ SkipEntry \/ CrawlEntry
  <2>1. /\ UNCHANGED <<heap, shut>> /\ call.pc \in {"stat", "read", "next", "entries"}
        /\ call'.buf = call.buf
    BY <1>5, <1>20 DEF MakeDir, ReadFile, AddDescriptor, SkipEntry, CrawlEntry, CallType
  <2> QED BY <1>4, <1>14, <2>1 DEF Adding
<1>21. CASE SourceIgnored \/ DirDone \/ EmbeddedEnd
  <2>1. /\ UNCHANGED <<heap, shut>> /\ call.pc \in {"stat", "entries", "next"}
    BY <1>21 DEF SourceIgnored, DirDone, EmbeddedEnd
  <2>3. ASSUME NEW fs, NEW v, Return(fs, v)
        PROVE  call'.buf = Null
    <3> DEFINE f == Add(Head(fs), v)
               gs == <<f>> \o Tail(fs)
    <3>1. call' = NoCall \/ call' = [NoCall EXCEPT !.pc = "entries", !.frames = gs]
      <4>1. CASE fs = <<>>
        BY <2>3, <4>1 DEF Return
      <4>2. CASE fs # <<>>
        BY <2>3, <4>2 DEF Return
      <4> QED BY <4>1, <4>2
    <3> HIDE DEF f, gs
    <3>2. CASE call' = NoCall
      BY <3>2 DEF NoCall
    <3>3. CASE call' = [NoCall EXCEPT !.pc = "entries", !.frames = gs]
      BY <3>3 DEF NoCall
    <3> QED BY <3>1, <3>2, <3>3
  <2>4. call'.buf = Null
    BY <1>21, <2>3 DEF SourceIgnored, DirDone, EmbeddedEnd
  <2>2. call.buf = Null
    BY <2>1 DEF CallInv, CrawlOK
  <2> QED BY <1>4, <1>14, <2>1, <2>2, <2>4 DEF Adding
<1>22. CASE DirAdded \/ FileAdded \/ DescriptorAdded \/ DataAdded
  <2>1. CASE Fail
    <3>1. /\ UNCHANGED shut /\ call.pc \in Adding
          /\ DirAdded \/ (adding.status = "ok" /\ ~DirAdded) \/ adding.status # "ok"
      BY <1>22 DEF DirAdded, FileAdded, DescriptorAdded, DataAdded, Adding
    <3>2. CASE adding.status = "ok" /\ adding.type = "file"
      <4>1. ~DirAdded
        BY <3>2 DEF DirAdded, CallInv, AddingInCall
      <4> QED BY <1>8, <1>9, <1>22, <3>2, <4>1
    <3> QED BY <1>7, <2>1, <3>1, <3>2 DEF Adding
  <2> QED
    BY <1>8, <1>9, <1>10, <1>22, <2>1 DEF DirAdded, FileAdded, DescriptorAdded, DataAdded
<1>23. CASE CallStep
  BY <1>11, <1>17, <1>19, <1>20, <1>21, <1>22, <1>23 DEF CallStep
<1> QED
  BY <1>12, <1>13, <1>15, <1>16, <1>18, <1>23 DEF ApiNext, RegisterStep

LEMMA OwnInit == ApiInit => OwnInv
<1> SUFFICES ASSUME ApiInit PROVE OwnInv
  OBVIOUS
<1>1. call.buf = Null /\ shut = FALSE /\ \A b \in Buffer : heap[b] = Null
  BY DEF ApiInit, NoCall
<1>2. DOMAIN node = {Root} /\ node[Root].data = Null
  BY DEF ApiInit, Init
<1>3. Null \notin Buffer
  BY DataAssumption, ClientAssumption
<1> QED BY <1>1, <1>2, <1>3 DEF OwnInv, BufferOwned, InUse

\* Every buffer in use has one owner and is freed once, for every disk and every
\* failure in a crawl, and none is left after MSHUTDOWN.
THEOREM BufferIsOwned == ApiSpec => []BufferOwned
<1>1. ApiInit => OwnInv
  BY OwnInit
<1>2. ApiInv /\ OwnInv /\ [ApiNext]_allVars => OwnInv'
  BY OwnNext
<1>3. OwnInv => BufferOwned
  BY DEF OwnInv
<1> QED BY <1>1, <1>2, <1>3, ApiInvariant, PTL DEF ApiSpec

-----------------------------------------------------------------------------
\* The tree under the API

\* What is proved about the tree holds whatever clients register and whichever
\* of their calls fail, as long as nothing is registered at the empty path.
THEOREM TreeUnderApi ==
    ASSUME <<>> \notin RegPath
    PROVE  ApiSpec => [](TreeShape /\ PathListExact /\ PathListSound) /\ ImplementsVFS
<1>1. ApiSpec => Spec
  BY ApiImplementsTree DEF ImplementsTree
<1>2. (Spec => []TreeShape) /\ (Spec => []PathListExact) /\ (Spec => []PathListSound)
  BY TreeShapeInvariant, PathListExactInvariant, PathListSoundInvariant
<1>3. Spec => ImplementsVFS
  BY TreeImplementsVFS
<1> QED BY <1>1, <1>2, <1>3, PTL

-----------------------------------------------------------------------------
\* Results.  The counts of the frames add up to the files of the crawl so far;
\* the sum is a sequence of partial sums, from the outermost frame inwards.

Sums(fs, n) ==
    \E s \in [0..Len(fs) -> Nat] :
      /\ s[0] = n /\ s[Len(fs)] = 0
      /\ \A i \in 1..Len(fs) : s[i - 1] = s[i] + fs[i].count

LEMMA SumsOfNone == Sums(<<>>, 0) /\ \A n : Sums(<<>>, n) => n = 0
<1> DEFINE s == [i \in 0..0 |-> 0]
<1>1. s \in [0..0 -> Nat] /\ s[0] = 0
  OBVIOUS
<1> HIDE DEF s
<1>2. Sums(<<>>, 0)
  <2>1. Len(<<>>) = 0 /\ 1..0 = {}
    OBVIOUS
  <2> QED BY <1>1, <2>1 DEF Sums
<1>3. \A n : Sums(<<>>, n) => n = 0
  BY DEF Sums
<1> QED BY <1>2, <1>3

LEMMA SumsPush ==
    ASSUME NEW fs \in Seq(Frame), NEW f \in Frame, NEW n \in Nat, Sums(fs, n)
    PROVE  Sums(<<f>> \o fs, n + f.count)
<1> DEFINE gs == <<f>> \o fs
<1>1. /\ gs \in Seq(Frame) /\ Len(gs) = 1 + Len(fs) /\ gs[1] = f /\ Len(fs) \in Nat
      /\ \A i \in 1..Len(gs) : i # 1 => gs[i] = fs[i - 1] /\ i - 1 \in 1..Len(fs)
  BY OnTopOf
<1>2. PICK s \in [0..Len(fs) -> Nat] :
        /\ s[0] = n /\ s[Len(fs)] = 0
        /\ \A i \in 1..Len(fs) : s[i - 1] = s[i] + fs[i].count
  BY DEF Sums
<1> DEFINE r == [i \in 0..Len(gs) |-> IF i = 0 THEN n + f.count ELSE s[i - 1]]
<1>3. f.count \in Nat
  BY DEF Frame
<1> HIDE DEF gs
<1>4. r \in [0..Len(gs) -> Nat]
  BY <1>1, <1>3
<1>5. r[0] = n + f.count /\ r[Len(gs)] = 0
  BY <1>1, <1>2
<1>6. ASSUME NEW i \in 1..Len(gs)
      PROVE  r[i - 1] = r[i] + gs[i].count
  <2>1. CASE i = 1
    BY <1>1, <1>2, <1>3, <2>1
  <2>2. CASE i # 1
    <3>1. gs[i] = fs[i - 1] /\ i - 1 \in 1..Len(fs)
      BY <1>1, <2>2
    <3>2. r[i] = s[i - 1] /\ r[i - 1] = s[(i - 1) - 1]
      BY <1>1, <2>2
    <3> QED BY <1>2, <3>1, <3>2
  <2> QED BY <2>1, <2>2
<1> HIDE DEF r
<1>7. Sums(gs, n + f.count)
  BY <1>4, <1>5, <1>6 DEF Sums
<1> QED BY <1>7 DEF gs

LEMMA SumsPop ==
    ASSUME NEW fs \in Seq(Frame), fs # <<>>, NEW n \in Nat, Sums(fs, n)
    PROVE  \E m \in Nat : n = m + fs[1].count /\ Sums(Tail(fs), m)
<1> DEFINE gs == Tail(fs)
<1>1. /\ gs \in Seq(Frame) /\ Len(gs) = Len(fs) - 1 /\ 1 \in 1..Len(fs) /\ Len(fs) \in Nat
      /\ \A i \in 1..Len(gs) : gs[i] = fs[i + 1] /\ i + 1 \in 1..Len(fs)
  BY HeadType
<1>2. PICK s \in [0..Len(fs) -> Nat] :
        /\ s[0] = n /\ s[Len(fs)] = 0
        /\ \A i \in 1..Len(fs) : s[i - 1] = s[i] + fs[i].count
  BY DEF Sums
<1> DEFINE r == [i \in 0..Len(gs) |-> s[i + 1]]
<1> HIDE DEF gs
<1>3. r \in [0..Len(gs) -> Nat] /\ r[0] = s[1] /\ r[Len(gs)] = 0
  BY <1>1, <1>2
<1>4. ASSUME NEW i \in 1..Len(gs)
      PROVE  r[i - 1] = r[i] + gs[i].count
  <2>1. gs[i] = fs[i + 1] /\ i + 1 \in 1..Len(fs)
    BY <1>1
  <2>2. r[i] = s[i + 1] /\ r[i - 1] = s[(i + 1) - 1]
    BY <1>1
  <2> QED BY <1>2, <2>1, <2>2
<1> HIDE DEF r
<1>5. Sums(gs, s[1])
  BY <1>3, <1>4 DEF Sums
<1>6. s[1] \in Nat /\ n = s[1] + fs[1].count
  <2>1. s[1 - 1] = s[1] + fs[1].count
    BY <1>1, <1>2
  <2> QED BY <1>1, <1>2, <2>1
<1> QED BY <1>5, <1>6 DEF gs

\* A frame returns v to the one above it.
LEMMA SumsAdd ==
    ASSUME NEW fs \in Seq(Frame), fs # <<>>, NEW n \in Nat, Sums(fs, n), NEW v \in Nat
    PROVE  Sums(<<Add(Head(fs), v)>> \o Tail(fs), n + v)
<1> DEFINE f == Add(Head(fs), v)
<1>1. fs[1] = Head(fs) /\ Head(fs) \in Frame /\ Tail(fs) \in Seq(Frame)
  BY HeadType
<1>2. f \in Frame /\ f.count = fs[1].count + v /\ fs[1].count \in Nat
  <2>1. Head(fs).count \in Nat
    BY <1>1 DEF Frame
  <2> QED BY <1>1, <2>1, AddType
<1> HIDE DEF f
<1>3. PICK m \in Nat : n = m + fs[1].count /\ Sums(Tail(fs), m)
  BY SumsPop
<1>4. Sums(<<f>> \o Tail(fs), m + f.count)
  BY <1>1, <1>2, <1>3, SumsPush
<1>5. m + f.count = n + v
  BY <1>2, <1>3
<1> QED BY <1>4, <1>5 DEF f

LEMMA SumsSame ==
    ASSUME NEW fs, NEW gs, Len(gs) = Len(fs),
           \A i \in 1..Len(fs) : gs[i].count = fs[i].count, NEW n, Sums(fs, n)
    PROVE  Sums(gs, n)
BY DEF Sums

\* The file that the addition in progress has added already.
Pending == IF adding.status = "ok" /\ adding.type = "file" THEN 1 ELSE 0

Counted ==
    /\ call.pc # "idle" =>
          \E n \in Nat : /\ Sums(call.frames, n)
                         /\ Len(fileList) = last.first + n + call.count + Pending
    /\ call.pc \notin {"next", "addembedded"} => call.count = 0
    /\ call.pc \in {"next", "addembedded", "adddata"} => call.frames = <<>>
    /\ call.pc \in {"stat", "adddir", "entries", "read", "addfile"} => last.op = "path"
    /\ call.pc \in {"next", "addembedded"} => last.op = "embedded"
    /\ call.pc = "adddata" => last.op = "data"

\* The addition of a registerData call goes to the path given.
DataPath ==
    call.pc = "adddata" =>
      /\ adding.status = "run" => node[adding.at].path \o adding.rest = last.vpath
      /\ adding.status = "ok" => node[adding.at].path = last.vpath

CountInv == Counted /\ DataPath /\ ReturnExact

LEMMA PendingStep ==
    ASSUME TypeInv, SubNodeForbidden \/ SubNodeExists \/ SubNodeCreate
    PROVE  Pending = 0 /\ Pending' \in Nat /\ Len(fileList') = Len(fileList) + Pending'
<1>1. Pending = 0 /\ Pending' \in Nat /\ Len(fileList) \in Nat
  BY DEF Pending, SubNodeForbidden, SubNodeExists, SubNodeCreate, TypeInv, TypeOK
<1>2. CASE SubNodeForbidden
  <2>1. adding'.status = "failed" /\ UNCHANGED fileList
    BY <1>2 DEF SubNodeForbidden, Reject, TypeInv, TypeOK
  <2> QED BY <1>1, <2>1 DEF Pending
<1>3. CASE SubNodeExists
  <2>1. UNCHANGED fileList
    BY <1>3 DEF SubNodeExists
  <2>2. CASE Reject
    BY <1>1, <2>1, <2>2 DEF Pending, Reject, TypeInv, TypeOK
  <2>3. CASE Descend(Entry(adding.at, Name)) /\ SubType = "dir"
    <3>1. adding'.status = "ok" => adding'.type = "dir"
      BY <2>3, DescendEffect DEF SubType
    <3> QED BY <1>1, <2>1, <3>1 DEF Pending
  <2> QED BY <1>3, <2>2, <2>3 DEF SubNodeExists, MayReuse
<1>4. CASE SubNodeCreate
  BY <1>1, <1>4, CreateKinds DEF Pending
<1> QED BY <1>2, <1>3, <1>4

\* Returning keeps the sum, and returns all of it at the end.
LEMMA CountReturn ==
    ASSUME TypeInv, CallInv, NEW fs, AllLead(fs), NEW v \in Nat, NEW n \in Nat, Sums(fs, n), Return(fs, v),
           Len(fileList') = last.first + n + v, Pending' = 0,
           last.op = "path" \/ (fs = <<>> /\ last.op = "embedded")
    PROVE  CountInv'
<1>1. /\ call'.pc = IF fs = <<>> THEN "idle" ELSE "entries"
      /\ call'.count = 0
      /\ fs = <<>> => Result(v)
      /\ fs # <<>> => /\ call'.frames = <<Add(Head(fs), v)>> \o Tail(fs) /\ last' = last
  BY ReturnEffect
<1>2. last.first \in Nat
  BY DEF CallInv, ApiTypeOK
<1>3. CASE fs = <<>>
  <2>1. n = 0
    BY <1>3, SumsOfNone
  <2>2. last'.value = v /\ last'.first = last.first /\ last'.op = last.op
    BY <1>1, <1>3, ResultType
  <2>3. last'.value = Len(fileList') - last'.first
    BY <1>2, <2>1, <2>2
  <2>4. last'.op \in {"path", "embedded"}
    BY <2>2
  <2>5. ReturnExact'
    BY <2>3, <2>4 DEF ReturnExact
  <2> QED BY <1>1, <1>3, <2>5 DEF CountInv, Counted, DataPath
<1>4. CASE fs # <<>>
  <2>1. fs \in Seq(Frame)
    BY DEF AllLead
  <2> DEFINE gs == <<Add(Head(fs), v)>> \o Tail(fs)
  <2>2. Sums(gs, n + v)
    BY <1>4, <2>1, SumsAdd
  <2> HIDE DEF gs
  <2>3. call'.pc = "entries" /\ call'.frames = gs /\ last' = last
    BY <1>1, <1>4 DEF gs
  <2>4. n + v \in Nat /\ Len(fileList') = last.first + (n + v) + 0 + 0
    BY <1>2
  <2>5. Sums(call'.frames, n + v)
    BY <2>2, <2>3
  <2>6. \E m \in Nat : Sums(call'.frames, m)
                       /\ Len(fileList') = last'.first + m + call'.count + Pending'
    BY <1>1, <2>3, <2>4, <2>5
  <2>7. Counted'
    BY <1>1, <1>4, <2>3, <2>6 DEF Counted, Sums
  <2> QED BY <2>3, <2>7 DEF CountInv, DataPath, ReturnExact
<1> QED BY <1>3, <1>4

LEMMA CountFail == ASSUME CallInv, Fail PROVE CountInv'
<1>1. call' = NoCall /\ last'.value = Null
  BY FailEffect
<1> QED BY <1>1 DEF NoCall, CountInv, Counted, DataPath, ReturnExact

\* The addition of a segment goes one segment down the path.
LEMMA PathStep ==
    ASSUME TreeInv, SubNodeExists \/ SubNodeCreate, adding'.status # "failed"
    PROVE  /\ node'[adding'.at].path = Append(node[adding.at].path, Name)
           /\ node[adding.at].path \in Seq(Segment) /\ adding.rest \in Seq(Segment)
           /\ adding.rest # <<>> /\ adding'.rest = Tail(adding.rest)
           /\ adding'.status = IF Len(adding.rest) = 1 THEN "ok" ELSE "run"
<1> USE DEF TreeInv, ShapeInv
<1>1. adding.status = "run" /\ adding.at \in DOMAIN node /\ adding.rest # <<>>
      /\ adding.rest \in Seq(Segment) /\ node[adding.at].path \in Seq(Segment)
  <2>1. adding.status = "run"
    BY DEF SubNodeExists, SubNodeCreate
  <2>2. node[adding.at] \in PCS_Node(Addr) /\ adding.at \in DOMAIN node
    BY <2>1 DEF TypeInv, TypeOK, AddingOK
  <2> QED BY <2>1, <2>2 DEF TypeInv, TypeOK, AddingOK, PCS_Node
<1>2. CASE SubNodeExists
  <2> DEFINE old == Entry(adding.at, Name)
  <2>1. old # Null /\ (Descend(old) \/ Reject) /\ UNCHANGED node
    BY <1>2 DEF SubNodeExists
  <2>2. Descend(old)
    BY <2>1 DEF Reject, TypeInv, TypeOK
  <2>3. node[old].path = Append(node[adding.at].path, Name)
    BY <1>1, <2>1 DEF Entry, TreeShape
  <2> HIDE DEF old
  <2> QED BY <1>1, <2>1, <2>2, <2>3, DescendEffect
<1>3. CASE SubNodeCreate
  <2>1. /\ node'[FreeAddr].path = Append(node[adding.at].path, Name) /\ Descend(FreeAddr)
    BY <1>3, CreateEffect, CreateShape DEF SubNodeCreate
  <2> QED BY <1>1, <2>1, DescendEffect
<1> QED BY <1>2, <1>3

LEMMA DataPathStep ==
    ASSUME TreeInv, DataPath, SubNodeForbidden \/ SubNodeExists \/ SubNodeCreate, UNCHANGED <<call, last>>
    PROVE  DataPath'
<1>1. CASE adding'.status = "failed"
  BY <1>1 DEF DataPath
<1>2. CASE adding'.status # "failed"
  <2>1. SubNodeExists \/ SubNodeCreate
    BY <1>2 DEF SubNodeForbidden, Reject, TreeInv, ShapeInv, TypeInv, TypeOK
  <2> DEFINE p == node[adding.at].path
             r == adding.rest
  <2>2. /\ node'[adding'.at].path = Append(p, Head(r)) /\ p \in Seq(Segment)
        /\ r \in Seq(Segment) /\ r # <<>> /\ adding'.rest = Tail(r)
        /\ adding'.status = IF Len(r) = 1 THEN "ok" ELSE "run"
    BY <1>2, <2>1, PathStep DEF Name
  <2>3. call.pc = "adddata" => p \o r = last.vpath
    BY <2>1 DEF DataPath, SubNodeExists, SubNodeCreate
  <2> HIDE DEF p, r
  <2>4. Append(p, Head(r)) \o Tail(r) = p \o r
    BY <2>2
  <2>5. Len(r) = 1 => Append(p, Head(r)) = p \o r
    BY <2>2
  <2> QED BY <2>2, <2>3, <2>4, <2>5 DEF DataPath
<1> QED BY <1>1, <1>2

LEMMA CountRegister ==
    ASSUME <<>> \notin RegPath, ApiInv, TreeInv, CountInv, RegisterStep
    PROVE  CountInv'
<1> USE DEF ApiInv
<1>1. call.pc = "idle" /\ Len(fileList) \in Nat
  <2>1. \A p, o : RegisterPath(o, p) => Idle
    BY DEF RegisterPath
  <2>2. \A p, l : RegisterEmbedded(l, p) => Idle
    BY DEF RegisterEmbedded
  <2>3. \A p, d : RegisterData(d, p) => Idle
    BY DEF RegisterData
  <2>4. Idle
    BY <2>1, <2>2, <2>3 DEF RegisterStep
  <2> QED BY <2>4 DEF Idle, TypeInv, TypeOK
<1>2. adding.status = "idle"
  BY <1>1 DEF CallInv, AddingInCall, Adding
<1>3. ASSUME call'.frames = <<>>, call'.count = 0, fileList' = fileList,
             last'.first = Len(fileList), adding'.status \in {"idle", "run"}
      PROVE  \E n \in Nat : /\ Sums(call'.frames, n)
                            /\ Len(fileList') = last'.first + n + call'.count + Pending'
  <2>1. Sums(call'.frames, 0) /\ Pending' = 0
    BY <1>3, SumsOfNone DEF Pending
  <2>2. Len(fileList') = last'.first + 0 + call'.count + Pending'
    BY <1>1, <1>3, <2>1
  <2> QED BY <2>1, <2>2
<1>4. ASSUME NEW p, NEW o, RegisterPath(o, p)
      PROVE  CountInv'
  <2>1. /\ call'.pc = "stat" /\ call'.frames = <<>> /\ call'.count = 0
        /\ UNCHANGED <<fileList, adding>> /\ last'.first = Len(fileList) /\ last'.op = "path"
    BY <1>4 DEF RegisterPath, NoCall, vars, Begin
  <2> QED BY <1>2, <1>3, <2>1 DEF CountInv, Counted, DataPath, ReturnExact
<1>5. ASSUME NEW p, NEW l, RegisterEmbedded(l, p)
      PROVE  CountInv'
  <2>1. /\ call'.pc = "next" /\ call'.frames = <<>> /\ call'.count = 0
        /\ UNCHANGED <<fileList, adding>> /\ last'.first = Len(fileList) /\ last'.op = "embedded"
    BY <1>5 DEF RegisterEmbedded, NoCall, vars, Begin
  <2> QED BY <1>2, <1>3, <2>1 DEF CountInv, Counted, DataPath, ReturnExact
<1>6. ASSUME NEW p \in VirtualPath, NEW d, RegisterData(d, p)
      PROVE  CountInv'
  <2>1. /\ call'.pc = "adddata" /\ call'.frames = <<>> /\ call'.count = 0
        /\ last'.first = Len(fileList) /\ last'.op = "data" /\ last'.vpath = p
        /\ AddNode(p, "file", d)
    BY <1>6 DEF RegisterData, NoCall, Begin
  <2>2. p # <<>> /\ p \in Seq(EntryName \cup {Dot, DotDot})
    BY ClientAssumption, PathAssumption
  <2>3. /\ adding'.status = "run" /\ adding'.at = Root /\ adding'.rest = p
        /\ UNCHANGED <<node, fileList>>
    BY <2>1, <2>2 DEF AddNode
  <2>4. node[Root].path = <<>>
    BY DEF TreeInv, ShapeInv, TreeShape
  <2>5. <<>> \o p = p
    BY <2>2
  <2>6. DataPath'
    BY <2>1, <2>3, <2>4, <2>5 DEF DataPath
  <2> QED BY <1>3, <2>1, <2>3, <2>6 DEF CountInv, Counted, ReturnExact
<1> QED BY <1>4, <1>5, <1>6 DEF RegisterStep

\* Steps outside of calls.
LEMMA CountIdle ==
    ASSUME CountInv, call.pc = "idle", UNCHANGED <<call, node, fileList>>,
           UNCHANGED last \/ last' = NoResult
    PROVE  CountInv'
<1>1. CASE UNCHANGED last
  <2>1. PCS_getPath(last.value)' = PCS_getPath(last.value)
    BY <1>1 DEF PCS_getPath
  <2>2. ReturnExact'
    BY <1>1, <2>1 DEF CountInv, ReturnExact
  <2> QED BY <1>1, <2>2 DEF CountInv, Counted, DataPath
<1>2. CASE last' = NoResult
  BY <1>2 DEF CountInv, Counted, DataPath, ReturnExact, NoResult
<1> QED BY <1>1, <1>2

\* Steps in a call that change neither the counts nor the files.
LEMMA CountSame ==
    ASSUME CountInv, call.pc # "idle", call.pc \notin {"adddata"}, UNCHANGED <<last, fileList>>,
           call'.count = call.count, Pending' = Pending,
           \A n : Sums(call.frames, n) => Sums(call'.frames, n),
           \/ call.pc \in {"stat", "entries", "read"} /\ call'.pc \in {"stat", "adddir", "entries", "read", "addfile"}
           \/ call.pc = "next" /\ call'.pc = "addembedded" /\ call'.frames = call.frames
    PROVE  CountInv'
<1>1. PICK n \in Nat : Sums(call.frames, n) /\ Len(fileList) = last.first + n + call.count + Pending
  BY DEF CountInv, Counted
<1>2. Sums(call'.frames, n) /\ Len(fileList') = last'.first + n + call'.count + Pending'
  BY <1>1
<1>3. \E m \in Nat : Sums(call'.frames, m) /\ Len(fileList') = last'.first + m + call'.count + Pending'
  BY <1>2
<1> QED BY <1>3 DEF CountInv, Counted, DataPath, ReturnExact

LEMMA CountCrawl ==
    ASSUME ApiInv, CountInv,
           MakeDir \/ ReadFile \/ AddDescriptor \/ SkipEntry \/ CrawlEntry \/ Allocate
    PROVE  CountInv'
<1> USE DEF ApiInv
<1>1. call \in CallType
  BY CallInvTypes
<1>2. CASE MakeDir \/ ReadFile \/ AddDescriptor
  <2>1. PICK q, ty, d : AddNode(q, ty, d)
    BY <1>2 DEF MakeDir, ReadFile, AddDescriptor
  <2>2. Pending = 0 /\ Pending' = 0 /\ UNCHANGED fileList
    BY <2>1 DEF AddNode, Pending
  <2>3. /\ call'.frames = call.frames /\ call'.count = call.count /\ UNCHANGED last
        /\ \/ call.pc \in {"stat", "read"} /\ call'.pc \in {"adddir", "addfile"}
           \/ call.pc = "next" /\ call'.pc = "addembedded"
    BY <1>1, <1>2 DEF MakeDir, ReadFile, AddDescriptor, CallType
  <2> QED BY <2>2, <2>3, CountSame
<1>3. CASE Allocate
  <2>1. /\ call'.frames = call.frames /\ call'.count = call.count /\ call.pc = "stat"
        /\ call'.pc = "read" /\ UNCHANGED <<last, fileList, adding>>
    BY <1>1, <1>3 DEF Allocate, CallType, vars
  <2>2. Pending' = Pending
    BY <2>1 DEF Pending
  <2> QED BY <2>1, <2>2, CountSame
<1>4. CASE SkipEntry \/ CrawlEntry
  <2>1. PICK e \in call.frames[1].todo :
           \/ call' = [call EXCEPT !.frames = Taken(e)]
           \/ call' = [call EXCEPT !.pc = "stat", !.obj = e[2],
                        !.vpath = Append(call.frames[1].vpath, e[1]),
                        !.frames = Taken(e)]
    BY <1>4 DEF SkipEntry, CrawlEntry
  <2> DEFINE gs == Taken(e)
  <2>2. call.pc = "entries" /\ UNCHANGED <<last, fileList, adding>>
    BY <1>4 DEF SkipEntry, CrawlEntry, vars
  <2>3. call.frames \in Seq(Frame)
    BY DEF CallInv, ApiTypeOK
  <2>4. Len(gs) = Len(call.frames) /\ \A i \in 1..Len(call.frames) : gs[i].count = call.frames[i].count
    <3> DEFINE fs == call.frames
               f == [fs[1] EXCEPT !.todo = @ \ {e}]
    <3>1. gs = [fs EXCEPT ![1] = f]
      BY DEF Taken
    <3>2. fs # <<>> /\ 1 \in 1..Len(fs) /\ fs[1] \in Frame
      BY <2>2, <2>3, HeadType DEF CallInv, CrawlOK
    <3>3. f.count = fs[1].count
      BY <3>2 DEF Frame
    <3> HIDE DEF f, fs, gs
    <3>4. fs \in Seq(Frame)
      BY <2>3 DEF fs
    <3>5. Len(gs) = Len(fs) /\ \A i \in 1..Len(fs) : gs[i].count = fs[i].count
      BY <3>1, <3>2, <3>3, <3>4
    <3> QED BY <3>5 DEF fs
  <2> HIDE DEF gs
  <2>5. call'.frames = gs /\ call'.count = call.count /\ call'.pc \in {"entries", "stat"}
    BY <1>1, <2>1, <2>2 DEF CallType, gs
  <2>6. \A n : Sums(call.frames, n) => Sums(gs, n)
    BY <2>4, SumsSame
  <2>7. Pending' = Pending
    BY <2>2 DEF Pending
  <2> QED BY <2>2, <2>5, <2>6, <2>7, CountSame
<1> QED BY <1>2, <1>3, <1>4

LEMMA CountReturning ==
    ASSUME ApiInv, CountInv, SourceIgnored \/ DirDone \/ EmbeddedEnd
    PROVE  CountInv'
<1> USE DEF ApiInv
<1>1. /\ UNCHANGED <<fileList, adding>> /\ call.pc \in {"stat", "entries", "next"}
  BY DEF SourceIgnored, DirDone, EmbeddedEnd, vars
<1>2. Pending = 0 /\ Pending' = 0
  BY <1>1 DEF CallInv, AddingInCall, Adding, Pending
<1>3. PICK n \in Nat : Sums(call.frames, n) /\ Len(fileList) = last.first + n + call.count + Pending
  BY <1>1 DEF CountInv, Counted
<1>4. last.first \in Nat /\ call.count \in Nat /\ call.frames \in Seq(Frame) /\ AllLead(call.frames)
  BY CallInvTypes DEF CallInv, ApiTypeOK
<1>5. CASE SourceIgnored
  <2>1. call.pc = "stat" /\ Return(call.frames, 0)
    BY <1>5 DEF SourceIgnored
  <2>2. last.op = "path" /\ call.count = 0
    BY <2>1 DEF CountInv, Counted
  <2>3. Len(fileList') = last.first + n + 0
    BY <1>1, <1>2, <1>3, <1>4, <2>2
  <2> QED BY <1>2, <1>3, <1>4, <2>1, <2>2, <2>3, CountReturn
<1>6. CASE DirDone
  <2> DEFINE fs == call.frames
             c == fs[1].count
  <2>1. call.pc = "entries" /\ Return(Tail(fs), c)
    BY <1>6 DEF DirDone
  <2>2. last.op = "path" /\ call.count = 0 /\ fs # <<>>
    BY <2>1 DEF CountInv, Counted, CallInv, CrawlOK
  <2>3. PICK m \in Nat : n = m + c /\ Sums(Tail(fs), m)
    BY <1>3, <1>4, <2>2, SumsPop
  <2>4. AllLead(Tail(fs)) /\ c \in Nat
    <3>1. fs[1] \in Frame /\ AllLead(Tail(fs))
      BY <1>4, <2>2, HeadType DEF AllLead
    <3> QED BY <3>1 DEF Frame
  <2> HIDE DEF c, fs
  <2>5. Len(fileList') = last.first + m + c
    BY <1>1, <1>2, <1>3, <1>4, <2>2, <2>3, <2>4
  <2> QED BY <1>2, <2>1, <2>2, <2>3, <2>4, <2>5, CountReturn
<1>7. CASE EmbeddedEnd
  <2>1. call.pc = "next" /\ Return(<<>>, call.count)
    BY <1>7 DEF EmbeddedEnd
  <2>2. last.op = "embedded" /\ call.frames = <<>>
    BY <2>1 DEF CountInv, Counted
  <2>3. n = 0
    BY <1>3, <2>2, SumsOfNone
  <2>4. Len(fileList') = last.first + 0 + call.count
    BY <1>1, <1>2, <1>3, <1>4, <2>3
  <2>5. AllLead(<<>>) /\ Sums(<<>>, 0)
    BY SumsOfNone DEF AllLead
  <2> QED BY <1>2, <1>4, <2>1, <2>2, <2>4, <2>5, CountReturn
<1> QED BY <1>5, <1>6, <1>7

LEMMA CountEndAdd ==
    ASSUME ApiInv, CountInv, DirAdded \/ FileAdded \/ DescriptorAdded \/ DataAdded
    PROVE  CountInv'
<1> USE DEF ApiInv
<1>1. AddReturn /\ call.pc \in Adding
  BY DEF DirAdded, FileAdded, DescriptorAdded, DataAdded, Adding
<1>2. Pending' = 0 /\ UNCHANGED fileList
  BY <1>1, AddReturnEffect DEF Pending, AddReturn
<1>3. PICK n \in Nat : Sums(call.frames, n) /\ Len(fileList) = last.first + n + call.count + Pending
  BY <1>1 DEF CountInv, Counted, Adding
<1>4. last.first \in Nat /\ call.count \in Nat /\ call.frames \in Seq(Frame) /\ AllLead(call.frames)
  BY CallInvTypes DEF CallInv, ApiTypeOK
<1>5. CASE Fail
  BY <1>5, CountFail
<1>6. CASE DirAdded /\ adding.status = "ok" /\ Kind = "dir"
  <2> DEFINE fs == call.frames
             f == [vpath |-> call.vpath, count |-> 0, todo |-> Disk[call.obj].entries]
             gs == <<f>> \o fs
  <2>1. /\ call.pc = "adddir" /\ UNCHANGED last
        /\ call' = [NoCall EXCEPT !.pc = "entries", !.frames = gs]
    BY <1>6 DEF DirAdded
  <2>2. last.op = "path" /\ call.count = 0 /\ Pending = 0
    BY <2>1 DEF CountInv, Counted, CallInv, AddingInCall, Pending
  <2>3. <<call.obj, call.vpath>> \in Place
    BY <2>1 DEF CallInv, CrawlOK
  <2>4. f \in Frame /\ f.count = 0
    BY <2>3, PlaceType DEF Frame
  <2> HIDE DEF f
  <2>5. fs \in Seq(Frame) /\ Sums(fs, n)
    BY <1>3, <1>4
  <2> HIDE DEF fs
  <2>6. Sums(gs, n + f.count)
    BY <2>4, <2>5, SumsPush
  <2> HIDE DEF gs
  <2>7. call'.pc = "entries" /\ call'.frames = gs /\ call'.count = 0
    BY <2>1 DEF NoCall
  <2>8. n + f.count = n
    BY <2>4
  <2>9. Sums(call'.frames, n) /\ Len(fileList') = last'.first + n + call'.count + Pending'
    BY <1>2, <1>3, <1>4, <2>1, <2>2, <2>6, <2>7, <2>8
  <2>10. \E m \in Nat : Sums(call'.frames, m) /\ Len(fileList') = last'.first + m + call'.count + Pending'
    BY <2>9
  <2> QED BY <2>1, <2>2, <2>7, <2>10 DEF CountInv, Counted, DataPath, ReturnExact
<1>7. CASE FileAdded /\ adding.status = "ok"
  <2>1. call.pc = "addfile" /\ Return(call.frames, 1)
    BY <1>7 DEF FileAdded
  <2>2. last.op = "path" /\ call.count = 0 /\ Pending = 1
    BY <1>7, <2>1 DEF CountInv, Counted, CallInv, AddingInCall, Pending, Adding
  <2>3. Len(fileList') = last.first + n + 1 /\ 1 \in Nat
    BY <1>2, <1>3, <1>4, <2>2
  <2> QED BY <1>2, <1>3, <1>4, <2>1, <2>2, <2>3, CountReturn
<1>8. CASE DescriptorAdded /\ adding.status = "ok"
  <2>1. /\ call' = [call EXCEPT !.pc = "next", !.list = Tail(@), !.count = @ + 1]
        /\ call.pc = "addembedded" /\ UNCHANGED last
    BY <1>8 DEF DescriptorAdded
  <2>2. last.op = "embedded" /\ call.frames = <<>> /\ Pending = 1
    BY <1>8, <2>1 DEF CountInv, Counted, CallInv, AddingInCall, Pending, Adding
  <2>3. call'.pc = "next" /\ call'.frames = call.frames /\ call'.count = call.count + 1
    <3> DEFINE r == Tail(call.list)
               c == call.count + 1
    <3>1. call' = [call EXCEPT !.pc = "next", !.list = r, !.count = c]
      BY <2>1, CallInvTypes DEF CallType
    <3> HIDE DEF r, c
    <3>2. call'.pc = "next" /\ call'.frames = call.frames /\ call'.count = c
      BY <3>1, CallInvTypes DEF CallType
    <3> QED BY <3>2 DEF c
  <2>4. Sums(call'.frames, n) /\ Len(fileList') = last'.first + n + call'.count + Pending'
    BY <1>2, <1>3, <1>4, <2>1, <2>2, <2>3
  <2>5. \E m \in Nat : Sums(call'.frames, m) /\ Len(fileList') = last'.first + m + call'.count + Pending'
    BY <2>4
  <2> QED BY <2>1, <2>2, <2>3, <2>5 DEF CountInv, Counted, DataPath, ReturnExact
<1>9. CASE DataAdded /\ adding.status = "ok"
  <2> DEFINE id == node[adding.at].id
  <2>1. call.pc = "adddata" /\ Return(<<>>, id)
    BY <1>9 DEF DataAdded
  <2>2. /\ last.op = "data" /\ call.frames = <<>> /\ call.count = 0 /\ adding.type = "file"
        /\ Pending = 1 /\ node[adding.at].path = last.vpath
    BY <1>9, <2>1 DEF CountInv, Counted, DataPath, CallInv, AddingInCall, Pending, Adding
  <2>3. n = 0
    BY <1>3, <2>2, SumsOfNone
  <2>4. Len(fileList) = last.first + 1
    BY <1>3, <1>4, <2>2, <2>3
  <2>5. /\ adding.at \in DOMAIN node /\ fileList[Len(fileList)] = adding.at
        /\ id = Len(fileList) - 1
    BY <1>9, <2>2, NewestID
  <2> HIDE DEF id
  <2>6. id \in Nat /\ id = last.first
    BY <1>4, <2>4, <2>5
  <2>7. call' = NoCall /\ Result(id)
    BY <2>1 DEF Return
  <2>8. /\ last'.value = id /\ last'.op = "data" /\ last'.first = last.first
        /\ last'.vpath = last.vpath
    BY <2>2, <2>6, <2>7, ResultType
  <2>9. node'[adding.at].path = node[adding.at].path
    BY <1>1, <2>5, AddReturnEffect
  <2>10. PCS_getPath(last.value)' = last'.vpath
    <3>1. id \in 0..(Len(fileList') - 1) /\ fileList'[id + 1] = adding.at
      BY <1>2, <2>4, <2>5, <2>6
    <3> QED BY <2>2, <2>8, <2>9, <3>1 DEF PCS_getPath
  <2>11. last'.first = last'.value /\ Len(fileList') = last'.first + 1
    BY <1>2, <2>4, <2>6, <2>8
  <2>12. ReturnExact'
    BY <2>8, <2>10, <2>11 DEF ReturnExact
  <2> QED BY <2>7, <2>12 DEF NoCall, CountInv, Counted, DataPath
<1> QED
  BY <1>5, <1>6, <1>7, <1>8, <1>9 DEF DirAdded, FileAdded, DescriptorAdded, DataAdded

\* Every step keeps the counts.
LEMMA CountNext ==
    ASSUME <<>> \notin RegPath, ApiInv, TreeInv, CountInv, [ApiNext]_allVars
    PROVE  CountInv'
<1> USE DEF ApiInv
<1>1. call.pc \notin Adding => adding.status = "idle"
  BY DEF CallInv, AddingInCall
<1>2. CASE SourceFails \/ BadVersion
  <2>1. Fail
    BY <1>2 DEF SourceFails, BadVersion
  <2> QED BY <2>1, CountFail
<1>3. CASE (SubNodeForbidden \/ SubNodeExists \/ SubNodeCreate) /\ UNCHANGED apiVars
  <2>1. UNCHANGED <<call, last>>
    BY <1>3 DEF apiVars
  <2>2. call.pc \in Adding
    BY <1>1, <1>3 DEF SubNodeForbidden, SubNodeExists, SubNodeCreate
  <2>3. PICK n \in Nat : Sums(call.frames, n) /\ Len(fileList) = last.first + n + call.count + Pending
    BY <2>2 DEF CountInv, Counted, Adding
  <2>4. last.first \in Nat /\ call.count \in Nat
    BY DEF CallInv, ApiTypeOK
  <2>5. Len(fileList') = last'.first + n + call'.count + Pending'
    BY <1>3, <2>1, <2>3, <2>4, PendingStep
  <2>6. \E m \in Nat : Sums(call'.frames, m) /\ Len(fileList') = last'.first + m + call'.count + Pending'
    BY <2>1, <2>3, <2>5
  <2>7. DataPath'
    BY <1>3, <2>1, DataPathStep DEF CountInv
  <2> QED BY <2>1, <2>2, <2>6, <2>7 DEF CountInv, Counted, ReturnExact, Adding
<1>4. CASE CallStep
  BY <1>2, <1>3, <1>4, CountCrawl, CountReturning, CountEndAdd DEF CallStep
<1>5. CASE Refuse \/ MSHUTDOWN \/ (call.pc = "idle" /\ BeginRequests /\ UNCHANGED apiVars)
  <2>1. call.pc = "idle" /\ UNCHANGED <<call, node, fileList>>
        /\ (UNCHANGED last \/ last' = NoResult)
    BY <1>5 DEF Refuse, MSHUTDOWN, BeginRequests, apiVars, vars, Idle
  <2> QED BY <2>1, CountIdle
<1>6. CASE \/ UNCHANGED allVars
           \/ \E t \in Thread :
                 ((\E p \in LookupPath : Lookup(t, p)) \/ LookupStep(t)) /\ UNCHANGED apiVars
  <2>1. UNCHANGED <<call, last, node, fileList, adding>>
    BY <1>6 DEF allVars, apiVars, Lookup, LookupStep, FindHit, FindMiss, WalkFail, WalkOn,
                WalkEnd, Lock, Write, LookupReturn
  <2>2. ReturnExact'
    <3>1. PCS_getPath(last.value)' = PCS_getPath(last.value)
      BY <2>1 DEF PCS_getPath
    <3> QED BY <2>1, <3>1 DEF CountInv, ReturnExact
  <2>3. Counted' /\ DataPath'
    BY <2>1 DEF CountInv, Counted, DataPath, Pending
  <2> QED BY <2>2, <2>3 DEF CountInv
<1> QED BY <1>4, <1>5, <1>6, CountRegister DEF ApiNext, RegisterStep

\* The count or ID that a call returns is that of the files it added, for every
\* disk and every nesting of directories.
THEOREM ReturnIsExact ==
    ASSUME <<>> \notin RegPath
    PROVE  ApiSpec => []ReturnExact
<1>1. ApiInit => CountInv /\ TreeInv
  <2> SUFFICES ASSUME ApiInit PROVE CountInv /\ TreeInv
    OBVIOUS
  <2>1. call = NoCall /\ last = NoResult
    BY DEF ApiInit
  <2>2. CountInv
    BY <2>1 DEF NoCall, NoResult, CountInv, Counted, DataPath, ReturnExact
  <2> QED BY <2>2, TreeInit DEF ApiInit
<1>2. ApiInv /\ TreeInv /\ CountInv /\ [ApiNext]_allVars => CountInv' /\ TreeInv'
  <2> SUFFICES ASSUME ApiInv, TreeInv, CountInv, [ApiNext]_allVars PROVE CountInv' /\ TreeInv'
    OBVIOUS
  <2>1. [Next]_vars
    BY ApiStepIsTreeStep DEF ApiInv, CallInv
  <2> QED BY <2>1, CountNext, TreeNext
<1>3. CountInv => ReturnExact
  BY DEF CountInv
<1> QED BY <1>1, <1>2, <1>3, ApiInvariant, PTL DEF ApiSpec

-----------------------------------------------------------------------------
\* The files under an object of the disk

\* What is assumed of the disk: '.' and '..' are the only names that a crawl
\* leaves out (it would leave out ".x" and "..xyz" too), and directories lie in
\* one another without a cycle: each is deeper than what it contains.
OnlyDotsSkipped ==
    \A name \in EntryName \cup {Dot, DotDot} : IsSkipped(name) <=> name \in {Dot, DotDot}

Inner(o) == {e \in Disk[o].entries : e[1] \notin {Dot, DotDot}}
Depth    == 0..(Cardinality(Object) - 1)
NoCycle  ==
    /\ IsFiniteSet(Object)
    /\ \E depth \in [Object -> Depth] :
         \A o \in Object : \A e \in Inner(o) : depth[e[2]] < depth[o]

FileSet == SUBSET (Seq(EntryName) \X Object)

\* One turn of the recursion of FilesUnder
From(files, e)  == {<<<<e[1]>> \o f[1], f[2]>> : f \in files[e[2]]}
Below(files, x) == UNION {From(files, e) : e \in Inner(x)}
Level(files) ==
    [x \in Object |-> IF Disk[x].kind = "file" THEN {<<<<>>, x>>}
                      ELSE IF Disk[x].kind = "dir" THEN Below(files, x)
                      ELSE {}]
Level0 == [x \in Object |-> IF Disk[x].kind = "file" THEN {<<<<>>, x>>} ELSE {}]

IsCrawl(files) ==
    /\ files \in [0..Cardinality(Object) -> [Object -> FileSet]]
    /\ files[0] = Level0
    /\ \A d \in 1..Cardinality(Object) : files[d] = Level(files[d - 1])

LEMMA InnerType ==
    ASSUME NEW o \in Object, NEW e \in Inner(o)
    PROVE  e[1] \in EntryName /\ e[2] \in Object /\ e \in Disk[o].entries
<1>1. e \in (EntryName \cup {Dot, DotDot}) \X Object
  BY DiskAssumption DEF Inner
<1> QED BY <1>1 DEF Inner

LEMMA InBelow ==
    ASSUME NEW files, NEW x, NEW y
    PROVE  y \in Below(files, x) <=>
             \E e \in Inner(x) : \E f \in files[e[2]] : y = <<<<e[1]>> \o f[1], f[2]>>
<1>1. y \in Below(files, x) <=> \E e \in Inner(x) : y \in From(files, e)
  BY DEF Below
<1>2. \A e : y \in From(files, e) <=> \E f \in files[e[2]] : y = <<<<e[1]>> \o f[1], f[2]>>
  BY DEF From
<1> QED BY <1>1, <1>2

LEMMA SameBelow ==
    ASSUME NEW g, NEW h, NEW x, \A e \in Inner(x) : g[e[2]] = h[e[2]]
    PROVE  Below(g, x) = Below(h, x)
<1>1. \A e \in Inner(x) : From(g, e) = From(h, e)
  BY DEF From
<1>2. \A y : y \in Below(g, x) <=> y \in Below(h, x)
  BY <1>1 DEF Below
<1> QED BY <1>2

LEMMA LevelType ==
    ASSUME NEW files \in [Object -> FileSet]
    PROVE  Level(files) \in [Object -> FileSet]
<1> DEFINE Files == Seq(EntryName) \X Object
<1>1. ASSUME NEW x \in Object
      PROVE  {<<<<>>, x>>} \in FileSet
  <2>1. <<>> \in Seq(EntryName)
    OBVIOUS
  <2>2. <<<<>>, x>> \in Files
    BY <2>1
  <2> HIDE DEF Files
  <2> QED BY <2>2 DEF FileSet, Files
<1>2. ASSUME NEW x \in Object, NEW e \in Inner(x), NEW f \in files[e[2]]
      PROVE  <<<<e[1]>> \o f[1], f[2]>> \in Files
  <2>1. files[e[2]] \in FileSet /\ e[1] \in EntryName
    BY InnerType
  <2>2. f[1] \in Seq(EntryName) /\ f[2] \in Object
    BY <2>1 DEF FileSet
  <2>3. <<e[1]>> \o f[1] \in Seq(EntryName)
    BY <2>1, <2>2
  <2> QED BY <2>2, <2>3
<1> HIDE DEF Files
<1>3. ASSUME NEW x \in Object
      PROVE  Below(files, x) \in FileSet
  <2>1. ASSUME NEW y \in Below(files, x) PROVE y \in Files
    <3>1. PICK e \in Inner(x) : \E f \in files[e[2]] : y = <<<<e[1]>> \o f[1], f[2]>>
      BY InBelow
    <3>2. PICK f \in files[e[2]] : y = <<<<e[1]>> \o f[1], f[2]>>
      BY <3>1
    <3> QED BY <1>2, <3>2
  <2> QED BY <2>1 DEF FileSet, Files
<1>4. {} \in FileSet
  BY DEF FileSet
<1> QED BY <1>1, <1>3, <1>4 DEF Level

LEMMA Level0Type == Level0 \in [Object -> FileSet]
<1>1. ASSUME NEW x \in Object
      PROVE  (IF Disk[x].kind = "file" THEN {<<<<>>, x>>} ELSE {}) \in FileSet
  <2>1. <<>> \in Seq(EntryName)
    OBVIOUS
  <2>2. <<<<>>, x>> \in Seq(EntryName) \X Object
    BY <2>1
  <2> QED BY <2>2 DEF FileSet
<1> QED BY <1>1 DEF Level0

LEMMA CrawlExists ==
    ASSUME IsFiniteSet(Object)
    PROVE  \E files : /\ IsCrawl(files)
                      /\ \A o \in Object : FilesUnder(o) = files[Cardinality(Object)][o]
<1> DEFINE N == Cardinality(Object)
           X == [Object -> FileSet]
           step == [d \in 1..N |-> [g \in X |-> Level(g)]]
           Rec(files) ==
             [d \in 0..N |->
                [x \in Object |->
                   IF Disk[x].kind = "file" THEN {<<<<>>, x>>}
                   ELSE IF Disk[x].kind = "dir" /\ d > 0
                   THEN UNION {{<<<<e[1]>> \o f[1], f[2]>> : f \in files[d - 1][e[2]]} :
                                 e \in {y \in Disk[x].entries : y[1] \notin {Dot, DotDot}}}
                   ELSE {}]]
<1>1. N \in Nat
  BY FS_CardinalityType
<1>2. Level0 \in X
  BY Level0Type
<1>3. step \in [1..N -> [X -> X]]
  BY LevelType
<1>4. ASSUME NEW g PROVE Rec(g)[0] = Level0
  BY <1>1 DEF Level0
<1>5. ASSUME NEW g, NEW d \in 1..N PROVE Rec(g)[d] = Level(g[d - 1])
  <2>1. d \in 0..N /\ d > 0
    BY <1>1
  <2> QED BY <2>1 DEF Level, Below, From, Inner
<1> HIDE DEF step, N, X
<1>6. PICK f : Iterates(f, N, X, Level0, step)
  BY <1>1, <1>2, <1>3, Iteration
<1>7. \A d \in 1..N : f[d] = Level(f[d - 1])
  <2>1. \A d \in 1..N : f[d - 1] \in X
    BY <1>1, <1>6 DEF Iterates
  <2> QED BY <1>6, <2>1 DEF step, Iterates
<1>8. DOMAIN f = 0..N /\ f = [d \in 0..N |-> f[d]]
  BY <1>6 DEF Iterates
<1>9. DOMAIN Rec(f) = 0..N /\ Rec(f) = [d \in 0..N |-> Rec(f)[d]]
  OBVIOUS
<1>10. \A d \in 0..N : f[d] = Rec(f)[d]
  <2>1. f[0] = Rec(f)[0]
    <3> HIDE DEF Rec
    <3>1. Rec(f)[0] = Level0
      BY <1>4
    <3> QED BY <1>6, <3>1 DEF Iterates
  <2>2. \A d \in 1..N : f[d] = Rec(f)[d]
    BY <1>5, <1>7
  <2>3. \A d \in 0..N : d = 0 \/ d \in 1..N
    BY <1>1
  <2> HIDE DEF Rec
  <2> QED BY <2>1, <2>2, <2>3
<1>11. f = Rec(f)
  <2> HIDE DEF Rec
  <2> QED BY <1>8, <1>9, <1>10
<1> DEFINE files == CHOOSE g : g = Rec(g)
<1>12. files = Rec(files)
  <2> HIDE DEF Rec
  <2> QED BY <1>11
<1>13. \A o \in Object : FilesUnder(o) = files[N][o]
  BY DEF FilesUnder, N
<1> HIDE DEF files
<1>14. files[0] = Level0 /\ \A d \in 1..N : files[d] = Level(files[d - 1])
  <2>1. Rec(files)[0] = Level0 /\ \A d \in 1..N : Rec(files)[d] = Level(files[d - 1])
    <3> HIDE DEF Rec
    <3>1. Rec(files)[0] = Level0
      BY <1>4
    <3>2. \A d \in 1..N : Rec(files)[d] = Level(files[d - 1])
      BY <1>5
    <3> QED BY <3>1, <3>2
  <2> HIDE DEF Rec
  <2> QED BY <1>12, <2>1
<1>15. \A d \in 0..N : d \in {c \in 0..N : files[c] \in X}
  <2>1. 0 \in {c \in 0..N : files[c] \in X}
    BY <1>1, <1>2, <1>14
  <2>2. ASSUME NEW d \in 0..(N - 1), d \in {c \in 0..N : files[c] \in X}
        PROVE  d + 1 \in {c \in 0..N : files[c] \in X}
    <3>1. d + 1 \in 1..N /\ (d + 1) - 1 = d /\ files[d] \in X
      BY <1>1, <2>2
    <3>2. Level(files[d]) \in X
      BY <3>1, LevelType DEF X
    <3> QED BY <1>1, <1>14, <3>1, <3>2
  <2> QED BY <1>1, <2>1, <2>2, InductionUpTo
<1>16. files \in [0..N -> X]
  <2>1. DOMAIN Rec(files) = 0..N /\ Rec(files) = [d \in 0..N |-> Rec(files)[d]]
    OBVIOUS
  <2> HIDE DEF Rec
  <2> QED BY <1>12, <1>15, <2>1
<1> QED BY <1>13, <1>14, <1>16 DEF IsCrawl, N, X

\* Deep enough, one more turn of the recursion finds nothing new.
LEMMA CrawlSettles ==
    ASSUME NEW files, IsCrawl(files), IsFiniteSet(Object),
           NEW depth \in [Object -> Depth],
           \A o \in Object : \A e \in Inner(o) : depth[e[2]] < depth[o]
    PROVE  \A o \in Object :
             files[Cardinality(Object)][o] = Level(files[Cardinality(Object)])[o]
<1> DEFINE N == Cardinality(Object)
<1>1. N \in Nat
  BY FS_CardinalityType
<1>2. /\ files[0] = Level0
      /\ \A d \in 1..N : files[d] = Level(files[d - 1])
  BY DEF IsCrawl
<1> DEFINE S == {d \in 0..N : \A o \in Object : depth[o] <= d => files[d][o] = Level(files[d])[o]}
<1>3. ASSUME NEW g, NEW h, NEW o \in Object, \A e \in Inner(o) : g[e[2]] = h[e[2]]
      PROVE  Level(g)[o] = Level(h)[o]
  BY <1>3, SameBelow DEF Level
<1>4. \A o \in Object : depth[o] \in 0..(N - 1)
  BY DEF Depth
<1> HIDE DEF N
<1>5. 0 \in S
  <2>1. ASSUME NEW o \in Object, depth[o] <= 0 PROVE files[0][o] = Level(files[0])[o]
    <3>1. Inner(o) = {}
      <4>1. ASSUME NEW e \in Inner(o) PROVE FALSE
        <5>1. depth[e[2]] < depth[o] /\ e[2] \in Object
          BY InnerType
        <5> QED BY <1>1, <1>4, <2>1, <5>1
      <4> QED BY <4>1
    <3>2. Level(files[0])[o] = Level0[o]
      <4>1. Below(files[0], o) = {}
        BY <3>1 DEF Below
      <4> QED BY <4>1 DEF Level, Level0
    <3> QED BY <1>2, <3>2
  <2> QED BY <1>1, <2>1
<1>6. ASSUME NEW d \in 0..(N - 1), d \in S PROVE d + 1 \in S
  <2>1. d + 1 \in 1..N /\ (d + 1) - 1 = d
    BY <1>1
  <2>2. files[d + 1] = Level(files[d])
    BY <1>2, <2>1
  <2>3. ASSUME NEW o \in Object, depth[o] <= d + 1
        PROVE  files[d + 1][o] = Level(files[d + 1])[o]
    <3>1. ASSUME NEW e \in Inner(o) PROVE files[d][e[2]] = files[d + 1][e[2]]
      <4>1. depth[e[2]] < depth[o] /\ e[2] \in Object
        BY InnerType
      <4>2. depth[e[2]] <= d
        BY <1>1, <1>4, <2>3, <4>1
      <4> QED BY <1>6, <2>2, <4>1, <4>2
    <3>2. Level(files[d])[o] = Level(files[d + 1])[o]
      BY <1>3, <3>1
    <3> QED BY <2>2, <3>2
  <2> QED BY <1>1, <2>1, <2>3
<1> HIDE DEF S
<1>7. N \in S
  <2>1. \A d \in 0..N : d \in S
    BY <1>1, <1>5, <1>6, InductionUpTo
  <2> QED BY <1>1, <2>1
<1> QED BY <1>1, <1>4, <1>7 DEF S, N

\* The files under an object, at the places that the object gives them
Under(p, o) == {<<p \o f[1], f[2]>> : f \in FilesUnder(o)}

LEMMA FilesUnfold ==
    ASSUME NoCycle, NEW o \in Object
    PROVE  /\ FilesUnder(o) \in FileSet
           /\ Disk[o].kind = "file" => FilesUnder(o) = {<<<<>>, o>>}
           /\ Disk[o].kind = "dir" =>
                \A y : y \in FilesUnder(o) <=>
                  \E e \in Inner(o) : \E f \in FilesUnder(e[2]) : y = <<<<e[1]>> \o f[1], f[2]>>
           /\ Disk[o].kind \notin {"file", "dir"} => FilesUnder(o) = {}
<1> DEFINE N == Cardinality(Object)
<1>1. PICK files : IsCrawl(files) /\ \A x \in Object : FilesUnder(x) = files[N][x]
  BY CrawlExists DEF NoCycle
<1>2. PICK depth \in [Object -> Depth] :
        \A x \in Object : \A e \in Inner(x) : depth[e[2]] < depth[x]
  BY DEF NoCycle
<1>3. files[N][o] = Level(files[N])[o]
  BY <1>1, <1>2, CrawlSettles DEF NoCycle
<1>4. files[N] \in [Object -> FileSet]
  <2>1. N \in 0..N
    BY FS_CardinalityType DEF NoCycle
  <2> QED BY <1>1, <2>1 DEF IsCrawl
<1> HIDE DEF N
<1>5. \A e \in Inner(o) : files[N][e[2]] = FilesUnder(e[2])
  BY <1>1, InnerType
<1>6. Disk[o].kind = "dir" => FilesUnder(o) = Below(files[N], o)
  BY <1>1, <1>3 DEF Level
<1>7. \A y : y \in Below(files[N], o) <=>
        \E e \in Inner(o) : \E f \in FilesUnder(e[2]) : y = <<<<e[1]>> \o f[1], f[2]>>
  <2> DEFINE g == files[N]
  <2>1. \A e \in Inner(o) : g[e[2]] = FilesUnder(e[2])
    BY <1>5
  <2> HIDE DEF g
  <2>2. ASSUME NEW y, y \in Below(g, o)
        PROVE  \E e \in Inner(o) : \E f \in g[e[2]] : y = <<<<e[1]>> \o f[1], f[2]>>
    <3>1. PICK e \in Inner(o) : y \in From(g, e)
      BY <2>2 DEF Below
    <3>2. PICK f \in g[e[2]] : y = <<<<e[1]>> \o f[1], f[2]>>
      BY <3>1 DEF From
    <3> QED BY <3>2
  <2>3. ASSUME NEW e \in Inner(o), NEW f \in g[e[2]]
        PROVE  <<<<e[1]>> \o f[1], f[2]>> \in Below(g, o)
    <3> DEFINE y == <<<<e[1]>> \o f[1], f[2]>>
    <3>1. \E d \in Inner(o) : \E h \in g[d[2]] : y = <<<<d[1]>> \o h[1], h[2]>>
      OBVIOUS
    <3> HIDE DEF y
    <3>2. y \in Below(g, o)
      BY <3>1, InBelow
    <3> QED BY <3>2 DEF y
  <2> QED BY <2>1, <2>2, <2>3 DEF g
<1>8. FilesUnder(o) \in FileSet
  BY <1>1, <1>4
<1>9. /\ Disk[o].kind = "file" => FilesUnder(o) = {<<<<>>, o>>}
      /\ Disk[o].kind \notin {"file", "dir"} => FilesUnder(o) = {}
  BY <1>1, <1>3 DEF Level
<1> QED BY <1>6, <1>7, <1>8, <1>9

\* A file is at the place itself, and what is under a directory is under one of
\* its entries.
LEMMA UnderUnfold ==
    ASSUME NoCycle, NEW o \in Object, NEW p \in Seq(Segment)
    PROVE  /\ Disk[o].kind = "file" => Under(p, o) = {<<p, o>>}
           /\ Disk[o].kind = "dir" =>
                \A x : x \in Under(p, o) <=> \E e \in Inner(o) : x \in Under(Append(p, e[1]), e[2])
           /\ Disk[o].kind \notin {"file", "dir"} => Under(p, o) = {}
<1>1. CASE Disk[o].kind = "file"
  <2>1. FilesUnder(o) = {<<<<>>, o>>}
    BY <1>1, FilesUnfold
  <2>2. p \o <<>> = p
    OBVIOUS
  <2> QED BY <1>1, <2>1, <2>2 DEF Under
<1>2. CASE Disk[o].kind = "dir"
  <2>1. \A y : y \in FilesUnder(o) <=>
          \E e \in Inner(o) : \E f \in FilesUnder(e[2]) : y = <<<<e[1]>> \o f[1], f[2]>>
    BY <1>2, FilesUnfold
  <2>2. ASSUME NEW e \in Inner(o), NEW f \in FilesUnder(e[2])
        PROVE  p \o (<<e[1]>> \o f[1]) = Append(p, e[1]) \o f[1]
    <3>1. e[1] \in EntryName /\ e[2] \in Object
      BY InnerType
    <3>2. f[1] \in Seq(EntryName)
      BY <3>1, FilesUnfold DEF FileSet
    <3> DEFINE q == f[1]
               s == e[1]
    <3>3. s \in Segment /\ q \in Seq(Segment)
      BY <3>1, <3>2 DEF Segment
    <3> HIDE DEF q, s
    <3>4. p \o (<<s>> \o q) = Append(p, s) \o q
      BY <3>3
    <3> QED BY <3>4 DEF q, s
  <2>3. ASSUME NEW x, x \in Under(p, o)
        PROVE  \E e \in Inner(o) : x \in Under(Append(p, e[1]), e[2])
    <3>1. PICK g \in FilesUnder(o) : x = <<p \o g[1], g[2]>>
      BY <2>3 DEF Under
    <3>2. PICK e \in Inner(o) : \E f \in FilesUnder(e[2]) : g = <<<<e[1]>> \o f[1], f[2]>>
      BY <2>1, <3>1
    <3>4. PICK f \in FilesUnder(e[2]) : g = <<<<e[1]>> \o f[1], f[2]>>
      BY <3>2
    <3>3. x = <<Append(p, e[1]) \o f[1], f[2]>>
      BY <2>2, <3>1, <3>4
    <3> QED BY <3>3 DEF Under
  <2>4. ASSUME NEW x, NEW e \in Inner(o), x \in Under(Append(p, e[1]), e[2])
        PROVE  x \in Under(p, o)
    <3>1. PICK f \in FilesUnder(e[2]) : x = <<Append(p, e[1]) \o f[1], f[2]>>
      BY <2>4 DEF Under
    <3> DEFINE g == <<<<e[1]>> \o f[1], f[2]>>
    <3>2. g \in FilesUnder(o)
      BY <2>1
    <3>3. x = <<p \o g[1], g[2]>>
      BY <2>2, <3>1
    <3> QED BY <3>2, <3>3 DEF Under
  <2> QED BY <1>2, <2>3, <2>4
<1>3. CASE Disk[o].kind \notin {"file", "dir"}
  <2>1. FilesUnder(o) = {}
    BY <1>3, FilesUnfold
  <2> QED BY <1>3, <2>1 DEF Under
<1> QED BY <1>1, <1>2, <1>3

-----------------------------------------------------------------------------
\* What a crawl has added and what is still before it

Crawling == {"stat", "adddir", "entries", "read", "addfile"}

\* The files that the call has added, with the objects in their buffers.
IsAdded(x) ==
    \E i \in (last.first + 1)..Len(fileList) :
      /\ node[fileList[i]].data # Null
      /\ x = <<node[fileList[i]].path, heap[node[fileList[i]].data]>>

\* The object of the innermost frame, and the entries that frames still have to do.
InHand(x) ==
    call.pc \in {"stat", "adddir", "read", "addfile"} /\ x \in Under(call.vpath, call.obj)
Todo(f, x) ==
    \E e \in f.todo : e[1] \notin {Dot, DotDot} /\ x \in Under(Append(f.vpath, e[1]), e[2])
Ahead(fs, x) == \E i \in 1..Len(fs) : Todo(fs[i], x)

\* Nothing is lost and nothing is invented on the way.
Balance ==
    call.pc \in Crawling =>
      \A x : x \in Under(last.vpath, last.src) <=>
               IsAdded(x) \/ InHand(x) \/ Ahead(call.frames, x)

\* Files of the call have their contents in buffers.
OwnBuffers ==
    call.pc \in Crawling =>
      \A i \in (last.first + 1)..Len(fileList) : node[fileList[i]].data \in Buffer \cup {Null}

\* The file that is being read and added.
FileInHand ==
    /\ call.pc \in {"read", "addfile"} => heap[call.buf] = call.obj
    /\ call.pc = "addfile" =>
         /\ Kind = "file"
         /\ adding.status = "run" => node[adding.at].path \o adding.rest = call.vpath
         /\ adding.status = "ok" => node[adding.at].path = call.vpath

CrawlInv == Balance /\ OwnBuffers /\ FileInHand /\ CrawlComplete

LEMMA AheadPop ==
    ASSUME NEW fs \in Seq(Frame), fs # <<>>, NEW x
    PROVE  Ahead(fs, x) <=> Todo(fs[1], x) \/ Ahead(Tail(fs), x)
<1> DEFINE t == Tail(fs)
<1>1. /\ 1 \in 1..Len(fs) /\ Len(fs) \in Nat /\ Len(t) = Len(fs) - 1
      /\ \A i \in 1..Len(t) : t[i] = fs[i + 1] /\ i + 1 \in 1..Len(fs)
  BY HeadType
<1> HIDE DEF t
<1>2. ASSUME Ahead(fs, x) PROVE Todo(fs[1], x) \/ Ahead(t, x)
  <2>1. PICK i \in 1..Len(fs) : Todo(fs[i], x)
    BY <1>2 DEF Ahead
  <2>2. CASE i # 1
    <3>1. i - 1 \in 1..Len(t) /\ (i - 1) + 1 = i
      BY <1>1, <2>2
    <3>2. t[i - 1] = fs[i]
      BY <1>1, <3>1
    <3> QED BY <2>1, <3>1, <3>2 DEF Ahead
  <2> QED BY <2>1, <2>2
<1>3. ASSUME Ahead(t, x) PROVE Ahead(fs, x)
  <2>1. PICK i \in 1..Len(t) : Todo(t[i], x)
    BY <1>3 DEF Ahead
  <2>2. t[i] = fs[i + 1] /\ i + 1 \in 1..Len(fs)
    BY <1>1
  <2> QED BY <2>1, <2>2 DEF Ahead
<1>4. Todo(fs[1], x) => Ahead(fs, x)
  BY <1>1 DEF Ahead
<1> QED BY <1>2, <1>3, <1>4 DEF t

LEMMA AheadPush ==
    ASSUME NEW fs \in Seq(Frame), NEW f \in Frame, NEW x
    PROVE  Ahead(<<f>> \o fs, x) <=> Todo(f, x) \/ Ahead(fs, x)
<1> DEFINE gs == <<f>> \o fs
<1>1. gs \in Seq(Frame) /\ gs # <<>> /\ gs[1] = f /\ Tail(gs) = fs
  OBVIOUS
<1> HIDE DEF gs
<1>2. Ahead(gs, x) <=> Todo(gs[1], x) \/ Ahead(Tail(gs), x)
  BY <1>1, AheadPop
<1> QED BY <1>1, <1>2 DEF gs

\* A count that is added to a frame leaves alone what it has to do.
LEMMA AheadAdd ==
    ASSUME NEW fs \in Seq(Frame), fs # <<>>, NEW v \in Nat, NEW x
    PROVE  Ahead(<<Add(Head(fs), v)>> \o Tail(fs), x) <=> Ahead(fs, x)
<1> DEFINE f == Add(Head(fs), v)
           t == Tail(fs)
<1>1. fs[1] = Head(fs) /\ Head(fs) \in Frame /\ t \in Seq(Frame)
  BY HeadType
<1>2. f \in Frame /\ f.todo = fs[1].todo /\ f.vpath = fs[1].vpath
  BY <1>1, AddType
<1> HIDE DEF f, t
<1>3. Todo(f, x) <=> Todo(fs[1], x)
  BY <1>2 DEF Todo
<1>4. Ahead(<<f>> \o t, x) <=> Todo(f, x) \/ Ahead(t, x)
  BY <1>1, <1>2, AheadPush
<1>5. Ahead(fs, x) <=> Todo(fs[1], x) \/ Ahead(t, x)
  BY AheadPop DEF t
<1> QED BY <1>3, <1>4, <1>5 DEF f, t

\* An entry that is taken from the list of a frame.
LEMMA AheadTaken ==
    ASSUME call.frames \in Seq(Frame), call.frames # <<>>, NEW e \in call.frames[1].todo, NEW x
    PROVE  Ahead(call.frames, x) <=>
             \/ Ahead(Taken(e), x)
             \/ /\ e[1] \notin {Dot, DotDot}
                /\ x \in Under(Append(call.frames[1].vpath, e[1]), e[2])
<1> DEFINE fs == call.frames
           f == [fs[1] EXCEPT !.todo = @ \ {e}]
           gs == Taken(e)
<1>1. gs = [fs EXCEPT ![1] = f]
  BY DEF Taken
<1>2. fs \in Seq(Frame) /\ 1 \in 1..Len(fs) /\ fs[1] \in Frame
  BY HeadType
<1>3. f \in Frame /\ f.todo = fs[1].todo \ {e} /\ f.vpath = fs[1].vpath
  BY <1>2 DEF Frame
<1>4. e \in fs[1].todo
  OBVIOUS
<1> HIDE DEF f, fs, gs
<1>5. gs \in Seq(Frame) /\ Len(gs) = Len(fs) /\ gs[1] = f
      /\ \A i \in 1..Len(fs) : i # 1 => gs[i] = fs[i]
  BY <1>1, <1>2, <1>3
<1>6. Todo(fs[1], x) <=>
        Todo(f, x) \/ (e[1] \notin {Dot, DotDot} /\ x \in Under(Append(fs[1].vpath, e[1]), e[2]))
  BY <1>3, <1>4 DEF Todo
<1>7. Ahead(fs, x) <=> Todo(fs[1], x) \/ \E i \in 1..Len(fs) : i # 1 /\ Todo(fs[i], x)
  BY <1>2 DEF Ahead
<1>8. Ahead(gs, x) <=> Todo(f, x) \/ \E i \in 1..Len(fs) : i # 1 /\ Todo(fs[i], x)
  BY <1>2, <1>5 DEF Ahead
<1> QED BY <1>6, <1>7, <1>8 DEF fs, gs

-----------------------------------------------------------------------------
\* Steps of a crawl

LEMMA CrawlTypes ==
    ASSUME ApiInv, call.pc # "idle"
    PROVE  /\ call \in CallType /\ call.frames \in Seq(Frame) /\ AllLead(call.frames)
           /\ last \in LastType /\ last.first \in Nat /\ Len(fileList) \in Nat
           /\ fileList \in Seq(DOMAIN node) /\ ~shut
           /\ call.pc \in {"stat", "adddir", "read", "addfile"} =>
                /\ call.obj \in Object /\ call.vpath \in RegPath /\ call.vpath \in Seq(Segment)
<1>1. call \in CallType /\ last \in LastType /\ AllLead(call.frames)
  BY CallInvTypes DEF ApiInv
<1>2. call.frames \in Seq(Frame) /\ last.first \in Nat
  BY <1>1 DEF CallType, LastType
<1>3. fileList \in Seq(DOMAIN node) /\ Len(fileList) \in Nat
  BY DEF ApiInv, TypeInv, TypeOK
<1>4. ~shut
  BY DEF ApiInv, CallInv, AddingInCall
<1>5. call.pc \in {"stat", "adddir", "read", "addfile"} =>
        call.obj \in Object /\ call.vpath \in RegPath
  BY PlaceType DEF ApiInv, CallInv, CrawlOK
<1>6. RegPath \subseteq Seq(Segment)
  <2>1. EntryName \cup {Dot, DotDot} \subseteq Segment
    BY DEF Segment
  <2> QED BY <2>1, PathAssumption
<1> QED BY <1>1, <1>2, <1>3, <1>4, <1>5, <1>6

\* What was added stays added.
LEMMA SameAdded ==
    ASSUME last.first \in Nat, Len(fileList) \in Nat, Len(fileList') \in Nat,
           last'.first = last.first, Len(fileList) <= Len(fileList'),
           \A i \in 1..Len(fileList) :
              /\ fileList'[i] = fileList[i]
              /\ node'[fileList[i]].path = node[fileList[i]].path
              /\ node'[fileList[i]].data = node[fileList[i]].data
              /\ i > last.first /\ node[fileList[i]].data # Null =>
                   heap'[node[fileList[i]].data] = heap[node[fileList[i]].data],
           \A i \in (Len(fileList) + 1)..Len(fileList') : node'[fileList'[i]].data = Null
    PROVE  /\ \A x : IsAdded(x)' <=> IsAdded(x)
           /\ (\A i \in (last.first + 1)..Len(fileList) : node[fileList[i]].data \in Buffer \cup {Null})
              => \A i \in (last'.first + 1)..Len(fileList') :
                    node'[fileList'[i]].data \in Buffer \cup {Null}
<1> DEFINE I == (last.first + 1)..Len(fileList)
           J == (last'.first + 1)..Len(fileList')
<1>1. \A i \in I : /\ i \in J /\ fileList'[i] = fileList[i]
                   /\ node'[fileList[i]].path = node[fileList[i]].path
                   /\ node'[fileList[i]].data = node[fileList[i]].data
                   /\ node[fileList[i]].data # Null =>
                        heap'[node[fileList[i]].data] = heap[node[fileList[i]].data]
  <2> TAKE i \in I
  <2>1. i \in 1..Len(fileList) /\ i > last.first /\ i \in J
    OBVIOUS
  <2> HIDE DEF I, J
  <2> QED BY <2>1
<1>2. \A i \in J : i \in I \/ node'[fileList'[i]].data = Null
  <2> TAKE i \in J
  <2>1. i \in I \/ i \in (Len(fileList) + 1)..Len(fileList')
    OBVIOUS
  <2> HIDE DEF I, J
  <2> QED BY <2>1
<1>3. \A x : IsAdded(x) <=> \E i \in I : /\ node[fileList[i]].data # Null
                                         /\ x = <<node[fileList[i]].path, heap[node[fileList[i]].data]>>
  BY DEF IsAdded
<1>4. \A x : IsAdded(x)' <=> \E i \in J : /\ node'[fileList'[i]].data # Null
                                          /\ x = <<node'[fileList'[i]].path, heap'[node'[fileList'[i]].data]>>
  BY DEF IsAdded
<1> HIDE DEF I, J
<1>5. ASSUME NEW x PROVE IsAdded(x)' <=> IsAdded(x)
  <2>1. ASSUME IsAdded(x) PROVE IsAdded(x)'
    <3>1. PICK i \in I : /\ node[fileList[i]].data # Null
                         /\ x = <<node[fileList[i]].path, heap[node[fileList[i]].data]>>
      BY <1>3, <2>1
    <3>2. /\ i \in J /\ node'[fileList'[i]].data # Null
          /\ x = <<node'[fileList'[i]].path, heap'[node'[fileList'[i]].data]>>
      BY <1>1, <3>1
    <3> QED BY <1>4, <3>2
  <2>2. ASSUME IsAdded(x)' PROVE IsAdded(x)
    <3>1. PICK i \in J : /\ node'[fileList'[i]].data # Null
                         /\ x = <<node'[fileList'[i]].path, heap'[node'[fileList'[i]].data]>>
      BY <1>4, <2>2
    <3>2. i \in I
      BY <1>2, <3>1
    <3>3. /\ node[fileList[i]].data # Null
          /\ x = <<node[fileList[i]].path, heap[node[fileList[i]].data]>>
      BY <1>1, <3>1, <3>2
    <3> QED BY <1>3, <3>2, <3>3
  <2> QED BY <2>1, <2>2
<1>6. ASSUME \A i \in I : node[fileList[i]].data \in Buffer \cup {Null}
      PROVE  \A i \in J : node'[fileList'[i]].data \in Buffer \cup {Null}
  BY <1>1, <1>2, <1>6
<1> QED BY <1>5, <1>6 DEF I, J

\* A step that goes on with the crawl: what is before it changes hands only.
LEMMA CrawlGoesOn ==
    ASSUME CrawlInv, call.pc \in Crawling, call'.pc \in Crawling, UNCHANGED last,
           \A x : IsAdded(x)' <=> IsAdded(x),
           \A x : InHand(x)' \/ Ahead(call'.frames, x) <=> InHand(x) \/ Ahead(call.frames, x),
           OwnBuffers', FileInHand'
    PROVE  CrawlInv'
<1>1. Balance'
  <2>1. \A x : x \in Under(last'.vpath, last'.src) <=>
               IsAdded(x)' \/ InHand(x)' \/ Ahead(call'.frames, x)
    BY DEF CrawlInv, Balance
  <2> QED BY <2>1 DEF Balance
<1>2. CrawlComplete'
  BY DEF CrawlComplete, Crawling
<1> QED BY <1>1, <1>2 DEF CrawlInv

\* The tree and the buffers stay as they are.
LEMMA CrawlQuiet ==
    ASSUME CrawlInv, call.pc \in Crawling, call'.pc \in Crawling, UNCHANGED <<last, node, fileList, heap>>,
           \A x : InHand(x)' \/ Ahead(call'.frames, x) <=> InHand(x) \/ Ahead(call.frames, x),
           FileInHand'
    PROVE  CrawlInv'
<1>1. \A x : IsAdded(x)' <=> IsAdded(x)
  BY DEF IsAdded
<1>2. OwnBuffers'
  BY DEF CrawlInv, OwnBuffers
<1> QED BY <1>1, <1>2, CrawlGoesOn

LEMMA ReturnLast ==
    ASSUME CallInv, NEW fs, NEW v \in Nat, Return(fs, v)
    PROVE  /\ last'.op = last.op /\ last'.src = last.src /\ last'.vpath = last.vpath
           /\ last'.first = last.first
<1>1. CASE fs = <<>>
  <2>1. Result(v) /\ v \in Nat \cup {Null}
    BY <1>1 DEF Return
  <2> QED BY <2>1, ResultType
<1>2. CASE fs # <<>>
  BY <1>2 DEF Return
<1> QED BY <1>1, <1>2

\* A frame returns: to the one above it, or to the client, and then nothing is
\* left before it.
LEMMA CrawlReturn ==
    ASSUME ApiInv, ApiInv', call.pc # "idle", NEW fs, AllLead(fs), NEW v \in Nat, Return(fs, v),
           \A x : x \in Under(last.vpath, last.src) <=> IsAdded(x)' \/ Ahead(fs, x),
           \A i \in (last.first + 1)..Len(fileList') : node'[fileList'[i]].data \in Buffer \cup {Null}
    PROVE  CrawlInv'
<1> USE DEF ApiInv
<1>1. /\ last'.op = last.op /\ last'.src = last.src /\ last'.vpath = last.vpath
      /\ last'.first = last.first
  BY ReturnLast
<1>2. /\ call'.pc = IF fs = <<>> THEN "idle" ELSE "entries"
      /\ fs # <<>> => /\ call'.frames = <<Add(Head(fs), v)>> \o Tail(fs) /\ last' = last
  BY ReturnEffect
<1>3. CASE fs = <<>>
  <2>1. call'.pc = "idle" /\ \A x : ~Ahead(fs, x)
    BY <1>2, <1>3 DEF Ahead
  <2>2. adding'.status = "idle"
    BY <2>1 DEF CallInv, AddingInCall, Adding
  <2>3. last'.first \in Nat /\ fileList' \in Seq(DOMAIN node') /\ Len(fileList') \in Nat
    <3>1. last.first \in Nat
      BY CrawlTypes
    <3>2. fileList' \in Seq(DOMAIN node')
      BY DEF TypeInv, TypeOK
    <3> QED BY <1>1, <3>1, <3>2
  <2>4. ASSUME NEW i \in (last'.first + 1)..Len(fileList')
        PROVE  node'[fileList'[i]].data # Null
    <3>1. i \in 1..Len(fileList')
      BY <2>3
    <3>2. fileList'[i] \in DOMAIN node'
      BY <2>3, <3>1
    <3>3. IsFile(fileList[i])'
      BY <3>1 DEF FileListExact
    <3>4. ~IsDir(fileList[i])'
      BY <3>3 DEF IsFile, IsDir
    <3> QED BY <2>2, <3>2, <3>4 DEF Filled, IsDir
  <2> DEFINE S == {<<node'[fileList'[i]].path, heap'[node'[fileList'[i]].data]>> :
                     i \in (last'.first + 1)..Len(fileList')}
  <2>5. \A x : x \in S <=> IsAdded(x)'
    BY <2>4 DEF IsAdded
  <2>6. \A x : x \in S <=> x \in Under(last'.vpath, last'.src)
    BY <1>1, <2>1, <2>5
  <2> HIDE DEF S
  <2>7. S = Under(last'.vpath, last'.src)
    BY <2>6
  <2>8. CrawlComplete'
    BY <2>7 DEF CrawlComplete, S, Under
  <2> QED BY <2>1, <2>8 DEF CrawlInv, Balance, OwnBuffers, FileInHand, Crawling
<1>4. CASE fs # <<>>
  <2>1. fs \in Seq(Frame)
    BY DEF AllLead
  <2>2. call'.pc = "entries" /\ last' = last
    BY <1>2, <1>4
  <2> DEFINE gs == <<Add(Head(fs), v)>> \o Tail(fs)
  <2>7. \A x : Ahead(gs, x) <=> Ahead(fs, x)
    BY <1>4, <2>1, AheadAdd
  <2> HIDE DEF gs
  <2>8. call'.frames = gs
    BY <1>2, <1>4 DEF gs
  <2>3. \A x : Ahead(call'.frames, x) <=> Ahead(fs, x)
    BY <2>7, <2>8
  <2>4. \A x : ~InHand(x)'
    BY <2>2 DEF InHand
  <2>5. Balance'
    BY <2>2, <2>3, <2>4 DEF Balance
  <2>6. OwnBuffers'
    BY <2>2 DEF OwnBuffers
  <2> QED BY <2>2, <2>5, <2>6 DEF CrawlInv, FileInHand, CrawlComplete
<1> QED BY <1>3, <1>4

\* A crawl that fails has no more to do, and returns Null.
LEMMA CrawlFail ==
    ASSUME CallInv, Fail
    PROVE  CrawlInv'
<1>1. call'.pc = "idle" /\ last'.value = Null
  BY FailEffect
<1> QED BY <1>1 DEF CrawlInv, Balance, OwnBuffers, FileInHand, CrawlComplete, Crawling

\* Whatever is not about a crawl.
LEMMA CrawlOther ==
    ASSUME last'.op # "path", CountInv'
    PROVE  CrawlInv'
BY DEF CountInv, Counted, CrawlInv, Balance, OwnBuffers, FileInHand, CrawlComplete, Crawling

-----------------------------------------------------------------------------
\* Every step keeps the balance

LEMMA CrawlRegister ==
    ASSUME <<>> \notin RegPath, ApiInv, CountInv', CrawlInv, RegisterStep
    PROVE  CrawlInv'
<1>1. ASSUME NEW p, NEW o, RegisterPath(o, p)
      PROVE  CrawlInv'
  <2>1. /\ call'.pc = "stat" /\ call'.frames = <<>> /\ call'.obj = o /\ call'.vpath = p
        /\ UNCHANGED <<node, fileList, heap>>
        /\ last'.first = Len(fileList) /\ last'.src = o /\ last'.vpath = p /\ last'.value = Null
    BY <1>1 DEF RegisterPath, NoCall, vars, Begin
  <2>2. (last'.first + 1)..Len(fileList') = {}
    <3>1. Len(fileList) \in Nat
      BY DEF ApiInv, TypeInv, TypeOK
    <3> QED BY <2>1, <3>1
  <2>3. \A x : ~IsAdded(x)'
    BY <2>2 DEF IsAdded
  <2>4. \A x : ~Ahead(call'.frames, x)
    BY <2>1 DEF Ahead
  <2>5. \A x : InHand(x)' <=> x \in Under(last'.vpath, last'.src)
    BY <2>1 DEF InHand
  <2>6. Balance'
    BY <2>3, <2>4, <2>5 DEF Balance
  <2>7. OwnBuffers'
    BY <2>2 DEF OwnBuffers
  <2> QED BY <2>1, <2>6, <2>7 DEF CrawlInv, FileInHand, CrawlComplete
<1>2. ASSUME NEW p, NEW l, RegisterEmbedded(l, p)
      PROVE  CrawlInv'
  <2>1. last'.op # "path"
    BY <1>2 DEF RegisterEmbedded, Begin
  <2> QED BY <2>1, CrawlOther
<1>3. ASSUME NEW p, NEW d, RegisterData(d, p)
      PROVE  CrawlInv'
  <2>1. last'.op # "path"
    BY <1>3 DEF RegisterData, Begin
  <2> QED BY <2>1, CrawlOther
<1> QED BY <1>1, <1>2, <1>3 DEF RegisterStep

\* Steps of the tree, of lookups and of the module outside of a crawl.
LEMMA CrawlElse ==
    ASSUME CrawlInv, UNCHANGED <<call, last, node, fileList, heap, shut, adding>>
    PROVE  CrawlInv'
<1>1. \A x : IsAdded(x)' <=> IsAdded(x)
  BY DEF IsAdded
<1>2. \A x : InHand(x)' <=> InHand(x)
  BY DEF InHand
<1>3. Balance' /\ OwnBuffers'
  BY <1>1, <1>2 DEF CrawlInv, Balance, OwnBuffers
<1>4. FileInHand'
  BY DEF CrawlInv, FileInHand, Kind
<1>5. CrawlComplete'
  <2> DEFINE S(n, l, h, r) == {<<n[l[i]].path, h[n[l[i]].data]>> : i \in (r.first + 1)..Len(l)}
             Ended(c, r, z)  == c.pc = "idle" /\ r.op = "path" /\ r.value # Null /\ ~z
  <2>1. Ended(call, last, shut) => S(node, fileList, heap, last) = Under(last.vpath, last.src)
    BY DEF CrawlInv, CrawlComplete, Under
  <2> HIDE DEF S, Ended
  <2>2. Ended(call', last', shut') =>
          S(node', fileList', heap', last') = Under(last'.vpath, last'.src)
    BY <2>1
  <2> QED BY <2>2 DEF CrawlComplete, Under, S, Ended
<1> QED BY <1>3, <1>4, <1>5 DEF CrawlInv

LEMMA CrawlBeginAdd ==
    ASSUME <<>> \notin RegPath, ApiInv, TreeInv, CrawlInv, MakeDir \/ ReadFile
    PROVE  CrawlInv'
<1>1. /\ call.pc \in {"stat", "read"} /\ call'.pc \in {"adddir", "addfile"}
      /\ call'.obj = call.obj /\ call'.vpath = call.vpath /\ call'.frames = call.frames
      /\ call'.buf = call.buf /\ UNCHANGED <<last, node, fileList, heap>>
  <2>1. call \in CallType
    BY CallInvTypes DEF ApiInv
  <2> QED BY <2>1 DEF MakeDir, ReadFile, AddNode, CallType
<1>2. \A x : InHand(x)' <=> InHand(x)
  BY <1>1 DEF InHand
<1>3. FileInHand'
  <2>1. CASE MakeDir
    <3>1. call'.pc = "adddir"
      BY <1>1, <2>1 DEF MakeDir, ApiInv, CallInv, ApiTypeOK
    <3> QED BY <3>1 DEF FileInHand
  <2>2. CASE ReadFile
    <3>1. call.pc = "read" /\ Kind = "file" /\ AddNode(call.vpath, "file", call.buf)
      BY <2>2 DEF ReadFile
    <3>2. call.vpath \in RegPath /\ call.vpath \in Seq(Segment) /\ call.vpath # <<>>
      BY <3>1, CrawlTypes
    <3>3. adding'.status = "run" /\ adding'.at = Root /\ adding'.rest = call.vpath
      BY <3>1, <3>2 DEF AddNode
    <3>4. node'[Root].path = <<>>
      BY <1>1 DEF TreeInv, ShapeInv, TreeShape
    <3>5. <<>> \o call.vpath = call.vpath
      BY <3>2
    <3>6. Kind' = "file"
      BY <1>1, <3>1 DEF Kind
    <3>7. heap'[call'.buf] = call'.obj
      BY <1>1, <3>1 DEF CrawlInv, FileInHand
    <3> QED BY <1>1, <3>3, <3>4, <3>5, <3>6, <3>7 DEF FileInHand
  <2> QED BY <2>1, <2>2
<1> QED BY <1>1, <1>2, <1>3, CrawlQuiet DEF Crawling

LEMMA CrawlEntryStep ==
    ASSUME OnlyDotsSkipped, ApiInv, CrawlInv, SkipEntry \/ CrawlEntry
    PROVE  CrawlInv'
<1>1. call.pc = "entries" /\ UNCHANGED <<last, node, fileList, heap>>
  BY DEF SkipEntry, CrawlEntry, vars
<1>2. call \in CallType /\ call.frames \in Seq(Frame)
  BY <1>1, CrawlTypes
<1>3. call.frames # <<>>
  BY <1>1 DEF ApiInv, CallInv, CrawlOK
<1>4. call.frames[1] \in Frame
  BY <1>2, <1>3, HeadType
<1>5. \A x : ~InHand(x)
  BY <1>1 DEF InHand
<1>6. ASSUME NEW e \in call.frames[1].todo
      PROVE  IsSkipped(e[1]) <=> e[1] \in {Dot, DotDot}
  <2>1. e \in (EntryName \cup {Dot, DotDot}) \X Object
    BY <1>4 DEF Frame
  <2>2. e[1] \in EntryName \cup {Dot, DotDot}
    BY <2>1
  <2> QED BY <2>2 DEF OnlyDotsSkipped
<1>7. CASE SkipEntry
  <2>1. PICK e \in call.frames[1].todo :
          IsSkipped(e[1]) /\ call' = [call EXCEPT !.frames = Taken(e)]
    BY <1>7 DEF SkipEntry
  <2>2. call'.pc = "entries" /\ call'.frames = Taken(e)
    BY <1>1, <1>2, <2>1 DEF CallType
  <2>3. \A x : Ahead(Taken(e), x) <=> Ahead(call.frames, x)
    BY <1>2, <1>3, <1>6, <2>1, AheadTaken
  <2>4. \A x : ~InHand(x)'
    BY <2>2 DEF InHand
  <2>5. FileInHand'
    BY <2>2 DEF FileInHand
  <2>6. \A x : InHand(x)' \/ Ahead(call'.frames, x) <=> InHand(x) \/ Ahead(call.frames, x)
    BY <1>5, <2>2, <2>3, <2>4
  <2> QED BY <1>1, <2>2, <2>5, <2>6, CrawlQuiet DEF Crawling
<1>8. CASE CrawlEntry
  <2> DEFINE q(e) == Append(call.frames[1].vpath, e[1])
  <2>1. PICK e \in call.frames[1].todo :
          /\ ~IsSkipped(e[1])
          /\ call' = [call EXCEPT !.pc = "stat", !.obj = e[2], !.vpath = q(e), !.frames = Taken(e)]
    BY <1>8 DEF CrawlEntry
  <2>2. /\ call'.pc = "stat" /\ call'.frames = Taken(e) /\ call'.obj = e[2]
        /\ call'.vpath = q(e)
    BY <1>1, <1>2, <2>1 DEF CallType
  <2>3. \A x : Ahead(call.frames, x) <=> Ahead(Taken(e), x) \/ x \in Under(q(e), e[2])
    BY <1>2, <1>3, <1>6, <2>1, AheadTaken
  <2>4. \A x : InHand(x)' <=> x \in Under(q(e), e[2])
    BY <2>2 DEF InHand
  <2>5. FileInHand'
    BY <2>2 DEF FileInHand
  <2>6. \A x : InHand(x)' \/ Ahead(call'.frames, x) <=> InHand(x) \/ Ahead(call.frames, x)
    BY <1>5, <2>2, <2>3, <2>4
  <2> QED BY <1>1, <2>2, <2>5, <2>6, CrawlQuiet DEF Crawling
<1> QED BY <1>7, <1>8

\* A new buffer is in no file.
LEMMA CrawlAllocate ==
    ASSUME ApiInv, OwnInv, CrawlInv, Allocate
    PROVE  CrawlInv'
<1> DEFINE b == FreeBuffer
<1>1. /\ call.pc = "stat" /\ b \in Buffer /\ heap[b] = Null
      /\ heap' = [heap EXCEPT ![b] = call.obj]
      /\ call' = [call EXCEPT !.pc = "read", !.buf = b]
      /\ UNCHANGED <<last, node, fileList>>
  BY DEF Allocate, FreeBuffer, vars
<1> HIDE DEF b
<1>2. /\ call \in CallType /\ last.first \in Nat /\ Len(fileList) \in Nat
      /\ fileList \in Seq(DOMAIN node) /\ ~shut
  BY <1>1, CrawlTypes
<1>3. heap \in [Buffer -> Object \cup {Null}] /\ Null \notin Buffer
  BY DataAssumption, ClientAssumption, CallInvTypes DEF ApiInv
<1>4. /\ call'.pc = "read" /\ call'.buf = b /\ call'.obj = call.obj /\ call'.vpath = call.vpath
      /\ call'.frames = call.frames
  BY <1>1, <1>2 DEF CallType
<1>5. heap'[b] = call.obj /\ \A c \in Buffer \ {b} : heap'[c] = heap[c]
  BY <1>1, <1>3
<1>6. \A n \in DOMAIN node : node[n].data \in Buffer => node[n].data # b
  BY <1>1, <1>2 DEF OwnInv, BufferOwned
<1>7. \A i \in (last.first + 1)..Len(fileList) : node[fileList[i]].data \in Buffer \cup {Null}
  BY <1>1 DEF CrawlInv, OwnBuffers, Crawling
<1>8. ASSUME NEW i \in 1..Len(fileList), i > last.first, node[fileList[i]].data # Null
      PROVE  heap'[node[fileList[i]].data] = heap[node[fileList[i]].data]
  <2>1. fileList[i] \in DOMAIN node /\ i \in (last.first + 1)..Len(fileList)
    BY <1>2, <1>8
  <2>2. node[fileList[i]].data \in Buffer
    BY <1>7, <1>8, <2>1
  <2> QED BY <1>5, <1>6, <2>1, <2>2
<1>9. (Len(fileList) + 1)..Len(fileList') = {}
  BY <1>1, <1>2
<1>10. /\ \A x : IsAdded(x)' <=> IsAdded(x)
       /\ \A i \in (last'.first + 1)..Len(fileList') : node'[fileList'[i]].data \in Buffer \cup {Null}
  BY <1>1, <1>2, <1>7, <1>8, <1>9, SameAdded
<1>11. \A x : InHand(x)' <=> InHand(x)
  BY <1>1, <1>4 DEF InHand
<1>12. FileInHand'
  BY <1>4, <1>5 DEF FileInHand
<1>13. OwnBuffers'
  BY <1>10 DEF OwnBuffers
<1> QED BY <1>1, <1>4, <1>10, <1>11, <1>12, <1>13, CrawlGoesOn DEF Crawling

LEMMA CrawlIgnored ==
    ASSUME NoCycle, ApiInv, ApiInv', CountInv, CrawlInv, SourceIgnored \/ DirDone
    PROVE  CrawlInv'
<1>1. /\ call.pc \in {"stat", "entries"} /\ UNCHANGED <<node, fileList, heap>>
  BY DEF SourceIgnored, DirDone, vars
<1>2. /\ call.frames \in Seq(Frame) /\ AllLead(call.frames)
      /\ call.pc = "stat" => call.obj \in Object /\ call.vpath \in Seq(Segment)
  BY <1>1, CrawlTypes
<1>3. \A x : x \in Under(last.vpath, last.src) <=>
               IsAdded(x) \/ InHand(x) \/ Ahead(call.frames, x)
  BY <1>1 DEF CrawlInv, Balance, Crawling
<1>4. \A i \in (last.first + 1)..Len(fileList') : node'[fileList'[i]].data \in Buffer \cup {Null}
  BY <1>1 DEF CrawlInv, OwnBuffers, Crawling
<1>5. ASSUME NEW fs, NEW v \in Nat, Return(fs, v) PROVE \A x : IsAdded(x)' <=> IsAdded(x)
  <2>1. last'.first = last.first
    BY <1>5, ReturnLast DEF ApiInv
  <2> QED BY <1>1, <2>1 DEF IsAdded
<1>6. CASE SourceIgnored
  <2>1. call.pc = "stat" /\ Kind = "other" /\ Return(call.frames, 0)
    BY <1>6 DEF SourceIgnored
  <2>2. \A x : ~InHand(x)
    BY <1>2, <2>1, UnderUnfold DEF InHand, Kind
  <2>3. \A x : IsAdded(x)' <=> IsAdded(x)
    BY <1>5, <2>1
  <2>4. \A x : x \in Under(last.vpath, last.src) <=> IsAdded(x)' \/ Ahead(call.frames, x)
    BY <1>3, <2>2, <2>3
  <2> QED BY <1>1, <1>2, <1>4, <2>1, <2>4, CrawlReturn
<1>7. CASE DirDone
  <2> DEFINE fs == call.frames
             c == fs[1].count
  <2>1. call.pc = "entries" /\ fs[1].todo = {} /\ Return(Tail(fs), c)
    BY <1>7 DEF DirDone
  <2>2. fs # <<>>
    BY <2>1 DEF ApiInv, CallInv, CrawlOK
  <2>3. c \in Nat /\ AllLead(Tail(fs))
    <3>1. fs[1] \in Frame /\ AllLead(Tail(fs))
      BY <1>2, <2>2, HeadType DEF AllLead
    <3> QED BY <3>1 DEF Frame
  <2>4. \A x : ~InHand(x) /\ ~Todo(fs[1], x)
    BY <2>1 DEF InHand, Todo
  <2>5. \A x : Ahead(fs, x) <=> Ahead(Tail(fs), x)
    BY <1>2, <2>2, <2>4, AheadPop
  <2>6. \A x : IsAdded(x)' <=> IsAdded(x)
    BY <1>5, <2>1, <2>3
  <2>7. \A x : x \in Under(last.vpath, last.src) <=> IsAdded(x)' \/ Ahead(Tail(fs), x)
    BY <1>3, <2>4, <2>5, <2>6
  <2> QED BY <1>1, <1>4, <2>1, <2>3, <2>7, CrawlReturn
<1> QED BY <1>6, <1>7

\* A new node holds no contents yet.
LEMMA CrawlSubNode ==
    ASSUME ApiInv, TreeInv, CrawlInv, call.pc \in Crawling, UNCHANGED apiVars,
           SubNodeForbidden \/ SubNodeExists \/ SubNodeCreate
    PROVE  CrawlInv'
<1>1. UNCHANGED <<call, last, heap, shut>> /\ adding.status = "run"
  BY DEF apiVars, SubNodeForbidden, SubNodeExists, SubNodeCreate
<1>2. /\ last.first \in Nat /\ Len(fileList) \in Nat /\ fileList \in Seq(DOMAIN node)
  BY CrawlTypes DEF Crawling
<1>3. \A i \in 1..Len(fileList) : fileList[i] \in DOMAIN node
  BY <1>2
<1>4. FileInHand'
  <2>1. CASE call.pc = "addfile" /\ adding'.status # "failed"
    <3>1. SubNodeExists \/ SubNodeCreate
      BY <2>1 DEF SubNodeForbidden, Reject, TreeInv, ShapeInv, TypeInv, TypeOK
    <3> DEFINE p == node[adding.at].path
               r == adding.rest
    <3>2. /\ node'[adding'.at].path = Append(p, Head(r)) /\ p \in Seq(Segment)
          /\ r \in Seq(Segment) /\ r # <<>> /\ adding'.rest = Tail(r)
          /\ adding'.status = IF Len(r) = 1 THEN "ok" ELSE "run"
      BY <2>1, <3>1, PathStep DEF Name
    <3>3. p \o r = call.vpath
      BY <1>1, <2>1 DEF CrawlInv, FileInHand
    <3> HIDE DEF p, r
    <3>4. Append(p, Head(r)) \o Tail(r) = p \o r
      BY <3>2
    <3>5. Len(r) = 1 => Append(p, Head(r)) = p \o r
      BY <3>2
    <3>6. Kind' = "file" /\ heap'[call'.buf] = call'.obj
      BY <1>1, <2>1 DEF CrawlInv, FileInHand, Kind
    <3> QED BY <1>1, <2>1, <3>2, <3>3, <3>4, <3>5, <3>6 DEF FileInHand
  <2>2. CASE ~(call.pc = "addfile" /\ adding'.status # "failed")
    <3>1. call.pc \in {"read", "addfile"} => heap'[call'.buf] = call'.obj
      BY <1>1 DEF CrawlInv, FileInHand
    <3>2. call.pc = "addfile" => Kind' = "file"
      BY <1>1 DEF CrawlInv, FileInHand, Kind
    <3> QED BY <1>1, <2>2, <3>1, <3>2 DEF FileInHand
  <2> QED BY <2>1, <2>2
<1>5. CASE SubNodeForbidden \/ SubNodeExists
  <2>1. UNCHANGED <<node, fileList>>
    BY <1>5 DEF SubNodeForbidden, SubNodeExists
  <2>2. \A x : InHand(x)' \/ Ahead(call'.frames, x) <=> InHand(x) \/ Ahead(call.frames, x)
    BY <1>1 DEF InHand
  <2>3. call'.pc \in Crawling
    BY <1>1
  <2> QED BY <1>1, <1>4, <2>1, <2>2, <2>3, CrawlQuiet
<1>6. CASE SubNodeCreate
  <2>1. /\ \A n \in DOMAIN node : node'[n].data = node[n].data /\ node'[n].path = node[n].path
        /\ node'[FreeAddr].data = Null
        /\ fileList' = fileList \/ fileList' = Append(fileList, FreeAddr)
    BY <1>6, CreateKinds, CreateShape DEF TreeInv, ShapeInv, ApiInv
  <2>2. /\ Len(fileList') \in Nat /\ Len(fileList) <= Len(fileList')
        /\ \A i \in 1..Len(fileList) : fileList'[i] = fileList[i]
        /\ \A i \in (Len(fileList) + 1)..Len(fileList') : fileList'[i] = FreeAddr
    <3>1. CASE fileList' = fileList
      BY <1>2, <3>1
    <3>2. CASE fileList' = Append(fileList, FreeAddr)
      BY <1>2, <3>2, AppendProperties
    <3> QED BY <2>1, <3>1, <3>2
  <2>3. /\ \A x : IsAdded(x)' <=> IsAdded(x)
        /\ (\A i \in (last.first + 1)..Len(fileList) : node[fileList[i]].data \in Buffer \cup {Null})
           => \A i \in (last'.first + 1)..Len(fileList') :
                 node'[fileList'[i]].data \in Buffer \cup {Null}
    BY <1>1, <1>2, <1>3, <2>1, <2>2, SameAdded
  <2>4. OwnBuffers'
    BY <2>3 DEF CrawlInv, OwnBuffers
  <2>5. \A x : InHand(x)' \/ Ahead(call'.frames, x) <=> InHand(x) \/ Ahead(call.frames, x)
    BY <1>1 DEF InHand
  <2>6. call'.pc \in Crawling
    BY <1>1
  <2> QED BY <1>1, <1>4, <2>3, <2>4, <2>5, <2>6, CrawlGoesOn
<1> QED BY <1>5, <1>6

\* The entries of a directory take its place.
LEMMA CrawlDirAdded ==
    ASSUME NoCycle, ApiInv, CrawlInv, DirAdded
    PROVE  CrawlInv'
<1>1. CASE Fail
  BY <1>1, CrawlFail DEF ApiInv
<1>2. CASE adding.status = "ok" /\ Kind = "dir"
  <2> DEFINE fs == call.frames
             f == [vpath |-> call.vpath, count |-> 0, todo |-> Disk[call.obj].entries]
             gs == <<f>> \o fs
  <2>1. /\ call.pc = "adddir" /\ AddReturn /\ UNCHANGED <<last, heap>>
        /\ call' = [NoCall EXCEPT !.pc = "entries", !.frames = gs]
    BY <1>2 DEF DirAdded
  <2>2. /\ fs \in Seq(Frame) /\ call.obj \in Object /\ call.vpath \in RegPath
        /\ call.vpath \in Seq(Segment)
    BY <2>1, CrawlTypes
  <2>3. adding.type = "dir"
    BY <2>1 DEF ApiInv, CallInv, AddingInCall
  <2>4. UNCHANGED <<node, fileList>>
    BY <2>1, <2>3 DEF AddReturn
  <2>5. f \in Frame /\ f.vpath = call.vpath /\ f.todo = Disk[call.obj].entries
    <3>1. <<call.obj, call.vpath>> \in Place
      BY <2>1 DEF ApiInv, CallInv, CrawlOK
    <3> QED BY <3>1, PlaceType DEF Frame
  <2> HIDE DEF f
  <2>6. \A x : Ahead(gs, x) <=> Todo(f, x) \/ Ahead(fs, x)
    BY <2>2, <2>5, AheadPush
  <2>7. ASSUME NEW x PROVE Todo(f, x) <=> x \in Under(call.vpath, call.obj)
    <3>1. x \in Under(call.vpath, call.obj) <=>
            \E e \in Inner(call.obj) : x \in Under(Append(call.vpath, e[1]), e[2])
      BY <1>2, <2>2, UnderUnfold DEF Kind
    <3> QED BY <2>5, <3>1 DEF Todo, Inner
  <2> HIDE DEF gs
  <2>8. call'.pc = "entries" /\ call'.frames = gs
    BY <2>1 DEF NoCall
  <2> HIDE DEF fs
  <2>9. \A x : InHand(x)' \/ Ahead(call'.frames, x) <=> InHand(x) \/ Ahead(fs, x)
    BY <2>1, <2>6, <2>7, <2>8 DEF InHand
  <2>10. FileInHand'
    BY <2>8 DEF FileInHand
  <2>11. call.pc \in Crawling /\ call'.pc \in Crawling
    BY <2>1, <2>8 DEF Crawling
  <2> QED BY <2>1, <2>4, <2>9, <2>10, <2>11, CrawlQuiet DEF fs
<1> QED BY <1>1, <1>2 DEF DirAdded

\* A file has its contents and its place.
LEMMA CrawlFileAdded ==
    ASSUME NoCycle, ApiInv, ApiInv', CountInv, CrawlInv, FileAdded
    PROVE  CrawlInv'
<1>1. CASE Fail
  BY <1>1, CrawlFail DEF ApiInv
<1>2. CASE adding.status = "ok" /\ Return(call.frames, 1) /\ UNCHANGED heap
  <2> DEFINE a == adding.at
             b == call.buf
             L == Len(fileList)
             I == (last.first + 1)..L
             new == <<call.vpath, call.obj>>
  <2>1. call.pc = "addfile" /\ AddReturn
    BY DEF FileAdded
  <2>2. /\ last.first \in Nat /\ L \in Nat /\ fileList \in Seq(DOMAIN node)
        /\ AllLead(call.frames) /\ call.obj \in Object /\ call.vpath \in Seq(Segment)
    BY <2>1, CrawlTypes
  <2>3. adding.type = "file" /\ adding.data = b /\ b \in Buffer
    BY <2>1 DEF ApiInv, CallInv, AddingInCall, CrawlOK, Adding
  <2>4. b # Null
    BY <2>3, DataAssumption, ClientAssumption
  <2>5. /\ a \in DOMAIN node /\ fileList[L] = a /\ node[a].data = Null
    BY <1>2, <2>3 DEF ApiInv, Filled, TypeInv, AddingOK
  <2>6. L \in I
    <3>1. PICK n \in Nat : L = last.first + n + call.count + Pending
      BY <2>1 DEF CountInv, Counted
    <3>2. call.count = 0 /\ Pending = 1
      BY <1>2, <2>1, <2>3 DEF CountInv, Counted, Pending
    <3>3. L = last.first + n + 1
      BY <2>2, <3>1, <3>2
    <3> QED BY <2>2, <3>3
  <2>7. UNCHANGED fileList /\ last'.first = last.first
    BY <1>2, <2>1, ReturnLast DEF AddReturn, ApiInv
  <2>8. /\ \A n \in DOMAIN node : node'[n].path = node[n].path
        /\ \A n \in DOMAIN node \ {a} : node'[n].data = node[n].data
        /\ node'[a].data = b
    BY <1>2, <2>1, <2>3, <2>5, AddReturnEffect DEF ApiInv
  <2>9. heap[b] = call.obj /\ Kind = "file" /\ node[a].path = call.vpath
    BY <1>2, <2>1 DEF CrawlInv, FileInHand
  <2>10. \A i \in I : fileList[i] \in DOMAIN node /\ (i # L => fileList[i] # a)
    <3> TAKE i \in I
    <3>1. i \in 1..L /\ L \in 1..L
      BY <2>2, <2>6
    <3>2. node[fileList[i]].id = i - 1 /\ node[fileList[L]].id = L - 1
      BY <3>1 DEF ApiInv, FileListExact
    <3>3. fileList[i] \in DOMAIN node
      BY <2>2, <3>1
    <3> QED BY <2>2, <2>5, <3>1, <3>2, <3>3
  <2> HIDE DEF a, b, L, I, new
  <2>11. \A x : IsAdded(x) <=> \E i \in I : /\ node[fileList[i]].data # Null
                                            /\ x = <<node[fileList[i]].path, heap[node[fileList[i]].data]>>
    BY DEF IsAdded, I, L
  <2>12. \A x : IsAdded(x)' <=> \E i \in I : /\ node'[fileList[i]].data # Null
                                             /\ x = <<node'[fileList[i]].path, heap[node'[fileList[i]].data]>>
    BY <1>2, <2>7 DEF IsAdded, I, L
  <2>13. <<node'[fileList[L]].path, heap[node'[fileList[L]].data]>> = new
         /\ node'[fileList[L]].data # Null
    BY <2>4, <2>5, <2>8, <2>9 DEF new
  <2>14. \A i \in I : i # L =>
           node'[fileList[i]].path = node[fileList[i]].path
           /\ node'[fileList[i]].data = node[fileList[i]].data
    BY <2>8, <2>10
  <2>15. ASSUME NEW x PROVE IsAdded(x)' <=> IsAdded(x) \/ x = new
    <3>1. ASSUME IsAdded(x)' PROVE IsAdded(x) \/ x = new
      <4>1. PICK i \in I : /\ node'[fileList[i]].data # Null
                           /\ x = <<node'[fileList[i]].path, heap[node'[fileList[i]].data]>>
        BY <2>12, <3>1
      <4>2. CASE i = L
        BY <2>13, <4>1, <4>2
      <4>3. CASE i # L
        <5>1. /\ node[fileList[i]].data # Null
              /\ x = <<node[fileList[i]].path, heap[node[fileList[i]].data]>>
          BY <2>14, <4>1, <4>3
        <5> QED BY <2>11, <5>1
      <4> QED BY <4>2, <4>3
    <3>2. ASSUME IsAdded(x) PROVE IsAdded(x)'
      <4>1. PICK i \in I : /\ node[fileList[i]].data # Null
                           /\ x = <<node[fileList[i]].path, heap[node[fileList[i]].data]>>
        BY <2>11, <3>2
      <4>2. i # L
        BY <2>5, <4>1
      <4>3. /\ node'[fileList[i]].data # Null
            /\ x = <<node'[fileList[i]].path, heap[node'[fileList[i]].data]>>
        BY <2>14, <4>1, <4>2
      <4> QED BY <2>12, <4>3
    <3>3. x = new => IsAdded(x)'
      BY <2>6, <2>12, <2>13
    <3> QED BY <3>1, <3>2, <3>3
  <2>16. \A x : InHand(x) <=> x = new
    <3>1. Under(call.vpath, call.obj) = {new}
      BY <2>2, <2>9, UnderUnfold DEF Kind, new
    <3> QED BY <2>1, <3>1 DEF InHand
  <2>17. \A x : x \in Under(last.vpath, last.src) <=>
                  IsAdded(x) \/ InHand(x) \/ Ahead(call.frames, x)
    BY <2>1 DEF CrawlInv, Balance, Crawling
  <2>18. \A x : x \in Under(last.vpath, last.src) <=> IsAdded(x)' \/ Ahead(call.frames, x)
    BY <2>15, <2>16, <2>17
  <2>19. \A i \in I : node'[fileList[i]].data \in Buffer \cup {Null}
    <3>1. \A i \in I : node[fileList[i]].data \in Buffer \cup {Null}
      BY <2>1 DEF CrawlInv, OwnBuffers, Crawling, I, L
    <3> QED BY <2>3, <2>5, <2>8, <2>14, <3>1
  <2>20. \A i \in (last.first + 1)..Len(fileList') : node'[fileList'[i]].data \in Buffer \cup {Null}
    BY <2>7, <2>19 DEF I, L
  <2> QED BY <1>2, <2>1, <2>2, <2>18, <2>20, CrawlReturn
<1> QED BY <1>1, <1>2 DEF FileAdded

LEMMA CrawlNext ==
    ASSUME <<>> \notin RegPath, OnlyDotsSkipped, NoCycle, ApiInv, ApiInv', TreeInv, OwnInv,
           CountInv, CountInv', CrawlInv, [ApiNext]_allVars
    PROVE  CrawlInv'
<1>1. CASE RegisterStep
  BY <1>1, CrawlRegister
<1>2. CASE Refuse
  <2>1. last'.op # "path"
    BY <1>2 DEF Refuse, NoResult
  <2> QED BY <2>1, CrawlOther
<1>3. CASE MSHUTDOWN
  <2>1. call'.pc = "idle" /\ shut'
    BY <1>3 DEF MSHUTDOWN, Idle
  <2> QED BY <2>1 DEF CrawlInv, Balance, OwnBuffers, FileInHand, CrawlComplete, Crawling
<1>4. CASE \/ BeginRequests /\ UNCHANGED apiVars
           \/ UNCHANGED allVars
           \/ \E t \in Thread :
                 ((\E p \in LookupPath : Lookup(t, p)) \/ LookupStep(t)) /\ UNCHANGED apiVars
  <2>1. UNCHANGED <<call, last, node, fileList, heap, shut, adding>>
    BY <1>4 DEF allVars, apiVars, BeginRequests, Lookup, LookupStep, FindHit, FindMiss, WalkFail,
                WalkOn, WalkEnd, Lock, Write, LookupReturn
  <2> QED BY <2>1, CrawlElse
<1>5. CASE SourceFails \/ BadVersion
  <2>1. Fail
    BY <1>5 DEF SourceFails, BadVersion
  <2> QED BY <2>1, CrawlFail DEF ApiInv
<1>6. CASE (SubNodeForbidden \/ SubNodeExists \/ SubNodeCreate) /\ UNCHANGED apiVars
  <2>1. CASE call.pc \in Crawling
    BY <1>6, <2>1, CrawlSubNode
  <2>2. CASE call.pc \notin Crawling
    <3>1. call.pc \in Adding
      BY <1>6 DEF ApiInv, CallInv, AddingInCall, SubNodeForbidden, SubNodeExists, SubNodeCreate
    <3>2. last'.op # "path"
      BY <1>6, <2>2, <3>1 DEF CountInv, Counted, Adding, Crawling, apiVars
    <3> QED BY <3>2, CrawlOther
  <2> QED BY <2>1, <2>2
<1>7. CASE EmbeddedEnd \/ AddDescriptor \/ DescriptorAdded \/ DataAdded
  <2>1. CASE Fail
    BY <2>1, CrawlFail DEF ApiInv
  <2>2. CASE ~Fail
    <3>1. last.op # "path"
      BY <1>7 DEF EmbeddedEnd, AddDescriptor, DescriptorAdded, DataAdded, CountInv, Counted
    <3>2. CASE EmbeddedEnd
      <4>1. Return(<<>>, call.count) /\ call.count \in Nat
        BY <3>2 DEF EmbeddedEnd, ApiInv, CallInv, ApiTypeOK
      <4> QED BY <3>1, <4>1, ReturnLast, CrawlOther DEF ApiInv
    <3>3. CASE DataAdded
      <4>1. Return(<<>>, node[adding.at].id) /\ adding.status = "ok" /\ adding.type = "file"
        BY <2>2, <3>3 DEF DataAdded, ApiInv, CallInv, AddingInCall, Adding
      <4>2. node[adding.at].id = Len(fileList) - 1 /\ Len(fileList) \in Nat \ {0}
        BY <4>1, NewestID DEF ApiInv
      <4>3. node[adding.at].id \in Nat
        BY <4>2
      <4> QED BY <3>1, <4>1, <4>3, ReturnLast, CrawlOther DEF ApiInv
    <3>4. CASE AddDescriptor \/ DescriptorAdded
      <4>1. UNCHANGED last
        BY <2>2, <3>4 DEF AddDescriptor, DescriptorAdded
      <4> QED BY <3>1, <4>1, CrawlOther
    <3> QED BY <1>7, <3>2, <3>3, <3>4
  <2> QED BY <2>1, <2>2
<1>8. CASE CallStep
  BY <1>5, <1>6, <1>7, <1>8, CrawlBeginAdd, CrawlEntryStep, CrawlAllocate, CrawlIgnored,
     CrawlDirAdded, CrawlFileAdded DEF CallStep
<1> QED BY <1>1, <1>2, <1>3, <1>4, <1>8 DEF ApiNext, RegisterStep

\* The counts, the owners of buffers and the balance of a crawl together.
LEMMA CrawlInvariant ==
    ASSUME <<>> \notin RegPath, OnlyDotsSkipped, NoCycle
    PROVE  ApiSpec => []CrawlInv
<1>1. ApiInit => TreeInv /\ CountInv /\ OwnInv /\ CrawlInv
  <2> SUFFICES ASSUME ApiInit PROVE TreeInv /\ CountInv /\ OwnInv /\ CrawlInv
    OBVIOUS
  <2>1. call = NoCall /\ last = NoResult
    BY DEF ApiInit
  <2>2. CountInv
    BY <2>1 DEF NoCall, NoResult, CountInv, Counted, DataPath, ReturnExact
  <2>3. CrawlInv
    BY <2>1 DEF NoCall, NoResult, CrawlInv, Balance, OwnBuffers, FileInHand, CrawlComplete, Crawling
  <2> QED BY <2>2, <2>3, TreeInit, OwnInit DEF ApiInit
<1>2. ApiInv /\ TreeInv /\ CountInv /\ [ApiNext]_allVars => CountInv' /\ TreeInv'
  <2> SUFFICES ASSUME ApiInv, TreeInv, CountInv, [ApiNext]_allVars PROVE CountInv' /\ TreeInv'
    OBVIOUS
  <2>1. [Next]_vars
    BY ApiStepIsTreeStep DEF ApiInv, CallInv
  <2> QED BY <2>1, CountNext, TreeNext
<1>3. ApiInv /\ OwnInv /\ [ApiNext]_allVars => OwnInv'
  BY OwnNext
<1>4. /\ ApiInv /\ ApiInv' /\ TreeInv /\ OwnInv /\ CountInv /\ CountInv' /\ CrawlInv
      /\ [ApiNext]_allVars
      => CrawlInv'
  BY CrawlNext
<1> QED BY <1>1, <1>2, <1>3, <1>4, ApiInvariant, PTL DEF ApiSpec

\* "If it is a directory, the subtree is recursively crawled and registered"
\* (client.h:82): a registerPath call that succeeds has added exactly the regular
\* files below its source, each at its place and with its contents, for every disk
\* without cycles, in whatever order the entries come (CrawlComplete).
THEOREM CrawlIsComplete ==
    ASSUME <<>> \notin RegPath, OnlyDotsSkipped, NoCycle
    PROVE  ApiSpec => []CrawlComplete
<1>1. CrawlInv => CrawlComplete
  BY DEF CrawlInv
<1> QED BY <1>1, CrawlInvariant, PTL

=============================================================================
