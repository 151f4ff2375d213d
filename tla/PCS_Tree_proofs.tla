-------------------------- MODULE PCS_Tree_proofs --------------------------
(***************************************************************************)
(* Proofs about PCS_Tree.                                                  *)
(***************************************************************************)
EXTENDS PCS_Tree, Induction, SequenceTheorems, TLAPS

-----------------------------------------------------------------------------
\* Type correctness.  TypeOK alone is not inductive: an addition in progress
\* must stand on a directory with a segment left, a walk on a directory with
\* its index inside the path, and every link must lead to an allocated node.

LinksOK ==
    \A n \in DOMAIN node :
        /\ node[n].parent \in DOMAIN node \cup {Null}
        /\ \A s \in DOMAIN node[n].items : node[n].items[s] \in DOMAIN node

AddingOK ==
    /\ adding.status = "run" =>
          adding.at \in DOMAIN node /\ IsDir(adding.at) /\ adding.rest # <<>>
    /\ adding.status = "ok" => adding.at \in DOMAIN node

LookOK ==
    \A t \in Thread :
        /\ look[t].pc = "walk" =>
              look[t].at \in DOMAIN node /\ look[t].k \in 1..Len(look[t].path)
        /\ look[t].pc = "find" => look[t].path # <<>>
        /\ look[t].pc \in {"lock", "write"} => look[t].at \in DOMAIN node

RootOK == Root \in DOMAIN node /\ IsDir(Root)

TypeInv == TypeOK /\ RootOK /\ LinksOK /\ AddingOK /\ LookOK

\* The initial states are well typed.
LEMMA TypeInit == Init => TypeInv
<1> SUFFICES ASSUME Init PROVE TypeInv
    OBVIOUS
<1> USE AddrAssumption, ThreadAssumption
<1>1. EmptyFcn \in UNION {[S -> Addr] : S \in SUBSET Segment}
  <2>1. EmptyFcn \in [{} -> Addr]
    BY DEF EmptyFcn
  <2> QED
    BY <2>1
<1>2. DOMAIN node = {Root} /\ node[Root] \in PCS_Node(Addr)
  BY <1>1 DEF Init, PCS_Node, NodeType
<1>3. /\ DOMAIN pathList = {<<>>}
      /\ pathList[<<>>] = [node |-> Root, copies |-> 1]
  BY DEF Init
<1>4. TypeOK
  BY <1>2, <1>3 DEF Init, TypeOK, NoAdd, NoLookup, NodeType
<1>5. LinksOK
  BY <1>2 DEF Init, LinksOK, EmptyFcn
<1>6. AddingOK /\ LookOK
  BY DEF Init, AddingOK, LookOK, NoAdd, NoLookup
<1>7. RootOK
  BY DEF Init, RootOK, IsDir
<1> QED
  BY <1>4, <1>5, <1>6, <1>7 DEF TypeInv

\* The next state of an addition that goes down to node n.
LEMMA DescendType ==
    ASSUME TypeInv, NEW n, n \in DOMAIN node', DOMAIN node \subseteq DOMAIN node',
           adding.status = "run", Descend(n),
           Len(adding.rest) # 1 => node'[n].type = "dir"
    PROVE  /\ adding' \in [status : {"idle", "run", "ok", "failed"},
                           at : DOMAIN node' \cup {Null}, rest : Seq(Segment),
                           type : NodeType, data : Data \cup {Null}]
           /\ AddingOK'
<1>1. /\ adding.rest \in Seq(Segment) /\ adding.rest # <<>>
      /\ Tail(adding.rest) \in Seq(Segment)
      /\ Len(adding.rest) # 1 => Tail(adding.rest) # <<>>
  <2>1. adding.rest \in Seq(Segment) /\ adding.rest # <<>>
    BY DEF TypeInv, TypeOK, AddingOK
  <2>2. /\ Tail(adding.rest) \in Seq(Segment)
        /\ Len(Tail(adding.rest)) = Len(adding.rest) - 1
    BY <2>1, HeadTailProperties
  <2>3. Len(adding.rest) \in Nat /\ Len(adding.rest) # 0
    BY <2>1
  <2>4. Tail(adding.rest) = <<>> => Len(Tail(adding.rest)) = 0
    BY EmptySeq, Zenon
  <2> QED
    BY <2>1, <2>2, <2>3, <2>4
<1>2. adding.type \in NodeType /\ adding.data \in Data \cup {Null}
  BY DEF TypeInv, TypeOK
<1>3. adding' = [status |-> IF Len(adding.rest) = 1 THEN "ok" ELSE "run", at |-> n,
                 rest |-> Tail(adding.rest), type |-> adding.type, data |-> adding.data]
  BY DEF TypeInv, TypeOK, Descend
<1> QED
  BY <1>1, <1>2, <1>3 DEF AddingOK, IsDir

\* What the creation of a subnode does to the nodes.
LEMMA CreateEffect ==
    ASSUME TypeInv, SubNodeCreate
    PROVE  /\ FreeAddr \in Addr \ DOMAIN node
           /\ adding.at \in DOMAIN node
           /\ Name \in Segment \ {Dot, DotDot}
           /\ DOMAIN node' = DOMAIN node \cup {FreeAddr}
           /\ node'[FreeAddr] = NewNode(Name)
           /\ \A n \in DOMAIN node \ {adding.at} : node'[n] = node[n]
           /\ node'[adding.at] =
                [node[adding.at] EXCEPT !.items = Put(node[adding.at].items, Name, FreeAddr)]
<1>1. DOMAIN node \subseteq Addr /\ DOMAIN node # Addr
  BY DEF TypeInv, TypeOK, SubNodeCreate
<1>2. FreeAddr \in Addr \ DOMAIN node
  BY <1>1 DEF FreeAddr
<1>3. adding.at \in DOMAIN node
  BY DEF TypeInv, AddingOK, SubNodeCreate
<1>4. Name \in Segment \ {Dot, DotDot}
  BY DEF TypeInv, TypeOK, AddingOK, SubNodeCreate, Name, IsForbidden
<1>5. node' = Put(Linked(FreeAddr, Name), FreeAddr, NewNode(Name))
  BY DEF SubNodeCreate
<1> QED
  BY <1>2, <1>3, <1>4, <1>5 DEF Put, Linked

\* Binding a path to an allocated node keeps pathList well typed.
LEMMA ListedType ==
    ASSUME TypeInv, NEW p \in Seq(Segment), NEW n, n \in DOMAIN node',
           DOMAIN node \subseteq DOMAIN node', pathList' = Listed(p, n)
    PROVE  /\ DOMAIN pathList' = DOMAIN pathList \cup {p}
           /\ DOMAIN pathList' \subseteq Seq(Segment)
           /\ \A q \in DOMAIN pathList' :
                pathList'[q] \in [node : DOMAIN node', copies : Nat \ {0}]
<1>1. Copies(p) \in Nat
  BY DEF Copies, TypeInv, TypeOK
<1> QED
  BY <1>1 DEF Listed, Put, TypeInv, TypeOK

\* Every step keeps TypeInv.
LEMMA TypeNext == TypeInv /\ [Next]_vars => TypeInv'
<1> SUFFICES ASSUME TypeInv, [Next]_vars PROVE TypeInv'
    OBVIOUS
<1> USE AddrAssumption, PathAssumption, DataAssumption, ThreadAssumption
<1>1. ASSUME NEW p \in RegPath, NEW type \in NodeType, NEW data \in Data \cup {Null},
             AddNode(p, type, data)
      PROVE  TypeInv'
  <2>1. /\ (IF p = <<>> THEN <<Empty>> ELSE p) \in Seq(Segment)
        /\ (IF p = <<>> THEN <<Empty>> ELSE p) # <<>>
    <3>1. <<Empty>> \in Seq(Segment) /\ <<Empty>> # <<>>
      BY DEF Segment
    <3>2. p \in Seq(Segment)
      BY DEF Segment
    <3> QED
      BY <3>1, <3>2
  <2>2. adding' \in [status : {"run"}, at : {Root}, rest : Seq(Segment) \ {<<>>},
                    type : NodeType, data : Data \cup {Null}]
    BY <1>1, <2>1 DEF AddNode
  <2>3. UNCHANGED <<node, pathList, fileList, look, mutex, in_startup>>
    BY <1>1 DEF AddNode
  <2>4. TypeOK'
    BY <2>2, <2>3 DEF TypeInv, TypeOK, RootOK
  <2>5. AddingOK'
    BY <2>2, <2>3 DEF TypeInv, AddingOK, IsDir, RootOK
  <2> QED
    BY <2>3, <2>4, <2>5 DEF TypeInv, LinksOK, LookOK, RootOK, IsDir
<1>2. CASE SubNodeForbidden
  <2>1. adding' = [adding EXCEPT !.status = "failed", !.at = Null]
    BY <1>2 DEF SubNodeForbidden, Reject
  <2>2. UNCHANGED <<node, pathList, fileList, look, mutex, in_startup>>
    BY <1>2 DEF SubNodeForbidden
  <2> QED
    BY <2>1, <2>2 DEF TypeInv, TypeOK, AddingOK, LinksOK, LookOK, RootOK, IsDir
<1>3. CASE SubNodeExists
  <2> DEFINE old == Entry(adding.at, Name)
  <2>1. UNCHANGED <<node, pathList, fileList, look, mutex, in_startup>>
    BY <1>3 DEF SubNodeExists
  <2>2. old \in DOMAIN node
    BY <1>3 DEF SubNodeExists, Entry, TypeInv, LinksOK, AddingOK
  <2>3. CASE MayReuse(old, SubType)
    <3>1. Descend(old) /\ adding.status = "run"
      BY <1>3, <2>3 DEF SubNodeExists
    <3>2. node'[old].type = "dir"
      BY <2>1, <2>3 DEF MayReuse, IsDir
    <3>3. /\ AddingOK'
          /\ adding' \in [status : {"idle", "run", "ok", "failed"},
                           at : DOMAIN node' \cup {Null}, rest : Seq(Segment),
                           type : NodeType, data : Data \cup {Null}]
      BY <2>1, <2>2, <3>1, <3>2, DescendType
    <3> QED
      BY <2>1, <3>3 DEF TypeInv, TypeOK, LinksOK, LookOK, RootOK, IsDir
  <2>4. CASE ~MayReuse(old, SubType)
    <3>1. adding' = [adding EXCEPT !.status = "failed", !.at = Null]
      BY <1>3, <2>4 DEF SubNodeExists, Reject
    <3> QED
      BY <2>1, <3>1 DEF TypeInv, TypeOK, AddingOK, LinksOK, LookOK, RootOK, IsDir
  <2> QED
    BY <2>3, <2>4
<1>4. CASE SubNodeCreate
  <2> DEFINE a == FreeAddr
             at == adding.at
  <2>1. UNCHANGED <<look, mutex, in_startup>> /\ Descend(a) /\ adding.status = "run"
    BY <1>4 DEF SubNodeCreate
  <2>2. /\ a \in Addr \ DOMAIN node /\ at \in DOMAIN node
        /\ Name \in Segment \ {Dot, DotDot}
        /\ DOMAIN node' = DOMAIN node \cup {a}
        /\ node'[a] = NewNode(Name)
        /\ \A n \in DOMAIN node \ {at} : node'[n] = node[n]
        /\ node'[at] = [node[at] EXCEPT !.items = Put(node[at].items, Name, a)]
    BY <1>4, CreateEffect
  <2>3. ChildPath(at, Name) \in Seq(Segment)
    BY <2>2 DEF ChildPath, TypeInv, TypeOK, PCS_Node
  <2>4. SubType \in NodeType /\ (Len(adding.rest) # 1 => SubType = "dir")
    BY DEF SubType, NodeType, TypeInv, TypeOK
  <2>5. fileList \in Seq(DOMAIN node) /\ Len(fileList) \in Nat
    BY DEF TypeInv, TypeOK
  <2>6. node'[a] \in PCS_Node(Addr)
    <3>1. EmptyFcn \in UNION {[S -> Addr] : S \in SUBSET Segment}
      <4>1. EmptyFcn \in [{} -> Addr]
        BY DEF EmptyFcn
      <4> QED
        BY <4>1
    <3> QED
      BY <2>2, <2>3, <2>4, <2>5, <3>1 DEF NewNode, PCS_Node, TypeInv, TypeOK
  <2>7. /\ node'[at] \in PCS_Node(Addr) /\ node'[at].type = node[at].type
        /\ node'[at].parent = node[at].parent
        /\ node'[at].items = Put(node[at].items, Name, a)
    <3>1. node[at] \in PCS_Node(Addr)
      BY <2>2 DEF TypeInv, TypeOK
    <3>2. PICK S \in SUBSET Segment : node[at].items \in [S -> Addr]
      BY <3>1 DEF PCS_Node
    <3>3. Put(node[at].items, Name, a) \in UNION {[R -> Addr] : R \in SUBSET Segment}
      <4>1. /\ Put(node[at].items, Name, a) \in [S \cup {Name} -> Addr]
            /\ S \cup {Name} \in SUBSET Segment
        <5>1. a \in Addr /\ Name \in Segment
          BY <2>2
        <5> HIDE DEF a, at
        <5> QED
          BY <3>2, <5>1 DEF Put
      <4> QED
        BY <4>1
    <3> QED
      BY <2>2, <3>1, <3>3 DEF PCS_Node
  <2>8. \A n \in DOMAIN node' : node'[n] \in PCS_Node(Addr)
    BY <2>2, <2>6, <2>7 DEF TypeInv, TypeOK
  <2>9. /\ DOMAIN pathList' \subseteq Seq(Segment)
        /\ \A q \in DOMAIN pathList' :
             pathList'[q] \in [node : DOMAIN node', copies : Nat \ {0}]
    <3>1. pathList' = Listed(ChildPath(at, Name), a)
      BY <1>4 DEF SubNodeCreate
    <3> HIDE DEF a, at
    <3> QED
      BY <2>2, <2>3, <3>1, ListedType
  <2>10. fileList' \in Seq(DOMAIN node')
    <3>1. fileList' = IF SubType = "file" THEN Append(fileList, a) ELSE fileList
      BY <1>4 DEF SubNodeCreate
    <3> QED
      BY <2>2, <2>5, <3>1
  <2>11. /\ AddingOK'
         /\ adding' \in [status : {"idle", "run", "ok", "failed"},
                         at : DOMAIN node' \cup {Null}, rest : Seq(Segment),
                         type : NodeType, data : Data \cup {Null}]
    <3>1. Len(adding.rest) # 1 => node'[a].type = "dir"
      BY <2>2, <2>4 DEF NewNode
    <3> HIDE DEF a, at
    <3> QED
      BY <2>1, <2>2, <3>1, DescendType
  <2>12. TypeOK'
    BY <2>1, <2>2, <2>8, <2>9, <2>10, <2>11 DEF TypeInv, TypeOK
  <2>13. LinksOK'
    <3>1. \A n \in DOMAIN node : node'[n].parent = node[n].parent
      BY <2>2, <2>7
    <3>2. node'[a].parent = at /\ DOMAIN node'[a].items = {}
      BY <2>2 DEF NewNode, EmptyFcn
    <3>3. \A s \in DOMAIN node'[at].items : node'[at].items[s] \in DOMAIN node'
      BY <2>2, <2>7 DEF Put, TypeInv, LinksOK
    <3> QED
      BY <2>2, <3>1, <3>2, <3>3 DEF TypeInv, LinksOK
  <2>14. RootOK' /\ LookOK'
    BY <2>1, <2>2, <2>7 DEF TypeInv, RootOK, LookOK, IsDir
  <2> QED
    BY <2>11, <2>12, <2>13, <2>14 DEF TypeInv
<1>5. CASE AddReturn
  <2>1. UNCHANGED <<pathList, fileList, look, mutex, in_startup>> /\ adding' = NoAdd
    BY <1>5 DEF AddReturn
  <2>2. /\ DOMAIN node' = DOMAIN node
        /\ \A n \in DOMAIN node : /\ node'[n] \in PCS_Node(Addr)
                                 /\ node'[n].type = node[n].type
                                 /\ node'[n].parent = node[n].parent
                                 /\ node'[n].items = node[n].items
    <3>1. CASE node' = node
      BY <3>1 DEF TypeInv, TypeOK
    <3>2. CASE adding.status = "ok" /\ node' = [node EXCEPT ![adding.at].data = adding.data]
      <4>1. adding.at \in DOMAIN node /\ adding.data \in Data \cup {Null}
        BY <3>2 DEF TypeInv, TypeOK, AddingOK
      <4>2. node[adding.at] \in PCS_Node(Addr)
        BY <4>1 DEF TypeInv, TypeOK
      <4>3. node'[adding.at] = [node[adding.at] EXCEPT !.data = adding.data]
        BY <3>2, <4>1
      <4>4. \A n \in DOMAIN node \ {adding.at} : node'[n] = node[n]
        BY <3>2
      <4> QED
        BY <3>2, <4>1, <4>2, <4>3, <4>4 DEF TypeInv, TypeOK, PCS_Node
    <3> QED
      BY <1>5, <3>1, <3>2 DEF AddReturn
  <2>3. TypeOK'
    BY <2>1, <2>2 DEF TypeInv, TypeOK, NoAdd, NodeType
  <2>4. LinksOK' /\ RootOK' /\ LookOK'
    BY <2>1, <2>2 DEF TypeInv, LinksOK, RootOK, LookOK, IsDir
  <2>5. AddingOK'
    BY <2>1 DEF AddingOK, NoAdd
  <2> QED
    BY <2>3, <2>4, <2>5 DEF TypeInv
<1>6. CASE BeginRequests
  BY <1>6 DEF BeginRequests, TypeInv, TypeOK, LinksOK, RootOK, AddingOK, LookOK, IsDir
<1>7. ASSUME NEW t \in Thread, NEW p \in LookupPath, Lookup(t, p)
      PROVE  TypeInv'
  <2>1. UNCHANGED <<node, pathList, fileList, adding, mutex, in_startup>>
    BY <1>7 DEF Lookup
  <2>2. look' = [look EXCEPT ![t] = [pc |-> IF p = <<>> THEN "done" ELSE "find",
                                     path |-> p, k |-> 0, at |-> Root]]
    BY <1>7 DEF Lookup
  <2>3. p \in Seq(Segment)
    BY DEF Segment
  <2>4. TypeOK'
    BY <2>1, <2>2, <2>3 DEF TypeInv, TypeOK, RootOK
  <2>5. LookOK'
    BY <2>1, <2>2, <2>3 DEF TypeInv, TypeOK, LookOK
  <2> QED
    BY <2>1, <2>4, <2>5 DEF TypeInv, LinksOK, RootOK, AddingOK, IsDir
<1>8. ASSUME NEW t \in Thread, LookupStep(t)
      PROVE  TypeInv'
  <2> DEFINE Sound(pc, n, k) ==
        /\ pc \in {"idle", "find", "walk", "lock", "write", "done"} /\ k \in Nat
        /\ n \in DOMAIN node \cup {Null}
        /\ pc # "find"
        /\ pc = "walk" => n \in DOMAIN node /\ k \in 1..Len(look[t].path)
        /\ pc \in {"lock", "write"} => n \in DOMAIN node
  <2>1. look[t] \in [pc : {"idle", "find", "walk", "lock", "write", "done"},
                     path : Seq(Segment), k : Nat, at : DOMAIN node \cup {Null}]
    BY DEF TypeInv, TypeOK
  <2>2. ASSUME NEW pc, NEW n, NEW k, Goto(t, pc, n, k), Sound(pc, n, k),
               UNCHANGED <<node, pathList, fileList, adding, mutex, in_startup>>
        PROVE  TypeInv'
    <3>1. look' = [look EXCEPT ![t] =
                     [pc |-> pc, path |-> look[t].path, k |-> k, at |-> n]]
      BY <2>1, <2>2 DEF Goto, TypeInv, TypeOK
    <3>2. TypeOK'
      BY <2>1, <2>2, <3>1 DEF TypeInv, TypeOK
    <3>3. LookOK'
      BY <2>1, <2>2, <3>1 DEF TypeInv, TypeOK, LookOK
    <3> QED
      BY <2>2, <3>2, <3>3 DEF TypeInv, LinksOK, RootOK, AddingOK, IsDir
  <2>3. CASE FindHit(t)
    <3>1. pathList[look[t].path].node \in DOMAIN node
      BY <2>3 DEF FindHit, TypeInv, TypeOK
    <3> QED
      BY <2>2, <2>3, <3>1 DEF FindHit
  <2>4. CASE FindMiss(t)
    <3>1. look[t].path # <<>>
      BY <2>4 DEF FindMiss, TypeInv, LookOK
    <3>2. 1 \in 1..Len(look[t].path)
      BY <2>1, <3>1
    <3> QED
      BY <2>2, <2>4, <3>2 DEF FindMiss, TypeInv, RootOK
  <2>5. CASE WalkFail(t)
    BY <2>2, <2>5 DEF WalkFail
  <2>6. ASSUME look[t].pc = "walk"
        PROVE  Target(t) \in DOMAIN node \cup {Null}
    <3>1. look[t].at \in DOMAIN node
      BY <2>6 DEF TypeInv, LookOK
    <3> QED
      BY <3>1 DEF Target, Follow, Entry, TypeInv, LinksOK
  <2>7. CASE WalkOn(t)
    <3>1. Target(t) \in DOMAIN node /\ look[t].k + 1 \in 1..Len(look[t].path)
      BY <2>1, <2>6, <2>7 DEF WalkOn, Reaches, AtEnd, TypeInv, LookOK
    <3> QED
      BY <2>2, <2>7, <3>1 DEF WalkOn
  <2>8. CASE WalkEnd(t)
    <3>1. Target(t) \in DOMAIN node
      BY <2>6, <2>8 DEF WalkEnd, Reaches
    <3> QED
      BY <2>2, <2>8, <3>1 DEF WalkEnd
  <2>9. CASE Lock(t) \/ Write(t)
    <3>1. look[t].at \in DOMAIN node
      BY <2>9 DEF Lock, Write, TypeInv, LookOK
    <3>2. PICK pc \in {"write", "done"} :
            look' = [look EXCEPT ![t] =
                       [pc |-> pc, path |-> look[t].path, k |-> 0, at |-> look[t].at]]
      BY <2>1, <2>9 DEF Lock, Write, Goto, TypeInv, TypeOK
    <3>3. UNCHANGED <<node, fileList, adding, in_startup>> /\ mutex' \in {t, Null}
      BY <2>9 DEF Lock, Write
    <3>4. /\ DOMAIN pathList' \subseteq Seq(Segment)
          /\ \A q \in DOMAIN pathList' :
               pathList'[q] \in [node : DOMAIN node', copies : Nat \ {0}]
      <4>1. CASE Lock(t)
        BY <3>3, <4>1 DEF Lock, TypeInv, TypeOK
      <4>2. CASE Write(t)
        BY <2>1, <3>1, <3>3, <4>2, ListedType DEF Write
      <4> QED
        BY <2>9, <4>1, <4>2
    <3>5. TypeOK'
      BY <2>1, <3>1, <3>2, <3>3, <3>4 DEF TypeInv, TypeOK
    <3>6. LookOK'
      BY <2>1, <3>1, <3>2, <3>3 DEF TypeInv, TypeOK, LookOK
    <3> QED
      BY <3>3, <3>5, <3>6 DEF TypeInv, LinksOK, RootOK, AddingOK, IsDir
  <2>10. CASE LookupReturn(t)
    <3>1. look' = [look EXCEPT ![t] = NoLookup]
      BY <2>10 DEF LookupReturn
    <3>2. UNCHANGED <<node, pathList, fileList, adding, mutex, in_startup>>
      BY <2>10 DEF LookupReturn
    <3>3. TypeOK' /\ LookOK'
      BY <3>1, <3>2 DEF TypeInv, TypeOK, LookOK, NoLookup
    <3> QED
      BY <3>2, <3>3 DEF TypeInv, LinksOK, RootOK, AddingOK, IsDir
  <2> QED
    BY <1>8, <2>3, <2>4, <2>5, <2>7, <2>8, <2>9, <2>10 DEF LookupStep
<1>9. CASE UNCHANGED vars
  BY <1>9 DEF vars, TypeInv, TypeOK, LinksOK, RootOK, AddingOK, LookOK, IsDir
<1> QED
  BY <1>1, <1>2, <1>3, <1>4, <1>5, <1>6, <1>7, <1>8, <1>9 DEF Next, AddStep, NodeType

\* In every reachable state of every instance the state is well typed: nodes,
\* pathList, fileList, the addition and the lookups in progress (TypeOK).
THEOREM TypeCorrect == Spec => []TypeOK
<1>1. TypeInv => TypeOK
  BY DEF TypeInv
<1> QED
  BY TypeInit, TypeNext, <1>1, PTL DEF Spec

-----------------------------------------------------------------------------
\* The shape of the tree.  All that follows is about registrations at
\* non-empty paths: the empty path makes the code add an entry without a name.

\* The segments left to add come from a registered path.
NamesOK ==
    adding.status = "run" => adding.rest \in Seq(EntryName \cup {Dot, DotDot})

ShapeInv == TypeInv /\ NamesOK /\ TreeShape /\ PathListExact

\* A step that allocates no node and only stores data in one.
SameTree ==
    /\ DOMAIN node' = DOMAIN node
    /\ \A n \in DOMAIN node :
          /\ node'[n].type = node[n].type /\ node'[n].parent = node[n].parent
          /\ node'[n].path = node[n].path /\ node'[n].items = node[n].items
          /\ node'[n].id = node[n].id
    /\ fileList' = fileList

\* A step creates a node, or leaves the tree as it is and at most writes to
\* pathList on behalf of one lookup.
LEMMA StepKinds ==
    ASSUME TypeInv, [Next]_vars
    PROVE  \/ SubNodeCreate
           \/ SameTree /\ (UNCHANGED pathList \/ \E t \in Thread : Write(t))
<1>1. CASE AddReturn
  <2>1. UNCHANGED <<pathList, fileList>>
    BY <1>1 DEF AddReturn
  <2>2. CASE node' = node
    BY <2>1, <2>2 DEF SameTree
  <2>3. CASE node' = [node EXCEPT ![adding.at].data = adding.data] /\ adding.status = "ok"
    <3>1. adding.at \in DOMAIN node /\ node[adding.at] \in PCS_Node(Addr)
      BY <2>3 DEF TypeInv, AddingOK, TypeOK
    <3>2. /\ DOMAIN node' = DOMAIN node
          /\ node'[adding.at] = [node[adding.at] EXCEPT !.data = adding.data]
          /\ \A n \in DOMAIN node \ {adding.at} : node'[n] = node[n]
      BY <2>3, <3>1
    <3> DEFINE Same(m, n) == /\ m.type = n.type /\ m.parent = n.parent
                             /\ m.path = n.path /\ m.items = n.items /\ m.id = n.id
    <3>3. Same(node'[adding.at], node[adding.at])
      BY <3>1, <3>2 DEF PCS_Node
    <3>4. \A n \in DOMAIN node \ {adding.at} : Same(node'[n], node[n])
      BY <3>2
    <3> QED
      BY <2>1, <3>2, <3>3, <3>4 DEF SameTree
  <2>4. \/ node' = node
        \/ node' = [node EXCEPT ![adding.at].data = adding.data] /\ adding.status = "ok"
    BY <1>1 DEF AddReturn
  <2> QED
    BY <2>1, <2>2, <2>3, <2>4
<1>2. CASE UNCHANGED <<node, fileList>>
  <2>1. SameTree
    BY <1>2 DEF SameTree
  <2>2. SubNodeCreate \/ UNCHANGED pathList \/ \E t \in Thread : Write(t)
    BY DEF Next, vars, AddNode, AddStep, SubNodeForbidden, SubNodeExists, AddReturn,
           BeginRequests, Lookup, LookupStep, FindHit, FindMiss, WalkFail, WalkOn,
           WalkEnd, Lock, LookupReturn
  <2> QED
    BY <2>1, <2>2
<1>3. SubNodeCreate \/ AddReturn \/ UNCHANGED <<node, fileList>>
  BY DEF Next, vars, AddNode, AddStep, SubNodeForbidden, SubNodeExists,
         BeginRequests, Lookup, LookupStep, FindHit, FindMiss, WalkFail, WalkOn,
         WalkEnd, Lock, Write, LookupReturn
<1> QED
  BY <1>1, <1>2, <1>3

\* What is left of a registered path stays made of segments of that path.
LEMMA NamesNext ==
    ASSUME <<>> \notin RegPath, TypeInv, NamesOK, [Next]_vars
    PROVE  NamesOK'
<1>1. ASSUME NEW p \in RegPath, NEW type \in NodeType, NEW data \in Data \cup {Null},
             AddNode(p, type, data)
      PROVE  NamesOK'
  <2>1. p # <<>> /\ p \in Seq(EntryName \cup {Dot, DotDot})
    BY PathAssumption
  <2> QED
    BY <1>1, <2>1 DEF AddNode, NamesOK
<1>2. ASSUME NEW n, Descend(n), adding.status = "run"
      PROVE  NamesOK'
  <2>1. adding.rest \in Seq(EntryName \cup {Dot, DotDot}) /\ adding.rest # <<>>
    BY <1>2 DEF NamesOK, TypeInv, AddingOK
  <2>2. Tail(adding.rest) \in Seq(EntryName \cup {Dot, DotDot})
    BY <2>1, HeadTailProperties
  <2>3. adding'.rest = Tail(adding.rest)
    BY <1>2 DEF Descend, TypeInv, TypeOK
  <2> QED
    BY <2>2, <2>3 DEF NamesOK
<1>3. CASE Reject
  BY <1>3 DEF Reject, NamesOK, TypeInv, TypeOK
<1>4. CASE AddStep
  BY <1>2, <1>3, <1>4
  DEF AddStep, SubNodeForbidden, SubNodeExists, SubNodeCreate, AddReturn, NoAdd, NamesOK
<1>5. CASE UNCHANGED adding
  BY <1>5 DEF NamesOK
<1> QED
  BY <1>1, <1>4, <1>5
  DEF Next, vars, NodeType, BeginRequests, Lookup, LookupStep, FindHit, FindMiss, WalkFail,
      WalkOn, WalkEnd, Lock, Write, LookupReturn

\* The effect of a creation in a tree of the right shape: one entry is added to
\* a directory that had none of that name, everything else stays.
LEMMA CreateShape ==
    ASSUME ShapeInv, SubNodeCreate
    PROVE  /\ Name \in EntryName /\ Entry(adding.at, Name) = Null /\ IsDir(adding.at)
           /\ node'[FreeAddr].path = Append(node[adding.at].path, Name)
           /\ node'[FreeAddr].parent = adding.at
           /\ DOMAIN node'[FreeAddr].items = {}
           /\ DOMAIN node'[adding.at].items = DOMAIN node[adding.at].items \cup {Name}
           /\ node'[adding.at].items[Name] = FreeAddr
           /\ \A s \in DOMAIN node[adding.at].items :
                s # Name /\ node'[adding.at].items[s] = node[adding.at].items[s]
           /\ \A n \in DOMAIN node : /\ node'[n].type = node[n].type
                                    /\ node'[n].parent = node[n].parent
                                    /\ node'[n].path = node[n].path
                                    /\ node'[n].id = node[n].id
           /\ \A n \in DOMAIN node \ {adding.at} : node'[n].items = node[n].items
           /\ pathList' = Listed(Append(node[adding.at].path, Name), FreeAddr)
<1>1. /\ FreeAddr \in Addr \ DOMAIN node /\ adding.at \in DOMAIN node
      /\ node'[FreeAddr] = NewNode(Name)
      /\ \A n \in DOMAIN node \ {adding.at} : node'[n] = node[n]
      /\ node'[adding.at] =
           [node[adding.at] EXCEPT !.items = Put(node[adding.at].items, Name, FreeAddr)]
  BY CreateEffect DEF ShapeInv
<1>2. Name \in EntryName
  <2>1. adding.rest \in Seq(EntryName \cup {Dot, DotDot}) /\ adding.rest # <<>>
    BY DEF ShapeInv, NamesOK, TypeInv, AddingOK, SubNodeCreate
  <2>2. Head(adding.rest) \in EntryName \cup {Dot, DotDot}
    BY <2>1, HeadTailProperties
  <2> QED
    BY <2>2 DEF SubNodeCreate, IsForbidden, Name
<1>3. Name # Empty
  BY <1>2, NameAssumption
<1>4. ChildPath(adding.at, Name) = Append(node[adding.at].path, Name)
  BY <1>3 DEF ChildPath
<1>5. Entry(adding.at, Name) = Null /\ IsDir(adding.at)
  BY DEF SubNodeCreate, ShapeInv, TypeInv, AddingOK
<1>6. node[adding.at] \in PCS_Node(Addr)
  BY <1>1 DEF ShapeInv, TypeInv, TypeOK
<1>7. Name \notin DOMAIN node[adding.at].items
  <2>1. node[adding.at].items \in UNION {[S -> Addr] : S \in SUBSET Segment}
    BY <1>6 DEF PCS_Node
  <2> QED
    BY <1>5, <2>1, AddrAssumption DEF Entry
<1>8. /\ node'[adding.at].items = Put(node[adding.at].items, Name, FreeAddr)
      /\ node'[adding.at].type = node[adding.at].type
      /\ node'[adding.at].parent = node[adding.at].parent
      /\ node'[adding.at].path = node[adding.at].path
      /\ node'[adding.at].id = node[adding.at].id
  BY <1>1, <1>6 DEF PCS_Node
<1>9. node'[FreeAddr].items = EmptyFcn /\ node'[FreeAddr].parent = adding.at
      /\ node'[FreeAddr].path = Append(node[adding.at].path, Name)
  BY <1>1, <1>4 DEF NewNode
<1>10. pathList' = Listed(Append(node[adding.at].path, Name), FreeAddr)
  BY <1>4 DEF SubNodeCreate
<1> QED
  BY <1>1, <1>2, <1>5, <1>7, <1>8, <1>9, <1>10 DEF Put, EmptyFcn

\* Nodes are never freed nor moved, and keep their type, parent, path and ID.
LEMMA NodesKept ==
    ASSUME ShapeInv, [Next]_vars
    PROVE  /\ DOMAIN node \subseteq DOMAIN node'
           /\ \A n \in DOMAIN node :
                /\ node'[n].type = node[n].type /\ node'[n].parent = node[n].parent
                /\ node'[n].path = node[n].path /\ node'[n].id = node[n].id
<1>1. CASE SubNodeCreate
  BY <1>1, CreateEffect, CreateShape DEF ShapeInv
<1>2. CASE SameTree
  BY <1>2 DEF SameTree
<1> QED
  BY <1>1, <1>2, StepKinds DEF ShapeInv

\* Every step keeps the links, the names and the paths of the tree in agreement.
LEMMA TreeShapeNext ==
    ASSUME ShapeInv, [Next]_vars
    PROVE  TreeShape'
<1>1. CASE SubNodeCreate
  <2> DEFINE a == FreeAddr
             at == adding.at
  <2>1. /\ a \in Addr \ DOMAIN node /\ at \in DOMAIN node
        /\ DOMAIN node' = DOMAIN node \cup {a}
    BY <1>1, CreateEffect DEF ShapeInv
  <2>2. /\ Name \in EntryName /\ Entry(at, Name) = Null /\ IsDir(at)
        /\ node'[a].path = Append(node[at].path, Name)
        /\ node'[a].parent = at
        /\ DOMAIN node'[a].items = {}
        /\ DOMAIN node'[at].items = DOMAIN node[at].items \cup {Name}
        /\ node'[at].items[Name] = a
        /\ \A s \in DOMAIN node[at].items :
             s # Name /\ node'[at].items[s] = node[at].items[s]
        /\ \A n \in DOMAIN node \ {at} : node'[n].items = node[n].items
    BY <1>1, CreateShape
  <2>3. \A n \in DOMAIN node :
          /\ node'[n].type = node[n].type /\ node'[n].parent = node[n].parent
          /\ node'[n].path = node[n].path
    BY NodesKept
  <2>4. Root \in DOMAIN node /\ a # Root
    BY <2>1 DEF ShapeInv, TypeInv, RootOK
  <2> HIDE DEF a, at
  <2>5. (IsDir(Root) /\ node[Root].parent = Null /\ node[Root].path = <<>>)'
    BY <2>3, <2>4 DEF ShapeInv, TreeShape, IsDir
  <2>6. ASSUME NEW n \in DOMAIN node' \ {Root}
        PROVE  LET up == node'[n].parent
               IN  /\ up \in DOMAIN node' /\ node'[up].type = "dir"
                   /\ \E s \in EntryName : s \in DOMAIN node'[up].items /\ node'[up].items[s] = n
    <3>1. CASE n = a
      BY <2>1, <2>2, <2>3, <3>1 DEF IsDir
    <3>2. CASE n \in DOMAIN node
      <4>1. PICK s \in EntryName : Entry(node[n].parent, s) = n
        BY <2>6, <3>2 DEF ShapeInv, TreeShape
      <4>2. n # Null
        BY <3>2, AddrAssumption DEF ShapeInv, TypeInv, TypeOK
      <4>3. /\ s \in DOMAIN node[node[n].parent].items
            /\ node[node[n].parent].items[s] = n
        BY <4>1, <4>2 DEF Entry
      <4>4. node[n].parent \in DOMAIN node /\ IsDir(node[n].parent)
        BY <2>6, <3>2 DEF ShapeInv, TreeShape
      <4>5. /\ s \in DOMAIN node'[node[n].parent].items
            /\ node'[node[n].parent].items[s] = n
        BY <2>2, <4>3, <4>4
      <4> QED
        BY <2>1, <2>3, <3>2, <4>4, <4>5 DEF IsDir
    <3> QED
      BY <2>1, <2>6, <3>1, <3>2
  <2>7. ASSUME NEW n \in DOMAIN node', NEW s \in DOMAIN node'[n].items
        PROVE  LET c == node'[n].items[s]
               IN  /\ s \in EntryName /\ c \in DOMAIN node' \ {Root}
                   /\ node'[c].parent = n /\ node'[c].path = Append(node'[n].path, s)
    <3>1. CASE n = at /\ s = Name
      BY <2>1, <2>2, <2>3, <2>4, <3>1
    <3>2. CASE n \in DOMAIN node /\ s \in DOMAIN node[n].items
      <4>1. node'[n].items[s] = node[n].items[s] /\ node'[n].path = node[n].path
        BY <2>2, <2>3, <3>2
      <4> DEFINE c == node[n].items[s]
      <4>2. /\ s \in EntryName /\ c \in DOMAIN node \ {Root}
            /\ node[c].parent = n /\ node[c].path = Append(node[n].path, s)
        BY <3>2 DEF ShapeInv, TreeShape
      <4>3. node'[c].parent = node[c].parent /\ node'[c].path = node[c].path
        BY <2>3, <4>2
      <4> HIDE DEF c
      <4> QED
        BY <2>1, <4>1, <4>2, <4>3 DEF c
    <3> QED
      BY <2>1, <2>2, <2>7, <3>1, <3>2
  <2> QED
    BY <2>5, <2>6, <2>7 DEF TreeShape, IsDir, Entry
<1>2. CASE SameTree
  <2>1. /\ DOMAIN node' = DOMAIN node
        /\ \A n \in DOMAIN node :
             /\ node'[n].type = node[n].type /\ node'[n].parent = node[n].parent
             /\ node'[n].path = node[n].path /\ node'[n].items = node[n].items
    BY <1>2 DEF SameTree
  <2>2. Root \in DOMAIN node
    BY DEF ShapeInv, TypeInv, RootOK
  <2>3. (IsDir(Root) /\ node[Root].parent = Null /\ node[Root].path = <<>>)'
    BY <2>1, <2>2 DEF ShapeInv, TreeShape, IsDir
  <2>4. ASSUME NEW n \in DOMAIN node \ {Root}
        PROVE  LET up == node'[n].parent
               IN  /\ up \in DOMAIN node' /\ node'[up].type = "dir"
                   /\ \E s \in EntryName : s \in DOMAIN node'[up].items /\ node'[up].items[s] = n
    <3>1. /\ node[n].parent \in DOMAIN node /\ IsDir(node[n].parent)
          /\ \E s \in EntryName : Entry(node[n].parent, s) = n
      BY <2>4 DEF ShapeInv, TreeShape
    <3>2. PICK s \in EntryName : Entry(node[n].parent, s) = n
      BY <3>1
    <3>3. n # Null
      BY <2>4, AddrAssumption DEF ShapeInv, TypeInv, TypeOK
    <3>4. /\ s \in DOMAIN node[node[n].parent].items
          /\ node[node[n].parent].items[s] = n
      BY <3>2, <3>3 DEF Entry
    <3> QED
      BY <2>1, <2>4, <3>1, <3>4 DEF IsDir
  <2>5. ASSUME NEW n \in DOMAIN node, NEW s \in DOMAIN node[n].items
        PROVE  LET c == node'[n].items[s]
               IN  /\ s \in EntryName /\ c \in DOMAIN node' \ {Root}
                   /\ node'[c].parent = n /\ node'[c].path = Append(node'[n].path, s)
    <3> DEFINE c == node[n].items[s]
    <3>1. /\ s \in EntryName /\ c \in DOMAIN node \ {Root}
          /\ node[c].parent = n /\ node[c].path = Append(node[n].path, s)
      BY <2>5 DEF ShapeInv, TreeShape
    <3> QED
      BY <2>1, <2>5, <3>1
  <2> QED
    BY <2>1, <2>3, <2>4, <2>5 DEF TreeShape, IsDir, Entry
<1> QED
  BY <1>1, <1>2, StepKinds DEF ShapeInv

\* A lookup along entry names only is at the node whose path it has walked.
CanonOK ==
    \A t \in Thread : look[t].path \in Seq(EntryName) =>
        /\ look[t].pc = "walk" =>
              node[look[t].at].path = SubSeq(look[t].path, 1, look[t].k - 1)
        /\ look[t].pc \in {"lock", "write"} => node[look[t].at].path = look[t].path

\* A prefix grows by the next segment.
LEMMA PrefixStep ==
    ASSUME NEW S, NEW p \in Seq(S), NEW k \in 1..Len(p)
    PROVE  Append(SubSeq(p, 1, k - 1), p[k]) = SubSeq(p, 1, k)
OBVIOUS

\* One segment of a lookup leads to the entry of that name.
LEMMA FollowName ==
    ASSUME ShapeInv, NEW n \in DOMAIN node, NEW s \in EntryName, Follow(n, s) # Null
    PROVE  /\ Follow(n, s) \in DOMAIN node
           /\ node[Follow(n, s)].path = Append(node[n].path, s)
<1>1. s \notin {Dot, DotDot}
  BY NameAssumption
<1>2. Follow(n, s) = Entry(n, s)
  BY <1>1 DEF Follow
<1> QED
  BY <1>2 DEF Entry, ShapeInv, TreeShape

\* Every step keeps CanonOK.
LEMMA CanonNext ==
    ASSUME ShapeInv, CanonOK, [Next]_vars
    PROVE  CanonOK'
<1> USE DEF ShapeInv, TypeInv
<1>1. CASE UNCHANGED look
  BY <1>1, NodesKept DEF CanonOK, LookOK
<1>2. ASSUME NEW t \in Thread, NEW p \in LookupPath, Lookup(t, p)
      PROVE  CanonOK'
  BY <1>2 DEF Lookup, CanonOK, TypeOK
<1>3. ASSUME NEW t \in Thread, LookupStep(t)
      PROVE  CanonOK'
  <2> DEFINE p == look[t].path
             at == look[t].at
             k  == look[t].k
  <2>1. UNCHANGED node
    BY <1>3 DEF LookupStep, FindHit, FindMiss, WalkFail, WalkOn, WalkEnd, Lock, Write,
                LookupReturn
  <2>2. p \in Seq(Segment) /\ k \in Nat
    BY DEF TypeOK
  <2>3. ASSUME NEW pc, NEW n, NEW i, Goto(t, pc, n, i),
               p \in Seq(EntryName) =>
                 /\ pc = "walk" => node[n].path = SubSeq(p, 1, i - 1)
                 /\ pc \in {"lock", "write"} => node[n].path = p
        PROVE  CanonOK'
    BY <2>1, <2>3 DEF Goto, CanonOK, TypeOK
  <2>4. CASE FindHit(t) \/ WalkFail(t)
    BY <2>3, <2>4 DEF FindHit, WalkFail
  <2>5. CASE FindMiss(t)
    <3>1. node[Root].path = SubSeq(p, 1, 1 - 1)
      BY <2>2 DEF TreeShape
    <3> QED
      BY <2>3, <2>5, <3>1 DEF FindMiss
  <2>6. CASE WalkOn(t) \/ WalkEnd(t)
    <3>1. at \in DOMAIN node /\ k \in 1..Len(p)
      BY <2>6 DEF WalkOn, WalkEnd, LookOK
    <3>2. ASSUME p \in Seq(EntryName)
          PROVE  node[Target(t)].path = SubSeq(p, 1, k)
      <4>1. p[k] \in EntryName
        BY <3>1, <3>2
      <4>2. node[Target(t)].path = Append(node[at].path, p[k])
        BY <2>6, <3>1, <4>1, FollowName DEF WalkOn, WalkEnd, Reaches, Target
      <4>3. node[at].path = SubSeq(p, 1, k - 1)
        BY <2>6, <3>2 DEF WalkOn, WalkEnd, CanonOK
      <4> HIDE DEF p, k, at
      <4>4. Append(SubSeq(p, 1, k - 1), p[k]) = SubSeq(p, 1, k)
        BY <3>1, <3>2, PrefixStep
      <4> QED
        BY <4>2, <4>3, <4>4
    <3>3. p \in Seq(EntryName) /\ k = Len(p) => SubSeq(p, 1, k) = p
      BY <2>2
    <3>4. (k + 1) - 1 = k
      BY <2>2
    <3>5. CASE WalkOn(t)
      <4>1. Goto(t, "walk", Target(t), k + 1)
        BY <3>5 DEF WalkOn
      <4> QED
        BY <2>3, <3>2, <3>4, <4>1
    <3>6. CASE WalkEnd(t)
      <4>1. Goto(t, "lock", Target(t), 0) /\ k = Len(p)
        BY <3>6 DEF WalkEnd, AtEnd
      <4> QED
        BY <2>3, <3>2, <3>3, <4>1
    <3> QED
      BY <2>6, <3>5, <3>6
  <2>7. CASE Lock(t) \/ Write(t)
    BY <2>3, <2>7 DEF Lock, Write, CanonOK
  <2>8. CASE LookupReturn(t)
    BY <2>1, <2>8 DEF LookupReturn, NoLookup, CanonOK, TypeOK
  <2> QED
    BY <1>3, <2>4, <2>5, <2>6, <2>7, <2>8 DEF LookupStep
<1> QED
  BY <1>1, <1>2, <1>3
  DEF Next, vars, AddNode, AddStep, SubNodeForbidden, SubNodeExists, SubNodeCreate,
      AddReturn, BeginRequests

\* The paths of nodes are made of entry names.
NodePathsOK == \A n \in DOMAIN node : node[n].path \in Seq(EntryName)

TreeInv == ShapeInv /\ CanonOK /\ NodePathsOK

\* A sequence and its last element determine one another.
LEMMA AppendCancel ==
    \A p, q \in Seq(EntryName) : \A e, f \in EntryName :
        Append(p, e) = Append(q, f) => p = q /\ e = f
<1> SUFFICES ASSUME NEW p \in Seq(EntryName), NEW q \in Seq(EntryName),
                    NEW e \in EntryName, NEW f \in EntryName,
                    Append(p, e) = Append(q, f)
             PROVE  p = q /\ e = f
  OBVIOUS
<1>1. Len(p) = Len(q)
  BY AppendProperties
<1>2. \A i \in 1..Len(p) : p[i] = q[i]
  BY <1>1, AppendProperties
<1>3. e = f
  BY <1>1, AppendProperties
<1>4. p = q
  BY <1>1, <1>2, SeqEqual
<1> QED
  BY <1>3, <1>4

\* A path that a creation is about to use belongs to no node yet: it would have
\* the same parent and the same name, and the directory has no such entry.
LEMMA NewPathIsFree ==
    ASSUME TreeInv, SubNodeCreate, NEW n \in DOMAIN node
    PROVE  node[n].path # Append(node[adding.at].path, Name)
<1> USE DEF TreeInv, ShapeInv, TypeInv
<1> DEFINE at == adding.at
<1>1. SUFFICES ASSUME node[n].path = Append(node[at].path, Name) PROVE FALSE
  OBVIOUS
<1>2. at \in DOMAIN node /\ Name \in EntryName /\ Entry(at, Name) = Null
  BY CreateEffect, CreateShape
<1>3. node[at].path \in Seq(EntryName)
  BY <1>2 DEF NodePathsOK
<1>4. n # Root
  <2>1. Append(node[at].path, Name) # <<>>
    BY <1>2, <1>3
  <2> QED
    BY <1>1, <2>1 DEF TreeShape
<1>5. PICK s \in EntryName : Entry(node[n].parent, s) = n
  BY <1>4 DEF TreeShape
<1> DEFINE up == node[n].parent
<1>6. n # Null
  BY AddrAssumption DEF TypeOK
<1>7. s \in DOMAIN node[up].items /\ node[up].items[s] = n
  BY <1>5, <1>6 DEF Entry
<1>8. up \in DOMAIN node
  BY <1>4 DEF TreeShape
<1>9. node[n].path = Append(node[up].path, s)
  BY <1>7, <1>8 DEF TreeShape
<1>10. node[up].path = node[at].path /\ s = Name
  <2>1. node[up].path \in Seq(EntryName)
    BY <1>8 DEF NodePathsOK
  <2>2. Append(node[up].path, s) = Append(node[at].path, Name)
    BY <1>1, <1>9
  <2>3. s \in EntryName /\ Name \in EntryName /\ node[at].path \in Seq(EntryName)
    BY <1>2, <1>3, <1>5
  <2>4. \A p, q \in Seq(EntryName) : Append(p, s) = Append(q, Name) => p = q /\ s = Name
    BY <2>3, AppendCancel, Zenon
  <2> QED
    BY <2>1, <2>2, <2>3, <2>4
<1>11. up = at
  BY <1>2, <1>8, <1>10 DEF PathListExact
<1> QED
  BY <1>2, <1>5, <1>6, <1>10, <1>11

\* Every step keeps the paths of nodes made of entry names.
LEMMA NodePathsNext ==
    ASSUME TreeInv, [Next]_vars
    PROVE  NodePathsOK'
<1>1. CASE SubNodeCreate
  <2>1. DOMAIN node' = DOMAIN node \cup {FreeAddr} /\ adding.at \in DOMAIN node
    BY <1>1, CreateEffect DEF TreeInv, ShapeInv
  <2>2. /\ Name \in EntryName
        /\ node'[FreeAddr].path = Append(node[adding.at].path, Name)
    BY <1>1, CreateShape DEF TreeInv
  <2>3. node'[FreeAddr].path \in Seq(EntryName)
    BY <2>1, <2>2 DEF TreeInv, NodePathsOK
  <2> QED
    BY <2>1, <2>3, NodesKept DEF TreeInv, NodePathsOK
<1>2. CASE SameTree
  BY <1>2 DEF SameTree, TreeInv, NodePathsOK
<1> QED
  BY <1>1, <1>2, StepKinds DEF TreeInv, ShapeInv

\* Every step keeps pathList exact: a creation binds a path no node had, and a
\* lookup that writes a path of a node binds it to that same node.
LEMMA PathListNext ==
    ASSUME TreeInv, [Next]_vars
    PROVE  PathListExact'
<1> USE DEF TreeInv, ShapeInv, TypeInv
<1>1. CASE SubNodeCreate
  <2> DEFINE a == FreeAddr
             q == Append(node[adding.at].path, Name)
  <2>1. /\ a \notin DOMAIN node /\ adding.at \in DOMAIN node
        /\ DOMAIN node' = DOMAIN node \cup {a}
    BY <1>1, CreateEffect
  <2>2. node'[a].path = q /\ pathList' = Listed(q, a)
    BY <1>1, CreateShape
  <2>3. \A n \in DOMAIN node : node[n].path # q /\ node'[n].path = node[n].path
    BY <1>1, NewPathIsFree, NodesKept
  <2> HIDE DEF a, q
  <2>4. /\ DOMAIN pathList' = DOMAIN pathList \cup {q}
        /\ pathList'[q].node = a
        /\ \A p \in DOMAIN pathList \ {q} : pathList'[p] = pathList[p]
    BY <2>2 DEF Listed, Put
  <2>5. \A p \in DOMAIN pathList : pathList[p].node \in DOMAIN node
    BY DEF TypeOK
  <2>6. ASSUME NEW n \in DOMAIN node'
        PROVE  node'[n].path \in DOMAIN pathList' /\ pathList'[node'[n].path].node = n
    <3>1. CASE n = a
      BY <2>2, <2>4, <3>1
    <3>2. CASE n \in DOMAIN node
      <4>1. /\ node[n].path \in DOMAIN pathList \ {q} /\ node'[n].path = node[n].path
            /\ pathList[node[n].path].node = n
        BY <2>3, <3>2 DEF PathListExact
      <4> QED
        BY <2>4, <4>1
    <3> QED
      BY <2>1, <2>6, <3>1, <3>2
  <2>7. ASSUME NEW p \in DOMAIN pathList', p \in Seq(EntryName)
        PROVE  node'[pathList'[p].node].path = p
    <3>1. CASE p = q
      BY <2>2, <2>4, <3>1
    <3>2. CASE p # q
      <4>1. p \in DOMAIN pathList /\ pathList'[p] = pathList[p]
        BY <2>4, <2>7, <3>2
      <4>2. node[pathList[p].node].path = p
        BY <2>7, <4>1 DEF PathListExact
      <4> QED
        BY <2>3, <2>5, <4>1, <4>2
    <3> QED
      BY <3>1, <3>2
  <2> QED
    BY <2>6, <2>7 DEF PathListExact
<1>2. CASE SameTree /\ UNCHANGED pathList
  <2>1. \A p \in DOMAIN pathList : pathList[p].node \in DOMAIN node
    BY DEF TypeOK
  <2> QED
    BY <1>2, <2>1 DEF SameTree, PathListExact
<1>3. ASSUME SameTree, NEW t \in Thread, Write(t)
      PROVE  PathListExact'
  <2> DEFINE p == look[t].path
             n == look[t].at
  <2>1. pathList' = Listed(p, n) /\ node' = node
    BY <1>3 DEF Write
  <2>2. n \in DOMAIN node /\ (p \in Seq(EntryName) => node[n].path = p)
    BY <1>3 DEF Write, LookOK, CanonOK
  <2> HIDE DEF p, n
  <2>3. /\ DOMAIN pathList' = DOMAIN pathList \cup {p}
        /\ pathList'[p].node = n
        /\ \A q \in DOMAIN pathList \ {p} : pathList'[q] = pathList[q]
    BY <2>1 DEF Listed, Put
  <2>4. ASSUME NEW m \in DOMAIN node, node[m].path = p
        PROVE  m = n
    <3>1. node[n].path = p
      BY <2>2, <2>4 DEF NodePathsOK
    <3> QED
      BY <2>2, <2>4, <3>1 DEF PathListExact
  <2> QED
    BY <2>1, <2>2, <2>3, <2>4 DEF PathListExact
<1> QED
  BY <1>1, <1>2, <1>3, StepKinds

\* The initial states satisfy the invariant.
LEMMA TreeInit == Init => TreeInv
<1> SUFFICES ASSUME Init PROVE TreeInv
    OBVIOUS
<1>1. TypeInv
  BY TypeInit
<1>2. NamesOK /\ CanonOK
  BY DEF Init, NamesOK, CanonOK, NoAdd, NoLookup
<1>3. /\ DOMAIN node = {Root} /\ node[Root].type = "dir" /\ node[Root].parent = Null
      /\ node[Root].path = <<>> /\ DOMAIN node[Root].items = {}
      /\ DOMAIN pathList = {<<>>} /\ pathList[<<>>].node = Root
  BY DEF Init, EmptyFcn
<1>4. TreeShape
  BY <1>3 DEF TreeShape, IsDir
<1>5. PathListExact
  BY <1>3 DEF PathListExact
<1>6. NodePathsOK
  <2>1. <<>> \in Seq(EntryName)
    OBVIOUS
  <2> QED
    BY <1>3, <2>1 DEF NodePathsOK
<1> QED
  BY <1>1, <1>2, <1>4, <1>5, <1>6 DEF TreeInv, ShapeInv

\* Registrations at non-empty paths keep TreeInv.
LEMMA TreeNext ==
    ASSUME <<>> \notin RegPath, TreeInv, [Next]_vars
    PROVE  TreeInv'
<1>1. TypeInv'
  BY TypeNext DEF TreeInv, ShapeInv
<1>2. NamesOK'
  BY NamesNext DEF TreeInv, ShapeInv
<1>3. TreeShape' /\ CanonOK'
  BY TreeShapeNext, CanonNext DEF TreeInv
<1> QED
  BY <1>1, <1>2, <1>3, NodePathsNext, PathListNext DEF TreeInv, ShapeInv

\* If no registration is at the empty path, parent pointers, directory entries
\* and paths always agree (TreeShape).
THEOREM TreeShapeInvariant ==
    ASSUME <<>> \notin RegPath
    PROVE  Spec => []TreeShape
<1>1. TreeInv /\ [Next]_vars => TreeInv'
  BY TreeNext
<1>2. TreeInv => TreeShape
  BY DEF TreeInv, ShapeInv
<1> QED
  BY TreeInit, <1>1, <1>2, PTL DEF Spec

\* If no registration is at the empty path, pathList finds every node under its
\* path and no two nodes share one, whatever the threads look up (PathListExact).
THEOREM PathListExactInvariant ==
    ASSUME <<>> \notin RegPath
    PROVE  Spec => []PathListExact
<1>1. TreeInv /\ [Next]_vars => TreeInv'
  BY TreeNext
<1>2. TreeInv => PathListExact
  BY DEF TreeInv, ShapeInv
<1> QED
  BY TreeInit, <1>1, <1>2, PTL DEF Spec

-----------------------------------------------------------------------------
\* File IDs

\* Every step keeps the IDs dense: a new file gets the index it is inserted at.
LEMMA FileListNext ==
    ASSUME TypeInv, FileListExact, [Next]_vars
    PROVE  FileListExact'
<1>1. fileList \in Seq(DOMAIN node) /\ Len(fileList) \in Nat
  BY DEF TypeInv, TypeOK
<1>2. \A i \in 1..Len(fileList) : fileList[i] \in DOMAIN node
  BY <1>1
<1>3. CASE SameTree
  <2>1. /\ DOMAIN node' = DOMAIN node /\ fileList' = fileList
        /\ \A n \in DOMAIN node : node'[n].type = node[n].type /\ node'[n].id = node[n].id
    BY <1>3 DEF SameTree
  <2> QED
    BY <1>2, <2>1 DEF FileListExact, IsFile
<1>4. CASE SubNodeCreate
  <2> DEFINE a == FreeAddr
  <2>1. a \notin DOMAIN node /\ DOMAIN node' = DOMAIN node \cup {a}
    BY <1>4, CreateEffect
  <2>2. \A n \in DOMAIN node : node'[n].type = node[n].type /\ node'[n].id = node[n].id
    <3>1. node[adding.at] \in PCS_Node(Addr)
      BY <1>4, CreateEffect DEF TypeInv, TypeOK
    <3> QED
      BY <1>4, <3>1, CreateEffect DEF PCS_Node
  <2>3. /\ node'[a].type = SubType
        /\ node'[a].id = IF SubType = "file" THEN Len(fileList) ELSE Null
    BY <1>4, CreateEffect DEF NewNode
  <2>4. fileList' = IF SubType = "file" THEN Append(fileList, a) ELSE fileList
    BY <1>4 DEF SubNodeCreate
  <2> HIDE DEF a
  <2>5. CASE SubType = "file"
    <3>1. /\ Len(fileList') = Len(fileList) + 1
          /\ \A i \in 1..Len(fileList) : fileList'[i] = fileList[i]
          /\ fileList'[Len(fileList) + 1] = a
      BY <1>1, <2>4, <2>5
    <3>2. ASSUME NEW i \in 1..Len(fileList')
          PROVE  node'[fileList'[i]].type = "file" /\ node'[fileList'[i]].id = i - 1
      <4>1. CASE i = Len(fileList) + 1
        BY <1>1, <2>3, <2>5, <3>1, <4>1
      <4>2. CASE i \in 1..Len(fileList)
        BY <1>2, <2>2, <3>1, <4>2 DEF FileListExact, IsFile
      <4> QED
        BY <1>1, <3>1, <4>1, <4>2
    <3>3. ASSUME NEW n \in DOMAIN node', node'[n].type = "file"
          PROVE  /\ node'[n].id + 1 \in 1..Len(fileList')
                 /\ fileList'[node'[n].id + 1] = n
      <4>1. CASE n = a
        BY <1>1, <2>3, <2>5, <3>1, <4>1
      <4>2. CASE n \in DOMAIN node
        <5>1. node[n].id + 1 \in 1..Len(fileList) /\ fileList[node[n].id + 1] = n
          BY <2>2, <3>3, <4>2 DEF FileListExact, IsFile
        <5> QED
          BY <1>1, <2>2, <3>1, <4>2, <5>1
      <4> QED
        BY <2>1, <3>3, <4>1, <4>2
    <3> QED
      BY <3>2, <3>3 DEF FileListExact, IsFile
  <2>6. CASE SubType # "file"
    BY <1>2, <2>1, <2>2, <2>3, <2>4, <2>6 DEF FileListExact, IsFile
  <2> QED
    BY <2>5, <2>6
<1> QED
  BY <1>3, <1>4, StepKinds

\* The IDs are dense and name the files in the order of their creation, for
\* registrations at any path (FileListExact).
THEOREM FileListInvariant == Spec => []FileListExact
<1>1. Init => FileListExact
  BY DEF Init, FileListExact, IsFile
<1>2. TypeInv /\ FileListExact /\ [Next]_vars => FileListExact'
  BY FileListNext
<1> QED
  BY TypeInit, TypeNext, <1>1, <1>2, PTL DEF Spec

-----------------------------------------------------------------------------
\* The two phases: registrations first, concurrent lookups afterwards

PhaseInv ==
    /\ adding.status # "idle" => in_startup /\ look[MainThread].pc = "idle"
    /\ in_startup => \A t \in Thread \ {MainThread} : look[t].pc = "idle"

\* Only the main thread runs during startup, and it does one thing at a time.
LEMMA PhaseNext == TypeInv /\ PhaseInv /\ [Next]_vars => PhaseInv'
<1> SUFFICES ASSUME TypeInv, PhaseInv, [Next]_vars PROVE PhaseInv'
    OBVIOUS
<1> USE ThreadAssumption
<1>1. ASSUME NEW p, NEW type, NEW data, AddNode(p, type, data)
      PROVE  PhaseInv'
  BY <1>1 DEF AddNode, MayRegister, PhaseInv
<1>2. CASE AddStep
  <2>1. adding.status # "idle"
    BY <1>2 DEF AddStep, SubNodeForbidden, SubNodeExists, SubNodeCreate, AddReturn
  <2>2. UNCHANGED <<look, in_startup>>
    BY <1>2 DEF AddStep, SubNodeForbidden, SubNodeExists, SubNodeCreate, AddReturn
  <2> QED
    BY <2>1, <2>2 DEF PhaseInv
<1>3. CASE BeginRequests
  BY <1>3 DEF BeginRequests, PhaseInv
<1>4. ASSUME NEW t \in Thread, NEW p \in LookupPath, Lookup(t, p)
      PROVE  PhaseInv'
  BY <1>4 DEF Lookup, PhaseInv, TypeInv, TypeOK
<1>5. ASSUME NEW t \in Thread, LookupStep(t)
      PROVE  PhaseInv'
  <2>1. look[t].pc # "idle" /\ UNCHANGED <<adding, in_startup>>
    BY <1>5 DEF LookupStep, FindHit, FindMiss, WalkFail, WalkOn, WalkEnd, Lock, Write,
                LookupReturn
  <2>2. \A u \in Thread \ {t} : look'[u] = look[u]
    BY <1>5 DEF LookupStep, FindHit, FindMiss, WalkFail, WalkOn, WalkEnd, Lock, Write,
                LookupReturn, Goto, TypeInv, TypeOK
  <2> QED
    BY <2>1, <2>2 DEF PhaseInv
<1>6. CASE UNCHANGED vars
  BY <1>6 DEF vars, PhaseInv
<1> QED
  BY <1>1, <1>2, <1>3, <1>4, <1>5, <1>6 DEF Next

\* Nodes and fileList do not change while a lookup is under way, in any thread:
\* the lookups may read them without a mutex (TreeStable).
THEOREM TreeStableInvariant == Spec => TreeStable
<1>1. Init => PhaseInv
  BY DEF Init, PhaseInv, NoAdd, NoLookup
<1>2. TypeInv /\ PhaseInv /\ [Next]_vars
        => [(\E t \in Thread : look[t].pc # "idle") => UNCHANGED tree]_vars
  <2> SUFFICES ASSUME PhaseInv, [Next]_vars, NEW t \in Thread, look[t].pc # "idle"
               PROVE  UNCHANGED <<node, fileList>>
    BY DEF tree
  <2>1. adding.status = "idle"
    BY DEF PhaseInv
  <2> QED
    BY <2>1
    DEF Next, vars, AddNode, AddStep, SubNodeForbidden, SubNodeExists, SubNodeCreate,
        AddReturn, BeginRequests, Lookup, LookupStep, FindHit, FindMiss, WalkFail, WalkOn,
        WalkEnd, Lock, Write, LookupReturn
<1> QED
  BY TypeInit, TypeNext, PhaseNext, <1>1, <1>2, PTL DEF Spec, TreeStable

-----------------------------------------------------------------------------
\* Soundness of pathList: an entry is what walking its path finds

\* A walk in progress has a trace behind it, one that ended has a whole one.
TraceOK ==
    \A t \in Thread :
        /\ look[t].pc = "walk" =>
             /\ IsDir(look[t].at)
             /\ \E tr : /\ IsTrace(look[t].path, look[t].k - 1, tr)
                        /\ tr[look[t].k - 1] = look[t].at
        /\ look[t].pc \in {"lock", "write"} => Resolves(look[t].path, look[t].at)

SoundInv == TreeInv /\ PathListSound /\ TraceOK

\* A segment that leads somewhere leads to the same node after any step.
LEMMA FollowKept ==
    ASSUME TreeInv, [Next]_vars, NEW n \in DOMAIN node, NEW s, Follow(n, s) # Null
    PROVE  Follow(n, s)' = Follow(n, s)
<1>1. node'[n].parent = node[n].parent
  BY NodesKept DEF TreeInv
<1>2. CASE s \in {Dot, DotDot}
  BY <1>1, <1>2 DEF Follow, Dot, DotDot
<1>3. CASE s \notin {Dot, DotDot}
  <2>1. Follow(n, s) = Entry(n, s) /\ Follow(n, s)' = Entry(n, s)'
    BY <1>3 DEF Follow
  <2>2. s \in DOMAIN node[n].items
    BY <2>1 DEF Entry
  <2>3. s \in DOMAIN node'[n].items /\ node'[n].items[s] = node[n].items[s]
    <3>1. CASE SubNodeCreate
      BY <2>2, <3>1, CreateShape DEF TreeInv
    <3>2. CASE SameTree
      BY <2>2, <3>2 DEF SameTree
    <3> QED
      BY <3>1, <3>2, StepKinds DEF TreeInv, ShapeInv
  <2> QED
    BY <2>1, <2>2, <2>3 DEF Entry
<1> QED
  BY <1>2, <1>3

\* A trace stays a trace.
LEMMA TraceKept ==
    ASSUME TreeInv, [Next]_vars, NEW p, NEW len \in Nat, NEW tr, IsTrace(p, len, tr)
    PROVE  IsTrace(p, len, tr)'
<1>1. DOMAIN node \subseteq DOMAIN node'
  BY NodesKept DEF TreeInv
<1>2. tr \in [0..len -> DOMAIN node'] /\ tr[0] = Root
  BY <1>1 DEF IsTrace
<1>3. ASSUME NEW i \in 1..len
      PROVE  node'[tr[i - 1]].type = "dir" /\ tr[i] = Follow(tr[i - 1], p[i])'
  <2>1. tr[i - 1] \in DOMAIN node /\ tr[i] \in DOMAIN node
    BY DEF IsTrace
  <2>2. node[tr[i - 1]].type = "dir" /\ tr[i] = Follow(tr[i - 1], p[i])
    BY DEF IsTrace, IsDir
  <2>3. tr[i] # Null
    BY <2>1, AddrAssumption DEF TreeInv, ShapeInv, TypeInv, TypeOK
  <2>4. node'[tr[i - 1]].type = "dir"
    BY <2>1, <2>2, NodesKept DEF TreeInv
  <2>5. Follow(tr[i - 1], p[i])' = Follow(tr[i - 1], p[i])
    BY <2>1, <2>2, <2>3, FollowKept
  <2> QED
    BY <2>2, <2>4, <2>5
<1> QED
  BY <1>2, <1>3 DEF IsTrace, IsDir

\* What a path resolves to, it resolves to after any step.
LEMMA ResolvesKept ==
    ASSUME TreeInv, [Next]_vars, NEW p, Len(p) \in Nat, NEW n, Resolves(p, n)
    PROVE  Resolves(p, n)'
<1>1. PICK tr \in [0..Len(p) -> DOMAIN node] :
        IsTrace(p, Len(p), tr) /\ tr[Len(p)] = n
  BY DEF Resolves
<1>2. IsTrace(p, Len(p), tr)'
  BY <1>1, TraceKept
<1>3. tr \in [0..Len(p) -> DOMAIN node']
  BY <1>2 DEF IsTrace
<1> QED
  BY <1>1, <1>2, <1>3 DEF Resolves

\* A trace that ends on a directory extends by one segment.
LEMMA TraceStep ==
    ASSUME NEW p, NEW k \in Nat \ {0}, NEW tr, IsTrace(p, k - 1, tr), IsDir(tr[k - 1]),
           Follow(tr[k - 1], p[k]) \in DOMAIN node
    PROVE  \E u : IsTrace(p, k, u) /\ u[k] = Follow(tr[k - 1], p[k])
<1> DEFINE u == [i \in 0..k |-> IF i = k THEN Follow(tr[k - 1], p[k]) ELSE tr[i]]
<1>1. tr \in [0..(k - 1) -> DOMAIN node] /\ tr[0] = Root
  BY DEF IsTrace
<1>2. u \in [0..k -> DOMAIN node] /\ u[0] = Root
  BY <1>1
<1>3. ASSUME NEW i \in 1..k
      PROVE  IsDir(u[i - 1]) /\ u[i] = Follow(u[i - 1], p[i])
  <2>1. CASE i = k
    BY <2>1
  <2>2. CASE i # k
    <3>1. i \in 1..(k - 1) /\ i - 1 \in 0..(k - 1) /\ u[i] = tr[i] /\ u[i - 1] = tr[i - 1]
      BY <2>2
    <3>2. IsDir(tr[i - 1]) /\ tr[i] = Follow(tr[i - 1], p[i])
      BY <3>1 DEF IsTrace
    <3> QED
      BY <3>1, <3>2
  <2> QED
    BY <2>1, <2>2
<1>4. u[k] = Follow(tr[k - 1], p[k])
  OBVIOUS
<1> HIDE DEF u
<1> QED
  BY <1>2, <1>3, <1>4 DEF IsTrace

\* The empty trace of a walk that begins.
LEMMA TraceStart ==
    ASSUME Root \in DOMAIN node, NEW p
    PROVE  \E tr : IsTrace(p, 0, tr) /\ tr[0] = Root
<1> DEFINE tr == [i \in 0..0 |-> Root]
<1>1. tr \in [0..0 -> DOMAIN node] /\ tr[0] = Root
  OBVIOUS
<1> HIDE DEF tr
<1> QED
  BY <1>1 DEF IsTrace

\* A trace along a path does not look beyond its own length.
LEMMA TracePrefix ==
    ASSUME NEW p, NEW q, NEW len \in Nat, NEW tr, IsTrace(p, len, tr),
           \A i \in 1..len : q[i] = p[i]
    PROVE  IsTrace(q, len, tr)
BY DEF IsTrace

\* The path of a new node resolves to it: its directory's path does, and the
\* new entry is one more segment.
LEMMA CreateResolves ==
    ASSUME SoundInv, SubNodeCreate, [Next]_vars,
           NEW at, at = adding.at, NEW a, a = FreeAddr, NEW s, s = Name,
           NEW p, p = node[at].path, NEW q, q = Append(p, s)
    PROVE  Resolves(q, a)'
<1> USE DEF SoundInv, TreeInv, ShapeInv, TypeInv
<1>1. /\ at \in DOMAIN node /\ DOMAIN node' = DOMAIN node \cup {a}
  BY CreateEffect
<1>2. /\ s \in EntryName /\ IsDir(at)
      /\ s \in DOMAIN node'[at].items /\ node'[at].items[s] = a
  BY CreateShape
<1>3. p \in Seq(EntryName)
  BY <1>1 DEF NodePathsOK
<1>4. Resolves(p, at)
  BY <1>1 DEF PathListExact, PathListSound
<1>5. PICK tr \in [0..Len(p) -> DOMAIN node] :
        IsTrace(p, Len(p), tr) /\ tr[Len(p)] = at
  BY <1>4 DEF Resolves
<1>6. /\ Len(p) \in Nat /\ Len(q) = Len(p) + 1 /\ q[Len(q)] = s
      /\ \A i \in 1..Len(p) : q[i] = p[i]
  BY <1>2, <1>3, AppendProperties
<1>7. IsTrace(p, Len(p), tr)'
  BY <1>5, <1>6, TraceKept
<1>8. node'[at].type = "dir"
  BY <1>1, <1>2, NodesKept DEF IsDir
<1>9. Follow(at, s)' = a
  <2>1. s \notin {Dot, DotDot}
    BY <1>2, NameAssumption
  <2>2. Follow(at, s)' = Entry(at, s)'
    BY <2>1 DEF Follow
  <2> QED
    BY <1>2, <2>2 DEF Entry
<1> DEFINE u == [i \in 0..Len(q) |-> IF i = Len(q) THEN a ELSE tr[i]]
<1>10. u \in [0..Len(q) -> DOMAIN node'] /\ u[0] = Root /\ u[Len(q)] = a
  BY <1>1, <1>5, <1>6 DEF IsTrace
<1>11. ASSUME NEW i \in 1..Len(q)
       PROVE  node'[u[i - 1]].type = "dir" /\ u[i] = Follow(u[i - 1], q[i])'
  <2>1. CASE i = Len(q)
    <3>1. u[i] = a /\ u[i - 1] = at /\ q[i] = s
      BY <1>5, <1>6, <2>1
    <3> QED
      BY <1>8, <1>9, <3>1
  <2>2. CASE i # Len(q)
    <3>1. i \in 1..Len(p) /\ u[i] = tr[i] /\ u[i - 1] = tr[i - 1] /\ q[i] = p[i]
      BY <1>6, <2>2
    <3>2. node'[tr[i - 1]].type = "dir" /\ tr[i] = Follow(tr[i - 1], p[i])'
      BY <1>7, <3>1 DEF IsTrace, IsDir
    <3> QED
      BY <3>1, <3>2
  <2> QED
    BY <2>1, <2>2
<1> QED
  BY <1>10, <1>11 DEF Resolves, IsTrace, IsDir

\* Every step keeps pathList sound.
LEMMA PathSoundNext ==
    ASSUME SoundInv, [Next]_vars
    PROVE  PathListSound'
<1> USE DEF SoundInv, TreeInv, ShapeInv, TypeInv
<1>1. ASSUME NEW p \in DOMAIN pathList, NEW n, n = pathList[p].node
      PROVE  Resolves(p, n)'
  <2>1. Len(p) \in Nat
    BY DEF TypeOK
  <2>2. Resolves(p, n)
    BY <1>1 DEF PathListSound
  <2> QED
    BY <2>1, <2>2, ResolvesKept
<1>2. ASSUME NEW q, NEW n, pathList' = Listed(q, n), Resolves(q, n)'
      PROVE  PathListSound'
  <2>1. DOMAIN pathList' = DOMAIN pathList \cup {q} /\ pathList'[q].node = n
    BY <1>2 DEF Listed, Put
  <2>2. \A p \in DOMAIN pathList \ {q} : pathList'[p] = pathList[p]
    BY <1>2 DEF Listed, Put
  <2>3. ASSUME NEW p \in DOMAIN pathList', NEW m, m = pathList'[p].node
        PROVE  Resolves(p, m)'
    <3>1. CASE p = q
      BY <1>2, <2>1, <2>3, <3>1
    <3>2. CASE p # q
      BY <1>1, <2>1, <2>2, <2>3, <3>2
    <3> QED
      BY <3>1, <3>2
  <2>4. PathListSound' <=> \A p \in DOMAIN pathList' : \A m : m = pathList'[p].node => Resolves(p, m)'
    BY DEF PathListSound, Resolves
  <2> QED
    BY <2>3, <2>4
<1>3. CASE SubNodeCreate
  <2>1. pathList' = Listed(Append(node[adding.at].path, Name), FreeAddr)
    BY <1>3, CreateShape
  <2>2. PICK q, a : q = Append(node[adding.at].path, Name) /\ a = FreeAddr
    OBVIOUS
  <2>3. Resolves(q, a)'
    BY <1>3, <2>2, CreateResolves
  <2> QED
    BY <1>2, <2>1, <2>2, <2>3
<1>4. ASSUME SameTree, NEW t \in Thread, Write(t)
      PROVE  PathListSound'
  <2>1. PICK q, n : q = look[t].path /\ n = look[t].at
    OBVIOUS
  <2>2. Resolves(q, n)
    BY <1>4, <2>1 DEF Write, TraceOK
  <2>3. Len(q) \in Nat
    BY <2>1 DEF TypeOK
  <2>4. Resolves(q, n)'
    BY <2>2, <2>3, ResolvesKept
  <2>5. pathList' = Listed(q, n)
    BY <1>4, <2>1 DEF Write
  <2> QED
    BY <1>2, <2>4, <2>5
<1>5. CASE UNCHANGED pathList
  <2>1. ASSUME NEW p \in DOMAIN pathList', NEW m, m = pathList'[p].node
        PROVE  Resolves(p, m)'
    BY <1>1, <1>5, <2>1
  <2>2. PathListSound' <=> \A p \in DOMAIN pathList' : \A m : m = pathList'[p].node => Resolves(p, m)'
    BY DEF PathListSound, Resolves
  <2> QED
    BY <2>1, <2>2
<1> QED
  BY <1>3, <1>4, <1>5, StepKinds

\* Every step keeps a trace behind every walk.
LEMMA TraceNext ==
    ASSUME SoundInv, [Next]_vars
    PROVE  TraceOK'
<1> USE DEF SoundInv, TreeInv, ShapeInv, TypeInv
<1> DEFINE Behind(p, pc, n, k) ==
       /\ pc = "walk" => IsDir(n) /\ \E tr : IsTrace(p, k - 1, tr) /\ tr[k - 1] = n
       /\ pc \in {"lock", "write"} => Resolves(p, n)
<1>1. ASSUME NEW t \in Thread, NEW p, p = look[t].path, NEW pc, pc = look[t].pc,
             NEW n, n = look[t].at, NEW k, k = look[t].k
      PROVE  Behind(p, pc, n, k)'
  <2>1. Behind(p, pc, n, k)
    BY <1>1 DEF TraceOK
  <2>2. CASE pc = "walk"
    <3>1. n \in DOMAIN node /\ k - 1 \in Nat
      <4>1. n \in DOMAIN node /\ k \in 1..Len(p)
        BY <1>1, <2>2 DEF LookOK
      <4>2. p \in Seq(Segment) /\ k \in Nat
        BY <1>1 DEF TypeOK
      <4> QED
        BY <4>1, <4>2
    <3>2. PICK tr : IsTrace(p, k - 1, tr) /\ tr[k - 1] = n
      BY <2>1, <2>2
    <3>3. IsTrace(p, k - 1, tr)'
      BY <3>1, <3>2, TraceKept
    <3>4. node'[n].type = "dir"
      BY <2>1, <2>2, <3>1, NodesKept DEF IsDir
    <3> QED
      BY <2>2, <3>2, <3>3, <3>4 DEF IsDir
  <2>3. CASE pc \in {"lock", "write"}
    <3>1. Len(p) \in Nat
      BY <1>1 DEF TypeOK
    <3>2. Resolves(p, n)'
      BY <2>1, <2>3, <3>1, ResolvesKept
    <3> QED
      BY <2>3, <3>2
  <2> QED
    BY <2>2, <2>3
<1>2. ASSUME NEW p, NEW pc, NEW n, NEW k, UNCHANGED node, Behind(p, pc, n, k)
      PROVE  Behind(p, pc, n, k)'
  BY <1>2 DEF Resolves, IsTrace, IsDir, Follow, Entry
<1>3. ASSUME \A t \in Thread : \A p, pc, n, k :
               p = look'[t].path /\ pc = look'[t].pc /\ n = look'[t].at /\ k = look'[t].k
                 => Behind(p, pc, n, k)'
      PROVE  TraceOK'
  BY <1>3 DEF TraceOK
<1> HIDE DEF Behind
<1>4. CASE UNCHANGED look
  BY <1>1, <1>3, <1>4
<1>5. ASSUME NEW t \in Thread, UNCHANGED node, NEW r, look' = [look EXCEPT ![t] = r],
             \A p, pc, n, k :
               p = r.path /\ pc = r.pc /\ n = r.at /\ k = r.k => Behind(p, pc, n, k)
      PROVE  TraceOK'
  <2>1. ASSUME NEW u \in Thread, NEW p, p = look'[u].path, NEW pc, pc = look'[u].pc,
               NEW n, n = look'[u].at, NEW k, k = look'[u].k
        PROVE  Behind(p, pc, n, k)'
    <3>1. CASE u = t
      <4>1. look'[u] = r
        BY <1>5, <3>1 DEF TypeOK
      <4>2. Behind(p, pc, n, k)
        BY <1>5, <2>1, <4>1
      <4> QED
        BY <1>2, <1>5, <4>2
    <3>2. CASE u # t
      <4>1. look'[u] = look[u]
        BY <1>5, <3>2 DEF TypeOK
      <4> QED
        BY <1>1, <2>1, <4>1
    <3> QED
      BY <3>1, <3>2
  <2> QED
    BY <1>3, <2>1
<1>6. ASSUME NEW t \in Thread, NEW p \in LookupPath, Lookup(t, p)
      PROVE  TraceOK'
  <2> DEFINE r == [pc |-> IF p = <<>> THEN "done" ELSE "find",
                   path |-> p, k |-> 0, at |-> Root]
  <2>1. UNCHANGED node /\ look' = [look EXCEPT ![t] = r]
    BY <1>6 DEF Lookup
  <2>2. \A q, pc, n, k :
          q = r.path /\ pc = r.pc /\ n = r.at /\ k = r.k => Behind(q, pc, n, k)
    BY DEF Behind
  <2> HIDE DEF r
  <2> QED
    BY <1>5, <2>1, <2>2
<1>7. ASSUME NEW t \in Thread, LookupStep(t)
      PROVE  TraceOK'
  <2> DEFINE path == look[t].path
             at == look[t].at
             i == look[t].k
  <2>1. UNCHANGED node
    BY <1>7 DEF LookupStep, FindHit, FindMiss, WalkFail, WalkOn, WalkEnd, Lock, Write,
                LookupReturn
  <2>2. ASSUME NEW pc, NEW n, NEW k, Goto(t, pc, n, k), Behind(path, pc, n, k)
        PROVE  TraceOK'
    <3> DEFINE r == [pc |-> pc, path |-> path, k |-> k, at |-> n]
    <3>1. look' = [look EXCEPT ![t] = r]
      BY <2>2 DEF Goto, TypeOK
    <3>2. \A q, c, m, j :
            q = r.path /\ c = r.pc /\ m = r.at /\ j = r.k => Behind(q, c, m, j)
      BY <2>2
    <3> HIDE DEF r
    <3> QED
      BY <1>5, <2>1, <3>1, <3>2
  <2>3. CASE FindHit(t) \/ WalkFail(t)
    <3>1. \A n, k : Behind(path, "done", n, k)
      BY DEF Behind
    <3> QED
      BY <2>2, <2>3, <3>1 DEF FindHit, WalkFail
  <2>4. CASE FindMiss(t)
    <3>1. \E tr : IsTrace(path, 0, tr) /\ tr[0] = Root
      BY TraceStart DEF RootOK
    <3>2. Behind(path, "walk", Root, 1)
      BY <3>1 DEF Behind, RootOK
    <3> QED
      BY <2>2, <2>4, <3>2 DEF FindMiss
  <2>5. CASE WalkOn(t) \/ WalkEnd(t)
    <3>1. i \in 1..Len(path) /\ at \in DOMAIN node /\ IsDir(at)
      BY <2>5 DEF WalkOn, WalkEnd, LookOK, TraceOK
    <3>2. PICK tr : IsTrace(path, i - 1, tr) /\ tr[i - 1] = at
      BY <2>5 DEF WalkOn, WalkEnd, TraceOK
    <3>3. Target(t) # Null /\ Target(t) = Follow(at, path[i])
      BY <2>5 DEF WalkOn, WalkEnd, Reaches, Target
    <3>4. Target(t) \in DOMAIN node
      BY <3>1, <3>3 DEF Follow, Entry, LinksOK
    <3>5. PICK u : IsTrace(path, i, u) /\ u[i] = Target(t)
      <4>1. i \in Nat \ {0}
        BY <3>1
      <4>2. Follow(tr[i - 1], path[i]) \in DOMAIN node /\ IsDir(tr[i - 1])
        BY <3>1, <3>2, <3>3, <3>4
      <4>3. \E u : IsTrace(path, i, u) /\ u[i] = Follow(tr[i - 1], path[i])
        BY <3>2, <4>1, <4>2, TraceStep
      <4> QED
        BY <3>2, <3>3, <4>3
    <3>6. (i + 1) - 1 = i
      BY <3>1
    <3>7. CASE WalkOn(t)
      <4>1. Goto(t, "walk", Target(t), i + 1) /\ IsDir(Target(t))
        BY <3>7 DEF WalkOn, Reaches
      <4>2. Behind(path, "walk", Target(t), i + 1)
        BY <3>5, <3>6, <4>1 DEF Behind
      <4> QED
        BY <2>2, <4>1, <4>2
    <3>8. CASE WalkEnd(t)
      <4>1. Goto(t, "lock", Target(t), 0) /\ i = Len(path)
        BY <3>8 DEF WalkEnd, AtEnd
      <4>2. u \in [0..Len(path) -> DOMAIN node]
        BY <3>5, <4>1 DEF IsTrace
      <4>3. Resolves(path, Target(t))
        BY <3>5, <4>1, <4>2 DEF Resolves
      <4>4. Behind(path, "lock", Target(t), 0)
        BY <4>3 DEF Behind
      <4> QED
        BY <2>2, <4>1, <4>4
    <3> QED
      BY <2>5, <3>7, <3>8
  <2>6. CASE Lock(t) \/ Write(t)
    <3>1. Behind(path, "write", at, 0) /\ Behind(path, "done", at, 0)
      BY <2>6 DEF Lock, Write, TraceOK, Behind
    <3> QED
      BY <2>2, <2>6, <3>1 DEF Lock, Write
  <2>7. CASE LookupReturn(t)
    <3>1. \A p, pc, n, k :
            p = NoLookup.path /\ pc = NoLookup.pc /\ n = NoLookup.at /\ k = NoLookup.k
              => Behind(p, pc, n, k)
      BY DEF NoLookup, Behind
    <3>2. look' = [look EXCEPT ![t] = NoLookup]
      BY <2>7 DEF LookupReturn
    <3> QED
      BY <1>5, <2>1, <3>1, <3>2
  <2> QED
    BY <1>7, <2>3, <2>4, <2>5, <2>6, <2>7 DEF LookupStep
<1> QED
  BY <1>4, <1>6, <1>7
  DEF Next, vars, AddNode, AddStep, SubNodeForbidden, SubNodeExists, SubNodeCreate,
      AddReturn, BeginRequests

\* SoundInv is the inductive invariant: the initial states have it and every
\* step keeps it.
LEMMA SoundInvariant ==
    ASSUME <<>> \notin RegPath
    PROVE  Spec => []SoundInv
<1>1. Init => SoundInv
  <2> SUFFICES ASSUME Init PROVE SoundInv
    OBVIOUS
  <2>1. TreeInv /\ Root \in DOMAIN node
    BY TreeInit DEF TreeInv, ShapeInv, TypeInv, RootOK
  <2>2. \E tr : IsTrace(<<>>, 0, tr) /\ tr[0] = Root
    BY <2>1, TraceStart
  <2>3. Resolves(<<>>, Root)
    BY <2>2 DEF Resolves, IsTrace
  <2>4. PathListSound
    BY <2>3 DEF Init, PathListSound
  <2>5. TraceOK
    BY DEF Init, NoLookup, TraceOK
  <2> QED
    BY <2>1, <2>4, <2>5 DEF SoundInv
<1>2. SoundInv /\ [Next]_vars => SoundInv'
  BY TreeNext, PathSoundNext, TraceNext DEF SoundInv
<1> QED
  BY <1>1, <1>2, PTL DEF Spec

\* If no registration is at the empty path, every entry of pathList, aliases
\* included, is at any time what walking its path finds (PathListSound).
THEOREM PathListSoundInvariant ==
    ASSUME <<>> \notin RegPath
    PROVE  Spec => []PathListSound
<1>1. SoundInv => PathListSound
  BY DEF SoundInv
<1> QED
  BY <1>1, SoundInvariant, PTL

-----------------------------------------------------------------------------
\* Refinement: the tree implements VirtualFS

\* The initial tree is the empty file system.
LEMMA VFSInit == Init => VFS!Init
<1> SUFFICES ASSUME Init PROVE VFS!Init
    OBVIOUS
<1>1. DOMAIN node = {Root} /\ node[Root].type = "dir" /\ node[Root].path = <<>>
  BY DEF Init
<1>2. DirPaths = {<<>>}
  BY <1>1 DEF DirPaths, IsDir
<1>3. FilePaths = <<>>
  BY DEF Init, FilePaths
<1> QED
  BY <1>2, <1>3 DEF VFS!Init

\* A creation makes one directory or one file; any other step is invisible.
LEMMA VFSNext ==
    ASSUME TreeInv, [Next]_vars
    PROVE  [VFS!Next]_<<DirPaths, FilePaths>>
<1> USE DEF TreeInv, ShapeInv, TypeInv
<1>1. /\ fileList \in Seq(DOMAIN node) /\ Len(fileList) \in Nat
      /\ \A i \in 1..Len(fileList) : fileList[i] \in DOMAIN node
  BY DEF TypeOK
<1>2. CASE SameTree
  <2>1. /\ DOMAIN node' = DOMAIN node /\ fileList' = fileList
        /\ \A n \in DOMAIN node : node'[n].type = node[n].type /\ node'[n].path = node[n].path
    BY <1>2 DEF SameTree
  <2>2. DirPaths' = DirPaths
    BY <2>1 DEF DirPaths, IsDir
  <2>3. FilePaths' = FilePaths
    BY <1>1, <2>1 DEF FilePaths
  <2> QED
    BY <2>2, <2>3
<1>3. CASE SubNodeCreate
  <2> DEFINE a == FreeAddr
             d == node[adding.at].path
             q == Append(d, Name)
  <2>1. /\ a \notin DOMAIN node /\ adding.at \in DOMAIN node
        /\ DOMAIN node' = DOMAIN node \cup {a}
    BY <1>3, CreateEffect
  <2>2. Name \in EntryName /\ IsDir(adding.at) /\ node'[a].path = q
    BY <1>3, CreateShape
  <2>3. \A n \in DOMAIN node :
          /\ node'[n].type = node[n].type /\ node'[n].path = node[n].path
          /\ node[n].path # q
    BY <1>3, NodesKept, NewPathIsFree
  <2>4. node'[a].type = SubType /\ SubType \in NodeType
    BY <1>3, CreateEffect DEF NewNode, SubType, NodeType, TypeOK
  <2>5. fileList' = IF SubType = "file" THEN Append(fileList, a) ELSE fileList
    BY <1>3 DEF SubNodeCreate
  <2>6. d \in DirPaths
    BY <2>1, <2>2 DEF DirPaths
  <2> HIDE DEF a, q, d
  <2>7. q \notin DirPaths /\ \A i \in 1..Len(FilePaths) : FilePaths[i] # q
    BY <1>1, <2>3 DEF DirPaths, FilePaths
  <2>8. q \notin VFS!TakenPaths
    BY <2>7 DEF VFS!TakenPaths
  <2>9. CASE SubType = "dir"
    <3>1. DirPaths' = DirPaths \cup {q}
      BY <2>1, <2>2, <2>3, <2>4, <2>9 DEF DirPaths, IsDir
    <3>2. FilePaths' = FilePaths
      BY <1>1, <2>3, <2>5, <2>9 DEF FilePaths
    <3>3. VFS!MakeDir(q)
      BY <2>8, <3>1, <3>2 DEF VFS!MakeDir
    <3> QED
      BY <2>2, <2>6, <3>3 DEF VFS!Next, q
  <2>10. CASE SubType = "file"
    <3>1. DirPaths' = DirPaths
      BY <2>1, <2>3, <2>4, <2>10 DEF DirPaths, IsDir
    <3>2. FilePaths' = Append(FilePaths, q)
      BY <1>1, <2>1, <2>2, <2>3, <2>5, <2>10 DEF FilePaths
    <3>3. VFS!CreateFile(q)
      BY <2>8, <3>1, <3>2 DEF VFS!CreateFile
    <3> QED
      BY <2>2, <2>6, <3>3 DEF VFS!Next, q
  <2> QED
    BY <2>4, <2>9, <2>10 DEF NodeType
<1> QED
  BY <1>2, <1>3, StepKinds

\* If no registration is at the empty path, the tree implements VirtualFS:
\* clients only ever see directories and files being added at free paths, and
\* files keep their IDs (ImplementsVFS).
THEOREM TreeImplementsVFS ==
    ASSUME <<>> \notin RegPath
    PROVE  Spec => ImplementsVFS
<1>1. TreeInv /\ [Next]_vars => TreeInv'
  BY TreeNext
<1>2. TreeInv /\ [Next]_vars => [VFS!Next]_<<DirPaths, FilePaths>>
  BY VFSNext
<1> QED
  BY TreeInit, VFSInit, <1>1, <1>2, PTL DEF Spec, ImplementsVFS, VFS!Spec

-----------------------------------------------------------------------------
\* A lookup finds what a walk of the tree finds

\* The walk of Walk from n along one more segment
Onward(n, s) == IF n = Null \/ ~IsDir(n) THEN Null ELSE Follow(n, s)

IsWalk(p, at) ==
    /\ at \in [0..Len(p) -> DOMAIN node \cup {Null}]
    /\ at[0] = Root
    /\ \A i \in 1..Len(p) : at[i] = Onward(at[i - 1], p[i])

\* Walk is defined by recursion: its walk exists, since a segment always leads
\* to a node or to Null.
LEMMA WalkExists ==
    ASSUME TypeInv, NEW p \in Seq(Segment)
    PROVE  \E at : IsWalk(p, at) /\ Walk(p) = at[Len(p)]
<1> DEFINE X == DOMAIN node \cup {Null}
           n == Len(p)
           step == [i \in 1..n |-> [x \in X |-> Onward(x, p[i])]]
           Rec(at) == [i \in 0..n |-> IF i = 0 THEN Root
                                      ELSE IF at[i - 1] = Null \/ ~IsDir(at[i - 1]) THEN Null
                                      ELSE Follow(at[i - 1], p[i])]
<1>1. n \in Nat /\ Root \in X
  BY DEF TypeInv, RootOK
<1>2. ASSUME NEW x \in X, NEW s PROVE Onward(x, s) \in X
  BY DEF Onward, Follow, Entry, TypeInv, LinksOK
<1>3. step \in [1..n -> [X -> X]]
  BY <1>2
<1> HIDE DEF step, n, X
<1>4. PICK f : Iterates(f, n, X, Root, step)
  BY <1>1, <1>3, Iteration
<1>5. \A i \in 1..n : f[i] = Onward(f[i - 1], p[i])
  <2>1. \A i \in 1..n : f[i - 1] \in X
    BY <1>1, <1>4 DEF Iterates
  <2> QED BY <1>4, <2>1 DEF step, Iterates
<1>6. f = Rec(f)
  <2>1. \A i \in 0..n : f[i] = Rec(f)[i]
    BY <1>1, <1>4, <1>5 DEF Onward, Iterates
  <2> QED BY <1>4, <2>1 DEF Iterates
<1> DEFINE at == CHOOSE g : g = Rec(g)
<1>7. at = Rec(at)
  <2> HIDE DEF Rec
  <2> QED BY <1>6
<1>8. Walk(p) = at[n]
  BY DEF Walk, n
<1> HIDE DEF at
<1>9. at[0] = Root /\ \A i \in 1..n : at[i] = Onward(at[i - 1], p[i])
  BY <1>1, <1>7 DEF Onward
<1>10. \A i \in 0..n : i \in {j \in 0..n : at[j] \in X}
  <2>1. 0 \in {j \in 0..n : at[j] \in X}
    BY <1>1, <1>9
  <2>2. ASSUME NEW i \in 0..(n - 1), i \in {j \in 0..n : at[j] \in X}
        PROVE  i + 1 \in {j \in 0..n : at[j] \in X}
    <3>1. i + 1 \in 1..n /\ (i + 1) - 1 = i /\ at[i] \in X
      BY <1>1, <2>2
    <3>2. at[i + 1] = Onward(at[i], p[i + 1])
      BY <1>9, <3>1
    <3> QED BY <1>1, <1>2, <3>1, <3>2
  <2> QED BY <1>1, <2>1, <2>2, InductionUpTo
<1>11. at \in [0..n -> X]
  BY <1>7, <1>10
<1> QED BY <1>8, <1>9, <1>11 DEF IsWalk, n, X

\* A walk follows every trace, and past a missing node or a file it is lost.
LEMMA WalkFollowsTrace ==
    ASSUME NEW p \in Seq(Segment), NEW at, IsWalk(p, at), Null \notin DOMAIN node,
           NEW len \in 0..Len(p), NEW tr, IsTrace(p, len, tr)
    PROVE  at[len] = tr[len]
<1> DEFINE S == {i \in 0..len : at[i] = tr[i]}
<1>1. 0 \in S
  BY DEF IsWalk, IsTrace
<1>2. ASSUME NEW i \in 0..(len - 1), i \in S PROVE i + 1 \in S
  <2>1. i + 1 \in 1..len /\ i + 1 \in 1..Len(p) /\ (i + 1) - 1 = i
    OBVIOUS
  <2>2. at[i + 1] = Onward(at[i], p[i + 1])
    BY <2>1 DEF IsWalk
  <2>3. IsDir(tr[i]) /\ tr[i] \in DOMAIN node /\ tr[i + 1] = Follow(tr[i], p[i + 1])
    BY <2>1 DEF IsTrace
  <2> QED BY <1>2, <2>1, <2>2, <2>3 DEF Onward
<1> HIDE DEF S
<1>3. \A i \in 0..len : i \in S
  BY len \in Nat, <1>1, <1>2, InductionUpTo
<1> QED BY <1>3 DEF S

LEMMA WalkLost ==
    ASSUME NEW p \in Seq(Segment), NEW at, IsWalk(p, at),
           NEW k \in 0..Len(p), at[k] = Null
    PROVE  at[Len(p)] = Null
<1> DEFINE S == {i \in 0..(Len(p) - k) : at[k + i] = Null}
<1>1. 0 \in S
  OBVIOUS
<1>2. ASSUME NEW i \in 0..((Len(p) - k) - 1), i \in S PROVE i + 1 \in S
  <2>1. k + (i + 1) \in 1..Len(p) /\ (k + (i + 1)) - 1 = k + i
    OBVIOUS
  <2>2. at[k + (i + 1)] = Onward(at[k + i], p[k + (i + 1)])
    BY <2>1 DEF IsWalk
  <2> QED BY <1>2, <2>1, <2>2 DEF Onward
<1> HIDE DEF S
<1>3. \A i \in 0..(Len(p) - k) : i \in S
  BY Len(p) - k \in Nat, <1>1, <1>2, InductionUpTo
<1>4. Len(p) - k \in S
  BY <1>3
<1> QED BY <1>4 DEF S

LEMMA ResolvesToWalk ==
    ASSUME TypeInv, NEW p \in Seq(Segment), NEW n, Resolves(p, n)
    PROVE  Walk(p) = n
<1>1. PICK at : IsWalk(p, at) /\ Walk(p) = at[Len(p)]
  BY WalkExists
<1>2. PICK tr \in [0..Len(p) -> DOMAIN node] : IsTrace(p, Len(p), tr) /\ tr[Len(p)] = n
  BY DEF Resolves
<1>3. Null \notin DOMAIN node
  BY AddrAssumption DEF TypeInv, TypeOK
<1> QED BY <1>1, <1>2, <1>3, WalkFollowsTrace

\* The walk in progress of a lookup that fails: Walk fails too.
LEMMA FailsLikeWalk ==
    ASSUME SoundInv, NEW t \in Thread, look[t].pc = "walk", ~Reaches(t)
    PROVE  Walk(look[t].path) = Null
<1> USE DEF SoundInv, TreeInv, ShapeInv, TypeInv
<1> DEFINE p == look[t].path
           k == look[t].k
<1>1. p \in Seq(Segment) /\ k \in 1..Len(p)
  BY DEF TypeOK, LookOK
<1>2. PICK at : IsWalk(p, at) /\ Walk(p) = at[Len(p)]
  BY <1>1, WalkExists
<1>3. PICK tr : IsTrace(p, k - 1, tr) /\ tr[k - 1] = look[t].at
  BY DEF TraceOK
<1>4. Null \notin DOMAIN node
  BY AddrAssumption DEF TypeOK
<1>5. at[k - 1] = look[t].at
  <2>1. k - 1 \in 0..Len(p)
    BY <1>1
  <2> QED BY <1>1, <1>2, <1>3, <1>4, <2>1, WalkFollowsTrace
<1>6. at[k] = Target(t)
  <2>1. IsDir(look[t].at) /\ look[t].at \in DOMAIN node
    BY DEF TraceOK, LookOK
  <2>2. at[k] = Onward(at[k - 1], p[k])
    BY <1>1, <1>2 DEF IsWalk
  <2> QED BY <1>4, <1>5, <2>1, <2>2 DEF Onward, Target
<1>7. CASE Target(t) = Null
  <2>1. k \in 0..Len(p)
    BY <1>1
  <2> QED BY <1>1, <1>2, <1>6, <1>7, <2>1, WalkLost
<1>8. CASE Target(t) # Null /\ ~AtEnd(t) /\ ~IsDir(Target(t))
  <2>1. k + 1 \in 1..Len(p) /\ (k + 1) - 1 = k
    BY <1>1, <1>8 DEF AtEnd
  <2>2. at[k + 1] = Onward(at[k], p[k + 1])
    BY <1>2, <2>1 DEF IsWalk
  <2>3. at[k + 1] = Null /\ k + 1 \in 0..Len(p)
    BY <1>6, <1>8, <2>1, <2>2 DEF Onward
  <2> QED BY <1>1, <1>2, <2>3, WalkLost
<1> QED BY <1>7, <1>8 DEF Reaches

\* A lookup under way keeps the tree as it is, and the tree decides what Walk
\* finds.
LEMMA NodeKept ==
    ASSUME PhaseInv, [Next]_vars, NEW t \in Thread, look[t].pc # "idle"
    PROVE  UNCHANGED node
<1>1. adding.status = "idle"
  BY DEF PhaseInv
<1> QED
  BY <1>1
  DEF Next, vars, AddNode, AddStep, SubNodeForbidden, SubNodeExists, SubNodeCreate,
      AddReturn, BeginRequests, Lookup, LookupStep, FindHit, FindMiss, WalkFail, WalkOn,
      WalkEnd, Lock, Write, LookupReturn

LEMMA WalkKept ==
    ASSUME UNCHANGED node, NEW p
    PROVE  Walk(p)' = Walk(p)
BY DEF Walk, Follow, Entry, IsDir

LEMMA LookupExactNext ==
    ASSUME SoundInv, PhaseInv, LookupExact, [Next]_vars
    PROVE  LookupExact'
<1> USE DEF SoundInv, TreeInv, ShapeInv, TypeInv
<1> SUFFICES ASSUME NEW t \in Thread, look'[t].pc = "done", NEW q, q = look'[t].path
             PROVE  look'[t].at = Walk(q)'
  BY DEF LookupExact
<1>1. look \in [Thread -> [pc : {"idle", "find", "walk", "lock", "write", "done"},
                           path : Seq(Segment), k : Nat, at : DOMAIN node \cup {Null}]]
  BY DEF TypeOK
<1>2. ASSUME UNCHANGED look PROVE look'[t].at = Walk(q)'
  <2>1. UNCHANGED node
    BY <1>2, NodeKept
  <2> QED BY <1>2, <2>1, WalkKept DEF LookupExact
<1>3. ASSUME NEW u \in Thread, NEW p \in LookupPath, Lookup(u, p)
      PROVE  look'[t].at = Walk(q)'
  <2>1. UNCHANGED node
    BY <1>3 DEF Lookup
  <2>2. CASE u = t
    <3>1. look'[t].path = <<>> /\ look'[t].at = Root
      BY <1>1, <1>3, <2>2 DEF Lookup
    <3>2. Walk(<<>>) = Root
      <4>1. <<>> \in Seq(Segment) /\ Len(<<>>) = 0
        OBVIOUS
      <4>2. PICK at : IsWalk(<<>>, at) /\ Walk(<<>>) = at[Len(<<>>)]
        BY <4>1, WalkExists
      <4> QED BY <4>1, <4>2 DEF IsWalk
    <3> QED BY <2>1, <3>1, <3>2, WalkKept
  <2>3. CASE u # t
    <3>1. look'[t] = look[t]
      BY <1>1, <1>3, <2>3 DEF Lookup
    <3> QED BY <2>1, <3>1, WalkKept DEF LookupExact
  <2> QED BY <2>2, <2>3
<1>4. ASSUME NEW u \in Thread, LookupStep(u)
      PROVE  look'[t].at = Walk(q)'
  <2>1. UNCHANGED node
    BY <1>4 DEF LookupStep, FindHit, FindMiss, WalkFail, WalkOn, WalkEnd, Lock, Write,
                LookupReturn
  <2>2. CASE u # t
    <3>1. look'[t] = look[t]
      BY <1>1, <1>4, <2>2 DEF LookupStep, FindHit, FindMiss, WalkFail, WalkOn, WalkEnd,
                              Lock, Write, LookupReturn, Goto
    <3> QED BY <2>1, <3>1, WalkKept DEF LookupExact
  <2>3. CASE u = t
    <3> DEFINE p == look[t].path
    <3>1. p \in Seq(Segment)
      BY <1>1
    <3>2. look'[t].path = p /\ look'[t].at = Walk(p)
      <4>1. CASE FindHit(t)
        <5>1. p \in DOMAIN pathList /\ look'[t].path = p /\ look'[t].at = pathList[p].node
          BY <1>1, <4>1 DEF FindHit, Goto
        <5>2. Resolves(p, pathList[p].node)
          BY <5>1 DEF PathListSound
        <5> QED BY <3>1, <5>1, <5>2, ResolvesToWalk
      <4>2. CASE WalkFail(t)
        <5>1. look'[t].path = p /\ look'[t].at = Null
          BY <1>1, <4>2 DEF WalkFail, Goto
        <5> QED BY <4>2, <5>1, FailsLikeWalk DEF WalkFail
      <4>3. CASE Write(t)
        <5>1. look'[t].path = p /\ look'[t].at = look[t].at
          BY <1>1, <4>3 DEF Write, Goto
        <5>2. Resolves(p, look[t].at)
          BY <4>3 DEF Write, TraceOK
        <5> QED BY <3>1, <5>1, <5>2, ResolvesToWalk
      <4>4. CASE FindMiss(t) \/ WalkOn(t) \/ WalkEnd(t) \/ Lock(t) \/ LookupReturn(t)
        BY <1>1, <4>4 DEF FindMiss, WalkOn, WalkEnd, Lock, LookupReturn, Goto, NoLookup
      <4> QED BY <1>4, <2>3, <4>1, <4>2, <4>3, <4>4 DEF LookupStep
    <3> QED BY <2>1, <3>2, WalkKept
  <2> QED BY <2>2, <2>3
<1> QED
  BY <1>2, <1>3, <1>4
  DEF Next, vars, AddNode, AddStep, SubNodeForbidden, SubNodeExists, SubNodeCreate,
      AddReturn, BeginRequests

\* If no registration is at the empty path, a lookup returns what walking its path
\* finds, whether it hit pathList, missed it, or missed it because another thread
\* was writing; and it fails only when there is nothing (LookupExact).
THEOREM LookupExactInvariant ==
    ASSUME <<>> \notin RegPath
    PROVE  Spec => []LookupExact
<1>1. Init => PhaseInv /\ LookupExact
  BY DEF Init, PhaseInv, NoAdd, NoLookup, LookupExact
<1>2. SoundInv /\ PhaseInv /\ [Next]_vars => PhaseInv'
  BY PhaseNext DEF SoundInv, TreeInv, ShapeInv
<1>3. SoundInv /\ PhaseInv /\ LookupExact /\ [Next]_vars => LookupExact'
  BY LookupExactNext
<1> QED
  BY <1>1, <1>2, <1>3, SoundInvariant, PTL DEF Spec

=============================================================================
