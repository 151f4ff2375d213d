------------------------ MODULE PCS_Autoload_proofs ------------------------
(***************************************************************************)
(* Proofs about PCS_Autoload, for any classes and callbacks and calls of   *)
(* any depth: types, the hook stays in, no function of an earlier request  *)
(* is called, PHP code sees what it would see without PCS, and, when the   *)
(* callbacks are functions, PCS is asked first.                            *)
(***************************************************************************)
EXTENDS PCS_Autoload, SequenceTheorems, TLAPS

RegisterFrame == [call : {"register"}, of : Callback, prepend : BOOLEAN]
LoadFrame ==
    [call : {"load"}, of : Class, by : Other \cup {"pcs"},
     running : BOOLEAN, restores : BOOLEAN]
Frame == RegisterFrame \cup LoadFrame

\* A registration is under way, and at most one
HasRegister(s) == \E i \in 1..Len(s) : s[i].call = "register"
OneRegister(s) ==
    \A i, j \in 1..Len(s) : s[i].call = "register" /\ s[j].call = "register" => i = j

\* What SPL's flag was when spl_autoload_call() began: it is only ever set inside.
Nested(s, r) ==
    \A i \in 1..Len(s) : s[i].call = "load" /\ s[i].restores /\ s[i].running =>
      r /\ \A j \in 1..i : s[j].call = "load" /\ s[j].restores => s[j].running

\* An __autoload() counts as a missing function.
Strip(f) == IF f = "__autoload" THEN Null ELSE f

ListType == list = Null \/ list \in Seq(Callback \cup {"spl_autoload"})

\* Between requests the engine has reset its pointer; in a registration, or after
\* one was cut short, the pointer is the one that the wrapper put there.
PointersAgree ==
    /\ stage = "activated" => eg = Null /\ stack = <<>>
    /\ stage = "run" /\ eg # "pcs" => Strip(eg) = Strip(pcs_g)

\* Without nested spl_autoload_...() calls, the hook is out while one registers.
HookOut == ~NestedSpl => OneRegister(stack) /\ (HasRegister(stack) => eg # "pcs")

AutoloadInv ==
    /\ AutoloadTypeOK
    /\ HookInstalled
    /\ NoStaleAutoload
    /\ Nested(stack, running)
    /\ PointersAgree
    /\ HookOut

-----------------------------------------------------------------------------
\* Stacks

LEMMA Pushed ==
    ASSUME NEW s \in Seq(Frame), NEW x \in Frame
    PROVE  /\ <<x>> \o s \in Seq(Frame)
           /\ Len(<<x>> \o s) = Len(s) + 1
           /\ (<<x>> \o s)[1] = x
           /\ \A i \in 1..Len(s) : (<<x>> \o s)[i + 1] = s[i]
OBVIOUS

LEMMA Popped ==
    ASSUME NEW s \in Seq(Frame), s # <<>>
    PROVE  /\ Tail(s) \in Seq(Frame)
           /\ Len(s) = Len(Tail(s)) + 1
           /\ \A i \in 1..Len(Tail(s)) : Tail(s)[i] = s[i + 1]
OBVIOUS

\* q is s with x on top of it
OnTop(q, x, s) ==
    /\ q \in Seq(Frame) /\ s \in Seq(Frame)
    /\ Len(q) = Len(s) + 1
    /\ q[1] = x
    /\ \A i \in 1..Len(s) : q[i + 1] = s[i]

LEMMA TopRegister ==
    ASSUME NEW q, NEW x, NEW s, OnTop(q, x, s), x.call = "register"
    PROVE  /\ HasRegister(q)
           /\ OneRegister(q) <=> ~HasRegister(s)
           /\ \A r : Nested(q, r) <=> Nested(s, r)
<1> USE DEF OnTop
<1>1. Len(q) \in Nat /\ Len(s) \in Nat
  OBVIOUS
<1>2. HasRegister(q)
  BY <1>1 DEF HasRegister
<1>3. OneRegister(q) <=> ~HasRegister(s)
  <2>1. ASSUME OneRegister(q), HasRegister(s) PROVE FALSE
    <3>1. PICK i \in 1..Len(s) : s[i].call = "register"
      BY <2>1 DEF HasRegister
    <3>2. i + 1 \in 1..Len(q) /\ 1 \in 1..Len(q) /\ q[i + 1].call = "register"
      BY <1>1, <3>1
    <3> QED BY <2>1, <3>2 DEF OneRegister
  <2>2. ASSUME ~HasRegister(s) PROVE OneRegister(q)
    <3>1. ASSUME NEW i \in 1..Len(q), q[i].call = "register" PROVE i = 1
      <4>1. CASE i # 1
        <5>1. i - 1 \in 1..Len(s) /\ q[(i - 1) + 1] = s[i - 1] /\ (i - 1) + 1 = i
          BY <1>1, <4>1
        <5> QED BY <2>2, <3>1, <5>1 DEF HasRegister
      <4> QED BY <4>1
    <3> QED BY <3>1 DEF OneRegister
  <2> QED BY <2>1, <2>2
<1>4. ASSUME NEW r PROVE Nested(q, r) <=> Nested(s, r)
  <2>1. ASSUME Nested(q, r) PROVE Nested(s, r)
    <3> SUFFICES ASSUME NEW i \in 1..Len(s), s[i].call = "load", s[i].restores, s[i].running
                 PROVE  r /\ \A j \in 1..i : s[j].call = "load" /\ s[j].restores => s[j].running
      BY DEF Nested
    <3>1. i + 1 \in 1..Len(q) /\ q[i + 1] = s[i]
      BY <1>1
    <3>2. r /\ \A j \in 1..(i + 1) : q[j].call = "load" /\ q[j].restores => q[j].running
      BY <2>1, <3>1 DEF Nested
    <3>3. ASSUME NEW j \in 1..i PROVE j + 1 \in 1..(i + 1) /\ q[j + 1] = s[j]
      BY <1>1
    <3> QED BY <3>2, <3>3
  <2>2. ASSUME Nested(s, r) PROVE Nested(q, r)
    <3> SUFFICES ASSUME NEW i \in 1..Len(q), q[i].call = "load", q[i].restores, q[i].running
                 PROVE  r /\ \A j \in 1..i : q[j].call = "load" /\ q[j].restores => q[j].running
      BY DEF Nested
    <3>1. i # 1
      OBVIOUS
    <3>2. i - 1 \in 1..Len(s) /\ q[(i - 1) + 1] = s[i - 1] /\ (i - 1) + 1 = i
      BY <1>1, <3>1
    <3>3. r /\ \A j \in 1..(i - 1) : s[j].call = "load" /\ s[j].restores => s[j].running
      BY <2>2, <3>2 DEF Nested
    <3>4. ASSUME NEW j \in 1..i, q[j].call = "load", q[j].restores PROVE q[j].running
      <4>1. j # 1
        BY <3>4
      <4>2. j - 1 \in 1..(i - 1) /\ j - 1 \in 1..Len(s) /\ q[(j - 1) + 1] = s[j - 1] /\ (j - 1) + 1 = j
        BY <1>1, <3>2, <4>1
      <4> QED BY <3>3, <3>4, <4>2
    <3> QED BY <3>3, <3>4
  <2> QED BY <2>1, <2>2
<1> QED BY <1>2, <1>3, <1>4

LEMMA TopLoad ==
    ASSUME NEW q, NEW x, NEW s, OnTop(q, x, s), x.call = "load"
    PROVE  /\ HasRegister(q) <=> HasRegister(s)
           /\ OneRegister(q) <=> OneRegister(s)
           /\ \A r : x.restores /\ Nested(s, x.running) /\ (x.running => r) => Nested(q, r)
           /\ \A r : ~x.restores /\ Nested(s, r) => Nested(q, r)
           /\ \A r : x.restores /\ Nested(q, r) => Nested(s, x.running)
           /\ \A r : Nested(q, r) => Nested(s, r)
<1> USE DEF OnTop
<1>1. Len(q) \in Nat /\ Len(s) \in Nat
  OBVIOUS
<1>up. ASSUME NEW i \in 1..Len(s) PROVE i + 1 \in 1..Len(q) /\ q[i + 1] = s[i]
  BY <1>1
<1>down. ASSUME NEW i \in 1..Len(q), i # 1
         PROVE  i - 1 \in 1..Len(s) /\ q[i] = s[i - 1]
  <2>1. i - 1 \in 1..Len(s) /\ (i - 1) + 1 = i
    BY <1>1, <1>down
  <2>2. q[(i - 1) + 1] = s[i - 1]
    BY <2>1
  <2> QED BY <2>1, <2>2
<1>2. HasRegister(q) <=> HasRegister(s)
  <2>1. ASSUME HasRegister(s) PROVE HasRegister(q)
    BY <1>up, <2>1 DEF HasRegister
  <2>2. ASSUME HasRegister(q) PROVE HasRegister(s)
    <3>1. PICK i \in 1..Len(q) : q[i].call = "register"
      BY <2>2 DEF HasRegister
    <3>2. i # 1
      BY <3>1
    <3> QED BY <1>down, <3>1, <3>2 DEF HasRegister
  <2> QED BY <2>1, <2>2
<1>3. OneRegister(q) <=> OneRegister(s)
  <2>1. ASSUME OneRegister(q) PROVE OneRegister(s)
    <3> SUFFICES ASSUME NEW i \in 1..Len(s), NEW j \in 1..Len(s),
                        s[i].call = "register", s[j].call = "register"
                 PROVE  i = j
      BY DEF OneRegister
    <3>1. i + 1 = j + 1
      BY <1>up, <2>1 DEF OneRegister
    <3> QED BY <1>1, <3>1
  <2>2. ASSUME OneRegister(s) PROVE OneRegister(q)
    <3> SUFFICES ASSUME NEW i \in 1..Len(q), NEW j \in 1..Len(q),
                        q[i].call = "register", q[j].call = "register"
                 PROVE  i = j
      BY DEF OneRegister
    <3>1. i # 1 /\ j # 1
      OBVIOUS
    <3>2. i - 1 = j - 1
      BY <1>down, <2>2, <3>1 DEF OneRegister
    <3> QED BY <1>1, <3>2
  <2> QED BY <2>1, <2>2
<1>4. ASSUME NEW r, x.restores, Nested(s, x.running), x.running => r PROVE Nested(q, r)
  <2> SUFFICES ASSUME NEW i \in 1..Len(q), q[i].call = "load", q[i].restores, q[i].running
               PROVE  r /\ \A j \in 1..i : q[j].call = "load" /\ q[j].restores => q[j].running
    BY DEF Nested
  <2>1. CASE i = 1
    BY <1>4, <2>1
  <2>2. CASE i # 1
    <3>1. i - 1 \in 1..Len(s) /\ q[i] = s[i - 1]
      BY <1>down, <2>2
    <3>2. /\ x.running
          /\ \A j \in 1..(i - 1) : s[j].call = "load" /\ s[j].restores => s[j].running
      BY <1>4, <3>1 DEF Nested
    <3>3. ASSUME NEW j \in 1..i, q[j].call = "load", q[j].restores PROVE q[j].running
      <4>1. CASE j = 1
        BY <3>2, <4>1
      <4>2. CASE j # 1
        <5>1. j - 1 \in 1..(i - 1) /\ j \in 1..Len(q)
          BY <1>1, <4>2
        <5> QED BY <1>down, <3>2, <3>3, <4>2, <5>1
      <4> QED BY <4>1, <4>2
    <3> QED BY <1>4, <3>2, <3>3
  <2> QED BY <2>1, <2>2
<1>5. ASSUME NEW r, ~x.restores, Nested(s, r) PROVE Nested(q, r)
  <2> SUFFICES ASSUME NEW i \in 1..Len(q), q[i].call = "load", q[i].restores, q[i].running
               PROVE  r /\ \A j \in 1..i : q[j].call = "load" /\ q[j].restores => q[j].running
    BY DEF Nested
  <2>1. i # 1
    BY <1>5
  <2>2. i - 1 \in 1..Len(s) /\ q[i] = s[i - 1]
    BY <1>down, <2>1
  <2>3. r /\ \A j \in 1..(i - 1) : s[j].call = "load" /\ s[j].restores => s[j].running
    BY <1>5, <2>2 DEF Nested
  <2>4. ASSUME NEW j \in 1..i, q[j].call = "load", q[j].restores PROVE q[j].running
    <3>1. j # 1
      BY <1>5, <2>4
    <3>2. j - 1 \in 1..(i - 1) /\ j \in 1..Len(q)
      BY <1>1, <3>1
    <3> QED BY <1>down, <2>3, <2>4, <3>1, <3>2
  <2> QED BY <2>3, <2>4
<1>6. ASSUME NEW r, Nested(q, r), NEW i \in 1..Len(s),
             s[i].call = "load", s[i].restores, s[i].running
      PROVE  /\ r /\ (x.restores => x.running)
             /\ \A j \in 1..i : s[j].call = "load" /\ s[j].restores => s[j].running
  <2>1. i + 1 \in 1..Len(q) /\ q[i + 1] = s[i]
    BY <1>up
  <2>2. r /\ \A j \in 1..(i + 1) : q[j].call = "load" /\ q[j].restores => q[j].running
    BY <1>6, <2>1 DEF Nested
  <2>3. 1 \in 1..(i + 1)
    BY <1>1
  <2>4. x.restores => x.running
    BY <2>2, <2>3
  <2>5. ASSUME NEW j \in 1..i PROVE j + 1 \in 1..(i + 1) /\ q[j + 1] = s[j]
    BY <1>1, <1>up
  <2> QED BY <2>2, <2>4, <2>5
<1>7. ASSUME NEW r, Nested(q, r)
      PROVE  Nested(s, r) /\ (x.restores => Nested(s, x.running))
  BY <1>6, <1>7 DEF Nested
<1> HIDE DEF OnTop
<1> QED BY <1>2, <1>3, <1>4, <1>5, <1>7

\* What remains of a stack when its k innermost calls are cut off
LEMMA CutStack ==
    ASSUME NEW s \in Seq(Frame), NEW k \in 1..Len(s)
    PROVE  LET q == SubSeq(s, k + 1, Len(s)) IN
           /\ q \in Seq(Frame) /\ Len(q) = Len(s) - k
           /\ \A i \in 1..Len(q) : q[i] = s[i + k] /\ i + k \in 1..Len(s)
           /\ OneRegister(s) => OneRegister(q)
           /\ HasRegister(q) => HasRegister(s)
           /\ HasRegister(s) => HasRegister(q) \/ \E j \in 1..k : s[j].call = "register"
           /\ \A r : Nested(s, r) => Nested(q, r)
<1> DEFINE q == SubSeq(s, k + 1, Len(s))
<1>1. q \in Seq(Frame) /\ Len(q) = Len(s) - k /\ Len(s) \in Nat /\ k \in Nat
  OBVIOUS
<1>2. \A i \in 1..Len(q) : q[i] = s[i + k] /\ i + k \in 1..Len(s)
  BY <1>1
<1> HIDE DEF q
<1>3. ASSUME OneRegister(s) PROVE OneRegister(q)
  <2> SUFFICES ASSUME NEW i \in 1..Len(q), NEW j \in 1..Len(q),
                      q[i].call = "register", q[j].call = "register"
               PROVE  i = j
    BY DEF OneRegister
  <2>1. i + k = j + k
    BY <1>2, <1>3 DEF OneRegister
  <2> QED BY <1>1, <2>1
<1>4. HasRegister(q) => HasRegister(s)
  BY <1>2 DEF HasRegister
<1>5. ASSUME HasRegister(s) PROVE HasRegister(q) \/ \E j \in 1..k : s[j].call = "register"
  <2>1. PICK i \in 1..Len(s) : s[i].call = "register"
    BY <1>5 DEF HasRegister
  <2>2. CASE i <= k
    <3>1. i \in 1..k
      BY <1>1, <2>2
    <3> QED BY <2>1, <3>1
  <2>3. CASE i > k
    <3>1. i - k \in 1..Len(q) /\ (i - k) + k = i
      BY <1>1, <2>3
    <3>2. q[i - k].call = "register"
      BY <1>2, <2>1, <3>1
    <3> QED BY <3>1, <3>2 DEF HasRegister
  <2> QED BY <1>1, <2>2, <2>3
<1>6. ASSUME NEW r, Nested(s, r) PROVE Nested(q, r)
  <2> SUFFICES ASSUME NEW i \in 1..Len(q), q[i].call = "load", q[i].restores, q[i].running
               PROVE  r /\ \A j \in 1..i : q[j].call = "load" /\ q[j].restores => q[j].running
    BY DEF Nested
  <2>1. r /\ \A j \in 1..(i + k) : s[j].call = "load" /\ s[j].restores => s[j].running
    BY <1>2, <1>6 DEF Nested
  <2>2. ASSUME NEW j \in 1..i PROVE j + k \in 1..(i + k) /\ q[j] = s[j + k]
    BY <1>1, <1>2
  <2> QED BY <2>1, <2>2
<1> QED BY <1>1, <1>2, <1>3, <1>4, <1>5, <1>6 DEF q

\* What is on top of the rest
LEMMA TopOfStack ==
    ASSUME NEW s \in Seq(Frame), s # <<>>
    PROVE  OnTop(s, s[1], Tail(s)) /\ s[1] \in Frame
<1>1. s[1] \in Frame
  OBVIOUS
<1>2. OnTop(s, s[1], Tail(s))
  BY Popped DEF OnTop
<1> QED BY <1>1, <1>2

LEMMA PushOnTop ==
    ASSUME NEW s \in Seq(Frame), NEW x \in Frame
    PROVE  OnTop(<<x>> \o s, x, s)
BY Pushed DEF OnTop

-----------------------------------------------------------------------------
\* Types

LEMMA TypesApart ==
    AutoloadTypeOK <=>
      /\ eg \in Other \cup {"pcs"} /\ pcs_g \in Other /\ ListType
      /\ running \in BOOLEAN /\ has_autoload \in BOOLEAN /\ cut \in BOOLEAN
      /\ defined \subseteq Class /\ in_autoload \subseteq Class
      /\ stack \in Seq(Frame) /\ stage \in {"activated", "run"}
BY DEF AutoloadTypeOK, ListType, Frame, RegisterFrame, LoadFrame

LEMMA NamesApart ==
    /\ "pcs" \notin Other /\ Null \in Other /\ "__autoload" \in Other
    /\ "spl_autoload_call" \in Other /\ "spl_autoload" \in Other
    /\ Null \notin {"pcs", "spl_autoload_call", "spl_autoload", "__autoload"}
BY AutoloadAssumption DEF Other

LEMMA RegisteredType ==
    ASSUME ListType, NEW f, NEW cb \in Callback, NEW prepend \in BOOLEAN
    PROVE  /\ Spl!Registered(f, list, cb, prepend).func = "spl_autoload_call"
           /\ Spl!Registered(f, list, cb, prepend).list \in Seq(Callback \cup {"spl_autoload"})
<1> DEFINE S == Callback \cup {"spl_autoload"}
           old == IF list = Null THEN <<>> ELSE list
           spl == IF f = "spl_autoload" /\ ~Spl!Has(old, f) THEN Append(old, f) ELSE old
           new == IF Spl!Has(old, cb) THEN old ELSE Spl!Added(spl, cb, prepend)
<1>1. <<>> \in Seq(S)
  OBVIOUS
<1>2. old \in Seq(S)
  BY <1>1 DEF ListType
<1>3. spl \in Seq(S)
  <2> HIDE DEF old
  <2>1. CASE f = "spl_autoload"
    <3>1. Append(old, f) \in Seq(S)
      BY <1>2, <2>1
    <3> QED BY <1>2, <3>1
  <2>2. CASE f # "spl_autoload"
    BY <1>2, <2>2
  <2> QED BY <2>1, <2>2
<1>4. new \in Seq(S)
  <2> HIDE DEF old, spl
  <2>1. cb \in S /\ <<cb>> \in Seq(S)
    OBVIOUS
  <2> HIDE DEF S
  <2>2. <<cb>> \o spl \in Seq(S) /\ Append(spl, cb) \in Seq(S)
    BY <1>3, <2>1
  <2>3. Spl!Added(spl, cb, prepend) \in {<<cb>> \o spl, Append(spl, cb)}
    BY DEF Spl!Added
  <2> QED BY <1>2, <2>2, <2>3
<1>5. Spl!Registered(f, list, cb, prepend) = [func |-> "spl_autoload_call", list |-> new]
  BY DEF Spl!Registered
<1> HIDE DEF new
<1> QED BY <1>4, <1>5

LEMMA RegisteredDefaultType ==
    Spl!RegisteredDefault(list).func \in {"spl_autoload", "spl_autoload_call"}
BY DEF Spl!RegisteredDefault

LEMMA WithoutType ==
    ASSUME NEW S, NEW l \in Seq(S), NEW x
    PROVE  Spl!Without(l, x) \in Seq(S)
<1>1. CASE Spl!Has(l, x)
  <2> DEFINE i == CHOOSE i \in 1..Len(l) : l[i] = x
  <2>1. i \in 1..Len(l)
    BY <1>1 DEF Spl!Has
  <2> HIDE DEF i
  <2>2. SubSeq(l, 1, i - 1) \in Seq(S) /\ SubSeq(l, i + 1, Len(l)) \in Seq(S)
    BY <2>1
  <2>3. Spl!RemoveAt(l, i) \in Seq(S)
    BY <2>2 DEF Spl!RemoveAt
  <2> QED BY <1>1, <2>3 DEF Spl!Without, i
<1>2. CASE ~Spl!Has(l, x)
  BY <1>2 DEF Spl!Without
<1> QED BY <1>1, <1>2

LEMMA UnregisteredType ==
    ASSUME ListType, NEW f, NEW x, NEW r \in BOOLEAN
    PROVE  LET u == Spl!Unregistered(f, list, x, r)
           IN  /\ u.func \in {f, Null}
               /\ u.list = Null \/ u.list \in Seq(Callback \cup {"spl_autoload"})
<1> DEFINE S == Callback \cup {"spl_autoload"}
           u == Spl!Unregistered(f, list, x, r)
<1>1. CASE list # Null /\ x = "spl_autoload_call"
  <2>1. <<>> \in Seq(S)
    OBVIOUS
  <2>2. u = IF r THEN [func |-> f, list |-> <<>>] ELSE [func |-> Null, list |-> Null]
    BY <1>1 DEF Spl!Unregistered
  <2> HIDE DEF u
  <2>3. u.func \in {f, Null} /\ (u.list = Null \/ u.list = <<>>)
    BY <2>2
  <2> QED BY <2>1, <2>3 DEF u
<1>2. CASE list # Null /\ x # "spl_autoload_call"
  <2>1. Spl!Without(list, x) \in Seq(S)
    BY <1>2, WithoutType DEF ListType
  <2>2. u = [func |-> f, list |-> Spl!Without(list, x)]
    BY <1>2 DEF Spl!Unregistered
  <2> HIDE DEF u
  <2>3. u.func = f /\ u.list = Spl!Without(list, x)
    BY <2>2
  <2> QED BY <2>1, <2>3 DEF u
<1>3. CASE list = Null
  <2>1. u = [func |-> IF x = "spl_autoload" /\ f = x THEN Null ELSE f, list |-> list]
    BY <1>3 DEF Spl!Unregistered
  <2> HIDE DEF u
  <2>2. u.func \in {f, Null} /\ u.list = Null
    BY <1>3, <2>1
  <2> QED BY <2>2 DEF u
<1> QED BY <1>1, <1>2, <1>3

\* The properties in terms of the stack
LEMMA StackTerms == Waiting # {} <=> HasRegister(stack)
BY DEF Waiting, HasRegister

\* What the inductive invariant needs
LEMMA InvApart ==
    AutoloadInv <=>
      /\ AutoloadTypeOK
      /\ stage = "run" /\ ~HasRegister(stack) /\ ~cut => eg = "pcs"
      /\ NoStaleAutoload
      /\ Nested(stack, running)
      /\ PointersAgree
      /\ HookOut
BY StackTerms DEF AutoloadInv, HookInstalled

-----------------------------------------------------------------------------
\* Steps

LEMMA CallByOutcome ==
    ASSUME AutoloadTypeOK, NEW c \in Class, NEW f \in Other \cup {"pcs"},
           NEW below \in Seq(Frame), Nested(below, running), CallBy(c, f, below)
    PROVE  /\ stack' \in Seq(Frame) /\ running' \in BOOLEAN /\ in_autoload' \subseteq Class
           /\ Nested(stack', running')
           /\ HasRegister(stack') <=> HasRegister(below)
           /\ OneRegister(stack') <=> OneRegister(below)
           /\ running' = running \/ (f = "spl_autoload_call" /\ list # Null /\ running')
<1>1. running \in BOOLEAN /\ in_autoload \subseteq Class
  BY TypesApart
<1>2. CASE f = Null
  BY <1>1, <1>2 DEF CallBy
<1>3. CASE f # Null
  <2> DEFINE x == LoadCall(c, f)
  <2>1. /\ x \in LoadFrame /\ x.call = "load" /\ x.of = c /\ x.by = f /\ x.running = running
        /\ x.restores <=> f = "spl_autoload_call" /\ list # Null
    BY <1>1 DEF LoadCall, LoadFrame
  <2>2. x \in Frame
    BY <2>1 DEF Frame
  <2>3. stack' = <<x>> \o below /\ in_autoload' = in_autoload \cup {c}
    BY <1>3 DEF CallBy
  <2>4. running' = (running \/ x.restores)
    BY <1>3 DEF CallBy
  <2> HIDE DEF x
  <2>5. OnTop(stack', x, below)
    BY <2>2, <2>3, PushOnTop
  <2>6. stack' \in Seq(Frame)
    BY <2>5 DEF OnTop
  <2>7. running' \in BOOLEAN /\ (x.running => running')
    BY <1>1, <2>1, <2>4
  <2>8. Nested(below, x.running)
    BY <2>1
  <2>9. Nested(stack', running')
    <3>1. CASE x.restores
      BY <2>1, <2>5, <2>7, <2>8, <3>1, TopLoad
    <3>2. CASE ~x.restores
      <4>1. running' = running
        BY <1>1, <2>4, <3>2
      <4> QED BY <2>1, <2>5, <3>2, <4>1, TopLoad
    <3> QED BY <3>1, <3>2
  <2>10. /\ HasRegister(stack') <=> HasRegister(below)
         /\ OneRegister(stack') <=> OneRegister(below)
    BY <2>1, <2>5, TopLoad
  <2>11. running' = running \/ (f = "spl_autoload_call" /\ list # Null /\ running')
    BY <1>1, <2>1, <2>4
  <2>12. in_autoload' \subseteq Class
    BY <1>1, <2>3
  <2> QED BY <1>3, <2>6, <2>7, <2>9, <2>10, <2>11, <2>12
<1> QED BY <1>2, <1>3

\* Steps that put the hook in, in front of f
LEMMA InsertStep ==
    ASSUME AutoloadInv, NEW f \in Other \cup {"pcs"}, InsertHook(f),
           f = "__autoload" => has_autoload,
           f = "pcs" => stage = "run",
           ListType', stage' = "run",
           UNCHANGED <<running, has_autoload, defined, in_autoload>>,
           stack' \in Seq(Frame), Nested(stack', running),
           ~NestedSpl => ~HasRegister(stack')
    PROVE  AutoloadInv'
<1>1. /\ eg \in Other \cup {"pcs"} /\ pcs_g \in Other
      /\ running \in BOOLEAN /\ has_autoload \in BOOLEAN /\ cut \in BOOLEAN
      /\ defined \subseteq Class /\ in_autoload \subseteq Class
  BY TypesApart DEF AutoloadInv
<1>2. eg' = "pcs" /\ pcs_g' = (IF f = "pcs" THEN pcs_g ELSE f) /\ cut' = FALSE
  BY DEF InsertHook
<1>3. pcs_g' \in Other
  BY <1>1, <1>2
<1>4. AutoloadTypeOK'
  BY <1>1, <1>2, <1>3 DEF AutoloadTypeOK, ListType, Frame, RegisterFrame, LoadFrame
<1>5. NoStaleAutoload'
  BY <1>2 DEF AutoloadInv, NoStaleAutoload
<1>6. PointersAgree'
  BY <1>2 DEF PointersAgree
<1>7. HookOut'
  BY DEF HookOut, HasRegister, OneRegister
<1>8. Nested(stack, running)'
  BY DEF Nested
<1>9. HookInstalled'
  BY <1>2 DEF HookInstalled
<1> QED BY <1>4, <1>5, <1>6, <1>7, <1>8, <1>9 DEF AutoloadInv

\* Steps after which the autoload functions are the same, but for an __autoload()
\* that is taken for a missing one
LEMMA CallStep ==
    ASSUME AutoloadInv, stage = "run",
           Strip(eg') = Strip(eg), Strip(pcs_g') = Strip(pcs_g),
           "__autoload" \in {eg', pcs_g'} => has_autoload,
           UNCHANGED <<list, has_autoload, stage, cut>>,
           running' \in BOOLEAN, defined' \subseteq Class, in_autoload' \subseteq Class,
           stack' \in Seq(Frame), Nested(stack', running'),
           HasRegister(stack') <=> HasRegister(stack),
           OneRegister(stack') <=> OneRegister(stack)
    PROVE  AutoloadInv'
<1>1. /\ eg \in Other \cup {"pcs"} /\ pcs_g \in Other /\ ListType
      /\ has_autoload \in BOOLEAN /\ cut \in BOOLEAN
  BY TypesApart DEF AutoloadInv
<1>2. /\ eg' \in Other \cup {"pcs"} /\ pcs_g' \in Other
      /\ eg' = "pcs" <=> eg = "pcs"
  BY <1>1, NamesApart DEF Strip
<1>3. ListType'
  BY <1>1 DEF ListType
<1>4. AutoloadTypeOK'
  BY <1>1, <1>2, <1>3 DEF AutoloadTypeOK, ListType, Frame, RegisterFrame, LoadFrame
<1>5. NoStaleAutoload'
  BY DEF NoStaleAutoload
<1>6. PointersAgree'
  BY <1>2 DEF AutoloadInv, PointersAgree, Strip
<1>7. HookOut'
  BY <1>2 DEF AutoloadInv, HookOut, HasRegister, OneRegister
<1>8. Nested(stack, running)'
  BY DEF Nested
<1>9. HookInstalled'
  <2>1. ~HasRegister(stack) /\ ~cut => eg = "pcs"
    BY StackTerms DEF AutoloadInv, HookInstalled
  <2>2. Waiting' = {} => ~HasRegister(stack')
    BY DEF Waiting, HasRegister
  <2> QED BY <1>2, <2>1, <2>2 DEF HookInstalled
<1> QED BY <1>4, <1>5, <1>6, <1>7, <1>8, <1>9 DEF AutoloadInv

LEMMA RinitKeepsInv == AutoloadInv /\ RINIT => AutoloadInv'
<1> SUFFICES ASSUME AutoloadInv, RINIT PROVE AutoloadInv'
  OBVIOUS
<1>1. /\ stage = "activated" /\ InsertHook(eg) /\ stage' = "run"
      /\ UNCHANGED <<list, running, has_autoload, defined, in_autoload, stack>>
  BY DEF RINIT
<1>2. eg = Null /\ stack = <<>>
  BY <1>1 DEF AutoloadInv, PointersAgree
<1>3. eg \in Other /\ eg # "__autoload" /\ eg # "pcs"
  BY <1>2, NamesApart
<1>4. ListType'
  BY <1>1, TypesApart DEF AutoloadInv, ListType
<1>5. stack' \in Seq(Frame) /\ Nested(stack', running) /\ ~HasRegister(stack')
  BY <1>1, <1>2 DEF Nested, HasRegister
<1> QED BY <1>1, <1>3, <1>4, <1>5, InsertStep

LEMMA OrAutoloadType ==
    ASSUME NEW f \in Other, f = "__autoload" => has_autoload
    PROVE  /\ OrAutoload(f) \in Other /\ Strip(OrAutoload(f)) = Strip(f)
           /\ OrAutoload(f) = "__autoload" => has_autoload
           /\ OrAutoload(f) # "pcs"
BY NamesApart DEF OrAutoload, Strip

LEMMA UseClassKeepsInv ==
    ASSUME AutoloadInv, NEW c \in Class, UseClass(c)
    PROVE  AutoloadInv'
<1>1. /\ stage = "run" /\ UNCHANGED <<list, has_autoload, stage, cut>>
  BY DEF UseClass, PhpRuns
<1>2. /\ eg \in Other \cup {"pcs"} /\ pcs_g \in Other /\ stack \in Seq(Frame)
      /\ defined \subseteq Class /\ AutoloadTypeOK
  BY TypesApart DEF AutoloadInv
<1>3. /\ "__autoload" \in {eg, pcs_g} => has_autoload
      /\ Nested(stack, running)
  BY <1>1, InvApart DEF NoStaleAutoload
<1>4. ASSUME NEW f \in Other \cup {"pcs"}, CallBy(c, f, stack),
             defined' \subseteq Class,
             Strip(eg') = Strip(eg), Strip(pcs_g') = Strip(pcs_g),
             "__autoload" \in {eg', pcs_g'} => has_autoload
      PROVE  AutoloadInv'
  <2>1. /\ stack' \in Seq(Frame) /\ running' \in BOOLEAN /\ in_autoload' \subseteq Class
        /\ Nested(stack', running')
        /\ HasRegister(stack') <=> HasRegister(stack)
        /\ OneRegister(stack') <=> OneRegister(stack)
    BY <1>2, <1>3, <1>4, CallByOutcome
  <2> QED BY <1>1, <1>4, <2>1, CallStep
<1>5. CASE eg = "pcs"
  <2>1. Hook(c) /\ UNCHANGED eg
    BY <1>5 DEF UseClass
  <2>2. CASE c \in PcsClass
    <3>1. CallBy(c, "pcs", stack) /\ defined' = defined \cup {c} /\ UNCHANGED pcs_g
      BY <2>1, <2>2 DEF Hook
    <3> QED BY <1>2, <1>3, <1>4, <2>1, <3>1
  <2>3. CASE c \notin PcsClass
    <3>1. pcs_g' = OrAutoload(pcs_g) /\ CallBy(c, pcs_g', stack) /\ UNCHANGED defined
      BY <2>1, <2>3 DEF Hook
    <3>2. /\ pcs_g' \in Other /\ Strip(pcs_g') = Strip(pcs_g)
          /\ pcs_g' = "__autoload" => has_autoload
      BY <1>2, <1>3, <3>1, OrAutoloadType
    <3>3. eg' # "__autoload"
      BY <1>5, <2>1
    <3> QED BY <1>2, <1>4, <2>1, <2>3, <3>1, <3>2, <3>3
  <2> QED BY <2>2, <2>3
<1>6. CASE eg # "pcs"
  <2>1. eg' = OrAutoload(eg) /\ CallBy(c, eg', stack) /\ UNCHANGED <<defined, pcs_g>>
    BY <1>6 DEF UseClass
  <2>2. eg \in Other
    BY <1>2, <1>6
  <2>3. eg' \in Other /\ Strip(eg') = Strip(eg) /\ (eg' = "__autoload" => has_autoload)
    BY <1>3, <2>1, <2>2, OrAutoloadType
  <2> QED BY <1>2, <1>3, <1>4, <1>6, <2>1, <2>3
<1> QED BY <1>5, <1>6

LEMMA LoadReturnsKeepsInv ==
    ASSUME AutoloadInv, LoadReturns
    PROVE  /\ AutoloadInv'
           /\ running' = running \/ running' = FALSE
<1>1. /\ stage = "run" /\ stack # <<>> /\ stack[1].call # "register"
      /\ running' = (IF stack[1].restores THEN stack[1].running ELSE running)
      /\ stack' = Tail(stack)
      /\ in_autoload' = in_autoload \ {stack[1].of}
      /\ UNCHANGED <<eg, pcs_g, list, has_autoload, stage, cut>>
  BY DEF LoadReturns, PhpRuns, AtRegister
<1>2. /\ stack \in Seq(Frame) /\ running \in BOOLEAN
      /\ defined \subseteq Class /\ in_autoload \subseteq Class
  BY TypesApart DEF AutoloadInv
<1>3. OnTop(stack, stack[1], Tail(stack)) /\ stack[1] \in Frame
  BY <1>1, <1>2, TopOfStack
<1>4. stack[1] \in LoadFrame
  BY <1>1, <1>3 DEF Frame, RegisterFrame
<1>5. /\ stack[1].call = "load" /\ stack[1].of \in Class
      /\ stack[1].running \in BOOLEAN /\ stack[1].restores \in BOOLEAN
  BY <1>4 DEF LoadFrame
<1>6. /\ Nested(stack, running)
      /\ "__autoload" \in {eg, pcs_g} => has_autoload
  BY <1>1, InvApart DEF NoStaleAutoload
<1>7. /\ HasRegister(stack') <=> HasRegister(stack)
      /\ OneRegister(stack') <=> OneRegister(stack)
      /\ Nested(stack', running')
  BY <1>1, <1>3, <1>5, <1>6, TopLoad
<1>8. stack' \in Seq(Frame)
  BY <1>1, <1>3 DEF OnTop
<1>9. defined' \subseteq Class
  BY <1>2, <1>5 DEF LoadReturns
<1>10. AutoloadInv'
  BY <1>1, <1>2, <1>5, <1>6, <1>7, <1>8, <1>9, CallStep
<1>11. stack[1].restores /\ stack[1].running => running
  <2>1. 1 \in 1..Len(stack)
    BY <1>1, <1>2
  <2> QED BY <1>5, <1>6, <2>1 DEF Nested
<1> QED BY <1>1, <1>2, <1>5, <1>10, <1>11

LEMMA FatalKeepsInv ==
    ASSUME AutoloadInv, stage = "run", NEW lookups \in SUBSET Class, Fatal(lookups)
    PROVE  AutoloadInv'
<1>1. UNCHANGED <<eg, pcs_g, list, running, has_autoload, defined, stage>>
  BY DEF Fatal
<1>2. /\ stack \in Seq(Frame) /\ running \in BOOLEAN /\ cut \in BOOLEAN
      /\ Nested(stack, running)
      /\ ~NestedSpl => OneRegister(stack) /\ (HasRegister(stack) => eg # "pcs")
      /\ ~HasRegister(stack) /\ ~cut => eg = "pcs"
  BY TypesApart, StackTerms DEF AutoloadInv, HookInstalled, HookOut
<1>3. /\ stack' \in Seq(Frame) /\ in_autoload' \subseteq Class /\ cut' \in BOOLEAN
      /\ Nested(stack', running)
      /\ OneRegister(stack) => OneRegister(stack')
      /\ HasRegister(stack') => HasRegister(stack)
      /\ ~cut' => ~cut /\ (HasRegister(stack) => HasRegister(stack'))
  <2>1. CASE Catching = {}
    <3>1. /\ stack' = <<>> /\ in_autoload' = lookups /\ cut' = (cut \/ Waiting # {})
      BY <2>1 DEF Fatal
    <3>2. /\ Nested(stack', running) /\ OneRegister(stack') /\ ~HasRegister(stack')
          /\ stack' \in Seq(Frame)
      BY <3>1 DEF Nested, OneRegister, HasRegister
    <3> QED BY <1>2, <3>1, <3>2, StackTerms
  <2>2. CASE Catching # {}
    <3>1. PICK i \in Catching :
            /\ stack' = SubSeq(stack, i + 1, Len(stack))
            /\ in_autoload' = lookups \ {stack[i].of}
            /\ cut' = (cut \/ \E j \in Waiting : j < i)
      BY <2>2 DEF Fatal
    <3>2. i \in 1..Len(stack) /\ stack[i].call = "load"
      BY <3>1 DEF Catching
    <3>3. /\ stack' \in Seq(Frame) /\ Nested(stack', running)
          /\ OneRegister(stack) => OneRegister(stack')
          /\ HasRegister(stack') => HasRegister(stack)
          /\ HasRegister(stack) =>
               HasRegister(stack') \/ \E j \in 1..i : stack[j].call = "register"
      BY <1>2, <3>1, <3>2, CutStack
    <3>4. ASSUME NEW j \in 1..i, stack[j].call = "register" PROVE cut'
      <4>1. j \in 1..Len(stack) /\ j < i
        BY <1>2, <3>2, <3>4
      <4>2. j \in Waiting
        BY <3>4, <4>1 DEF Waiting
      <4> QED BY <3>1, <4>1, <4>2
    <3> QED BY <1>2, <3>1, <3>3, <3>4
  <2> QED BY <2>1, <2>2
<1>4. AutoloadTypeOK'
  BY <1>1, <1>3 DEF AutoloadInv, AutoloadTypeOK, Frame, RegisterFrame, LoadFrame
<1>5. HookInstalled'
  <2>1. Waiting' = {} => ~HasRegister(stack')
    BY DEF Waiting, HasRegister
  <2> QED BY <1>1, <1>2, <1>3, <2>1 DEF HookInstalled
<1>6. NoStaleAutoload' /\ PointersAgree'
  BY <1>1 DEF AutoloadInv, NoStaleAutoload, PointersAgree, Strip
<1>7. Nested(stack, running)' /\ HookOut'
  BY <1>1, <1>2, <1>3 DEF Nested, HookOut, OneRegister, HasRegister
<1> QED BY <1>4, <1>5, <1>6, <1>7 DEF AutoloadInv

LEMMA CompileErrorKeepsInv ==
    ASSUME AutoloadInv, NEW c \in Class, CompileError(c)
    PROVE  AutoloadInv'
<1>1. in_autoload \subseteq Class
  BY TypesApart DEF AutoloadInv
<1>2. stage = "run" /\ Fatal(in_autoload \cup {c})
  BY DEF CompileError, PhpRuns
<1> QED BY <1>1, <1>2, FatalKeepsInv

LEMMA GetClassKeepsInv ==
    ASSUME AutoloadInv, NEW c \in Class, NEW always \in BOOLEAN, GetClass(c, always)
    PROVE  AutoloadInv'
<1>1. stage = "run"
  BY DEF GetClass, PhpRuns
<1>2. CASE Fatal(in_autoload)
  <2>1. in_autoload \subseteq Class
    BY TypesApart DEF AutoloadInv
  <2> QED BY <1>1, <1>2, <2>1, FatalKeepsInv
<1>3. CASE ~Fatal(in_autoload)
  <2> DEFINE x == LoadCall(c, "pcs")
  <2>1. /\ stack' = <<x>> \o stack /\ defined' = defined \cup {c}
        /\ UNCHANGED <<eg, pcs_g, list, running, has_autoload, in_autoload, stage, cut>>
    BY <1>3 DEF GetClass
  <2>2. /\ stack \in Seq(Frame) /\ running \in BOOLEAN
        /\ defined \subseteq Class /\ in_autoload \subseteq Class
    BY TypesApart DEF AutoloadInv
  <2>3. /\ x \in LoadFrame /\ x.call = "load" /\ x.by = "pcs" /\ ~x.restores
    BY <2>2 DEF LoadCall, LoadFrame
  <2>4. x \in Frame
    BY <2>3 DEF Frame
  <2> HIDE DEF x
  <2>5. OnTop(stack', x, stack)
    BY <2>1, <2>2, <2>4, PushOnTop
  <2>6. /\ Nested(stack, running)
        /\ "__autoload" \in {eg, pcs_g} => has_autoload
    BY <1>1, InvApart DEF NoStaleAutoload
  <2>7. /\ HasRegister(stack') <=> HasRegister(stack)
        /\ OneRegister(stack') <=> OneRegister(stack)
        /\ Nested(stack', running)
    BY <2>3, <2>5, <2>6, TopLoad
  <2>8. stack' \in Seq(Frame)
    BY <2>5 DEF OnTop
  <2> QED BY <1>1, <2>1, <2>2, <2>6, <2>7, <2>8, CallStep
<1> QED BY <1>2, <1>3

\* The wrappers run when no registration is under way, or NestedSpl allows it.
LEMMA SplMayBeCalled ==
    ASSUME AutoloadInv, MayCallSpl
    PROVE  /\ stage = "run" /\ (~NestedSpl => ~HasRegister(stack))
           /\ pcs_g \in Other /\ (pcs_g = "__autoload" => has_autoload)
           /\ stack \in Seq(Frame) /\ Nested(stack, running)
           /\ running \in BOOLEAN /\ ListType
<1>1. stage = "run" /\ (~NestedSpl => ~HasRegister(stack))
  BY StackTerms DEF MayCallSpl, PhpRuns
<1>2. pcs_g \in Other /\ stack \in Seq(Frame) /\ running \in BOOLEAN /\ ListType
  BY TypesApart DEF AutoloadInv
<1>3. Nested(stack, running)
  BY InvApart
<1>4. pcs_g = "__autoload" => has_autoload
  BY <1>1 DEF AutoloadInv, NoStaleAutoload
<1> QED BY <1>1, <1>2, <1>3, <1>4

\* A registration begins: the hook goes out
LEMMA RegisterBeginOutcome ==
    ASSUME AutoloadInv, NEW cb \in Callback, NEW prepend \in BOOLEAN,
           RegisterBegin(cb, prepend)
    PROVE  /\ eg' \in Other /\ Strip(eg') = Strip(pcs_g)
           /\ eg' = "__autoload" => has_autoload
           /\ UNCHANGED <<pcs_g, list, has_autoload, defined, stage, cut>>
           /\ stack' \in Seq(Frame) /\ running' \in BOOLEAN /\ in_autoload' \subseteq Class
           /\ Nested(stack', running')
           /\ HasRegister(stack')
           /\ OneRegister(stack') <=> ~HasRegister(stack)
           /\ running' = running \/ (eg' = "spl_autoload_call" /\ list # Null /\ running')
<1> DEFINE c == ClassOf[cb]
           x == RegisterCall(cb, prepend)
           below == <<x>> \o stack
<1>1. /\ MayCallSpl /\ UNCHANGED <<pcs_g, list, has_autoload, defined, stage, cut>>
      /\ IF c # Null /\ c \notin defined \cup in_autoload
         THEN eg' = OrAutoload(pcs_g) /\ CallBy(c, eg', below)
         ELSE eg' = pcs_g /\ stack' = below /\ UNCHANGED <<running, in_autoload>>
  BY DEF RegisterBegin, Original
<1>2. /\ pcs_g \in Other /\ (pcs_g = "__autoload" => has_autoload)
      /\ stack \in Seq(Frame) /\ Nested(stack, running)
      /\ running \in BOOLEAN
  BY <1>1, SplMayBeCalled
<1>3. x \in Frame /\ x.call = "register"
  BY DEF RegisterCall, RegisterFrame, Frame
<1>4. c \in Class \cup {Null}
  BY AutoloadAssumption
<1> HIDE DEF c, x
<1>5. OnTop(below, x, stack)
  BY <1>2, <1>3, PushOnTop
<1> HIDE DEF below
<1>6. /\ HasRegister(below) /\ (OneRegister(below) <=> ~HasRegister(stack))
      /\ Nested(below, running)
  BY <1>2, <1>3, <1>5, TopRegister
<1>7. below \in Seq(Frame)
  BY <1>5 DEF OnTop
<1>8. CASE c # Null /\ c \notin defined \cup in_autoload
  <2>1. eg' = OrAutoload(pcs_g) /\ CallBy(c, eg', below) /\ c \in Class
    BY <1>1, <1>4, <1>8
  <2>2. eg' \in Other /\ Strip(eg') = Strip(pcs_g) /\ (eg' = "__autoload" => has_autoload)
    BY <1>2, <2>1, OrAutoloadType
  <2>3. eg' \in Other \cup {"pcs"} /\ AutoloadTypeOK
    BY <2>2 DEF AutoloadInv
  <2>4. /\ stack' \in Seq(Frame) /\ running' \in BOOLEAN /\ in_autoload' \subseteq Class
        /\ Nested(stack', running')
        /\ HasRegister(stack') <=> HasRegister(below)
        /\ OneRegister(stack') <=> OneRegister(below)
        /\ running' = running \/ (eg' = "spl_autoload_call" /\ list # Null /\ running')
    BY <1>6, <1>7, <2>1, <2>3, CallByOutcome
  <2> QED BY <1>1, <1>2, <1>6, <2>2, <2>4
<1>9. CASE ~(c # Null /\ c \notin defined \cup in_autoload)
  <2>1. eg' = pcs_g /\ stack' = below /\ running' = running /\ in_autoload' = in_autoload
    BY <1>1, <1>9
  <2>2. in_autoload \subseteq Class
    BY TypesApart DEF AutoloadInv
  <2> QED BY <1>1, <1>2, <1>6, <1>7, <2>1, <2>2
<1> QED BY <1>8, <1>9

LEMMA RegisterBeginKeepsInv ==
    ASSUME AutoloadInv, NEW cb \in Callback, NEW prepend \in BOOLEAN,
           RegisterBegin(cb, prepend)
    PROVE  AutoloadInv'
<1>1. /\ eg' \in Other /\ Strip(eg') = Strip(pcs_g)
      /\ eg' = "__autoload" => has_autoload
      /\ UNCHANGED <<pcs_g, list, has_autoload, defined, stage, cut>>
      /\ stack' \in Seq(Frame) /\ running' \in BOOLEAN /\ in_autoload' \subseteq Class
      /\ Nested(stack', running')
      /\ HasRegister(stack')
      /\ OneRegister(stack') <=> ~HasRegister(stack)
  BY RegisterBeginOutcome
<1>2. /\ stage = "run" /\ (~NestedSpl => ~HasRegister(stack))
      /\ pcs_g \in Other /\ (pcs_g = "__autoload" => has_autoload)
  BY SplMayBeCalled DEF RegisterBegin
<1>3. ListType' /\ has_autoload \in BOOLEAN /\ cut \in BOOLEAN /\ defined \subseteq Class
  BY <1>1, TypesApart DEF AutoloadInv, ListType
<1>4. AutoloadTypeOK'
  BY <1>1, <1>2, <1>3 DEF AutoloadTypeOK, ListType, Frame, RegisterFrame, LoadFrame
<1>5. HookInstalled'
  <2>1. Waiting' # {}
    BY <1>1 DEF Waiting, HasRegister
  <2> QED BY <2>1 DEF HookInstalled
<1>6. Nested(stack, running)'
  BY <1>1 DEF Nested
<1>7. NoStaleAutoload' /\ PointersAgree'
  BY <1>1, <1>2 DEF NoStaleAutoload, PointersAgree, Strip
<1>8. HookOut'
  BY <1>1, <1>2, NamesApart DEF HookOut, OneRegister
<1> QED BY <1>4, <1>5, <1>6, <1>7, <1>8 DEF AutoloadInv

LEMMA RegisterEndKeepsInv ==
    ASSUME AutoloadInv, RegisterEnd
    PROVE  AutoloadInv'
<1> DEFINE cb == stack[1].of
           r == Spl!Registered(eg, list, cb, stack[1].prepend)
<1>1. /\ stack # <<>> /\ stack[1].call = "register" /\ stack' = Tail(stack)
      /\ UNCHANGED <<running, has_autoload, defined, in_autoload, stage>>
      /\ IF ClassOf[cb] \in defined \cup {Null}
         THEN InsertHook(r.func) /\ list' = r.list
         ELSE InsertHook(eg) /\ UNCHANGED list
  BY DEF RegisterEnd, AtRegister
<1>2. /\ stack \in Seq(Frame) /\ eg \in Other \cup {"pcs"} /\ ListType
  BY TypesApart DEF AutoloadInv
<1>3. OnTop(stack, stack[1], Tail(stack)) /\ stack[1] \in Frame
  BY <1>1, <1>2, TopOfStack
<1>4. stack[1] \in RegisterFrame
  BY <1>1, <1>3 DEF Frame, LoadFrame
<1>5. cb \in Callback /\ stack[1].prepend \in BOOLEAN
  BY <1>4 DEF RegisterFrame
<1>6. stage = "run"
  BY <1>1, TypesApart DEF AutoloadInv, PointersAgree
<1>7. /\ Nested(stack, running)
      /\ "__autoload" \in {eg, pcs_g} => has_autoload
      /\ ~NestedSpl => OneRegister(stack)
  BY <1>6, InvApart DEF NoStaleAutoload, HookOut
<1>8. /\ Nested(stack', running)
      /\ OneRegister(stack) => ~HasRegister(stack')
  BY <1>1, <1>3, <1>7, TopRegister
<1>9. stack' \in Seq(Frame) /\ stage' = "run"
  BY <1>1, <1>3, <1>6 DEF OnTop
<1>10. /\ r.func = "spl_autoload_call"
       /\ r.list \in Seq(Callback \cup {"spl_autoload"})
  BY <1>2, <1>5, RegisteredType
<1> HIDE DEF r
<1>11. CASE ClassOf[cb] \in defined \cup {Null}
  <2>1. InsertHook("spl_autoload_call") /\ list' = r.list
    BY <1>1, <1>10, <1>11
  <2>2. ListType'
    BY <1>10, <2>1 DEF ListType
  <2>3. "spl_autoload_call" \in Other \cup {"pcs"}
    BY NamesApart
  <2> QED BY <1>1, <1>7, <1>8, <1>9, <2>1, <2>2, <2>3, InsertStep
<1>12. CASE ~(ClassOf[cb] \in defined \cup {Null})
  <2>1. InsertHook(eg) /\ UNCHANGED list
    BY <1>1, <1>12
  <2>2. ListType'
    BY <1>2, <2>1 DEF ListType
  <2> QED BY <1>1, <1>2, <1>6, <1>7, <1>8, <1>9, <2>1, <2>2, InsertStep
<1> QED BY <1>11, <1>12

LEMMA WrapperKeepsInv ==
    ASSUME AutoloadInv,
           \/ RegisterDefault
           \/ \E x \in Callback \cup {"spl_autoload_call", "spl_autoload"} : Unregister(x)
    PROVE  AutoloadInv'
<1>1. /\ MayCallSpl
      /\ UNCHANGED <<running, has_autoload, defined, in_autoload, stack, stage>>
  BY DEF RegisterDefault, Unregister
<1>2. /\ stage = "run" /\ (~NestedSpl => ~HasRegister(stack))
      /\ pcs_g \in Other /\ (pcs_g = "__autoload" => has_autoload)
      /\ stack \in Seq(Frame) /\ Nested(stack, running)
      /\ running \in BOOLEAN /\ ListType
  BY <1>1, SplMayBeCalled
<1>3. /\ stack' \in Seq(Frame) /\ Nested(stack', running) /\ stage' = "run"
      /\ ~NestedSpl => ~HasRegister(stack')
  BY <1>1, <1>2
<1>4. CASE RegisterDefault
  <2> DEFINE f == Spl!RegisteredDefault(list).func
  <2>1. InsertHook(f) /\ UNCHANGED list
    BY <1>4 DEF RegisterDefault
  <2>2. f \in {"spl_autoload", "spl_autoload_call"}
    BY RegisteredDefaultType
  <2> HIDE DEF f
  <2>3. f \in Other \cup {"pcs"} /\ f # "__autoload" /\ f # "pcs"
    BY <2>2, NamesApart
  <2>4. ListType'
    BY <1>2, <2>1 DEF ListType
  <2> QED BY <1>1, <1>3, <2>1, <2>3, <2>4, InsertStep
<1>5. CASE \E x \in Callback \cup {"spl_autoload_call", "spl_autoload"} : Unregister(x)
  <2>1. PICK x : Unregister(x)
    BY <1>5
  <2> DEFINE r == Spl!Unregistered(pcs_g, list, x, running)
  <2>2. InsertHook(r.func) /\ list' = r.list
    BY <2>1 DEF Unregister, Original
  <2>3. /\ r.func \in {pcs_g, Null}
        /\ r.list = Null \/ r.list \in Seq(Callback \cup {"spl_autoload"})
    BY <1>2, UnregisteredType
  <2> HIDE DEF r
  <2>4. /\ r.func \in Other \cup {"pcs"} /\ (r.func = "__autoload" => has_autoload)
        /\ r.func # "pcs"
    BY <1>2, <2>3, NamesApart
  <2>5. ListType'
    BY <2>2, <2>3 DEF ListType
  <2> QED BY <1>1, <1>3, <2>2, <2>4, <2>5, InsertStep
<1> QED BY <1>4, <1>5

LEMMA OthersKeepInv ==
    ASSUME AutoloadInv, Functions \/ DefineAutoload \/ NewRequest \/ UNCHANGED vars
    PROVE  AutoloadInv'
<1>1. CASE Functions \/ UNCHANGED vars
  <2>1. UNCHANGED <<eg, pcs_g, list, running, has_autoload, defined, in_autoload,
                    stack, stage, cut>>
    BY <1>1 DEF Functions, vars
  <2>2. AutoloadTypeOK'
    BY <2>1 DEF AutoloadInv, AutoloadTypeOK
  <2>3. HookInstalled'
    BY <2>1 DEF AutoloadInv, HookInstalled, Waiting
  <2>4. NoStaleAutoload' /\ PointersAgree' /\ HookOut' /\ Nested(stack, running)'
    BY <2>1 DEF AutoloadInv, NoStaleAutoload, PointersAgree, HookOut
  <2> QED BY <2>2, <2>3, <2>4 DEF AutoloadInv
<1>2. CASE DefineAutoload
  <2>1. /\ has_autoload' = TRUE
        /\ UNCHANGED <<eg, pcs_g, list, running, defined, in_autoload, stack, stage, cut>>
    BY <1>2 DEF DefineAutoload
  <2>2. AutoloadTypeOK'
    BY <2>1 DEF AutoloadInv, AutoloadTypeOK
  <2>3. HookInstalled'
    BY <2>1 DEF AutoloadInv, HookInstalled, Waiting
  <2>4. NoStaleAutoload' /\ PointersAgree' /\ HookOut' /\ Nested(stack, running)'
    BY <2>1 DEF AutoloadInv, NoStaleAutoload, PointersAgree, HookOut
  <2> QED BY <2>2, <2>3, <2>4 DEF AutoloadInv
<1>3. CASE NewRequest
  <2>1. /\ eg' = Null /\ list' = Null /\ has_autoload' = FALSE
        /\ defined' = {} /\ in_autoload' = {} /\ stage' = "activated" /\ cut' = FALSE
        /\ stack = <<>> /\ UNCHANGED <<pcs_g, running, stack>>
    BY <1>3 DEF NewRequest
  <2>2. AutoloadTypeOK'
    BY <2>1, NamesApart DEF AutoloadInv, AutoloadTypeOK
  <2>3. HookInstalled' /\ NoStaleAutoload'
    BY <2>1 DEF HookInstalled, NoStaleAutoload
  <2>4. Nested(stack, running)'
    BY <2>1 DEF Nested
  <2>5. PointersAgree' /\ HookOut'
    BY <2>1 DEF PointersAgree, HookOut, OneRegister, HasRegister
  <2> QED BY <2>2, <2>3, <2>4, <2>5 DEF AutoloadInv
<1> QED BY <1>1, <1>2, <1>3

LEMMA AutoloadInvInit == Init => AutoloadInv
<1> SUFFICES ASSUME Init PROVE AutoloadInv
  OBVIOUS
<1>1. /\ eg = Null /\ pcs_g = Null /\ list = Null /\ running = FALSE
      /\ has_autoload = FALSE /\ defined = {} /\ in_autoload = {}
      /\ stack = <<>> /\ stage = "activated" /\ cut = FALSE
  BY DEF Init
<1>2. stack \in Seq(Frame)
  BY <1>1
<1>3. AutoloadTypeOK
  BY <1>1, <1>2, NamesApart, TypesApart DEF ListType
<1>4. HookInstalled /\ NoStaleAutoload
  BY <1>1 DEF HookInstalled, NoStaleAutoload
<1>5. Nested(stack, running)
  BY <1>1 DEF Nested
<1>6. PointersAgree /\ HookOut
  BY <1>1 DEF PointersAgree, HookOut, OneRegister, HasRegister
<1> QED BY <1>3, <1>4, <1>5, <1>6 DEF AutoloadInv

LEMMA AutoloadInvNext == AutoloadInv /\ [Next]_vars => AutoloadInv'
<1> SUFFICES ASSUME AutoloadInv, [Next]_vars PROVE AutoloadInv'
  OBVIOUS
<1>1. ASSUME FatalError PROVE AutoloadInv'
  <2>1. in_autoload \subseteq Class /\ stage = "run"
    BY <1>1, TypesApart DEF AutoloadInv, FatalError, PhpRuns
  <2> QED BY <1>1, <2>1, FatalKeepsInv DEF FatalError
<1> QED
  BY <1>1, CompileErrorKeepsInv, RinitKeepsInv, LoadReturnsKeepsInv, UseClassKeepsInv, GetClassKeepsInv,
     RegisterBeginKeepsInv, RegisterEndKeepsInv, WrapperKeepsInv, OthersKeepInv DEF Next

-----------------------------------------------------------------------------
THEOREM AutoloadInvariant == Spec => []AutoloadInv
BY AutoloadInvInit, AutoloadInvNext, PTL DEF Spec

\* The hook never becomes the function that it transfers control to, at any depth
\* of nested calls.
THEOREM AutoloadTypes == Spec => []AutoloadTypeOK
<1>1. AutoloadInv => AutoloadTypeOK
  BY DEF AutoloadInv
<1> QED BY <1>1, AutoloadInvariant, PTL

\* The hook is out only while a registration waits for the class of its callback,
\* and after a fatal error in one until it is inserted again.
THEOREM HookStaysIn == Spec => []HookInstalled
<1>1. AutoloadInv => HookInstalled
  BY DEF AutoloadInv
<1> QED BY <1>1, AutoloadInvariant, PTL

\* PCS never transfers control to the __autoload() of a request that has ended.
THEOREM NothingStale == Spec => []NoStaleAutoload
<1>1. AutoloadInv => NoStaleAutoload
  BY DEF AutoloadInv
<1> QED BY <1>1, AutoloadInvariant, PTL

-----------------------------------------------------------------------------
\* PCS is called first when what PHP code registers are functions: a registration
\* then never waits for a class.

OnlyFunctions == \A cb \in Callback : ClassOf[cb] = Null

\* Only the innermost call may be a registration, and none was cut.
FirstInv ==
    /\ CalledFirst /\ ~cut
    /\ \A i \in 1..Len(stack) : stack[i].call = "register" => i = 1

\* A call on top of a stack in which nothing registers
LEMMA FirstPushed ==
    ASSUME FirstInv, ~AtRegister, stack \in Seq(Frame), NEW x \in Frame,
           x.call = "load" => x.of \notin PcsClass \/ x.by = "pcs",
           stack' = <<x>> \o stack, ~cut'
    PROVE  FirstInv'
<1>1. /\ Len(stack') = Len(stack) + 1 /\ stack'[1] = x /\ Len(stack) \in Nat
      /\ \A i \in 1..Len(stack) : stack'[i + 1] = stack[i]
  BY Pushed
<1>2. ASSUME NEW i \in 1..Len(stack'), i # 1
      PROVE  /\ i - 1 \in 1..Len(stack) /\ stack'[i] = stack[i - 1]
             /\ stack'[i].call # "register"
  <2>1. i - 1 \in 1..Len(stack) /\ (i - 1) + 1 = i
    BY <1>1, <1>2
  <2>2. stack'[i] = stack[i - 1]
    BY <1>1, <2>1
  <2>3. stack[i - 1].call # "register"
    BY <1>1, <2>1 DEF FirstInv, AtRegister
  <2> QED BY <2>1, <2>2, <2>3
<1>3. CalledFirst'
  <2> SUFFICES ASSUME NEW i \in 1..Len(stack'),
                      stack'[i].call = "load", stack'[i].of \in PcsClass
               PROVE  stack'[i].by = "pcs"
    BY DEF CalledFirst
  <2>1. CASE i = 1
    BY <1>1, <2>1
  <2>2. CASE i # 1
    BY <1>2, <2>2 DEF FirstInv, CalledFirst
  <2> QED BY <2>1, <2>2
<1> QED BY <1>2, <1>3 DEF FirstInv

\* Calls that return or are cut off
LEMMA FirstPopped ==
    ASSUME FirstInv, NEW k \in Nat, ~cut',
           \A i \in 1..Len(stack') : stack'[i] = stack[i + k] /\ i + k \in 1..Len(stack),
           k = 0 \/ \A i \in 1..Len(stack') : i + k # 1
    PROVE  FirstInv'
<1>1. CalledFirst'
  BY DEF FirstInv, CalledFirst
<1>2. \A i \in 1..Len(stack') : stack'[i].call = "register" => i = 1
  <2> SUFFICES ASSUME NEW i \in 1..Len(stack'), stack'[i].call = "register" PROVE i = 1
    OBVIOUS
  <2>1. i + k = 1
    BY DEF FirstInv
  <2> QED BY <2>1
<1> QED BY <1>1, <1>2 DEF FirstInv

LEMMA FirstSame ==
    ASSUME FirstInv, stack' = stack, ~cut'
    PROVE  FirstInv'
BY DEF FirstInv, CalledFirst

LEMMA FirstFatal ==
    ASSUME FirstInv, PhpRuns, stack \in Seq(Frame), NEW lookups, Fatal(lookups)
    PROVE  FirstInv'
<1>1. Waiting = {} /\ ~cut
  BY DEF FirstInv, PhpRuns, AtRegister, Waiting
<1>2. CASE Catching = {}
  <2>1. stack' = <<>> /\ ~cut'
    BY <1>1, <1>2 DEF Fatal
  <2> QED BY <2>1 DEF FirstInv, CalledFirst
<1>3. CASE Catching # {}
  <2>1. PICK k \in Catching : stack' = SubSeq(stack, k + 1, Len(stack)) /\ ~cut'
    BY <1>1, <1>3 DEF Fatal
  <2>2. k \in 1..Len(stack) /\ k \in Nat
    BY <2>1 DEF Catching
  <2>3. \A i \in 1..Len(stack') : stack'[i] = stack[i + k] /\ i + k \in 1..Len(stack)
    BY <2>1, <2>2, CutStack
  <2>4. \A i \in 1..Len(stack') : i + k # 1
    BY <2>2
  <2> QED BY <2>1, <2>2, <2>3, <2>4, FirstPopped
<1> QED BY <1>2, <1>3

LEMMA FirstUseClass ==
    ASSUME AutoloadInv, FirstInv, NEW c \in Class, UseClass(c)
    PROVE  FirstInv'
<1>1. stage = "run" /\ ~AtRegister /\ cut' = cut
  BY DEF UseClass, PhpRuns
<1>2. /\ stack \in Seq(Frame) /\ running \in BOOLEAN /\ pcs_g \in Other
      /\ pcs_g = "__autoload" => has_autoload
  BY <1>1, TypesApart DEF AutoloadInv, NoStaleAutoload
<1>3. Waiting = {} /\ ~cut
  BY <1>1 DEF FirstInv, AtRegister, Waiting
<1>4. Hook(c)
  BY <1>1, <1>3 DEF AutoloadInv, HookInstalled, UseClass
<1>5. PICK f \in Other \cup {"pcs"} : CallBy(c, f, stack) /\ (f = "pcs" \/ c \notin PcsClass)
  BY <1>2, <1>4, OrAutoloadType DEF Hook
<1>6. CASE f = Null
  BY <1>1, <1>3, <1>5, <1>6, FirstSame DEF CallBy
<1>7. CASE f # Null
  <2> DEFINE x == LoadCall(c, f)
  <2>1. x \in Frame /\ x.call = "load" /\ x.of = c /\ x.by = f
    BY <1>2 DEF LoadCall, LoadFrame, Frame
  <2>2. stack' = <<x>> \o stack
    BY <1>5, <1>7 DEF CallBy
  <2> HIDE DEF x
  <2> QED BY <1>1, <1>2, <1>3, <1>5, <2>1, <2>2, FirstPushed
<1> QED BY <1>6, <1>7

LEMMA FirstInvNext ==
    ASSUME OnlyFunctions, AutoloadInv, FirstInv, [Next]_vars
    PROVE  FirstInv'
<1>1. /\ stack \in Seq(Frame) /\ running \in BOOLEAN /\ in_autoload \subseteq Class
  BY TypesApart DEF AutoloadInv
<1>2. ~cut
  BY DEF FirstInv
<1>3. CASE \/ RINIT \/ RegisterDefault \/ Functions \/ DefineAutoload
           \/ \E x \in Callback \cup {"spl_autoload_call", "spl_autoload"} : Unregister(x)
           \/ NewRequest \/ UNCHANGED vars
  <2>1. stack' = stack /\ ~cut'
    BY <1>2, <1>3 DEF RINIT, RegisterDefault, Functions, DefineAutoload, Unregister,
                      NewRequest, InsertHook, vars
  <2> QED BY <2>1, FirstSame
<1>4. CASE LoadReturns \/ RegisterEnd
  <2>1. stack # <<>> /\ stack' = Tail(stack) /\ ~cut'
    BY <1>2, <1>4 DEF LoadReturns, RegisterEnd, AtRegister, InsertHook
  <2>2. /\ Len(stack) = Len(stack') + 1 /\ Len(stack') \in Nat
        /\ \A i \in 1..Len(stack') : stack'[i] = stack[i + 1]
    BY <1>1, <2>1, Popped
  <2>3. \A i \in 1..Len(stack') : i + 1 \in 1..Len(stack) /\ i + 1 # 1
    BY <2>2
  <2> QED BY <2>1, <2>2, <2>3, FirstPopped
<1>5. CASE FatalError
  BY <1>1, <1>5, FirstFatal DEF FatalError
<1>6. ASSUME NEW c \in Class, UseClass(c) \/ CompileError(c) PROVE FirstInv'
  BY <1>1, <1>6, FirstUseClass, FirstFatal DEF CompileError
<1>7. ASSUME NEW c \in Class, NEW always \in BOOLEAN, GetClass(c, always) PROVE FirstInv'
  <2>1. CASE Fatal(in_autoload)
    BY <1>1, <1>7, <2>1, FirstFatal DEF GetClass
  <2>2. CASE ~Fatal(in_autoload)
    <3> DEFINE x == LoadCall(c, "pcs")
    <3>1. x \in Frame /\ x.by = "pcs"
      BY <1>1 DEF LoadCall, LoadFrame, Frame
    <3>2. stack' = <<x>> \o stack /\ cut' = cut /\ ~AtRegister
      BY <1>7, <2>2 DEF GetClass, PhpRuns
    <3> HIDE DEF x
    <3> QED BY <1>1, <1>2, <3>1, <3>2, FirstPushed
  <2> QED BY <2>1, <2>2
<1>8. ASSUME NEW cb \in Callback, NEW prepend \in BOOLEAN, RegisterBegin(cb, prepend)
      PROVE  FirstInv'
  <2> DEFINE x == RegisterCall(cb, prepend)
  <2>1. stack' = <<x>> \o stack /\ cut' = cut /\ ~AtRegister
    BY <1>8 DEF RegisterBegin, MayCallSpl, PhpRuns, OnlyFunctions
  <2>2. x \in Frame /\ x.call = "register"
    BY DEF RegisterCall, RegisterFrame, Frame
  <2> HIDE DEF x
  <2> QED BY <1>1, <1>2, <2>1, <2>2, FirstPushed
<1> QED BY <1>3, <1>4, <1>5, <1>6, <1>7, <1>8 DEF Next

\* "so that it will be called first" (PCS_Loader.c:29): when PHP code registers
\* functions only, no other autoloader is asked for a class that the symbol table
\* has, at any depth and also after fatal errors.
THEOREM PcsIsCalledFirst ==
    ASSUME \A cb \in Callback : ClassOf[cb] = Null
    PROVE  Spec => []CalledFirst
<1>1. Init => FirstInv
  BY DEF Init, FirstInv, CalledFirst
<1>2. AutoloadInv /\ FirstInv /\ [Next]_vars => FirstInv'
  BY FirstInvNext DEF OnlyFunctions
<1>3. FirstInv => CalledFirst
  BY DEF FirstInv
<1> QED BY <1>1, <1>2, <1>3, AutoloadInvariant, PTL DEF Spec

-----------------------------------------------------------------------------
\* PHP code sees what it would see without PCS.

SplVars == <<Func, list, running, has_autoload, answer>>

LEMMA FuncIs ==
    ASSUME AutoloadInv
    PROVE  /\ Func = (IF eg = "pcs" THEN Strip(pcs_g) ELSE Strip(eg))
           /\ stage = "run" => Func = Strip(pcs_g)
<1>1. Func = (IF eg = "pcs" THEN Strip(pcs_g) ELSE Strip(eg))
  BY DEF Func, Strip
<1> QED BY <1>1 DEF AutoloadInv, PointersAgree

LEMMA NextFuncIs ==
    /\ eg' = "pcs" => Func' = Strip(pcs_g')
    /\ eg' # "pcs" => Func' = Strip(eg')
BY DEF Func, Strip

\* PHP code that SPL knows nothing of, or a lookup that calls its function
LEMMA OtherStep ==
    ASSUME UNCHANGED <<list, has_autoload>>, Func' = Func, answer' = Null,
           running \in BOOLEAN, running' \in BOOLEAN,
           \/ running' = running \/ running' = FALSE
           \/ Func = "spl_autoload_call" /\ list # Null /\ running'
    PROVE  Spl!Next
<1>1. CASE running' = running \/ running' = FALSE
  BY <1>1 DEF Spl!Next, Spl!Other
<1>2. CASE Func = "spl_autoload_call" /\ list # Null /\ running'
  BY <1>2 DEF Spl!Next, Spl!Call
<1> QED BY <1>1, <1>2

LEMMA RinitSees == AutoloadInv /\ RINIT => Spl!Next
<1> SUFFICES ASSUME AutoloadInv, RINIT PROVE Spl!Next
  OBVIOUS
<1>1. /\ stage = "activated" /\ InsertHook(eg) /\ answer' = Null
      /\ UNCHANGED <<list, running, has_autoload>>
  BY DEF RINIT
<1>2. eg = Null /\ running \in BOOLEAN
  BY <1>1, TypesApart DEF AutoloadInv, PointersAgree
<1>3. eg' = "pcs" /\ pcs_g' = Null
  BY <1>1, <1>2, NamesApart DEF InsertHook
<1>4. Func' = Func
  BY <1>2, <1>3, FuncIs, NextFuncIs, NamesApart
     DEF Strip
<1> QED BY <1>1, <1>2, <1>4, OtherStep

LEMMA UseClassSees ==
    ASSUME AutoloadInv, NEW c \in Class, UseClass(c)
    PROVE  Spl!Next
<1>1. /\ stage = "run" /\ answer' = Null /\ UNCHANGED <<list, has_autoload>>
  BY DEF UseClass, PhpRuns
<1>2. /\ eg \in Other \cup {"pcs"} /\ pcs_g \in Other /\ stack \in Seq(Frame)
      /\ running \in BOOLEAN /\ AutoloadTypeOK /\ Nested(stack, running)
      /\ "__autoload" \in {eg, pcs_g} => has_autoload
  BY <1>1, TypesApart DEF AutoloadInv, NoStaleAutoload
<1>3. ASSUME NEW f \in Other \cup {"pcs"}, CallBy(c, f, stack),
             f = "spl_autoload_call" => Func = f, Func' = Func
      PROVE  Spl!Next
  <2>1. /\ running' \in BOOLEAN
        /\ running' = running \/ (f = "spl_autoload_call" /\ list # Null /\ running')
    BY <1>2, <1>3, CallByOutcome
  <2> QED BY <1>1, <1>2, <1>3, <2>1, OtherStep
<1>4. CASE eg = "pcs"
  <2>1. Hook(c) /\ eg' = "pcs"
    BY <1>4 DEF UseClass
  <2>2. CASE c \in PcsClass
    <3>1. CallBy(c, "pcs", stack) /\ pcs_g' = pcs_g
      BY <2>1, <2>2 DEF Hook
    <3>2. Func' = Func
      BY <1>4, <2>1, <3>1, FuncIs, NextFuncIs
    <3> QED BY <1>3, <3>1, <3>2
  <2>3. CASE c \notin PcsClass
    <3>1. pcs_g' = OrAutoload(pcs_g) /\ CallBy(c, pcs_g', stack)
      BY <2>1, <2>3 DEF Hook
    <3>2. pcs_g' \in Other /\ Strip(pcs_g') = Strip(pcs_g)
      BY <1>2, <3>1, OrAutoloadType
    <3>3. Func = Strip(pcs_g) /\ Func' = Strip(pcs_g')
      BY <1>4, <2>1, FuncIs, NextFuncIs
    <3>4. pcs_g' = "spl_autoload_call" => Func = pcs_g'
      BY <3>2, <3>3 DEF Strip
    <3> QED BY <1>3, <3>1, <3>2, <3>3, <3>4
  <2> QED BY <2>2, <2>3
<1>5. CASE eg # "pcs"
  <2>1. eg' = OrAutoload(eg) /\ CallBy(c, eg', stack) /\ eg \in Other
    BY <1>2, <1>5 DEF UseClass
  <2>2. eg' \in Other /\ Strip(eg') = Strip(eg) /\ eg' # "pcs"
    BY <1>2, <2>1, OrAutoloadType
  <2>3. Func = Strip(eg) /\ Func' = Strip(eg')
    BY <1>5, <2>2, FuncIs, NextFuncIs
  <2>4. eg' = "spl_autoload_call" => Func = eg'
    BY <2>2, <2>3 DEF Strip
  <2> QED BY <1>3, <2>1, <2>2, <2>3, <2>4
<1> QED BY <1>4, <1>5

LEMMA CallsSee ==
    ASSUME AutoloadInv,
           \/ LoadReturns \/ FatalError \/ \E c \in Class : CompileError(c)
           \/ \E c \in Class, always \in BOOLEAN : GetClass(c, always)
    PROVE  Spl!Next
<1>1. UNCHANGED <<eg, pcs_g, list, has_autoload>> /\ answer' = Null
  BY DEF LoadReturns, FatalError, CompileError, GetClass, Fatal
<1>2. Func' = Func
  BY <1>1 DEF Func
<1>3. running \in BOOLEAN
  BY TypesApart DEF AutoloadInv
<1>4. running' = running \/ running' = FALSE
  BY LoadReturnsKeepsInv DEF FatalError, CompileError, GetClass, Fatal
<1> QED BY <1>1, <1>2, <1>3, <1>4, OtherStep

LEMMA RegisterBeginSees ==
    ASSUME AutoloadInv, NEW cb \in Callback, NEW prepend \in BOOLEAN,
           RegisterBegin(cb, prepend)
    PROVE  Spl!Next
<1>1. /\ eg' \in Other /\ Strip(eg') = Strip(pcs_g)
      /\ UNCHANGED <<list, has_autoload>> /\ running' \in BOOLEAN
      /\ running' = running \/ (eg' = "spl_autoload_call" /\ list # Null /\ running')
  BY RegisterBeginOutcome
<1>2. answer' = Null /\ stage = "run" /\ running \in BOOLEAN
  BY SplMayBeCalled DEF RegisterBegin
<1>3. Func = Strip(pcs_g) /\ Func' = Strip(eg')
  BY <1>1, <1>2, FuncIs, NextFuncIs, NamesApart
<1>4. eg' = "spl_autoload_call" => Func = eg'
  BY <1>1, <1>3 DEF Strip
<1> QED BY <1>1, <1>2, <1>3, <1>4, OtherStep

LEMMA RegisterEndSees ==
    ASSUME AutoloadInv, ~NestedSpl, RegisterEnd
    PROVE  Spl!Next
<1> DEFINE cb == stack[1].of
           prepend == stack[1].prepend
           r == Spl!Registered(eg, list, cb, prepend)
<1>1. /\ stack # <<>> /\ stack[1].call = "register" /\ answer' = Null
      /\ UNCHANGED <<running, has_autoload>>
      /\ IF ClassOf[cb] \in defined \cup {Null}
         THEN InsertHook(r.func) /\ list' = r.list
         ELSE InsertHook(eg) /\ UNCHANGED list
  BY DEF RegisterEnd, AtRegister
<1>2. stack \in Seq(Frame) /\ ListType /\ running \in BOOLEAN
  BY TypesApart DEF AutoloadInv
<1>3. stack[1] \in RegisterFrame
  BY <1>1, <1>2, TopOfStack DEF Frame, LoadFrame
<1>4. cb \in Callback /\ prepend \in BOOLEAN
  BY <1>3 DEF RegisterFrame
<1>5. eg # "pcs"
  <2>1. HasRegister(stack)
    BY <1>1, <1>2 DEF HasRegister
  <2> QED BY <2>1 DEF AutoloadInv, HookOut
<1>6. Func = Strip(eg)
  BY <1>5, FuncIs
<1>7. CASE ClassOf[cb] \in defined \cup {Null}
  <2>1. InsertHook(r.func) /\ list' = r.list
    BY <1>1, <1>7
  <2>2. r.func = "spl_autoload_call"
    BY <1>2, <1>4, RegisteredType
  <2>3. eg' = "pcs" /\ pcs_g' = "spl_autoload_call"
    BY <2>1, <2>2 DEF InsertHook
  <2>4. Func' = "spl_autoload_call"
    BY <2>3, NextFuncIs DEF Strip
  <2>5. Func = "spl_autoload" <=> eg = "spl_autoload"
    BY <1>6, NamesApart DEF Strip
  <2>6. Spl!Registered(Func, list, cb, prepend) = r
    BY <2>5 DEF Spl!Registered
  <2> HIDE DEF r
  <2>7. Spl!Becomes(r)
    BY <2>1, <2>2, <2>4 DEF Spl!Becomes
  <2> HIDE DEF cb, prepend
  <2>8. Spl!Register
    BY <1>1, <1>4, <2>6, <2>7 DEF Spl!Register
  <2> QED BY <2>8 DEF Spl!Next
<1>8. CASE ~(ClassOf[cb] \in defined \cup {Null})
  <2>1. InsertHook(eg) /\ UNCHANGED list
    BY <1>1, <1>8
  <2>2. Func' = Func
    BY <1>5, <1>6, <2>1, NextFuncIs DEF InsertHook
  <2> QED BY <1>1, <1>2, <2>1, <2>2, OtherStep
<1> QED BY <1>7, <1>8

LEMMA RegisterDefaultSees ==
    ASSUME AutoloadInv, RegisterDefault
    PROVE  Spl!Next
<1> DEFINE r == Spl!RegisteredDefault(list)
<1>1. InsertHook(r.func) /\ answer' = Null /\ UNCHANGED <<list, running, has_autoload>>
  BY DEF RegisterDefault
<1>2. r.func \in {"spl_autoload", "spl_autoload_call"} /\ r.list = list
  BY RegisteredDefaultType DEF Spl!RegisteredDefault
<1> HIDE DEF r
<1>3. eg' = "pcs" /\ pcs_g' = r.func
  BY <1>1, <1>2 DEF InsertHook
<1>4. Func' = r.func
  BY <1>2, <1>3, NextFuncIs DEF Strip
<1>5. Spl!Becomes(r)
  BY <1>1, <1>2, <1>4 DEF Spl!Becomes
<1> QED BY <1>1, <1>5 DEF Spl!Next, Spl!Register, r

LEMMA UnregisteredOfFunc ==
    ASSUME NEW f \in Other, NEW x \in Callback \cup {"spl_autoload_call", "spl_autoload"},
           NEW l, NEW b \in BOOLEAN
    PROVE  /\ Spl!Unregistered(Strip(f), l, x, b).func = Strip(Spl!Unregistered(f, l, x, b).func)
           /\ Spl!Unregistered(Strip(f), l, x, b).list = Spl!Unregistered(f, l, x, b).list
<1>1. Strip(Null) = Null
  BY NamesApart DEF Strip
<1>2. CASE l # Null /\ x = "spl_autoload_call"
  <2>1. ASSUME NEW g
        PROVE  Spl!Unregistered(g, l, x, b) =
                 IF b THEN [func |-> g, list |-> <<>>] ELSE [func |-> Null, list |-> Null]
    BY <1>2 DEF Spl!Unregistered
  <2> QED BY <1>1, <2>1
<1>3. CASE l # Null /\ x # "spl_autoload_call"
  <2>1. ASSUME NEW g
        PROVE  Spl!Unregistered(g, l, x, b) = [func |-> g, list |-> Spl!Without(l, x)]
    BY <1>3 DEF Spl!Unregistered
  <2> QED BY <2>1
<1>4. CASE l = Null
  <2>1. ASSUME NEW g
        PROVE  Spl!Unregistered(g, l, x, b) =
                 [func |-> IF x = "spl_autoload" /\ g = x THEN Null ELSE g, list |-> l]
    BY <1>4 DEF Spl!Unregistered
  <2>2. Strip(f) = "spl_autoload" <=> f = "spl_autoload"
    BY NamesApart DEF Strip
  <2> QED BY <1>1, <2>1, <2>2
<1> QED BY <1>2, <1>3, <1>4

LEMMA UnregisterSees ==
    ASSUME AutoloadInv, NEW x \in Callback \cup {"spl_autoload_call", "spl_autoload"},
           Unregister(x)
    PROVE  Spl!Next
<1> DEFINE r == Spl!Unregistered(pcs_g, list, x, running)
           s == Spl!Unregistered(Func, list, x, running)
<1>1. /\ MayCallSpl /\ InsertHook(r.func) /\ list' = r.list
      /\ answer' = Null /\ UNCHANGED <<running, has_autoload>>
  BY DEF Unregister, Original
<1>2. pcs_g \in Other /\ stage = "run" /\ ListType /\ running \in BOOLEAN
  BY <1>1, SplMayBeCalled
<1>3. Func = Strip(pcs_g)
  BY <1>2, FuncIs
<1>4. s.func = Strip(r.func) /\ s.list = r.list
  BY <1>2, <1>3, UnregisteredOfFunc
<1>5. r.func \in {pcs_g, Null}
  BY <1>2, UnregisteredType
<1> HIDE DEF r, s
<1>6. r.func # "pcs"
  BY <1>2, <1>5, NamesApart
<1>7. eg' = "pcs" /\ pcs_g' = r.func
  BY <1>1, <1>6 DEF InsertHook
<1>8. Func' = s.func
  BY <1>4, <1>7, NextFuncIs
<1>9. Spl!Becomes(s)
  BY <1>1, <1>4, <1>8 DEF Spl!Becomes
<1>10. Spl!Unregister
  BY <1>1, <1>9 DEF Spl!Unregister, s
<1> QED BY <1>10 DEF Spl!Next

LEMMA FunctionsSees ==
    ASSUME AutoloadInv, Functions
    PROVE  Spl!Next
<1>1. /\ MayCallSpl /\ answer' = Spl!FunctionsOf(pcs_g, list, has_autoload)
      /\ UNCHANGED <<eg, pcs_g, list, running, has_autoload>>
  BY DEF Functions, Original
<1>2. /\ pcs_g \in Other /\ (pcs_g = "__autoload" => has_autoload) /\ stage = "run"
  BY <1>1, SplMayBeCalled
<1>3. Func = Strip(pcs_g) /\ Func' = Func
  BY <1>1, <1>2, FuncIs DEF Func
<1>4. Spl!FunctionsOf(Func, list, has_autoload) = Spl!FunctionsOf(pcs_g, list, has_autoload)
  BY <1>2, <1>3, NamesApart DEF Strip, Spl!FunctionsOf
<1>5. Spl!Functions
  BY <1>1, <1>3, <1>4 DEF Spl!Functions
<1> QED BY <1>5 DEF Spl!Next

LEMMA RequestSees ==
    ASSUME AutoloadInv, DefineAutoload \/ NewRequest
    PROVE  Spl!Next
<1>1. CASE DefineAutoload
  <2>1. /\ has_autoload' = TRUE /\ answer' = Null
        /\ UNCHANGED <<eg, pcs_g, list, running>>
    BY <1>1 DEF DefineAutoload
  <2>2. Func' = Func
    BY <2>1 DEF Func
  <2> QED BY <2>1, <2>2 DEF Spl!Next, Spl!Define
<1>2. CASE NewRequest
  <2>1. /\ eg' = Null /\ list' = Null /\ has_autoload' = FALSE /\ answer' = Null
        /\ UNCHANGED running
    BY <1>2 DEF NewRequest
  <2>2. Func' = Null
    BY <2>1, NextFuncIs, NamesApart DEF Strip
  <2> QED BY <2>1, <2>2 DEF Spl!Next, Spl!NewRequest
<1> QED BY <1>1, <1>2

LEMMA SplNext ==
    ASSUME ~NestedSpl, AutoloadInv, [Next]_vars
    PROVE  [Spl!Next]_SplVars
<1>1. CASE UNCHANGED vars
  BY <1>1 DEF vars, SplVars, Func
<1>2. CASE Next
  BY <1>2, RinitSees, UseClassSees, CallsSee, RegisterBeginSees, RegisterEndSees,
     RegisterDefaultSees, UnregisterSees, FunctionsSees, RequestSees DEF Next
<1> QED BY <1>1, <1>2

LEMMA SplInit == Init => Spl!Init
<1> SUFFICES ASSUME Init PROVE Spl!Init
  OBVIOUS
<1>1. /\ eg = Null /\ list = Null /\ running = FALSE /\ has_autoload = FALSE /\ answer = Null
  BY DEF Init
<1>2. Func = Null
  BY <1>1, NamesApart DEF Func
<1> QED BY <1>1, <1>2 DEF Spl!Init

\* PHP code sees the autoload functions that it would see without PCS, as long as
\* it calls none of the wrapped functions from inside the class lookup of a
\* registration.
THEOREM AutoloadImplementsSpl ==
    ASSUME ~NestedSpl
    PROVE  Spec => ImplementsSpl
<1>1. AutoloadInv /\ [Next]_vars => AutoloadInv'
  BY AutoloadInvNext
<1>2. AutoloadInv /\ [Next]_vars => [Spl!Next]_SplVars
  BY SplNext
<1>3. SplVars = Spl!vars
  BY DEF SplVars, Spl!vars
<1> QED
  BY AutoloadInvInit, SplInit, <1>1, <1>2, PTL DEF Spec, ImplementsSpl, Spl!Spec, Spl!vars, SplVars
=============================================================================
