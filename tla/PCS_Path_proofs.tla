--------------------------- MODULE PCS_Path_proofs ---------------------------
(***************************************************************************)
(* Proofs about PCS_Path, for paths of any length over any characters.     *)
(***************************************************************************)
EXTENDS PCS_Path, SequenceTheorems, TLAPS

Letter == Char \cup {Slash}

\* The first character is no slash and no slash follows another one
NoDouble(s) ==
    /\ s # <<>> => s[1] # Slash
    /\ \A k \in 1..(Len(s) - 1) : s[k] = Slash => s[k + 1] # Slash

EndsInSlash(s) == s # <<>> /\ s[Len(s)] = Slash

\* ignore_slash tells that another slash would come first or follow a slash.
\* A clean path is copied character by character and has no slash to trim.
PathInv ==
    /\ PathTypeOK
    /\ NoDouble(target)
    /\ pc = "copy" => (ignore_slash <=> target = <<>> \/ EndsInSlash(target))
    /\ pc = "done" => ~EndsInSlash(target)
    /\ IsClean(path) => target = IF pc = "copy" THEN SubSeq(path, 1, i - 1) ELSE path

-----------------------------------------------------------------------------
\* Appending a character, and dropping the last one, keep NoDouble

LEMMA NoDoubleAppend ==
    ASSUME NEW s \in Seq(Letter), NoDouble(s), NEW x \in Letter,
           x = Slash => s # <<>> /\ ~EndsInSlash(s)
    PROVE  NoDouble(Append(s, x))
<1> DEFINE r == Append(s, x)
<1>1. /\ Len(r) = Len(s) + 1
      /\ \A k \in 1..Len(s) : r[k] = s[k]
      /\ r[Len(s) + 1] = x
  BY AppendProperties
<1>2. Len(s) \in Nat /\ (s = <<>> <=> Len(s) = 0)
  BY LenProperties, EmptySeq
<1>3. r[1] # Slash
  BY <1>1, <1>2 DEF NoDouble
<1>4. ASSUME NEW k \in 1..(Len(r) - 1), r[k] = Slash
      PROVE  r[k + 1] # Slash
  <2>1. CASE k < Len(s)
    BY <1>1, <1>2, <1>4, <2>1 DEF NoDouble
  <2>2. CASE k = Len(s)
    BY <1>1, <1>2, <1>4, <2>2 DEF EndsInSlash
  <2> QED BY <1>1, <1>2, <2>1, <2>2
<1> QED BY <1>3, <1>4 DEF NoDouble

\* All but the last element of a sequence
LEMMA FrontProperties ==
    ASSUME NEW S, NEW s \in Seq(S), s # <<>>
    PROVE  LET r == SubSeq(s, 1, Len(s) - 1) IN
             /\ Len(s) \in Nat \ {0}
             /\ r \in Seq(S) /\ Len(r) = Len(s) - 1
             /\ \A k \in 1..(Len(s) - 1) : r[k] = s[k]
<1> DEFINE r == SubSeq(s, 1, Len(s) - 1)
<1>1. Len(s) \in Nat \ {0} /\ \A k \in 1..Len(s) : s[k] \in S
  BY LenProperties, EmptySeq, ElementOfSeq
<1>2. \A k \in 1..(Len(s) - 1) : s[k] \in S
  BY <1>1
<1>3. 1 \in Int /\ Len(s) - 1 \in Int /\ (1 <= Len(s) - 1 \/ Len(s) - 1 = 0)
  <2>1. ASSUME NEW n \in Nat \ {0}
        PROVE  1 \in Int /\ n - 1 \in Int /\ (1 <= n - 1 \/ n - 1 = 0)
    OBVIOUS
  <2>2. Len(s) \in Nat \ {0}
    BY <1>1
  <2> QED BY <2>1, <2>2, Zenon
<1>4. /\ r \in Seq(S)
      /\ Len(r) = IF 1 <= Len(s) - 1 THEN (Len(s) - 1) - 1 + 1 ELSE 0
      /\ \A k \in 1..((Len(s) - 1) - 1 + 1) : r[k] = s[1 + k - 1]
  BY <1>2, <1>3, SubSeqProperties
<1> QED BY <1>1, <1>3, <1>4

LEMMA NoDoubleFront ==
    ASSUME NEW s \in Seq(Letter), NoDouble(s), s # <<>>
    PROVE  LET r == SubSeq(s, 1, Len(s) - 1) IN
             /\ r \in Seq(Letter) /\ NoDouble(r)
             /\ EndsInSlash(s) => ~EndsInSlash(r)
<1> DEFINE r == SubSeq(s, 1, Len(s) - 1)
<1>1. Len(s) \in Nat \ {0} /\ \A k \in 1..Len(s) : s[k] \in Letter
  BY LenProperties, EmptySeq, ElementOfSeq
<1>2. /\ r \in Seq(Letter)
      /\ Len(r) = Len(s) - 1
      /\ \A k \in 1..(Len(s) - 1) : r[k] = s[k]
  BY FrontProperties
<1>3. r = <<>> <=> Len(r) = 0
  BY <1>2, EmptySeq
<1>4. NoDouble(r)
  BY <1>1, <1>2, <1>3 DEF NoDouble
<1>5. EndsInSlash(s) => ~EndsInSlash(r)
  BY <1>1, <1>2, <1>3 DEF NoDouble, EndsInSlash
<1> QED BY <1>2, <1>4, <1>5

\* One more character of a clean path
LEMMA PrefixGrows ==
    ASSUME NEW S, NEW p \in Seq(S), NEW n \in 1..Len(p)
    PROVE  SubSeq(p, 1, n) = Append(SubSeq(p, 1, n - 1), p[n])
<1> DEFINE q == SubSeq(p, 1, n - 1)
<1>1. Len(p) \in Nat /\ \A k \in 1..Len(p) : p[k] \in S
  BY LenProperties, ElementOfSeq
<1>2. n \in 1..Len(p) /\ 1 \in 1..Len(p) /\ p[n] \in S
  BY <1>1
<1>3. SubSeq(p, 1, n) = q \o <<p[n]>>
  BY <1>2, SubSeqRecursiveSecond
<1>4. q \in Seq(S)
  <2>1. 1 \in Int /\ n - 1 \in Int /\ \A k \in 1..(n - 1) : p[k] \in S
    BY <1>1
  <2> QED BY <2>1, SubSeqProperties
<1>5. Append(q, p[n]) = q \o <<p[n]>>
  BY <1>2, <1>4, AppendIsConcat
<1> QED BY <1>3, <1>5

-----------------------------------------------------------------------------
\* The invariant

LEMMA InitInv == Init => PathInv
<1> SUFFICES ASSUME Init PROVE PathInv
  OBVIOUS
<1>1. path \in Seq(Byte) /\ Len(path) \in Nat
  <2>1. PICK n \in 0..MaxLen : path \in [1..n -> Byte]
    BY DEF Init
  <2>2. n \in Nat
    BY <2>1, MaxLenAssumption
  <2>3. path \in Seq(Byte)
    BY <2>1, <2>2, SeqDef
  <2> QED BY <2>3, LenProperties
<1>2. PathTypeOK
  BY <1>1, EmptySeq DEF Init, PathTypeOK
<1>3. NoDouble(target) /\ ~EndsInSlash(target)
  <2>1. target = <<>> /\ Len(target) = 0
    BY EmptySeq DEF Init
  <2> QED BY <2>1 DEF NoDouble, EndsInSlash
<1>4. target = SubSeq(path, 1, i - 1)
  BY SubSeqEmpty DEF Init
<1> QED BY <1>2, <1>3, <1>4 DEF Init, PathInv

\* What a character of the path is turned into
LEMMA Converted ==
    ASSUME PathInv, InCopy
    PROVE  /\ c \in Letter /\ i \in 1..Len(path) /\ Len(path) \in Nat
           /\ IsClean(path) => path \in Seq(Letter) /\ c = path[i]
<1>1. path \in Seq(Byte) /\ Len(path) \in Nat /\ i \in 1..Len(path)
  <2>1. path \in Seq(Byte)
    BY DEF PathInv, PathTypeOK
  <2>2. Len(path) \in Nat
    BY <2>1, LenProperties
  <2> QED BY <2>1, <2>2 DEF PathInv, PathTypeOK, InCopy
<1>2. path[i] \in Byte
  BY <1>1, ElementOfSeq
<1>3. c \in Letter
  BY <1>2 DEF c, Byte, Letter
<1>4. ASSUME IsClean(path) PROVE path \in Seq(Letter) /\ c = path[i]
  <2>1. path \in Seq(Letter)
    BY <1>4 DEF IsClean, Letter
  <2>2. path[i] \in Letter
    BY <1>1, <2>1, ElementOfSeq
  <2>3. path[i] # Backslash
    BY <2>2, CharAssumption DEF Letter, Slash, Backslash
  <2> QED BY <2>1, <2>3 DEF c
<1> QED BY <1>1, <1>3, <1>4

LEMMA NextInv == PathInv /\ [Next]_vars => PathInv'
<1> SUFFICES ASSUME PathInv, [Next]_vars PROVE PathInv'
  OBVIOUS
<1>0. target \in Seq(Letter) /\ Len(target) \in Nat /\ path \in Seq(Byte)
      /\ Len(path) \in Nat /\ i \in 1..(Len(path) + 1)
  BY LenProperties DEF PathInv, PathTypeOK, Letter
<1>1. CASE SkipSlash
  <2>1. PathTypeOK' /\ NoDouble(target)'
    BY <1>0, <1>1 DEF SkipSlash, InCopy, PathInv, PathTypeOK, NoDouble
  <2>2. ASSUME IsClean(path) PROVE FALSE
    <3>1. /\ i \in 1..Len(path) /\ path[i] = Slash
          /\ target = SubSeq(path, 1, i - 1)
          /\ target = <<>> \/ EndsInSlash(target)
      BY <1>1, <2>2, Converted DEF SkipSlash, InCopy, PathInv
    <3>2. CASE i = 1
      BY <1>0, <2>2, <3>1, <3>2, EmptySeq DEF IsClean
    <3>3. CASE i > 1
      <4>1. target = Append(SubSeq(path, 1, i - 2), path[i - 1])
        <5>1. i - 1 \in 1..Len(path) /\ (i - 1) - 1 = i - 2
          BY <1>0, <3>1, <3>3
        <5> QED BY <1>0, <3>1, <5>1, PrefixGrows
      <4>2. \A k \in 1..(i - 2) : path[k] \in Byte
        BY <1>0, <3>1, ElementOfSeq
      <4>3. 1 \in Int /\ i - 2 \in Int
        BY <1>0
      <4>4. SubSeq(path, 1, i - 2) \in Seq(Byte)
        BY <4>2, <4>3, SubSeqProperties
      <4>5. path[i - 1] \in Byte
        BY <1>0, <3>1, <3>3, ElementOfSeq
      <4>6. target # <<>> /\ target[Len(target)] = path[i - 1]
        BY <4>1, <4>4, <4>5, AppendProperties
      <4>7. path[i - 1] = Slash /\ i - 1 \in 1..(Len(path) - 1)
        BY <1>0, <3>1, <3>3, <4>6 DEF EndsInSlash
      <4> QED BY <1>0, <2>2, <3>1, <4>7 DEF IsClean
    <3> QED BY <1>0, <3>1, <3>2, <3>3
  <2> QED BY <1>1, <2>1, <2>2 DEF SkipSlash, InCopy, PathInv, EndsInSlash, IsClean
<1>2. CASE CopySlash \/ CopyChar
  <2>1. /\ InCopy /\ pc' = "copy" /\ i' = i + 1 /\ path' = path
        /\ target' = Append(target, c)
        /\ ignore_slash' = (c = Slash)
        /\ c = Slash => ~ignore_slash
    BY <1>2 DEF CopySlash, CopyChar, InCopy
  <2>2. /\ c \in Letter /\ i \in 1..Len(path)
        /\ IsClean(path) => path \in Seq(Letter) /\ c = path[i]
    BY <2>1, Converted
  <2>3. /\ target' \in Seq(Letter) /\ target' # <<>>
        /\ target'[Len(target')] = c
    BY <1>0, <2>1, <2>2, AppendProperties
  <2>4. PathTypeOK'
    BY <1>0, <2>1, <2>2, <2>3 DEF PathInv, PathTypeOK, Letter
  <2>5. NoDouble(target')
    <3>1. c = Slash => target # <<>> /\ ~EndsInSlash(target)
      BY <2>1 DEF PathInv, InCopy
    <3>2. NoDouble(target)
      BY DEF PathInv
    <3>3. NoDouble(Append(target, c))
      BY <1>0, <2>2, <3>1, <3>2, NoDoubleAppend
    <3> QED BY <2>1, <3>3
  <2>6. EndsInSlash(target') <=> c = Slash
    BY <2>3 DEF EndsInSlash
  <2>7. IsClean(path) => target' = SubSeq(path, 1, i)
    BY <2>1, <2>2, PrefixGrows DEF PathInv, InCopy
  <2>8. (i + 1) - 1 = i
    BY <1>0
  <2> QED BY <2>1, <2>3, <2>4, <2>5, <2>6, <2>7, <2>8
          DEF PathInv, NoDouble, EndsInSlash, IsClean
<1>3. CASE CopyEnd
  <2>1. PathTypeOK'
    BY <1>3 DEF CopyEnd, PathInv, PathTypeOK
  <2>2. i - 1 = Len(path)
    BY <1>0, <1>3 DEF CopyEnd
  <2>3. SubSeq(path, 1, i - 1) = path
    BY <1>0, <2>2, SubSeqFull
  <2> QED BY <1>3, <2>1, <2>3 DEF CopyEnd, PathInv, NoDouble, EndsInSlash, IsClean
<1>4. CASE Trim
  <2>1. CASE EndsInSlash(target)
    <3>1. /\ target' = SubSeq(target, 1, Len(target) - 1)
          /\ pc = "trim" /\ UNCHANGED <<path, i, ignore_slash, pc>>
      BY <1>4, <2>1 DEF Trim, TrailingSlash, EndsInSlash
    <3>2. target' \in Seq(Letter) /\ NoDouble(target')
      <4>1. NoDouble(target) /\ target # <<>>
        BY <2>1 DEF PathInv, EndsInSlash
      <4> QED BY <1>0, <3>1, <4>1, NoDoubleFront
    <3>3. ~IsClean(path)
      <4>1. IsClean(path) => target = path
        BY <3>1 DEF PathInv
      <4> QED BY <2>1, <4>1 DEF EndsInSlash, IsClean
    <3>4. PathTypeOK'
      BY <3>1, <3>2 DEF PathInv, PathTypeOK, Letter
    <3> QED BY <3>1, <3>2, <3>3, <3>4 DEF PathInv, NoDouble, EndsInSlash, IsClean
  <2>2. CASE ~EndsInSlash(target)
    <3>1. pc = "trim" /\ pc' = "done" /\ UNCHANGED <<path, i, ignore_slash, target>>
      BY <1>4, <2>2 DEF Trim, TrailingSlash, EndsInSlash
    <3>2. PathTypeOK'
      BY <3>1 DEF PathInv, PathTypeOK
    <3> QED BY <2>2, <3>1, <3>2 DEF PathInv, NoDouble, EndsInSlash, IsClean
  <2> QED BY <2>1, <2>2
<1>5. CASE UNCHANGED vars
  BY <1>5 DEF vars, PathInv, PathTypeOK, NoDouble, EndsInSlash, IsClean
<1> QED BY <1>1, <1>2, <1>3, <1>4, <1>5 DEF Next

LEMMA InvImplies == PathInv => PathTypeOK /\ NoEmptySegment /\ CleanKept
<1> SUFFICES ASSUME PathInv, pc = "done"
             PROVE  IsClean(target) /\ (IsClean(path) => target = path)
  BY DEF PathInv, NoEmptySegment, CleanKept
<1> QED BY DEF PathInv, PathTypeOK, NoDouble, EndsInSlash, IsClean

\* The state of the loops of PCS_Tree_cleanPath has the right types.
THEOREM PathTypeCorrect == Spec => []PathTypeOK
<1> QED BY InitInv, NextInv, InvImplies, PTL DEF Spec

\* PCS_Tree_cleanPath never returns a path with an empty segment: the tree's
\* loops over the segments of a path get no empty name except for the empty path.
THEOREM NoEmptySegmentInvariant == Spec => []NoEmptySegment
<1> QED BY InitInv, NextInv, InvImplies, PTL DEF Spec

\* PCS_Tree_cleanPath leaves a clean path as it is, so that the path of a node
\* is found under its own name in pathList.
THEOREM CleanKeptInvariant == Spec => []CleanKept
<1> QED BY InitInv, NextInv, InvImplies, PTL DEF Spec

-----------------------------------------------------------------------------
\* The cleaned path is the kept characters.  While copying, what is kept is
\* every slash that follows another character, also one with nothing behind it.

KeptTo(p, n) ==
    {k \in 1..n : ~IsSlash(p[k]) \/ (k > 1 /\ ~IsSlash(p[k - 1]))}

\* f numbers the positions S of p, in their order, and s is what stands there.
Numbers(f, p, s, S) ==
    /\ f \in [1..Len(s) -> S]
    /\ \A k \in S : \E j \in 1..Len(s) : f[j] = k
    /\ \A j \in 1..Len(s) : s[j] = IF IsSlash(p[f[j]]) THEN Slash ELSE p[f[j]]
    /\ \A j, l \in 1..Len(s) : j < l => f[j] < f[l]
Written(p, s, S) == \E f : Numbers(f, p, s, S)

CopyInv ==
    /\ pc = "copy" => /\ Written(path, target, KeptTo(path, i - 1))
                      /\ ignore_slash <=> i = 1 \/ IsSlash(path[i - 1])
    /\ pc = "trim" => \/ Written(path, target, KeptTo(path, Len(path)))
                      \/ Written(path, target, Kept(path)) /\ ~EndsInSlash(target)
    /\ pc = "done" => Written(path, target, Kept(path))

\* One more position is kept.
LEMMA WrittenMore ==
    ASSUME NEW p, NEW n \in Nat, NEW S \in SUBSET (1..n), NEW s \in Seq(Letter),
           Written(p, s, S), NEW x \in Letter,
           x = IF IsSlash(p[n + 1]) THEN Slash ELSE p[n + 1]
    PROVE  Written(p, Append(s, x), S \cup {n + 1})
<1>1. PICK f : Numbers(f, p, s, S)
  BY DEF Written
<1> DEFINE r == Append(s, x)
           m == Len(s) + 1
           g == [j \in 1..m |-> IF j = m THEN n + 1 ELSE f[j]]
<1>2. /\ Len(s) \in Nat /\ Len(r) = m
      /\ \A k \in 1..Len(s) : r[k] = s[k]
      /\ r[m] = x
  BY AppendProperties, LenProperties
<1> HIDE DEF r
<1>3. g \in [1..m -> S \cup {n + 1}]
  BY <1>1, <1>2 DEF Numbers
<1>4. ASSUME NEW k \in S \cup {n + 1} PROVE \E j \in 1..m : g[j] = k
  <2>1. CASE k = n + 1
    <3>1. g[m] = k /\ m \in 1..m
      BY <1>2, <2>1
    <3> QED BY <3>1
  <2>2. CASE k \in S
    <3>1. PICK j \in 1..Len(s) : f[j] = k
      BY <1>1, <2>2 DEF Numbers
    <3>2. g[j] = k /\ j \in 1..m
      BY <1>2, <3>1
    <3> QED BY <3>2
  <2> QED BY <2>1, <2>2
<1>5. ASSUME NEW j \in 1..m PROVE r[j] = IF IsSlash(p[g[j]]) THEN Slash ELSE p[g[j]]
  <2>1. CASE j = m
    BY <1>2, <2>1
  <2>2. CASE j # m
    <3>1. j \in 1..Len(s) /\ g[j] = f[j] /\ r[j] = s[j]
      BY <1>2, <2>2
    <3> HIDE DEF g
    <3> QED BY <1>1, <3>1 DEF Numbers
  <2> QED BY <2>1, <2>2
<1>6. ASSUME NEW j \in 1..m, NEW l \in 1..m, j < l PROVE g[j] < g[l]
  <2>1. j \in 1..Len(s) /\ f[j] \in S
    BY <1>1, <1>2, <1>6 DEF Numbers
  <2>2. CASE l = m
    <3>1. g[j] = f[j] /\ g[l] = n + 1
      BY <1>2, <1>6, <2>2
    <3>2. f[j] \in 1..n
      BY <2>1
    <3> HIDE DEF g
    <3> QED BY <3>1, <3>2
  <2>3. CASE l # m
    <3>1. l \in 1..Len(s)
      BY <1>2, <2>3
    <3>2. f[j] < f[l]
      BY <1>1, <1>6, <2>1, <3>1 DEF Numbers
    <3> QED BY <1>2, <2>1, <3>1, <3>2
  <2> QED BY <2>2, <2>3
<1> HIDE DEF g
<1>7. Numbers(g, p, r, S \cup {n + 1})
  BY <1>2, <1>3, <1>4, <1>5, <1>6 DEF Numbers
<1> QED BY <1>7 DEF Written, r

\* The last position is dropped.
LEMMA WrittenLess ==
    ASSUME NEW p, NEW n \in Nat, NEW S \in SUBSET (1..n), NEW s \in Seq(Letter), s # <<>>,
           NEW f, Numbers(f, p, s, S)
    PROVE  Written(p, SubSeq(s, 1, Len(s) - 1), S \ {f[Len(s)]})
<1> DEFINE r == SubSeq(s, 1, Len(s) - 1)
           m == Len(s) - 1
           g == [j \in 1..m |-> f[j]]
<1>1. Len(s) \in Nat \ {0} /\ \A k \in 1..Len(s) : s[k] \in Letter
  BY LenProperties, EmptySeq, ElementOfSeq
<1>2. Len(r) = m /\ \A k \in 1..m : r[k] = s[k]
  BY FrontProperties
<1> HIDE DEF r
<1> DEFINE T == S \ {f[Len(s)]}
<1>3. ASSUME NEW j \in 1..m
      PROVE  j \in 1..Len(s) /\ g[j] = f[j] /\ f[j] \in T
  <2>1. j \in 1..Len(s) /\ Len(s) \in 1..Len(s) /\ j < Len(s) /\ g[j] = f[j]
    BY <1>1
  <2>2. f[j] \in S /\ f[Len(s)] \in S /\ f[j] < f[Len(s)]
    BY <2>1 DEF Numbers
  <2>3. f[j] \in 1..n /\ f[Len(s)] \in 1..n
    BY <2>2
  <2> QED BY <2>1, <2>2, <2>3
<1>4. g \in [1..m -> T]
  BY <1>3
<1>5. ASSUME NEW k \in T PROVE \E j \in 1..m : g[j] = k
  <2>1. PICK j \in 1..Len(s) : f[j] = k
    BY DEF Numbers
  <2>2. j \in 1..m
    BY <1>1, <2>1
  <2> QED BY <1>3, <2>1, <2>2
<1>6. \A j \in 1..m : r[j] = IF IsSlash(p[g[j]]) THEN Slash ELSE p[g[j]]
  BY <1>2, <1>3 DEF Numbers
<1>7. \A j, l \in 1..m : j < l => g[j] < g[l]
  BY <1>3 DEF Numbers
<1> HIDE DEF g, T
<1>8. Numbers(g, p, r, T)
  BY <1>2, <1>4, <1>5, <1>6, <1>7 DEF Numbers
<1> QED BY <1>8 DEF Written, r, T

\* The trailing slash is the only character written that is not to be kept.
LEMMA LastKept ==
    ASSUME NEW p, Len(p) \in Nat, Slash # Backslash, NEW s \in Seq(Letter),
           NEW f, Numbers(f, p, s, KeptTo(p, Len(p)))
    PROVE  Kept(p) = IF EndsInSlash(s) THEN KeptTo(p, Len(p)) \ {f[Len(s)]}
                     ELSE KeptTo(p, Len(p))
<1> DEFINE S == KeptTo(p, Len(p))
           m == f[Len(s)]
<1>1. Len(s) \in Nat /\ (s = <<>> <=> Len(s) = 0)
  BY LenProperties, EmptySeq
<1>2. Kept(p) \subseteq S
  BY DEF Kept, KeptTo
<1>3. CASE s = <<>>
  <2>1. S = {}
    BY <1>1, <1>3 DEF Numbers
  <2> QED BY <1>2, <1>3, <2>1 DEF EndsInSlash
<1>4. CASE s # <<>>
  <2>1. Len(s) \in 1..Len(s)
    BY <1>1, <1>4
  <2>2. m \in S /\ m \in 1..Len(p) /\ s[Len(s)] = IF IsSlash(p[m]) THEN Slash ELSE p[m]
    BY <2>1 DEF Numbers, KeptTo
  <2>3. EndsInSlash(s) <=> IsSlash(p[m])
    BY <1>4, <2>2 DEF EndsInSlash, IsSlash
  <2>4. ASSUME NEW k \in S PROVE k = m \/ k < m
    <3>1. PICK j \in 1..Len(s) : f[j] = k
      BY DEF Numbers
    <3>2. j = Len(s) \/ j < Len(s)
      BY <1>1
    <3> QED BY <2>1, <3>1, <3>2 DEF Numbers
  <2>5. CASE ~IsSlash(p[m])
    <3>1. ASSUME NEW k \in S PROVE k \in Kept(p)
      <4>1. k \in 1..Len(p) /\ (k = m \/ k < m)
        BY <2>4 DEF KeptTo
      <4>2. CASE ~IsSlash(p[k])
        BY <4>1, <4>2 DEF Kept
      <4>3. CASE IsSlash(p[k])
        <5>1. m \in (k + 1)..Len(p)
          BY <2>2, <2>5, <4>1, <4>3
        <5>2. \E l \in (k + 1)..Len(p) : ~IsSlash(p[l])
          BY <2>5, <5>1
        <5>3. k > 1 /\ ~IsSlash(p[k - 1])
          BY <4>3 DEF KeptTo
        <5> QED BY <4>1, <5>2, <5>3 DEF Kept
      <4> QED BY <4>2, <4>3
    <3> QED BY <1>2, <2>3, <2>5, <3>1
  <2>6. CASE IsSlash(p[m])
    <3>1. m > 1 /\ ~IsSlash(p[m - 1]) /\ m - 1 \in 1..Len(p)
      BY <2>2, <2>6 DEF KeptTo
    <3>2. m \notin Kept(p)
      <4>1. ASSUME NEW l \in (m + 1)..Len(p), ~IsSlash(p[l]) PROVE FALSE
        <5>1. l \in S /\ l > m
          BY <2>2, <4>1 DEF KeptTo
        <5> QED BY <2>2, <2>4, <5>1
      <4> QED BY <2>6, <4>1 DEF Kept
    <3>3. ASSUME NEW k \in S \ {m} PROVE k \in Kept(p)
      <4>1. k \in 1..Len(p) /\ k < m
        BY <2>4 DEF KeptTo
      <4>2. CASE ~IsSlash(p[k])
        BY <4>1, <4>2 DEF Kept
      <4>3. CASE IsSlash(p[k])
        <5>1. k # m - 1
          BY <3>1, <4>3
        <5>2. m - 1 \in (k + 1)..Len(p)
          BY <2>2, <3>1, <4>1, <5>1
        <5>3. \E l \in (k + 1)..Len(p) : ~IsSlash(p[l])
          BY <3>1, <5>2
        <5>4. k > 1 /\ ~IsSlash(p[k - 1])
          BY <4>3 DEF KeptTo
        <5> QED BY <4>1, <5>3, <5>4 DEF Kept
      <4> QED BY <4>2, <4>3
    <3> QED BY <1>2, <2>3, <2>6, <3>2, <3>3
  <2> QED BY <2>5, <2>6
<1> QED BY <1>3, <1>4

LEMMA CopyInit == Init => CopyInv
<1> SUFFICES ASSUME Init PROVE CopyInv
  OBVIOUS
<1>1. target = <<>> /\ Len(target) = 0 /\ KeptTo(path, i - 1) = {}
  BY EmptySeq DEF Init, KeptTo
<1> DEFINE f == [j \in {} |-> 0]
<1>2. Numbers(f, path, target, {})
  BY <1>1 DEF Numbers
<1> QED BY <1>1, <1>2 DEF Init, CopyInv, Written

LEMMA CopyNext == PathInv /\ CopyInv /\ [Next]_vars => CopyInv'
<1> SUFFICES ASSUME PathInv, CopyInv, [Next]_vars PROVE CopyInv'
  OBVIOUS
<1>0. target \in Seq(Letter) /\ Len(target) \in Nat /\ path \in Seq(Byte)
      /\ Len(path) \in Nat /\ i \in 1..(Len(path) + 1) /\ NoDouble(target)
  BY LenProperties DEF PathInv, PathTypeOK, Letter
<1>s. Slash # Backslash
  BY DEF Slash, Backslash
<1>a. InCopy => (c = Slash <=> IsSlash(path[i]))
              /\ c = IF IsSlash(path[i]) THEN Slash ELSE path[i]
  BY <1>s DEF c, IsSlash
<1>1. CASE SkipSlash
  <2>1. KeptTo(path, i) = KeptTo(path, i - 1)
    <3>1. i \notin KeptTo(path, i)
      BY <1>1, <1>a DEF SkipSlash, InCopy, CopyInv, KeptTo
    <3> QED BY <1>0, <3>1 DEF KeptTo
  <2>2. (i + 1) - 1 = i
    BY <1>0
  <2> QED BY <1>0, <1>1, <1>a, <2>1, <2>2 DEF SkipSlash, InCopy, CopyInv
<1>2. CASE CopySlash \/ CopyChar
  <2>1. /\ InCopy /\ pc = "copy" /\ pc' = "copy" /\ i' = i + 1 /\ path' = path
        /\ target' = Append(target, c)
        /\ ignore_slash' = (c = Slash)
        /\ c = Slash => ~ignore_slash
    BY <1>2 DEF CopySlash, CopyChar, InCopy
  <2>2. KeptTo(path, i) = KeptTo(path, i - 1) \cup {i}
    <3>1. i \in KeptTo(path, i)
      BY <1>0, <1>a, <2>1 DEF CopyInv, KeptTo
    <3> QED BY <1>0, <3>1 DEF KeptTo
  <2>3. Written(path, Append(target, c), KeptTo(path, i - 1) \cup {(i - 1) + 1})
    <3>1. Written(path, target, KeptTo(path, i - 1))
      BY <2>1 DEF CopyInv
    <3>2. i - 1 \in Nat /\ (i - 1) + 1 = i /\ KeptTo(path, i - 1) \in SUBSET (1..(i - 1))
      BY <1>0 DEF KeptTo
    <3>3. c \in Letter
      BY <2>1, Converted
    <3> QED BY <1>0, <1>a, <2>1, <3>1, <3>2, <3>3, WrittenMore
  <2>4. (i + 1) - 1 = i /\ (i - 1) + 1 = i /\ i + 1 # 1
    BY <1>0
  <2> QED BY <1>a, <2>1, <2>2, <2>3, <2>4 DEF CopyInv
<1>3. CASE CopyEnd
  <2>1. i - 1 = Len(path)
    BY <1>0, <1>3 DEF CopyEnd
  <2> QED BY <1>3, <2>1 DEF CopyEnd, CopyInv
<1>4. CASE Trim
  <2>0. pc = "trim" /\ path' = path
    BY <1>4 DEF Trim
  <2>1. CASE EndsInSlash(target)
    <3>1. target' = SubSeq(target, 1, Len(target) - 1) /\ pc' = "trim" /\ target # <<>>
      BY <1>4, <2>1 DEF Trim, TrailingSlash, EndsInSlash
    <3>2. ~EndsInSlash(target')
      BY <1>0, <2>1, <3>1, NoDoubleFront
    <3>3. PICK f : Numbers(f, path, target, KeptTo(path, Len(path)))
      BY <2>0, <2>1 DEF CopyInv, Written
    <3>4. Kept(path) = KeptTo(path, Len(path)) \ {f[Len(target)]}
      BY <1>0, <1>s, <2>1, <3>3, LastKept
    <3>5. KeptTo(path, Len(path)) \in SUBSET (1..Len(path))
      BY DEF KeptTo
    <3>6. Written(path, target', Kept(path))
      <4>1. Written(path, SubSeq(target, 1, Len(target) - 1),
                    KeptTo(path, Len(path)) \ {f[Len(target)]})
        BY <1>0, <3>1, <3>3, <3>5, WrittenLess
      <4> QED BY <3>1, <3>4, <4>1
    <3> QED BY <2>0, <3>1, <3>2, <3>6 DEF CopyInv
  <2>2. CASE ~EndsInSlash(target)
    <3>1. target' = target /\ pc' = "done"
      BY <1>4, <2>2 DEF Trim, TrailingSlash, EndsInSlash
    <3>2. Written(path, target, Kept(path))
      <4>1. CASE Written(path, target, KeptTo(path, Len(path)))
        <5>1. PICK f : Numbers(f, path, target, KeptTo(path, Len(path)))
          BY <4>1 DEF Written
        <5>2. Kept(path) = KeptTo(path, Len(path))
          BY <1>0, <1>s, <2>2, <5>1, LastKept
        <5> QED BY <4>1, <5>2
      <4> QED BY <2>0, <4>1 DEF CopyInv
    <3> QED BY <2>0, <3>1, <3>2 DEF CopyInv
  <2> QED BY <2>1, <2>2
<1>5. CASE UNCHANGED vars
  BY <1>5 DEF vars, CopyInv
<1> QED BY <1>1, <1>2, <1>3, <1>4, <1>5 DEF Next

LEMMA CopyExact == PathInv /\ CopyInv => CleanExact
<1> SUFFICES ASSUME PathInv, CopyInv, pc = "done" PROVE CleanExact
  BY DEF CleanExact
<1>1. PICK f : Numbers(f, path, target, Kept(path))
  BY DEF CopyInv, Written
<1>2. Len(target) \in Nat
  BY LenProperties DEF PathInv, PathTypeOK
<1>3. \A j \in 1..Len(target) : j > 1 => f[j - 1] < f[j]
  <2>1. \A j \in 1..Len(target) : j > 1 => j - 1 \in 1..Len(target) /\ j - 1 < j
    BY <1>2
  <2> QED BY <1>1, <2>1 DEF Numbers
<1> QED BY <1>1, <1>3 DEF CleanExact, Numbers

\* PCS_Tree_cleanPath keeps exactly the characters that a clean path must have, in
\* their order: none is lost, none moved, none left over, however slashes and
\* backslashes are mixed (CleanExact).
THEOREM CleanExactInvariant == Spec => []CleanExact
<1> QED BY InitInv, NextInv, CopyInit, CopyNext, CopyExact, PTL DEF Spec
=============================================================================
