------------------------- MODULE PCS_Parser_proofs -------------------------
(***************************************************************************)
(* Proof that the parser returns exactly the symbols of the scripts it     *)
(* understands (PCS_Grammar), whatever was parsed before them.             *)
(***************************************************************************)
EXTENDS PCS_Grammar, Induction, SequenceTheorems, FiniteSetTheorems, TLAPS

-----------------------------------------------------------------------------
\* A sequence of sequences, joined one after the other

Joins(E, ss, f) ==
    /\ f \in [0..Len(ss) -> Seq(E)]
    /\ f[0] = <<>>
    /\ \A i \in 1..Len(ss) : f[i] = f[i - 1] \o ss[i]
Joined(E, ss) == CHOOSE f : Joins(E, ss, f)

LEMMA JoinsExists ==
    ASSUME NEW E, NEW ss \in Seq(Seq(E))
    PROVE  Joins(E, ss, Joined(E, ss))
<1> DEFINE n == Len(ss)
           X == Seq(E)
           step == [i \in 1..n |-> [x \in X |-> x \o ss[i]]]
<1>1. n \in Nat /\ <<>> \in X /\ \A i \in 1..n : ss[i] \in X
  OBVIOUS
<1>2. step \in [1..n -> [X -> X]]
  <2>1. \A i \in 1..n : \A x \in X : x \o ss[i] \in X
    BY <1>1
  <2> QED BY <2>1
<1>3. \A i \in 1..n : \A x \in X : step[i][x] = x \o ss[i]
  OBVIOUS
<1> HIDE DEF n, X, step
<1>4. PICK f : Iterates(f, n, X, <<>>, step)
  BY <1>1, <1>2, Iteration
<1>5. Joins(E, ss, f)
  <2>1. f \in [0..n -> X] /\ f[0] = <<>> /\ \A i \in 1..n : f[i] = step[i][f[i - 1]]
    BY <1>4 DEF Iterates
  <2>2. \A i \in 1..n : f[i - 1] \in X
    BY <1>1, <2>1
  <2>3. \A i \in 1..n : f[i] = f[i - 1] \o ss[i]
    BY <1>3, <2>1, <2>2
  <2> QED BY <2>1, <2>3 DEF Joins, n, X
<1> QED BY <1>5 DEF Joined

\* The library's FlattenSeq is the last of them.
LEMMA Flattened ==
    ASSUME NEW E, NEW ss \in Seq(Seq(E))
    PROVE  FlattenSeq(ss) = Joined(E, ss)[Len(ss)]
<1> DEFINE n == Len(ss)
           f == Joined(E, ss)
           Step(g) == [i \in 1..n |-> IF i = 1 THEN ss[i] ELSE g[i - 1] \o ss[i]]
           h == CHOOSE g : g = Step(g)
<1>1. n \in Nat /\ \A i \in 1..n : ss[i] \in Seq(E)
  OBVIOUS
<1>2. f \in [0..n -> Seq(E)] /\ f[0] = <<>> /\ \A i \in 1..n : f[i] = f[i - 1] \o ss[i]
  BY JoinsExists DEF Joins
<1>3. CASE n = 0
  <2>1. ss = <<>>
    BY <1>3
  <2> QED BY <1>2, <1>3, <2>1 DEF FlattenSeq
<1>4. CASE n # 0
  <2>1. FlattenSeq(ss) = h[n]
    BY <1>4 DEF FlattenSeq
  <2> HIDE DEF f, n
  <2>2. h = Step(h)
    <3> DEFINE g == [i \in 1..n |-> f[i]]
    <3>1. ASSUME NEW i \in 1..n
          PROVE  g[i] = IF i = 1 THEN ss[i] ELSE g[i - 1] \o ss[i]
      <4>1. CASE i = 1
        <5>1. 1 \in 1..n /\ 1 - 1 = 0
          BY <1>1, <4>1
        <5>2. f[1] = f[0] \o ss[1] /\ f[0] = <<>> /\ ss[1] \in Seq(E)
          BY <1>1, <1>2, <5>1
        <5>3. <<>> \o ss[1] = ss[1]
          BY <5>2
        <5>4. f[1] = ss[1]
          BY <5>2, <5>3
        <5> QED BY <4>1, <5>4
      <4>2. CASE i # 1
        <5>1. i - 1 \in 1..n
          BY <1>1, <4>2
        <5> QED BY <1>2, <4>2, <5>1
      <4> QED BY <4>1, <4>2
    <3>2. g = Step(g)
      BY <3>1
    <3> HIDE DEF g, Step
    <3>3. \E x : x = Step(x)
      BY <3>2
    <3> QED BY <3>3
  <2> HIDE DEF h
  <2>7. \A i \in 1..n : h[i] = IF i = 1 THEN ss[i] ELSE h[i - 1] \o ss[i]
    BY <2>2
  <2> HIDE DEF Step
  <2> DEFINE S == {i \in 0..n : i # 0 => h[i] = f[i]}
  <2>3. 0 \in S
    BY <1>1
  <2>4. ASSUME NEW i \in 0..(n - 1), i \in S PROVE i + 1 \in S
    <3>1. i + 1 \in 1..n /\ (i + 1) - 1 = i
      BY <1>1
    <3>2. h[i + 1] = IF i + 1 = 1 THEN ss[i + 1] ELSE h[i] \o ss[i + 1]
      BY <1>1, <2>7, <3>1
    <3>3. f[i + 1] = f[i] \o ss[i + 1]
      BY <1>1, <1>2, <3>1
    <3>4. CASE i = 0
      <4>1. f[0] = <<>> /\ ss[i + 1] \in Seq(E)
        BY <1>1, <1>2, <3>1
      <4>2. h[i + 1] = f[i + 1]
        BY <3>2, <3>3, <3>4, <4>1
      <4> QED BY <1>1, <3>1, <4>2
    <3>5. CASE i # 0
      <4>0. h[i] = f[i] /\ i + 1 # 1
        BY <2>4, <3>5
      <4>1. h[i + 1] = f[i + 1]
        BY <3>2, <3>3, <4>0
      <4> QED BY <1>1, <3>1, <4>1
    <3> QED BY <3>4, <3>5
  <2> HIDE DEF S
  <2>8. \A i \in 0..n : i \in S
    BY <1>1, <2>3, <2>4, InductionUpTo
  <2>5. n \in S
    BY <1>1, <2>8
  <2>6. h[n] = f[n]
    BY <1>4, <2>5 DEF S
  <2> QED BY <2>1, <2>6 DEF f, n
<1> QED BY <1>3, <1>4

\* What each of them holds is at its place in the whole.
LEMMA JoinedAt ==
    ASSUME NEW E, NEW ss \in Seq(Seq(E)), NEW j \in 1..Len(ss), NEW i \in 1..Len(ss[j])
    PROVE  LET f == Joined(E, ss) IN
             /\ Len(f[j - 1]) + i \in 1..Len(f[Len(ss)])
             /\ f[Len(ss)][Len(f[j - 1]) + i] = ss[j][i]
<1> DEFINE n == Len(ss)
           f == Joined(E, ss)
           k == Len(f[j - 1]) + i
<1>1. n \in Nat /\ \A m \in 1..n : ss[m] \in Seq(E)
  OBVIOUS
<1>2. f \in [0..n -> Seq(E)] /\ \A m \in 1..n : f[m] = f[m - 1] \o ss[m]
  BY JoinsExists DEF Joins
<1>0. j \in 1..n
  OBVIOUS
<1>9. i \in Nat /\ i >= 1 /\ i <= Len(ss[j])
  BY <1>0, <1>1
<1> HIDE DEF f, n
<1>3. j - 1 \in 0..n /\ f[j - 1] \in Seq(E) /\ k \in Nat /\ k >= 1
  <2>1. j - 1 \in 0..n
    BY <1>0, <1>1
  <2>2. f[j - 1] \in Seq(E)
    BY <1>2, <2>1
  <2> QED BY <1>9, <2>1, <2>2
<1> DEFINE S == {m \in 0..n : m >= j => k \in 1..Len(f[m]) /\ f[m][k] = ss[j][i]}
<1>4. 0 \in S
  BY <1>1
<1>5. ASSUME NEW m \in 0..(n - 1), m \in S PROVE m + 1 \in S
  <2>0. m + 1 \in 1..n /\ m \in 0..n /\ (m + 1) - 1 = m
    BY <1>1
  <2>1. m + 1 \in 1..n /\ m \in 0..n /\ f[m] \in Seq(E) /\ ss[m + 1] \in Seq(E)
        /\ f[m + 1] = f[m] \o ss[m + 1]
    BY <1>1, <1>2, <2>0
  <2>2. CASE m + 1 < j
    BY <2>1, <2>2
  <2>3. CASE m + 1 = j
    <3>1. m = j - 1
      BY <2>3
    <3>2. f[j] = f[j - 1] \o ss[j] /\ f[j - 1] \in Seq(E) /\ ss[j] \in Seq(E)
      BY <1>1, <1>3, <2>1, <2>3, <3>1
    <3>3. k \in 1..Len(f[j]) /\ f[j][k] = ss[j][i]
      <4> DEFINE x == f[j - 1]
                 y == ss[j]
      <4>1. x \in Seq(E) /\ y \in Seq(E) /\ f[j] = x \o y /\ k = Len(x) + i
        BY <3>2
      <4>2. i \in 1..Len(y)
        OBVIOUS
      <4> HIDE DEF x, y, k
      <4>3. k \in 1..Len(x \o y) /\ (x \o y)[k] = y[i]
        BY <4>1, <4>2
      <4> QED BY <4>1, <4>3 DEF y
    <3> QED BY <2>1, <2>3, <3>3
  <2>4. CASE m + 1 > j
    <3>1. k \in 1..Len(f[m]) /\ f[m][k] = ss[j][i]
      BY <1>5, <2>4
    <3> HIDE DEF k
    <3> DEFINE x == f[m]
               y == ss[m + 1]
    <3>3. x \in Seq(E) /\ y \in Seq(E) /\ f[m + 1] = x \o y /\ k \in 1..Len(x)
      BY <2>1, <3>1
    <3> HIDE DEF x, y
    <3>4. k \in 1..Len(x \o y) /\ (x \o y)[k] = x[k]
      BY <3>3
    <3>2. k \in 1..Len(f[m + 1]) /\ f[m + 1][k] = f[m][k]
      BY <3>3, <3>4 DEF x
    <3>5. m + 1 \in 0..n
      BY <2>0
    <3> QED BY <3>1, <3>2, <3>5
  <2> QED BY <2>2, <2>3, <2>4
<1> HIDE DEF S, k
<1>7. \A m \in 0..n : m \in S
  BY <1>1, <1>4, <1>5, InductionUpTo
<1>6. n \in S
  BY <1>1, <1>7
<1> QED BY <1>0, <1>6 DEF S, k, f, n

-----------------------------------------------------------------------------
\* Tokens of a script

TokensOf(s)   == [j \in 1..Len(s.pieces) |-> s.pieces[j].tokens]
UpTo(s)       == Joined(Token, TokensOf(s))
Whole(s)      == UpTo(s)[Len(s.pieces)]
\* What is left after i tokens of piece j
Rest(s, j, i) == SubSeq(Whole(s), Len(UpTo(s)[j - 1]) + i + 1, Len(Whole(s)))

LEMMA ScriptTypes ==
    ASSUME NEW s \in Script
    PROVE  /\ s.directives \in Seq(Directive) /\ Len(s.directives) \in Nat
           /\ \A i \in 1..Len(s.directives) :
                s.directives[i].type \in SymbolType /\ s.directives[i].name \in Name
           /\ s.pieces \in Seq(Piece) /\ Len(s.pieces) \in Nat
           /\ \A j \in 1..Len(s.pieces) : s.pieces[j] \in Piece
           /\ TokensOf(s) \in Seq(Seq(Token)) /\ Len(TokensOf(s)) = Len(s.pieces)
<1>1. s.directives \in Seq(Directive) /\ s.pieces \in Seq(Piece)
  BY ScriptAssumption
<1>2. \A i \in 1..Len(s.directives) : s.directives[i] \in Directive
  BY <1>1, ElementOfSeq
<1>3. \A i \in 1..Len(s.directives) :
        s.directives[i].type \in SymbolType /\ s.directives[i].name \in Name
  BY <1>2 DEF Directive
<1>4. \A j \in 1..Len(s.pieces) : s.pieces[j] \in Piece
  BY <1>1, ElementOfSeq
<1>5. \A j \in 1..Len(s.pieces) : s.pieces[j].tokens \in Seq(Token)
  BY <1>4 DEF Piece
<1>6. Len(s.directives) \in Nat /\ Len(s.pieces) \in Nat
  BY <1>1
<1>7. TokensOf(s) \in Seq(Seq(Token)) /\ Len(TokensOf(s)) = Len(s.pieces)
  <2> DEFINE n == Len(s.pieces)
             x == TokensOf(s)
  <2>1. x \in [1..n -> Seq(Token)] /\ n \in Nat
    BY <1>5, <1>6 DEF TokensOf
  <2> HIDE DEF n, x
  <2>2. x \in Seq(Seq(Token)) /\ Len(x) = n
    BY <2>1
  <2> QED BY <2>2 DEF n, x
<1> QED BY <1>1, <1>3, <1>4, <1>6, <1>7

LEMMA PieceTypes ==
    ASSUME NEW q \in Piece
    PROVE  /\ q.tokens \in Seq(Token) /\ Len(q.tokens) \in Nat
           /\ \A i \in 1..Len(q.tokens) : q.tokens[i] \in Token
           /\ q.valid \in BOOLEAN
           /\ q.declares \in Seq([type : SymbolType, name : Name, block : BOOLEAN, global : BOOLEAN])
           /\ Len(q.declares) \in Nat
           /\ \A i \in 1..Len(q.declares) :
                /\ q.declares[i].type \in SymbolType /\ q.declares[i].name \in Name
           /\ q.namespace \in Seq(Name \cup {Sep}) \cup {Null}
<1> DEFINE D == [type : SymbolType, name : Name, block : BOOLEAN, global : BOOLEAN]
<1>1. /\ q.tokens \in Seq(Token) /\ q.valid \in BOOLEAN /\ q.declares \in Seq(D)
      /\ q.namespace \in Seq(Name \cup {Sep}) \cup {Null}
  BY DEF Piece
<1>2. Len(q.tokens) \in Nat /\ \A i \in 1..Len(q.tokens) : q.tokens[i] \in Token
  BY <1>1
<1>3. Len(q.declares) \in Nat /\ \A i \in 1..Len(q.declares) : q.declares[i] \in D
  <2> HIDE DEF D
  <2> QED BY <1>1
<1>4. \A i \in 1..Len(q.declares) :
        q.declares[i].type \in SymbolType /\ q.declares[i].name \in Name
  BY <1>3
<1> QED BY <1>1, <1>2, <1>3, <1>4

LEMMA WholeType ==
    ASSUME NEW s \in Script
    PROVE  /\ UpTo(s) \in [0..Len(s.pieces) -> Seq(Token)] /\ UpTo(s)[0] = <<>>
           /\ \A j \in 1..Len(s.pieces) : UpTo(s)[j] = UpTo(s)[j - 1] \o s.pieces[j].tokens
           /\ Whole(s) \in Seq(Token) /\ FlattenSeq(TokensOf(s)) = Whole(s)
<1> DEFINE n == Len(s.pieces)
<1>1. TokensOf(s) \in Seq(Seq(Token)) /\ Len(TokensOf(s)) = n /\ n \in Nat
  BY ScriptTypes
<1>2. /\ UpTo(s) \in [0..n -> Seq(Token)] /\ UpTo(s)[0] = <<>>
      /\ \A j \in 1..n : UpTo(s)[j] = UpTo(s)[j - 1] \o TokensOf(s)[j]
  BY <1>1, JoinsExists DEF Joins, UpTo
<1>3. \A j \in 1..n : TokensOf(s)[j] = s.pieces[j].tokens
  BY DEF TokensOf
<1>4. FlattenSeq(TokensOf(s)) = Whole(s)
  BY <1>1, Flattened DEF Whole, UpTo
<1>5. Whole(s) \in Seq(Token)
  <2> DEFINE u == UpTo(s)
  <2>1. u \in [0..n -> Seq(Token)] /\ Whole(s) = u[n]
    BY <1>2 DEF Whole
  <2> HIDE DEF u, n
  <2>2. n \in 0..n
    BY <1>1
  <2> QED BY <2>1, <2>2
<1> HIDE DEF n
<1> QED BY <1>2, <1>3, <1>4, <1>5 DEF n

LEMMA RestStep ==
    ASSUME NEW s \in Script, NEW j \in 1..Len(s.pieces), NEW i \in 0..(Len(s.pieces[j].tokens) - 1)
    PROVE  /\ Rest(s, j, i) # <<>>
           /\ Head(Rest(s, j, i)) = s.pieces[j].tokens[i + 1]
           /\ Tail(Rest(s, j, i)) = Rest(s, j, i + 1)
<1> DEFINE w == Whole(s)
           m == Len(UpTo(s)[j - 1])
<1>1. w \in Seq(Token) /\ m \in Nat
  <2>1. j - 1 \in 0..Len(s.pieces)
    BY ScriptTypes
  <2>2. UpTo(s)[j - 1] \in Seq(Token)
    BY <2>1, WholeType
  <2>3. \A x \in Seq(Token) : Len(x) \in Nat
    OBVIOUS
  <2> QED BY <2>2, <2>3, WholeType
<1>2. /\ TokensOf(s) \in Seq(Seq(Token)) /\ Len(TokensOf(s)) = Len(s.pieces)
      /\ TokensOf(s)[j] = s.pieces[j].tokens
  BY ScriptTypes DEF TokensOf
<1>3. i + 1 \in 1..Len(s.pieces[j].tokens) /\ i \in Nat
  <2>1. Len(s.pieces[j].tokens) \in Nat
    BY ScriptTypes, PieceTypes
  <2> QED BY <2>1
<1>4. m + (i + 1) \in 1..Len(w) /\ w[m + (i + 1)] = s.pieces[j].tokens[i + 1]
  <2> DEFINE ss == TokensOf(s)
             h  == i + 1
  <2>1. ss \in Seq(Seq(Token)) /\ j \in 1..Len(ss) /\ h \in 1..Len(ss[j])
    BY <1>2, <1>3
  <2>2. w = Joined(Token, ss)[Len(ss)] /\ m = Len(Joined(Token, ss)[j - 1])
    BY <1>2 DEF Whole, UpTo
  <2> HIDE DEF ss, h, w, m
  <2>3. m + h \in 1..Len(w) /\ w[m + h] = ss[j][h]
    BY <2>1, <2>2, JoinedAt
  <2> QED BY <1>2, <2>3 DEF ss, h
<1> HIDE DEF w, m
<1> DEFINE k == m + i
<1>5. k \in Nat /\ k + 1 \in 1..Len(w) /\ w[k + 1] = s.pieces[j].tokens[i + 1]
  BY <1>1, <1>3, <1>4
<1>6. Rest(s, j, i) = SubSeq(w, k + 1, Len(w)) /\ Rest(s, j, i + 1) = SubSeq(w, k + 2, Len(w))
  <2>1. m + i + 1 = k + 1 /\ m + (i + 1) + 1 = k + 2
    BY <1>1, <1>3
  <2> QED BY <2>1 DEF Rest, w, m
<1> HIDE DEF k
<1>7. /\ SubSeq(w, k + 1, Len(w)) # <<>>
      /\ Head(SubSeq(w, k + 1, Len(w))) = w[k + 1]
      /\ Tail(SubSeq(w, k + 1, Len(w))) = SubSeq(w, k + 2, Len(w))
  <2>1. k + 1 \in 1..(Len(w) + 1) /\ Len(w) \in Nat /\ k + 1 <= Len(w)
    BY <1>1, <1>5
  <2>2. SubSeq(w, k + 1, Len(w)) \in Seq(Token) /\ Len(SubSeq(w, k + 1, Len(w))) = Len(w) - k
    BY <1>1, <1>5, <2>1
  <2>3. SubSeq(w, k + 1, Len(w)) # <<>>
    <3>1. Len(w) - k # 0
      BY <1>5, <2>1
    <3>2. Len(<<>>) = 0
      OBVIOUS
    <3> QED BY <2>2, <3>1, <3>2
  <2>4. Head(SubSeq(w, k + 1, Len(w))) = w[k + 1]
    BY <1>1, <1>5, <2>1, <2>2
  <2>5. Tail(SubSeq(w, k + 1, Len(w))) = SubSeq(w, (k + 1) + 1, Len(w))
    BY <1>1, <1>5, <2>1, HeadTailOfSubSeq
  <2>6. (k + 1) + 1 = k + 2
    BY <1>5
  <2> QED BY <2>3, <2>4, <2>5, <2>6
<1> QED BY <1>5, <1>6, <1>7

LEMMA RestNext ==
    ASSUME NEW s \in Script, NEW j \in 1..Len(s.pieces)
    PROVE  Rest(s, j, Len(s.pieces[j].tokens)) = IF j = Len(s.pieces) THEN <<>>
                                                 ELSE Rest(s, j + 1, 0)
<1> DEFINE w == Whole(s)
           u == UpTo(s)
           n == Len(s.pieces)
           t == s.pieces[j].tokens
<1>1. n \in Nat /\ w = u[n] /\ w \in Seq(Token) /\ t \in Seq(Token)
      /\ u \in [0..n -> Seq(Token)] /\ u[j] = u[j - 1] \o t
  BY WholeType, ScriptTypes, PieceTypes DEF Whole
<1>2. j \in 1..n
  OBVIOUS
<1>3. Rest(s, j, Len(t)) = SubSeq(w, Len(u[j - 1]) + Len(t) + 1, Len(w))
      /\ Rest(s, j + 1, 0) = SubSeq(w, Len(u[(j + 1) - 1]) + 0 + 1, Len(w))
  BY DEF Rest
<1> HIDE DEF w, u, n, t
<1>4. j - 1 \in 0..n /\ j \in 0..n /\ (j + 1) - 1 = j
  BY <1>1, <1>2
<1>5. u[j - 1] \in Seq(Token) /\ u[j] \in Seq(Token)
  BY <1>1, <1>4
<1>6. Len(u[j]) = Len(u[j - 1]) + Len(t)
  BY <1>1, <1>5
<1>7. Len(u[j]) \in Nat /\ Len(u[j - 1]) + Len(t) + 1 = Len(u[j]) + 1
      /\ Len(u[j]) + 0 + 1 = Len(u[j]) + 1
  BY <1>1, <1>5, <1>6
<1>8. CASE j = n
  <2>1. SubSeq(w, Len(w) + 1, Len(w)) = <<>>
    BY <1>1
  <2> QED BY <1>1, <1>3, <1>7, <1>8, <2>1 DEF n, t
<1>9. CASE j # n
  <2>1. Rest(s, j + 1, 0) = SubSeq(w, Len(u[j]) + 1, Len(w))
    BY <1>3, <1>4, <1>7
  <2> QED BY <1>3, <1>7, <1>9, <2>1 DEF n, t
<1> QED BY <1>8, <1>9

LEMMA RestAll ==
    ASSUME NEW s \in Script
    PROVE  Whole(s) = IF Len(s.pieces) = 0 THEN <<>> ELSE Rest(s, 1, 0)
<1>1. Whole(s) \in Seq(Token) /\ UpTo(s)[0] = <<>>
  BY WholeType
<1>2. CASE Len(s.pieces) = 0
  BY <1>1, <1>2 DEF Whole
<1>3. CASE Len(s.pieces) # 0
  <2>1. Rest(s, 1, 0) = SubSeq(Whole(s), 1, Len(Whole(s)))
    <3>1. Len(UpTo(s)[1 - 1]) + 0 + 1 = 1
      BY <1>1
    <3> QED BY <3>1 DEF Rest
  <2> QED BY <1>1, <1>3, <2>1
<1> QED BY <1>2, <1>3

-----------------------------------------------------------------------------
\* Steps of the automaton

NamePiece == Name \cup {"", "define", "(", "&", "{", "}", ";", "\"", Sep}
State == {"OUT", "NAMESPACE_FOUND", "NAMESPACE_2", "FUNCTION_FOUND", "CLASS_FOUND",
          "CONST_FOUND", "DEFINE_FOUND", "DEFINE_2", "SKIPPING_TO_EOL",
          "SKIPPING_BLOCK_STRING", "SKIPPING_BLOCK_NOSTRING"}
CallType ==
    [pc : {"idle", "directives", "tokens", "failed"}, directives : Seq(Directive),
     indexing : BOOLEAN, skip_blocks : BOOLEAN, tokens : Seq(Token), state : State, block_level : Int,
     name : Seq(NamePiece), ns : Seq(NamePiece)]

\* tok is the next token.
Reads(tok) ==
    /\ p \in CallType /\ p.pc = "tokens" /\ p.tokens # <<>>
    /\ tok \in Token /\ Head(p.tokens) = tok

\* The token has been read.
Advances ==
    /\ p' \in CallType /\ p'.pc = "tokens" /\ p'.tokens = Tail(p.tokens)
    /\ p'.skip_blocks = p.skip_blocks
    /\ UNCHANGED <<script, exclude_list, result>>
Goes(keys, ns) ==
    Advances /\ p'.ns = ns /\ symbols' = keys
Moves(state, level, keys, ns) ==
    Goes(keys, ns) /\ p'.state = state /\ p'.block_level = level

LEMMA TokenType ==
    ASSUME NEW tok \in Token
    PROVE  /\ \A ch : tok = <<"char", ch>> <=> tok[1] = "char" /\ tok[2] = ch
           /\ \A v : tok = <<"string", v>> <=> tok[1] = "string" /\ tok[2] = v
           /\ \A v : tok = <<"literal", v>> <=> tok[1] = "literal" /\ tok[2] = v
           /\ tok[1] = "curly_open" => tok[2] = "{"
           /\ tok[2] \in NamePiece
<1> DEFINE V == Name \cup {"", "define", "(", "&", "{", "}", ";", "\""}
<1>1. \/ tok \in (TokenNum \ {"curly_open"}) \X V
      \/ tok = <<"curly_open", "{">>
  BY DEF Token
<1>2. "{" \in V /\ V \subseteq NamePiece
  BY DEF NamePiece
<1> HIDE DEF V
<1>3. PICK x, y : tok = <<x, y>> /\ y \in V /\ (x = "curly_open" => y = "{")
  <2>1. CASE tok \in (TokenNum \ {"curly_open"}) \X V
    <3>1. PICK x \in TokenNum \ {"curly_open"}, y \in V : tok = <<x, y>>
      BY <2>1
    <3> QED BY <3>1
  <2>2. CASE tok = <<"curly_open", "{">>
    BY <1>2, <2>2
  <2> QED BY <1>1, <2>1, <2>2
<1>4. tok[1] = x /\ tok[2] = y /\ tok[2] \in NamePiece
  BY <1>2, <1>3
<1>5. \A c, v : tok = <<c, v>> <=> tok[1] = c /\ tok[2] = v
  BY <1>3, <1>4
<1> QED BY <1>3, <1>4, <1>5

\* Only the actions of the automaton read a token.
LEMMA TokenStep ==
    ASSUME NEW tok, Reads(tok), Next
    PROVE  \/ SkipToken \/ Out \/ NamespaceFound \/ NamespacePart \/ NamespaceEnd
           \/ FunctionFound \/ NameFound \/ ConstFound
           \/ DefineFound \/ Define2 \/ SkippingToEol
           \/ BlockString \/ BlockNoString \/ UnexpectedToken
  BY DEF Reads, Next, ParseStep, parse, Flag, Declare, exclude, InvalidDirective, InDirectives,
         StartTokens, cleanup, EndRequest

LEMMA TailType ==
    ASSUME NEW tok, Reads(tok)
    PROVE  Tail(p.tokens) \in Seq(Token)
  BY DEF Reads, CallType

LEMMA SkipStep ==
    ASSUME NEW tok, Reads(tok), SkipToken
    PROVE  Moves(p.state, p.block_level, symbols, p.ns) /\ p'.name = p.name
  BY TailType DEF Reads, CallType, SkipToken, Enter, NoSymbol, Moves, Goes, Advances

LEMMA OutStep ==
    ASSUME NEW tok, Reads(tok), Next, p.state = "OUT"
    PROVE  IF IsBlank(tok) THEN Moves("OUT", p.block_level, symbols, p.ns)
           ELSE IF IsBrace(tok) /\ p.skip_blocks
                THEN Moves("SKIPPING_BLOCK_NOSTRING", 1, symbols, p.ns)
           ELSE /\ Moves(CASE tok[1] = "function"  -> "FUNCTION_FOUND"
                           [] tok[1] = "class"     -> "CLASS_FOUND"
                           [] tok[1] = "namespace" -> "NAMESPACE_FOUND"
                           [] tok[1] = "const"     -> "CONST_FOUND"
                           [] tok = <<"string", "define">> -> "DEFINE_FOUND"
                           [] OTHER -> "OUT", p.block_level, symbols, p.ns)
                /\ tok[1] = "namespace" => p'.name = <<>>
<1>1. SkipToken \/ Out
  BY TokenStep DEF In, NamespaceFound, NamespacePart, NamespaceEnd, FunctionFound, NameFound,
     ConstFound, DefineFound, Define2, SkippingToEol, BlockString, BlockNoString, UnexpectedToken
<1>2. CASE SkipToken
  <2>1. IsBlank(tok)
    BY <1>2 DEF SkipToken, Skipped, Reads, IsBlank, num
  <2> QED BY <1>2, <2>1, SkipStep
<1>3. CASE Out
  <2>1. ~IsBlank(tok)
    BY <1>3 DEF Out, In, Skipped, Reads, IsBlank, num
  <2>2. Opens = CASE tok[1] = "function"  -> "FUNCTION_FOUND"
                  [] tok[1] = "class"     -> "CLASS_FOUND"
                  [] tok[1] = "namespace" -> "NAMESPACE_FOUND"
                  [] tok[1] = "const"     -> "CONST_FOUND"
                  [] tok = <<"string", "define">> -> "DEFINE_FOUND"
                  [] OTHER -> "OUT"
    <3>1. tok \in Token /\ num = tok[1] /\ val = tok[2]
      BY DEF Reads, num, val
    <3>2. (num = "string" /\ val = "define") <=> tok = <<"string", "define">>
      BY <3>1, TokenType
    <3> QED BY <3>1, <3>2 DEF Opens
  <2>3. OpensBlock <=> IsBrace(tok) /\ p.skip_blocks
    <3>1. tok \in Token /\ num = tok[1] /\ val = tok[2]
      BY DEF Reads, num, val
    <3> QED BY <3>1, TokenType DEF OpensBlock, IsChar, IsBrace
  <2>4. Opens \in State
    BY DEF Opens, State
  <2> HIDE DEF Opens, OpensBlock
  <2>5. Moves(IF OpensBlock THEN "SKIPPING_BLOCK_NOSTRING" ELSE Opens,
              IF OpensBlock THEN 1 ELSE p.block_level, symbols, p.ns)
    <3>1. p' = [p EXCEPT !.tokens = Tail(@),
                  !.state = IF OpensBlock THEN "SKIPPING_BLOCK_NOSTRING" ELSE Opens,
                  !.block_level = IF OpensBlock THEN 1 ELSE @,
                  !.name = IF num \in {"namespace", "string"} THEN <<>> ELSE @]
      BY <1>3 DEF Out
    <3>2. NoSymbol
      BY <1>3 DEF Out
    <3>3. "SKIPPING_BLOCK_NOSTRING" \in State /\ 1 \in Int /\ <<>> \in Seq(NamePiece)
      BY DEF State
    <3>4. p' \in CallType
      BY <2>4, <3>1, <3>3, TailType DEF Reads, CallType
    <3> QED BY <3>1, <3>2, <3>4 DEF Reads, CallType, Moves, Goes, Advances, NoSymbol
  <2>6. tok[1] = "namespace" => p'.name = <<>>
    BY <1>3 DEF Out, Reads, CallType, num
  <2> QED BY <2>1, <2>2, <2>3, <2>5, <2>6
<1> QED BY <1>1, <1>2, <1>3

\* No two of these are the same.
LEMMA MarksApart ==
    ASSUME NEW tok \in Token
    PROVE  /\ IsBlank(tok) => ~IsQuote(tok) /\ ~IsOpening(tok) /\ ~IsClosing(tok)
                              /\ ~IsSemicolon(tok) /\ ~IsParen(tok) /\ ~IsAmpersand(tok)
           /\ IsQuote(tok) => ~IsOpening(tok) /\ ~IsClosing(tok)
           /\ IsOpening(tok) => ~IsClosing(tok)
           /\ IsParen(tok) \/ IsAmpersand(tok) => tok[1] = "char" /\ ~IsBlank(tok)
           /\ ~(IsParen(tok) /\ IsAmpersand(tok))
           /\ IsBrace(tok) => tok[1] = "char" /\ IsOpening(tok)
<1>1. \A ch : tok = <<"char", ch>> <=> tok[1] = "char" /\ tok[2] = ch
  BY TokenType
<1>2. /\ IsQuote(tok) \/ IsBrace(tok) \/ IsClosing(tok) \/ IsSemicolon(tok) \/ IsParen(tok)
         \/ IsAmpersand(tok) => tok[1] = "char"
  BY <1>1 DEF IsQuote, IsBrace, IsClosing, IsSemicolon, IsParen, IsAmpersand
<1>3. "\"" # "{" /\ "\"" # "}" /\ "{" # "}" /\ "(" # "&"
  OBVIOUS
<1>7. ~(IsParen(tok) /\ IsAmpersand(tok))
  <2>1. (IsParen(tok) => tok[2] = "(") /\ (IsAmpersand(tok) => tok[2] = "&")
    BY <1>1 DEF IsParen, IsAmpersand
  <2> QED BY <1>3, <2>1
<1>4. /\ IsQuote(tok) => tok[2] = "\""
      /\ IsBrace(tok) => tok[2] = "{"
      /\ IsClosing(tok) => tok[2] = "}"
  BY <1>1 DEF IsQuote, IsBrace, IsClosing
<1>5. IsQuote(tok) => ~IsBrace(tok) /\ ~IsClosing(tok)
  BY <1>3, <1>4
<1>6. IsBrace(tok) => ~IsClosing(tok)
  BY <1>3, <1>4
<1> QED BY <1>2, <1>5, <1>6, <1>7 DEF IsBlank, IsOpening

\* In the other states: what is read, and where it leads.
LEMMA ReadsToken ==
    ASSUME NEW tok, Reads(tok)
    PROVE  /\ num = tok[1] /\ val = tok[2] /\ tok \in Token
           /\ Skipped <=> IsBlank(tok) /\ ~(tok[1] = "whitespace" /\ p.state = "NAMESPACE_FOUND")
           /\ IsChar("(") <=> IsParen(tok)
           /\ IsChar("&") <=> IsAmpersand(tok)
           /\ IsChar(";") <=> IsSemicolon(tok)
           /\ IsChar("\"") <=> IsQuote(tok)
           /\ BlockChar("\"") <=> IsQuote(tok)
           /\ BlockChar("{") <=> IsOpening(tok)
           /\ BlockChar("}") <=> IsClosing(tok)
<1>1. num = tok[1] /\ val = tok[2] /\ tok \in Token
  BY DEF Reads, num, val
<1>2. \A ch : IsChar(ch) <=> tok = <<"char", ch>>
  BY <1>1, TokenType DEF IsChar
<1>3. /\ IsChar("(") <=> IsParen(tok)
      /\ IsChar("&") <=> IsAmpersand(tok)
      /\ IsChar(";") <=> IsSemicolon(tok)
      /\ IsChar("\"") <=> IsQuote(tok)
  BY <1>2 DEF IsParen, IsAmpersand, IsSemicolon, IsQuote
<1>4. tok[1] = "curly_open" => tok[2] = "{"
  BY <1>1, TokenType
<1>5. "{" # "\"" /\ "{" # "}"
  OBVIOUS
<1>6. \A ch : tok = <<"char", ch>> <=> tok[1] = "char" /\ tok[2] = ch
  BY <1>1, TokenType
<1>7. BlockChar("\"") <=> IsQuote(tok)
  <2>1. ~(tok[1] = "curly_open" /\ tok[2] = "\"")
    BY <1>4, <1>5
  <2>2. IsQuote(tok) <=> tok[1] = "char" /\ tok[2] = "\""
    BY <1>6 DEF IsQuote
  <2> QED BY <1>1, <2>1, <2>2 DEF BlockChar
<1>8. BlockChar("{") <=> IsOpening(tok)
  <2>1. IsBrace(tok) <=> tok[1] = "char" /\ tok[2] = "{"
    BY <1>6 DEF IsBrace
  <2> QED BY <1>1, <1>4, <2>1 DEF BlockChar, IsOpening
<1>9. BlockChar("}") <=> IsClosing(tok)
  <2>1. ~(tok[1] = "curly_open" /\ tok[2] = "}")
    BY <1>4, <1>5
  <2>2. IsClosing(tok) <=> tok[1] = "char" /\ tok[2] = "}"
    BY <1>6 DEF IsClosing
  <2> QED BY <1>1, <2>1, <2>2 DEF BlockChar
<1> QED BY <1>1, <1>3, <1>7, <1>8, <1>9 DEF Skipped, IsBlank

LEMMA ActionIn ==
    ASSUME NEW tok, Reads(tok), Next
    PROVE  /\ p.state = "CLASS_FOUND" => SkipToken \/ NameFound \/ UnexpectedToken
           /\ p.state = "FUNCTION_FOUND" =>
                SkipToken \/ FunctionFound \/ NameFound \/ UnexpectedToken
           /\ p.state = "CONST_FOUND" => SkipToken \/ ConstFound \/ UnexpectedToken
           /\ p.state = "DEFINE_FOUND" => SkipToken \/ DefineFound \/ UnexpectedToken
           /\ p.state = "DEFINE_2" => SkipToken \/ Define2 \/ UnexpectedToken
           /\ p.state = "SKIPPING_TO_EOL" => SkipToken \/ SkippingToEol
           /\ p.state = "NAMESPACE_FOUND" => SkipToken \/ NamespaceFound
           /\ p.state = "NAMESPACE_2" => SkipToken \/ NamespacePart \/ NamespaceEnd
           /\ p.state = "SKIPPING_BLOCK_STRING" => SkipToken \/ BlockString
           /\ p.state = "SKIPPING_BLOCK_NOSTRING" => SkipToken \/ BlockNoString
<1>1. \/ SkipToken \/ Out \/ NamespaceFound \/ NamespacePart \/ NamespaceEnd
      \/ FunctionFound \/ NameFound \/ ConstFound
      \/ DefineFound \/ Define2 \/ SkippingToEol
      \/ BlockString \/ BlockNoString \/ UnexpectedToken
  BY TokenStep
<1>2. /\ Out => p.state = "OUT"
      /\ NamespaceFound => p.state = "NAMESPACE_FOUND"
      /\ NamespacePart \/ NamespaceEnd => p.state = "NAMESPACE_2"
      /\ FunctionFound => p.state = "FUNCTION_FOUND"
      /\ NameFound => p.state \in {"FUNCTION_FOUND", "CLASS_FOUND"}
      /\ ConstFound => p.state = "CONST_FOUND"
      /\ DefineFound => p.state = "DEFINE_FOUND"
      /\ Define2 => p.state = "DEFINE_2"
      /\ SkippingToEol => p.state = "SKIPPING_TO_EOL"
      /\ BlockString => p.state = "SKIPPING_BLOCK_STRING"
      /\ BlockNoString => p.state = "SKIPPING_BLOCK_NOSTRING"
      /\ UnexpectedToken => p.state \in {"FUNCTION_FOUND", "CLASS_FOUND", "CONST_FOUND",
                                         "DEFINE_FOUND", "DEFINE_2"}
  BY DEF In, Out, NamespaceFound, NamespacePart, NamespaceEnd, FunctionFound, NameFound,
     ConstFound, DefineFound, Define2, SkippingToEol, BlockString, BlockNoString, UnexpectedToken
<1> QED BY <1>1, <1>2

\* The call is given up.
Stops == p' = [NoCall EXCEPT !.pc = "failed"] /\ result' = Exception
         /\ UNCHANGED <<script, symbols, exclude_list>>

LEMMA EnterMoves ==
    ASSUME NEW tok, Reads(tok), NEW state \in State, Enter(state), NoSymbol
    PROVE  Moves(state, p.block_level, symbols, p.ns) /\ p'.name = p.name
<1>1. p' \in CallType
  BY TailType DEF Reads, CallType, Enter
<1> QED BY <1>1 DEF Reads, CallType, Enter, NoSymbol, Moves, Goes, Advances

LEMMA SkipsOnly ==
    ASSUME NEW tok, Reads(tok), SkipToken
    PROVE  /\ IsBlank(tok) /\ ~(tok[1] = "whitespace" /\ p.state = "NAMESPACE_FOUND")
           /\ Moves(p.state, p.block_level, symbols, p.ns) /\ p'.name = p.name
  BY ReadsToken, SkipStep DEF SkipToken

\* A class or a function: its name, or '&' and '(' for a function.
LEMMA NamedStep ==
    ASSUME NEW tok, Reads(tok), Next, p.state \in {"CLASS_FOUND", "FUNCTION_FOUND"}
    PROVE  \/ IsBlank(tok) /\ Moves(p.state, p.block_level, symbols, p.ns)
           \/ /\ tok[1] = "string"
              /\ Moves("SKIPPING_BLOCK_NOSTRING", 0,
                       Append(symbols, key(IF p.state = "CLASS_FOUND" THEN T_CLASS ELSE T_FUNCTION,
                                           combineNSSymbol(p.ns, tok[2]))), p.ns)
           \/ /\ p.state = "FUNCTION_FOUND" /\ IsParen(tok)
              /\ Moves("OUT", p.block_level, symbols, p.ns)
           \/ /\ p.state = "FUNCTION_FOUND" /\ IsAmpersand(tok)
              /\ Moves("FUNCTION_FOUND", p.block_level, symbols, p.ns)
           \/ /\ ~IsBlank(tok) /\ tok[1] # "string" /\ Stops
              /\ p.state = "FUNCTION_FOUND" => ~IsParen(tok) /\ ~IsAmpersand(tok)
<1>1. SkipToken \/ FunctionFound \/ NameFound \/ UnexpectedToken
  BY ActionIn
<1>2. CASE SkipToken
  BY <1>2, SkipsOnly
<1>3. CASE FunctionFound
  <2>1. /\ p.state = "FUNCTION_FOUND" /\ (IsParen(tok) \/ IsAmpersand(tok))
        /\ Enter(IF IsParen(tok) THEN "OUT" ELSE p.state) /\ NoSymbol
    BY <1>3, ReadsToken DEF FunctionFound, In
  <2>2. (IF IsParen(tok) THEN "OUT" ELSE p.state) \in State
    BY <2>1 DEF State
  <2>3. Moves(IF IsParen(tok) THEN "OUT" ELSE p.state, p.block_level, symbols, p.ns)
    BY <2>1, <2>2, EnterMoves
  <2> QED BY <2>1, <2>3
<1>4. CASE NameFound
  <2> DEFINE k == key(IF p.state = "CLASS_FOUND" THEN T_CLASS ELSE T_FUNCTION,
                      combineNSSymbol(p.ns, tok[2]))
  <2>1. /\ tok[1] = "string" /\ symbols' = Append(symbols, k)
        /\ UNCHANGED <<script, exclude_list, result>>
        /\ p' = [p EXCEPT !.tokens = Tail(@), !.state = "SKIPPING_BLOCK_NOSTRING",
                          !.block_level = 0]
    BY <1>4, ReadsToken DEF NameFound, Found, addSymbol
  <2> HIDE DEF k
  <2>2. p' \in CallType
    <3>1. "SKIPPING_BLOCK_NOSTRING" \in State /\ 0 \in Int
      BY DEF State
    <3> QED BY <2>1, <3>1, TailType DEF Reads, CallType
  <2>3. Moves("SKIPPING_BLOCK_NOSTRING", 0, Append(symbols, k), p.ns)
    BY <2>1, <2>2 DEF Reads, CallType, Moves, Goes, Advances
  <2> QED BY <2>1, <2>3 DEF k
<1>5. CASE UnexpectedToken
  <2>1. Stops
    BY <1>5 DEF UnexpectedToken, Throw, Stops
  <2>2. ~IsBlank(tok) /\ tok[1] # "string"
        /\ (p.state = "FUNCTION_FOUND" => ~IsParen(tok) /\ ~IsAmpersand(tok))
    BY <1>5, ReadsToken DEF UnexpectedToken, In
  <2> QED BY <2>1, <2>2
<1> QED BY <1>1, <1>2, <1>3, <1>4, <1>5

LEMMA ConstStep ==
    ASSUME NEW tok, Reads(tok), Next, p.state = "CONST_FOUND"
    PROVE  \/ IsBlank(tok) /\ Moves("CONST_FOUND", p.block_level, symbols, p.ns)
           \/ /\ tok[1] = "string"
              /\ Moves("OUT", p.block_level,
                       Append(symbols, key(T_CONSTANT, combineNSSymbol(p.ns, tok[2]))), p.ns)
           \/ ~IsBlank(tok) /\ tok[1] # "string" /\ Stops
<1>1. SkipToken \/ ConstFound \/ UnexpectedToken
  BY ActionIn
<1>2. CASE SkipToken
  BY <1>2, SkipsOnly
<1>3. CASE ConstFound
  <2> DEFINE k == key(T_CONSTANT, combineNSSymbol(p.ns, tok[2]))
  <2>1. /\ tok[1] = "string" /\ symbols' = Append(symbols, k)
        /\ UNCHANGED <<script, exclude_list, result>> /\ Enter("OUT")
    BY <1>3, ReadsToken DEF ConstFound, Found, addSymbol
  <2> HIDE DEF k
  <2>2. p' \in CallType
    <3>1. "OUT" \in State
      BY DEF State
    <3> QED BY <2>1, <3>1, TailType DEF Reads, CallType, Enter
  <2>3. Moves("OUT", p.block_level, Append(symbols, k), p.ns)
    BY <2>1, <2>2 DEF Reads, CallType, Moves, Goes, Advances, Enter
  <2> QED BY <2>1, <2>3 DEF k
<1>4. CASE UnexpectedToken
  <2>1. Stops
    BY <1>4 DEF UnexpectedToken, Throw, Stops
  <2>2. ~IsBlank(tok) /\ tok[1] # "string"
    BY <1>4, ReadsToken DEF UnexpectedToken, In
  <2> QED BY <2>1, <2>2
<1> QED BY <1>1, <1>2, <1>3, <1>4

\* A define: '(', the name, and the rest of the statement.
LEMMA DefineStep ==
    ASSUME NEW tok, Reads(tok), Next, p.state = "DEFINE_FOUND"
    PROVE  \/ IsBlank(tok) /\ Moves("DEFINE_FOUND", p.block_level, symbols, p.ns)
           \/ IsParen(tok) /\ Moves("DEFINE_2", p.block_level, symbols, p.ns)
           \/ ~IsBlank(tok) /\ ~IsParen(tok) /\ Stops
<1>1. SkipToken \/ DefineFound \/ UnexpectedToken
  BY ActionIn
<1>2. CASE SkipToken
  BY <1>2, SkipsOnly
<1>3. CASE DefineFound
  <2>1. IsParen(tok) /\ Enter("DEFINE_2") /\ NoSymbol
    BY <1>3, ReadsToken DEF DefineFound
  <2>2. "DEFINE_2" \in State
    BY DEF State
  <2> QED BY <2>1, <2>2, EnterMoves
<1>4. CASE UnexpectedToken
  <2>1. Stops
    BY <1>4 DEF UnexpectedToken, Throw, Stops
  <2>2. ~IsBlank(tok) /\ ~IsParen(tok)
    BY <1>4, ReadsToken DEF UnexpectedToken, In
  <2> QED BY <2>1, <2>2
<1> QED BY <1>1, <1>2, <1>3, <1>4

LEMMA Define2Step ==
    ASSUME NEW tok, Reads(tok), Next, p.state = "DEFINE_2"
    PROVE  \/ IsBlank(tok) /\ Moves("DEFINE_2", p.block_level, symbols, p.ns)
           \/ /\ tok[1] = "literal"
              /\ Moves("SKIPPING_TO_EOL", p.block_level,
                       Append(symbols, key(T_CONSTANT, <<tok[2]>>)), p.ns)
           \/ ~IsBlank(tok) /\ tok[1] # "literal" /\ Stops
<1>1. SkipToken \/ Define2 \/ UnexpectedToken
  BY ActionIn
<1>2. CASE SkipToken
  BY <1>2, SkipsOnly
<1>3. CASE Define2
  <2> DEFINE k == key(T_CONSTANT, <<tok[2]>>)
  <2>1. /\ tok[1] = "literal" /\ symbols' = Append(symbols, k)
        /\ UNCHANGED <<script, exclude_list, result>> /\ Enter("SKIPPING_TO_EOL")
    BY <1>3, ReadsToken DEF Define2, Found, addSymbol
  <2> HIDE DEF k
  <2>2. p' \in CallType
    <3>1. "SKIPPING_TO_EOL" \in State
      BY DEF State
    <3> QED BY <2>1, <3>1, TailType DEF Reads, CallType, Enter
  <2>3. Moves("SKIPPING_TO_EOL", p.block_level, Append(symbols, k), p.ns)
    BY <2>1, <2>2 DEF Reads, CallType, Moves, Goes, Advances, Enter
  <2> QED BY <2>1, <2>3 DEF k
<1>4. CASE UnexpectedToken
  <2>1. Stops
    BY <1>4 DEF UnexpectedToken, Throw, Stops
  <2>2. ~IsBlank(tok) /\ tok[1] # "literal"
    BY <1>4, ReadsToken DEF UnexpectedToken, In
  <2> QED BY <2>1, <2>2
<1> QED BY <1>1, <1>2, <1>3, <1>4

LEMMA EolStep ==
    ASSUME NEW tok, Reads(tok), Next, p.state = "SKIPPING_TO_EOL"
    PROVE  Moves(IF IsSemicolon(tok) THEN "OUT" ELSE "SKIPPING_TO_EOL",
                 p.block_level, symbols, p.ns)
<1>1. SkipToken \/ SkippingToEol
  BY ActionIn
<1>2. CASE SkipToken
  <2>1. IsBlank(tok) /\ Moves("SKIPPING_TO_EOL", p.block_level, symbols, p.ns)
    BY <1>2, SkipsOnly
  <2>2. ~IsSemicolon(tok)
    BY <2>1, ReadsToken, MarksApart
  <2> QED BY <2>1, <2>2
<1>3. CASE SkippingToEol
  <2> DEFINE st == IF IsSemicolon(tok) THEN "OUT" ELSE "SKIPPING_TO_EOL"
  <2>1. Enter(st) /\ NoSymbol
    BY <1>3, ReadsToken DEF SkippingToEol, Enter
  <2>2. st \in State
    BY DEF State
  <2> HIDE DEF st
  <2>3. Moves(st, p.block_level, symbols, p.ns)
    BY <2>1, <2>2, EnterMoves
  <2> QED BY <2>3 DEF st
<1> QED BY <1>1, <1>2, <1>3

\* A namespace: a space, the parts of its name, and the token after them.
LEMMA NamespaceStep ==
    ASSUME NEW tok, Reads(tok), Next, p.state = "NAMESPACE_FOUND"
    PROVE  /\ \/ tok[1] = "comment" /\ Moves("NAMESPACE_FOUND", p.block_level, symbols, p.ns)
              \/ tok[1] = "whitespace" /\ Moves("NAMESPACE_2", p.block_level, symbols, p.ns)
              \/ ~IsBlank(tok) /\ Moves("OUT", p.block_level, symbols, p.ns)
           /\ p'.name = p.name
<1>1. SkipToken \/ NamespaceFound
  BY ActionIn
<1>2. CASE SkipToken
  BY <1>2, SkipsOnly DEF IsBlank
<1>3. CASE NamespaceFound
  <2> DEFINE st == IF tok[1] = "whitespace" THEN "NAMESPACE_2" ELSE "OUT"
  <2>1. Enter(st) /\ NoSymbol /\ tok[1] # "comment"
    BY <1>3, ReadsToken DEF NamespaceFound, In, Skipped
  <2>2. st \in State
    BY DEF State
  <2> HIDE DEF st
  <2>3. Moves(st, p.block_level, symbols, p.ns) /\ p'.name = p.name
    BY <2>1, <2>2, EnterMoves
  <2> QED BY <2>1, <2>3 DEF st, IsBlank
<1> QED BY <1>1, <1>2, <1>3

LEMMA Namespace2Step ==
    ASSUME NEW tok, Reads(tok), Next, p.state = "NAMESPACE_2"
    PROVE  \/ /\ IsBlank(tok) \/ tok[1] \in {"string", "separator"}
              /\ Moves("NAMESPACE_2", p.block_level, symbols, p.ns)
              /\ p'.name = p.name \o NamePart(tok)
           \/ /\ ~IsBlank(tok) /\ tok[1] \notin {"string", "separator"}
              /\ Moves("OUT", p.block_level, symbols, p.name)
<1>1. SkipToken \/ NamespacePart \/ NamespaceEnd
  BY ActionIn
<1>0. p.name \in Seq(NamePiece)
  BY DEF Reads, CallType
<1>2. CASE SkipToken
  <2>1. /\ IsBlank(tok) /\ p'.name = p.name
        /\ Moves("NAMESPACE_2", p.block_level, symbols, p.ns)
    BY <1>2, SkipsOnly
  <2>2. p.name \o NamePart(tok) = p.name
    <3>1. NamePart(tok) = <<>>
      BY <2>1 DEF NamePart, IsBlank
    <3>2. \A x \in Seq(NamePiece) : x \o <<>> = x
      OBVIOUS
    <3> QED BY <1>0, <3>1, <3>2
  <2> QED BY <2>1, <2>2
<1>3. CASE NamespacePart
  <2> DEFINE v == IF tok[1] = "string" THEN tok[2] ELSE Sep
  <2>1. /\ tok[1] \in {"string", "separator"} /\ NoSymbol
        /\ p' = [p EXCEPT !.tokens = Tail(@), !.name = Append(@, v)]
    BY <1>3, ReadsToken DEF NamespacePart
  <2>2. v \in NamePiece /\ NamePart(tok) = <<v>>
    BY <2>1, ReadsToken, TokenType DEF NamePart, NamePiece
  <2> HIDE DEF v
  <2>3. Append(p.name, v) \in Seq(NamePiece) /\ p.name \o NamePart(tok) = Append(p.name, v)
    BY <1>0, <2>2
  <2>4. p' \in CallType
    BY <2>1, <2>3, TailType DEF Reads, CallType
  <2>5. Moves("NAMESPACE_2", p.block_level, symbols, p.ns) /\ p'.name = Append(p.name, v)
    BY <2>1, <2>4 DEF Reads, CallType, Moves, Goes, Advances, NoSymbol
  <2> QED BY <2>1, <2>3, <2>5
<1>4. CASE NamespaceEnd
  <2>1. /\ ~IsBlank(tok) /\ tok[1] \notin {"string", "separator"} /\ NoSymbol
        /\ p' = [p EXCEPT !.tokens = Tail(@), !.state = "OUT", !.ns = p.name]
    BY <1>4, ReadsToken DEF NamespaceEnd, In
  <2>2. p' \in CallType
    <3>1. "OUT" \in State
      BY DEF State
    <3> QED BY <1>0, <2>1, <3>1, TailType DEF Reads, CallType
  <2>3. Moves("OUT", p.block_level, symbols, p.name)
    BY <2>1, <2>2 DEF Reads, CallType, Moves, Goes, Advances, NoSymbol
  <2> QED BY <2>1, <2>3
<1> QED BY <1>1, <1>2, <1>3, <1>4

\* A block: braces count outside of strings.
LevelAfter(tok) ==
    IF p.state = "SKIPPING_BLOCK_STRING" THEN p.block_level
    ELSE IF IsOpening(tok) THEN p.block_level + 1
    ELSE IF IsClosing(tok) THEN p.block_level - 1 ELSE p.block_level
StateAfter(tok) ==
    IF p.state = "SKIPPING_BLOCK_STRING"
    THEN IF IsQuote(tok) THEN "SKIPPING_BLOCK_NOSTRING" ELSE "SKIPPING_BLOCK_STRING"
    ELSE IF IsQuote(tok) THEN "SKIPPING_BLOCK_STRING"
    ELSE IF IsClosing(tok) /\ LevelAfter(tok) = 0 THEN "OUT" ELSE "SKIPPING_BLOCK_NOSTRING"

LEMMA BlockStep ==
    ASSUME NEW tok, Reads(tok), Next,
           p.state \in {"SKIPPING_BLOCK_STRING", "SKIPPING_BLOCK_NOSTRING"}
    PROVE  Moves(StateAfter(tok), LevelAfter(tok), symbols, p.ns)
<1>1. tok \in Token /\ p.block_level \in Int
  BY DEF Reads, CallType
<1>2. CASE SkipToken
  <2>1. IsBlank(tok) /\ Moves(p.state, p.block_level, symbols, p.ns)
    BY <1>2, SkipsOnly
  <2>2. ~IsQuote(tok) /\ ~IsOpening(tok) /\ ~IsClosing(tok)
    BY <1>1, <2>1, MarksApart
  <2>3. LevelAfter(tok) = p.block_level /\ StateAfter(tok) = p.state
    BY <2>2 DEF LevelAfter, StateAfter
  <2> QED BY <2>1, <2>3
<1>3. CASE BlockString
  <2>1. p.state = "SKIPPING_BLOCK_STRING" /\ NoSymbol
        /\ Enter(IF IsQuote(tok) THEN "SKIPPING_BLOCK_NOSTRING" ELSE p.state)
    BY <1>3, ReadsToken DEF BlockString, In
  <2>2. LevelAfter(tok) = p.block_level /\ Enter(StateAfter(tok))
    BY <2>1 DEF LevelAfter, StateAfter
  <2>3. StateAfter(tok) \in State
    BY <2>1 DEF StateAfter, State
  <2> QED BY <2>1, <2>2, <2>3, EnterMoves
<1>4. CASE BlockNoString
  <2> DEFINE opening == BlockChar("{")
             closing == BlockChar("}")
             quote   == BlockChar("\"")
             level == CASE opening -> p.block_level + 1
                        [] closing -> p.block_level - 1
                        [] OTHER -> p.block_level
             state == CASE quote -> "SKIPPING_BLOCK_STRING"
                        [] closing /\ level = 0 -> "OUT"
                        [] OTHER -> p.state
  <2>1. p.state = "SKIPPING_BLOCK_NOSTRING" /\ NoSymbol
        /\ p' = [p EXCEPT !.tokens = Tail(@), !.block_level = level, !.state = state]
    BY <1>4 DEF BlockNoString, In
  <2>2. /\ quote <=> IsQuote(tok)
        /\ opening <=> IsOpening(tok)
        /\ closing <=> IsClosing(tok)
    BY ReadsToken
  <2> HIDE DEF opening, closing, quote
  <2>3. level = LevelAfter(tok)
    BY <1>1, <2>1, <2>2, MarksApart DEF LevelAfter
  <2> HIDE DEF level
  <2>4. state = StateAfter(tok)
    BY <1>1, <2>1, <2>2, <2>3, MarksApart DEF StateAfter
  <2> HIDE DEF state
  <2>5. LevelAfter(tok) \in Int /\ StateAfter(tok) \in State
    <3>1. LevelAfter(tok) \in Int
      BY <1>1 DEF LevelAfter
    <3> QED BY <3>1 DEF StateAfter, State
  <2>6. p' \in CallType
    BY <2>1, <2>3, <2>4, <2>5, TailType DEF Reads, CallType
  <2> QED BY <2>1, <2>3, <2>4, <2>6 DEF Reads, CallType, Moves, Goes, Advances, NoSymbol
<1>5. SkipToken \/ BlockString \/ BlockNoString
  BY ActionIn
<1> QED BY <1>2, <1>3, <1>4, <1>5

-----------------------------------------------------------------------------
\* Counting positions

LEMMA CountStep ==
    ASSUME NEW S \in SUBSET Int, NEW a \in Int, NEW i \in Int, a <= i + 1
    PROVE  /\ Cardinality(S \cap (a..i)) \in Nat
           /\ Cardinality(S \cap (a..(i + 1))) =
                IF i + 1 \in S THEN Cardinality(S \cap (a..i)) + 1
                ELSE Cardinality(S \cap (a..i))
           /\ Cardinality(S \cap (a..(a - 1))) = 0
<1>1. IsFiniteSet(S \cap (a..i))
  <2>1. IsFiniteSet(a..i)
    BY FS_Interval
  <2> QED BY <2>1, FS_Subset
<1>2. Cardinality(S \cap (a..i)) \in Nat
  BY <1>1, FS_CardinalityType
<1>3. Cardinality(S \cap (a..(a - 1))) = 0
  <2>1. S \cap (a..(a - 1)) = {}
    OBVIOUS
  <2> QED BY <2>1, FS_EmptySet
<1>4. CASE i + 1 \in S
  <2>1. S \cap (a..(i + 1)) = (S \cap (a..i)) \cup {i + 1}
    BY <1>4
  <2>2. i + 1 \notin S \cap (a..i)
    OBVIOUS
  <2>3. Cardinality((S \cap (a..i)) \cup {i + 1}) = Cardinality(S \cap (a..i)) + 1
    BY <1>1, <2>2, FS_AddElement
  <2>4. Cardinality(S \cap (a..(i + 1))) = Cardinality(S \cap (a..i)) + 1
    BY <2>1, <2>3
  <2> QED BY <1>2, <1>3, <1>4, <2>4
<1>5. CASE i + 1 \notin S
  <2>1. S \cap (a..(i + 1)) = S \cap (a..i)
    BY <1>5
  <2> QED BY <1>2, <1>3, <1>5, <2>1
<1> QED BY <1>4, <1>5

\* Quotes, and the depth of a block, from one token to the next.
LEMMA QuotesStep ==
    ASSUME NEW t, NEW a \in Int, NEW i \in Int, a <= i + 1
    PROVE  /\ Quotes(t, a, a - 1) = 0 /\ Quotes(t, a, i) \in Nat
           /\ Quotes(t, a, i + 1) = IF IsQuote(t[i + 1]) THEN Quotes(t, a, i) + 1
                                    ELSE Quotes(t, a, i)
<1> DEFINE S == {k \in Int : IsQuote(t[k])}
<1>1. ASSUME NEW j \in Int PROVE Quotes(t, a, j) = Cardinality(S \cap (a..j))
  <2>1. {k \in a..j : IsQuote(t[k])} = S \cap (a..j)
    OBVIOUS
  <2> QED BY <2>1 DEF Quotes
<1>2. i + 1 \in S <=> IsQuote(t[i + 1])
  OBVIOUS
<1>3. S \in SUBSET Int /\ a - 1 \in Int /\ i + 1 \in Int
  OBVIOUS
<1> HIDE DEF S
<1>4. /\ Cardinality(S \cap (a..i)) \in Nat
      /\ Cardinality(S \cap (a..(i + 1))) =
           IF i + 1 \in S THEN Cardinality(S \cap (a..i)) + 1
           ELSE Cardinality(S \cap (a..i))
      /\ Cardinality(S \cap (a..(a - 1))) = 0
  BY <1>3, CountStep
<1> QED BY <1>1, <1>2, <1>3, <1>4

Outside(t, a, i) == Quotes(t, a, i) % 2 = 0

LEMMA DepthStep ==
    ASSUME NEW t, NEW a \in Int, NEW i \in Int, a <= i + 1, t[i + 1] \in Token
    PROVE  /\ Depth(t, a, a - 1) = 0 /\ Depth(t, a, i) \in Int
           /\ Depth(t, a, i + 1) =
                IF Outside(t, a, i + 1) /\ IsOpening(t[i + 1]) THEN Depth(t, a, i) + 1
                ELSE IF Outside(t, a, i + 1) /\ IsClosing(t[i + 1]) THEN Depth(t, a, i) - 1
                ELSE Depth(t, a, i)
<1> DEFINE O == {k \in Int : IsOpening(t[k]) /\ Outside(t, a, k)}
           C == {k \in Int : IsClosing(t[k]) /\ Outside(t, a, k)}
<1>1. ASSUME NEW j \in Int
      PROVE  Depth(t, a, j) = Cardinality(O \cap (a..j)) - Cardinality(C \cap (a..j))
  <2>1. {k \in a..j : IsOpening(t[k]) /\ Outside(t, a, k)} = O \cap (a..j)
    OBVIOUS
  <2>2. {k \in a..j : IsClosing(t[k]) /\ Outside(t, a, k)} = C \cap (a..j)
    OBVIOUS
  <2>3. Opening(t, a, j) = O \cap (a..j) /\ Closing(t, a, j) = C \cap (a..j)
    BY <2>1, <2>2 DEF Opening, Closing, Outside
  <2> QED BY <2>3 DEF Depth
<1>2. /\ i + 1 \in O <=> IsOpening(t[i + 1]) /\ Outside(t, a, i + 1)
      /\ i + 1 \in C <=> IsClosing(t[i + 1]) /\ Outside(t, a, i + 1)
  OBVIOUS
<1>3. O \in SUBSET Int /\ C \in SUBSET Int /\ a - 1 \in Int /\ i + 1 \in Int
  OBVIOUS
<1> HIDE DEF O, C
<1>4. /\ Cardinality(O \cap (a..i)) \in Nat
      /\ Cardinality(O \cap (a..(i + 1))) =
           IF i + 1 \in O THEN Cardinality(O \cap (a..i)) + 1
           ELSE Cardinality(O \cap (a..i))
      /\ Cardinality(O \cap (a..(a - 1))) = 0
  BY <1>3, CountStep
<1>5. /\ Cardinality(C \cap (a..i)) \in Nat
      /\ Cardinality(C \cap (a..(i + 1))) =
           IF i + 1 \in C THEN Cardinality(C \cap (a..i)) + 1
           ELSE Cardinality(C \cap (a..i))
      /\ Cardinality(C \cap (a..(a - 1))) = 0
  BY <1>3, CountStep
<1>6. ~(IsOpening(t[i + 1]) /\ IsClosing(t[i + 1]))
  BY MarksApart
<1>7. /\ Depth(t, a, a - 1) = 0 /\ Depth(t, a, i) \in Int
  <2>1. Depth(t, a, a - 1) = Cardinality(O \cap (a..(a - 1))) - Cardinality(C \cap (a..(a - 1)))
    BY <1>1, <1>3
  <2>2. Depth(t, a, i) = Cardinality(O \cap (a..i)) - Cardinality(C \cap (a..i))
    BY <1>1
  <2> QED BY <1>4, <1>5, <2>1, <2>2
<1>8. Depth(t, a, i + 1) =
        IF i + 1 \in O THEN Depth(t, a, i) + 1
        ELSE IF i + 1 \in C THEN Depth(t, a, i) - 1 ELSE Depth(t, a, i)
  <2> DEFINE o == Cardinality(O \cap (a..i))
             c == Cardinality(C \cap (a..i))
             oo == Cardinality(O \cap (a..(i + 1)))
             cc == Cardinality(C \cap (a..(i + 1)))
  <2>1. Depth(t, a, i + 1) = oo - cc /\ Depth(t, a, i) = o - c
    BY <1>1, <1>3
  <2>2. /\ o \in Nat /\ c \in Nat
        /\ oo = IF i + 1 \in O THEN o + 1 ELSE o
        /\ cc = IF i + 1 \in C THEN c + 1 ELSE c
    BY <1>4, <1>5
  <2>3. ~(i + 1 \in O /\ i + 1 \in C)
    BY <1>2, <1>6
  <2> HIDE DEF o, c, oo, cc
  <2>4. oo - cc = IF i + 1 \in O THEN (o - c) + 1 ELSE IF i + 1 \in C THEN (o - c) - 1 ELSE o - c
    BY <2>2, <2>3
  <2> QED BY <2>1, <2>4
<1> QED BY <1>2, <1>7, <1>8

-----------------------------------------------------------------------------
\* Namespaces

LEMMA NamespaceNext ==
    ASSUME NEW s \in Script
    PROVE  /\ NamespaceAt(s, 0) = <<>>
           /\ \A j \in 1..Len(s.pieces) :
                NamespaceAt(s, j) = IF s.pieces[j].namespace # Null THEN s.pieces[j].namespace
                                    ELSE NamespaceAt(s, j - 1)
<1> DEFINE B(j) == {i \in 1..j : s.pieces[i].namespace # Null}
<1>1. \A j : NamespaceAt(s, j) = IF B(j) = {} THEN <<>> ELSE s.pieces[Max(B(j))].namespace
  BY DEF NamespaceAt
<1>2. B(0) = {}
  OBVIOUS
<1>3. ASSUME NEW j \in 1..Len(s.pieces)
      PROVE  NamespaceAt(s, j) = IF s.pieces[j].namespace # Null THEN s.pieces[j].namespace
                                 ELSE NamespaceAt(s, j - 1)
  <2>0. j \in Nat /\ j >= 1
    BY ScriptTypes
  <2>1. CASE s.pieces[j].namespace # Null
    <3>1. j \in B(j) /\ \A i \in B(j) : i \in Nat /\ j >= i
      BY <2>0, <2>1
    <3> HIDE DEF B
    <3>2. Max(B(j)) = j
      <4>1. Max(B(j)) \in B(j) /\ \A i \in B(j) : Max(B(j)) >= i
        BY <3>1 DEF Max
      <4> QED BY <2>0, <3>1, <4>1
    <3> QED BY <1>1, <2>1, <3>1, <3>2
  <2>2. CASE s.pieces[j].namespace = Null
    <3>1. B(j) = B(j - 1)
      <4>1. \A i \in 1..j : i \in 1..(j - 1) \/ i = j
        BY <2>0
      <4>2. \A i \in 1..(j - 1) : i \in 1..j
        BY <2>0
      <4> QED BY <2>2, <4>1, <4>2
    <3> HIDE DEF B
    <3> QED BY <1>1, <2>2, <3>1
  <2> QED BY <2>1, <2>2
<1> HIDE DEF B
<1> QED BY <1>1, <1>2, <1>3

LEMMA NamespaceType ==
    ASSUME NEW s \in Script, NEW j \in 0..Len(s.pieces)
    PROVE  NamespaceAt(s, j) \in Seq(Name \cup {Sep})
<1> DEFINE n == Len(s.pieces)
           S == {i \in 0..n : NamespaceAt(s, i) \in Seq(Name \cup {Sep})}
<1>1. n \in Nat /\ \A i \in 1..n : s.pieces[i].namespace \in Seq(Name \cup {Sep}) \cup {Null}
  BY ScriptTypes, PieceTypes
<1> HIDE DEF n
<1>2. 0 \in S
  <2>1. 0 \in 0..n /\ <<>> \in Seq(Name \cup {Sep})
    BY <1>1
  <2> QED BY <2>1, NamespaceNext
<1>3. ASSUME NEW i \in 0..(n - 1), i \in S PROVE i + 1 \in S
  <2>1. i + 1 \in 1..n /\ (i + 1) - 1 = i /\ i + 1 \in 0..n
    BY <1>1
  <2>2. NamespaceAt(s, i + 1) = IF s.pieces[i + 1].namespace # Null
                                THEN s.pieces[i + 1].namespace ELSE NamespaceAt(s, i)
    BY <2>1, NamespaceNext DEF n
  <2>3. NamespaceAt(s, i + 1) \in Seq(Name \cup {Sep})
    BY <1>1, <1>3, <2>1, <2>2
  <2> QED BY <2>1, <2>3
<1> HIDE DEF S
<1>4. \A i \in 0..n : i \in S
  BY <1>1, <1>2, <1>3, InductionUpTo
<1> QED BY <1>4 DEF S, n

\* A namespace neither begins nor ends with a separator.
Clean(ns) ==
    /\ ns \in Seq(Name \cup {Sep})
    /\ ns # <<>> => ns[1] # Sep /\ ns[Len(ns)] # Sep

LEMMA Combined ==
    ASSUME NEW ns, Clean(ns), NEW name
    PROVE  combineNSSymbol(ns, name) = IF ns = <<>> THEN <<name>> ELSE ns \o <<Sep, name>>
<1> DEFINE kept == {i \in 1..Len(ns) : ns[i] # Sep}
<1>1. Trim(ns) = ns
  <2>0. ns \in Seq(Name \cup {Sep}) /\ Len(ns) \in Nat
    BY DEF Clean
  <2>1. CASE ns = <<>>
    <3>1. kept = {}
      BY <2>1
    <3> HIDE DEF kept
    <3> QED BY <2>1, <3>1 DEF Trim, kept
  <2>2. CASE ns # <<>>
    <3>0. Len(ns) >= 1
      BY <2>0, <2>2
    <3>1. 1 \in kept /\ Len(ns) \in kept /\ \A i \in kept : i \in Nat /\ i >= 1 /\ i <= Len(ns)
      BY <2>0, <2>2, <3>0 DEF Clean
    <3> HIDE DEF kept
    <3>2. Min(kept) = 1
      <4>1. Min(kept) \in kept /\ \A i \in kept : Min(kept) <= i
        BY <3>1 DEF Min
      <4> QED BY <3>1, <4>1
    <3>3. Max(kept) = Len(ns)
      <4>1. Max(kept) \in kept /\ \A i \in kept : Max(kept) >= i
        BY <2>0, <3>1 DEF Max
      <4> QED BY <2>0, <3>1, <4>1
    <3>4. SubSeq(ns, 1, Len(ns)) = ns
      BY <2>0
    <3>5. Trim(ns) = SubSeq(ns, Min(kept), Max(kept))
      BY <3>1 DEF Trim, kept
    <3> QED BY <3>2, <3>3, <3>4, <3>5
  <2> QED BY <2>1, <2>2
<1> QED BY <1>1 DEF combineNSSymbol

-----------------------------------------------------------------------------
\* Keys

Key == SymbolType \X Seq(Name \cup {Sep})

DirectiveKeys(s) ==
    [i \in 1..Len(s.directives) |->
      LET d == s.directives[i] IN
        IF d.cmd = "declare" THEN <<<<d.type, <<d.name>>>>>> ELSE <<>>]
PieceKeys(s) == [j \in 1..Len(s.pieces) |-> KeysOfPiece(s, j)]
\* What the first d directives, and all directives and the first j pieces, declare
Told(s, d)    == Joined(Key, DirectiveKeys(s))[d]
FoundIn(s, j) == KeysOfDirectives(s) \o Joined(Key, PieceKeys(s))[j]

LEMMA ToldNext ==
    ASSUME NEW s \in Script
    PROVE  /\ Told(s, 0) = <<>> /\ Told(s, Len(s.directives)) = KeysOfDirectives(s)
           /\ \A d \in 0..Len(s.directives) : Told(s, d) \in Seq(Key)
           /\ \A d \in 1..Len(s.directives) :
                Told(s, d) = IF s.directives[d].cmd = "declare"
                             THEN Append(Told(s, d - 1),
                                         <<s.directives[d].type, <<s.directives[d].name>>>>)
                             ELSE Told(s, d - 1)
<1> DEFINE n == Len(s.directives)
           K == DirectiveKeys(s)
           k(d) == <<s.directives[d].type, <<s.directives[d].name>>>>
<1>1. n \in Nat /\ \A d \in 1..n : k(d) \in Key
  <2>1. n \in Nat /\ \A d \in 1..n : s.directives[d].type \in SymbolType
                                     /\ s.directives[d].name \in Name
    BY ScriptTypes
  <2>2. \A x \in Name : <<x>> \in Seq(Name \cup {Sep})
    OBVIOUS
  <2> QED BY <2>1, <2>2 DEF Key
<1>2. \A d \in 1..n : K[d] = IF s.directives[d].cmd = "declare" THEN <<k(d)>> ELSE <<>>
  BY DEF DirectiveKeys
<1>3. K = [d \in 1..n |-> K[d]]
  BY DEF DirectiveKeys
<1>4. KeysOfDirectives(s) = FlattenSeq(K)
  BY DEF KeysOfDirectives, DirectiveKeys
<1> HIDE DEF n, K, k
<1>5. \A d \in 1..n : K[d] \in Seq(Key)
  <2>1. ASSUME NEW d \in 1..n PROVE K[d] \in Seq(Key)
    <3>1. <<k(d)>> \in Seq(Key) /\ <<>> \in Seq(Key)
      BY <1>1
    <3> QED BY <1>2, <3>1
  <2> QED BY <2>1
<1>6. K \in Seq(Seq(Key)) /\ Len(K) = n
  BY <1>1, <1>3, <1>5
<1> DEFINE f == Joined(Key, K)
<1>7. f \in [0..n -> Seq(Key)] /\ f[0] = <<>> /\ \A d \in 1..n : f[d] = f[d - 1] \o K[d]
  BY <1>6, JoinsExists DEF Joins
<1>8. FlattenSeq(K) = f[n]
  BY <1>6, Flattened
<1>9. \A d : Told(s, d) = f[d]
  BY DEF Told, K
<1> HIDE DEF f
<1>10. ASSUME NEW d \in 1..n
       PROVE  f[d] = IF s.directives[d].cmd = "declare" THEN Append(f[d - 1], k(d)) ELSE f[d - 1]
  <2>1. d - 1 \in 0..n
    BY <1>1
  <2>2. f[d - 1] \in Seq(Key)
    BY <1>7, <2>1
  <2>3. \A x \in Seq(Key) : x \o <<>> = x /\ x \o <<k(d)>> = Append(x, k(d))
    BY <1>1
  <2> QED BY <1>2, <1>7, <2>2, <2>3
<1>11. \A d \in 0..n : f[d] \in Seq(Key)
  BY <1>7
<1> QED BY <1>4, <1>7, <1>8, <1>9, <1>10, <1>11 DEF n, k

\* The key of a declaration d of piece j
KeyOf(s, j, d) ==
    <<d.type, IF d.global \/ NamespaceAt(s, j) = <<>> THEN <<d.name>>
              ELSE NamespaceAt(s, j) \o <<Sep, d.name>>>>

LEMMA KeysInPiece ==
    ASSUME NEW s \in Script, NEW j \in 1..Len(s.pieces)
    PROVE  LET q == s.pieces[j] IN
             /\ KeysOfPiece(s, j) \in Seq(Key)
             /\ (\A i \in 1..Len(q.declares) : q.declares[i].block /\ Has(s, "skip-blocks")) =>
                  KeysOfPiece(s, j) = <<>>
             /\ \A d : q.declares = <<d>> /\ ~(d.block /\ Has(s, "skip-blocks")) =>
                  KeysOfPiece(s, j) = <<KeyOf(s, j, d)>>
<1> DEFINE D == s.pieces[j].declares
           n == Len(D)
           skips(d) == d.block /\ Has(s, "skip-blocks")
           K == [i \in 1..n |-> IF skips(D[i]) THEN <<>> ELSE <<KeyOf(s, j, D[i])>>]
<1>1. n \in Nat /\ \A i \in 1..n : D[i].type \in SymbolType /\ D[i].name \in Name
  BY ScriptTypes, PieceTypes
<1>2. NamespaceAt(s, j) \in Seq(Name \cup {Sep})
  <2>1. j \in 0..Len(s.pieces)
    BY ScriptTypes
  <2> QED BY <2>1, NamespaceType
<1>3. KeysOfPiece(s, j) = FlattenSeq(K)
  BY DEF KeysOfPiece, KeyOf
<1>4. \A i \in 1..n : KeyOf(s, j, D[i]) \in Key
  <2>1. ASSUME NEW d, d.type \in SymbolType, d.name \in Name PROVE KeyOf(s, j, d) \in Key
    <3>1. <<d.name>> \in Seq(Name \cup {Sep}) /\ <<Sep, d.name>> \in Seq(Name \cup {Sep})
      BY <2>1
    <3>2. \A x, y \in Seq(Name \cup {Sep}) : x \o y \in Seq(Name \cup {Sep})
      OBVIOUS
    <3> QED BY <1>2, <2>1, <3>1, <3>2 DEF KeyOf, Key
  <2> QED BY <1>1, <2>1
<1>5. \A i \in 1..n : K[i] = IF skips(D[i]) THEN <<>> ELSE <<KeyOf(s, j, D[i])>>
  OBVIOUS
<1>6. K = [i \in 1..n |-> K[i]]
  OBVIOUS
<1> HIDE DEF K, n, skips
<1>7. K \in Seq(Seq(Key)) /\ Len(K) = n
  <2>1. ASSUME NEW i \in 1..n PROVE K[i] \in Seq(Key)
    <3>1. <<KeyOf(s, j, D[i])>> \in Seq(Key) /\ <<>> \in Seq(Key)
      BY <1>4
    <3> QED BY <1>5, <3>1
  <2> HIDE DEF D
  <2> QED BY <1>1, <1>6, <2>1
<1> DEFINE f == Joined(Key, K)
<1>8. f \in [0..n -> Seq(Key)] /\ f[0] = <<>> /\ \A i \in 1..n : f[i] = f[i - 1] \o K[i]
  BY <1>7, JoinsExists DEF Joins
<1>9. KeysOfPiece(s, j) = f[n]
  BY <1>3, <1>7, Flattened
<1> HIDE DEF f
<1>10. f[n] \in Seq(Key)
  <2>1. n \in 0..n
    BY <1>1
  <2> QED BY <1>8, <2>1
<1>11. ASSUME \A i \in 1..n : skips(D[i]) PROVE f[n] = <<>>
  <2> DEFINE S == {i \in 0..n : f[i] = <<>>}
  <2>1. 0 \in S
    BY <1>1, <1>8
  <2>2. ASSUME NEW i \in 0..(n - 1), i \in S PROVE i + 1 \in S
    <3>1. i + 1 \in 1..n /\ (i + 1) - 1 = i /\ i + 1 \in 0..n
      BY <1>1
    <3>2. f[i + 1] = f[i] \o K[i + 1] /\ K[i + 1] = <<>>
      BY <1>5, <1>8, <1>11, <3>1
    <3>3. <<>> \o <<>> = <<>>
      OBVIOUS
    <3> QED BY <2>2, <3>1, <3>2, <3>3
  <2> HIDE DEF S
  <2>3. \A i \in 0..n : i \in S
    BY <1>1, <2>1, <2>2, InductionUpTo
  <2>4. n \in S
    BY <1>1, <2>3
  <2> QED BY <2>4 DEF S
<1>12. ASSUME NEW d, D = <<d>>, ~skips(d) PROVE f[n] = <<KeyOf(s, j, d)>>
  <2>1. n = 1 /\ D[1] = d
    BY <1>12 DEF n
  <2>2. f[1] = f[0] \o K[1] /\ K[1] = <<KeyOf(s, j, d)>> /\ f[0] = <<>>
    <3>1. 1 \in 1..n /\ 1 - 1 = 0
      BY <2>1
    <3> QED BY <1>5, <1>8, <1>12, <2>1, <3>1
  <2>3. \A x : <<>> \o <<x>> = <<x>>
    OBVIOUS
  <2> QED BY <2>1, <2>2, <2>3
<1> QED BY <1>9, <1>10, <1>11, <1>12 DEF D, n, skips

LEMMA FoundNext ==
    ASSUME NEW s \in Script
    PROVE  /\ FoundIn(s, 0) = KeysOfDirectives(s)
           /\ FoundIn(s, Len(s.pieces)) = KeysOfDirectives(s) \o KeysOfPieces(s)
           /\ \A j \in 0..Len(s.pieces) : FoundIn(s, j) \in Seq(Key)
           /\ \A j \in 1..Len(s.pieces) : FoundIn(s, j) = FoundIn(s, j - 1) \o KeysOfPiece(s, j)
<1> DEFINE n == Len(s.pieces)
           K == PieceKeys(s)
           k0 == KeysOfDirectives(s)
<1>1. n \in Nat /\ \A j \in 1..n : KeysOfPiece(s, j) \in Seq(Key)
  BY ScriptTypes, KeysInPiece
<1>2. k0 \in Seq(Key)
  <2>1. Len(s.directives) \in 0..Len(s.directives)
    BY ScriptTypes
  <2> QED BY <2>1, ToldNext
<1>3. K = [j \in 1..n |-> KeysOfPiece(s, j)] /\ KeysOfPieces(s) = FlattenSeq(K)
  BY DEF PieceKeys, KeysOfPieces
<1> HIDE DEF n, K, k0
<1>4. K \in Seq(Seq(Key)) /\ Len(K) = n /\ \A j \in 1..n : K[j] = KeysOfPiece(s, j)
  BY <1>1, <1>3
<1> DEFINE f == Joined(Key, K)
<1>5. f \in [0..n -> Seq(Key)] /\ f[0] = <<>> /\ \A j \in 1..n : f[j] = f[j - 1] \o K[j]
  BY <1>4, JoinsExists DEF Joins
<1>6. KeysOfPieces(s) = f[n]
  BY <1>3, <1>4, Flattened
<1>7. \A j : FoundIn(s, j) = k0 \o f[j]
  BY DEF FoundIn, K, k0
<1> HIDE DEF f
<1>8. FoundIn(s, 0) = k0
  BY <1>2, <1>5, <1>7
<1>9. \A j \in 0..n : FoundIn(s, j) \in Seq(Key)
  <2>1. \A x, y \in Seq(Key) : x \o y \in Seq(Key)
    OBVIOUS
  <2> QED BY <1>2, <1>5, <1>7, <2>1
<1>10. ASSUME NEW j \in 1..n PROVE FoundIn(s, j) = FoundIn(s, j - 1) \o KeysOfPiece(s, j)
  <2>1. j - 1 \in 0..n
    BY <1>1
  <2>2. f[j - 1] \in Seq(Key) /\ K[j] \in Seq(Key) /\ f[j] = f[j - 1] \o K[j]
    BY <1>1, <1>4, <1>5, <2>1
  <2>3. k0 \o (f[j - 1] \o K[j]) = (k0 \o f[j - 1]) \o K[j]
    <3> DEFINE x == f[j - 1]
               y == K[j]
    <3>1. x \in Seq(Key) /\ y \in Seq(Key)
      BY <2>2
    <3> HIDE DEF x, y
    <3>2. k0 \o (x \o y) = (k0 \o x) \o y
      BY <1>2, <3>1
    <3> QED BY <3>2 DEF x, y
  <2> QED BY <1>4, <1>7, <2>2, <2>3
<1> QED BY <1>6, <1>7, <1>8, <1>9, <1>10 DEF n, k0

-----------------------------------------------------------------------------
\* Plain code

\* The state in which i tokens of plain code, which ends at e, leave the parser:
\* a closure or a name like namespace\f may have begun.
Loose(state, t, e, i) ==
    \/ state = "OUT"
    \/ /\ state = "FUNCTION_FOUND"
       /\ \E k \in (i + 1)..e : IsParen(t[k]) /\ Reference(t, i + 1, k - 1)
    \/ /\ state = "NAMESPACE_FOUND"
       /\ \E k \in (i + 1)..e : t[k][1] = "separator" /\ Comments(t, i + 1, k - 1)

LEMMA LooseEnd ==
    ASSUME NEW t, NEW e \in Int, NEW state, Loose(state, t, e, e)
    PROVE  state = "OUT"
  BY DEF Loose

LEMMA LooseStep ==
    ASSUME NEW t, NEW x \in Int, NEW e \in Int, NEW i \in Int, x <= i + 1, i + 1 <= e,
           Plain(t, x, e, p.skip_blocks), Reads(t[i + 1]), Next, Loose(p.state, t, e, i)
    PROVE  Goes(symbols, p.ns) /\ Loose(p'.state, t, e, i + 1)
<1> DEFINE tok == t[i + 1]
<1>0. Reads(tok) /\ tok \in Token
  BY DEF Reads
<1>1. CASE p.state = "OUT"
  <2>1. /\ tok[1] \notin {"class", "const"} /\ tok # <<"string", "define">>
        /\ tok[1] = "function" =>
             \E k \in ((i + 1) + 1)..e : IsParen(t[k]) /\ Reference(t, (i + 1) + 1, k - 1)
        /\ tok[1] = "namespace" =>
             \E k \in ((i + 1) + 1)..e : t[k][1] = "separator" /\ Comments(t, (i + 1) + 1, k - 1)
        /\ p.skip_blocks => ~IsBrace(tok)
    <3>1. i + 1 \in x..e
      OBVIOUS
    <3> QED BY <3>1 DEF Plain
  <2> HIDE DEF tok
  <2>2. /\ Goes(symbols, p.ns)
        /\ \/ p'.state = "OUT"
           \/ p'.state = "FUNCTION_FOUND" /\ tok[1] = "function"
           \/ p'.state = "NAMESPACE_FOUND" /\ tok[1] = "namespace"
    BY <1>0, <1>1, <2>1, OutStep DEF Moves
  <2> QED BY <2>1, <2>2 DEF Loose
<1>2. CASE p.state = "FUNCTION_FOUND"
  <2>1. PICK k \in (i + 1)..e : IsParen(t[k]) /\ Reference(t, i + 1, k - 1)
    BY <1>2 DEF Loose
  <2>2. CASE k = i + 1
    <3>1. IsParen(tok) /\ tok[1] = "char" /\ ~IsBlank(tok)
      BY <1>0, <2>1, <2>2, MarksApart
    <3> HIDE DEF tok
    <3>2. ~IsAmpersand(tok)
      BY <1>0, <3>1, MarksApart
    <3>3. Moves("OUT", p.block_level, symbols, p.ns)
      BY <1>0, <1>2, <3>1, <3>2, NamedStep
    <3> QED BY <3>3 DEF Loose, Moves
  <2>3. CASE k # i + 1
    <3>1. k \in ((i + 1) + 1)..e /\ i + 1 \in (i + 1)..(k - 1)
      BY <2>3
    <3>2. (IsBlank(tok) \/ IsAmpersand(tok)) /\ Reference(t, (i + 1) + 1, k - 1)
      BY <2>1, <3>1 DEF Reference
    <3> HIDE DEF tok
    <3>3. tok[1] # "string" /\ ~IsParen(tok)
      BY <1>0, <3>2, MarksApart DEF IsBlank
    <3>4. Moves("FUNCTION_FOUND", p.block_level, symbols, p.ns)
      BY <1>0, <1>2, <3>2, <3>3, NamedStep
    <3> QED BY <2>1, <3>1, <3>2, <3>4 DEF Loose, Moves
  <2> QED BY <2>2, <2>3
<1>3. CASE p.state = "NAMESPACE_FOUND"
  <2>1. PICK k \in (i + 1)..e : t[k][1] = "separator" /\ Comments(t, i + 1, k - 1)
    BY <1>3 DEF Loose
  <2>2. CASE k = i + 1
    <3>1. tok[1] = "separator"
      BY <2>1, <2>2
    <3> HIDE DEF tok
    <3>2. Moves("OUT", p.block_level, symbols, p.ns)
      BY <1>0, <1>3, <3>1, NamespaceStep
    <3> QED BY <3>2 DEF Loose, Moves
  <2>3. CASE k # i + 1
    <3>1. k \in ((i + 1) + 1)..e /\ i + 1 \in (i + 1)..(k - 1)
      BY <2>3
    <3>2. tok[1] = "comment" /\ Comments(t, (i + 1) + 1, k - 1)
      BY <2>1, <3>1 DEF Comments
    <3> HIDE DEF tok
    <3>3. Moves("NAMESPACE_FOUND", p.block_level, symbols, p.ns)
      BY <1>0, <1>3, <3>2, NamespaceStep DEF IsBlank
    <3> QED BY <2>1, <3>1, <3>2, <3>3 DEF Loose, Moves
  <2> QED BY <2>2, <2>3
<1> QED BY <1>1, <1>2, <1>3 DEF Loose

-----------------------------------------------------------------------------
\* Blocks

\* The state and the level in which tokens a..i of a block leave the parser.
Nested(state, level, t, a, i) ==
    /\ state = IF Outside(t, a, i) THEN "SKIPPING_BLOCK_NOSTRING" ELSE "SKIPPING_BLOCK_STRING"
    /\ level = Depth(t, a, i)

LEMMA NestedStart ==
    ASSUME NEW t, NEW a \in Int
    PROVE  Nested("SKIPPING_BLOCK_NOSTRING", 0, t, a, a - 1)
<1>1. a..(a - 1) = {}
  OBVIOUS
<1>2. Quotes(t, a, a - 1) = 0
  BY <1>1, FS_EmptySet DEF Quotes
<1>3. Opening(t, a, a - 1) = {} /\ Closing(t, a, a - 1) = {}
  BY <1>1 DEF Opening, Closing
<1>4. Depth(t, a, a - 1) = 0
  BY <1>3, FS_EmptySet DEF Depth
<1> QED BY <1>2, <1>4 DEF Nested, Outside

LEMMA NestedStep ==
    ASSUME NEW t, NEW a \in Int, NEW i \in Int, a <= i + 1, Reads(t[i + 1]), Next,
           Nested(p.state, p.block_level, t, a, i)
    PROVE  /\ Goes(symbols, p.ns)
           /\ IF IsClosing(t[i + 1]) /\ Outside(t, a, i + 1) /\ Depth(t, a, i + 1) = 0
              THEN p'.state = "OUT"
              ELSE Nested(p'.state, p'.block_level, t, a, i + 1)
<1> DEFINE tok == t[i + 1]
           quotes == Quotes(t, a, i)
           after  == Quotes(t, a, i + 1)
<1>0. Reads(tok) /\ tok \in Token
  BY DEF Reads
<1>1. /\ Goes(symbols, p.ns)
      /\ p'.state = StateAfter(tok) /\ p'.block_level = LevelAfter(tok)
  BY <1>0, BlockStep DEF Nested, Moves
<1>2. quotes \in Nat /\ after = IF IsQuote(tok) THEN quotes + 1 ELSE quotes
  BY QuotesStep
<1>3. /\ (IsQuote(tok) => ~IsOpening(tok) /\ ~IsClosing(tok))
      /\ (IsOpening(tok) => ~IsClosing(tok))
  BY <1>0, MarksApart
<1>4. (Outside(t, a, i) <=> quotes % 2 = 0) /\ (Outside(t, a, i + 1) <=> after % 2 = 0)
  BY DEF Outside
<1>5. /\ Depth(t, a, i) \in Int
      /\ Depth(t, a, i + 1) =
           IF Outside(t, a, i + 1) /\ IsOpening(tok) THEN Depth(t, a, i) + 1
           ELSE IF Outside(t, a, i + 1) /\ IsClosing(tok) THEN Depth(t, a, i) - 1
           ELSE Depth(t, a, i)
  BY <1>0, DepthStep
<1> HIDE DEF tok, quotes, after
<1>6. Outside(t, a, i + 1) <=> (IF IsQuote(tok) THEN ~Outside(t, a, i) ELSE Outside(t, a, i))
  <2>1. \A n \in Nat : (n + 1) % 2 = 0 <=> ~(n % 2 = 0)
    OBVIOUS
  <2> QED BY <1>2, <1>4, <2>1
<1>7. CASE p.state = "SKIPPING_BLOCK_STRING"
  <2>1. ~Outside(t, a, i) /\ p.block_level = Depth(t, a, i)
    BY <1>7 DEF Nested
  <2>2. Depth(t, a, i + 1) = Depth(t, a, i)
    BY <1>3, <1>5, <1>6, <2>1
  <2>3. LevelAfter(tok) = p.block_level
        /\ StateAfter(tok) = IF IsQuote(tok) THEN "SKIPPING_BLOCK_NOSTRING"
                             ELSE "SKIPPING_BLOCK_STRING"
    BY <1>7 DEF LevelAfter, StateAfter
  <2>4. ~(IsClosing(tok) /\ Outside(t, a, i + 1))
    BY <1>3, <1>6, <2>1
  <2>5. Nested(p'.state, p'.block_level, t, a, i + 1)
    BY <1>1, <1>6, <2>1, <2>2, <2>3 DEF Nested
  <2> QED BY <1>1, <2>4, <2>5 DEF tok
<1>8. CASE p.state = "SKIPPING_BLOCK_NOSTRING"
  <2>1. Outside(t, a, i) /\ p.block_level = Depth(t, a, i)
    BY <1>8 DEF Nested
  <2>2. LevelAfter(tok) = Depth(t, a, i + 1)
    BY <1>3, <1>5, <1>6, <1>8, <2>1 DEF LevelAfter
  <2>3. StateAfter(tok) = IF IsQuote(tok) THEN "SKIPPING_BLOCK_STRING"
                          ELSE IF IsClosing(tok) /\ Depth(t, a, i + 1) = 0 THEN "OUT"
                          ELSE "SKIPPING_BLOCK_NOSTRING"
    BY <1>8, <2>2 DEF StateAfter
  <2>4. CASE IsQuote(tok)
    <3>1. Nested(p'.state, p'.block_level, t, a, i + 1) /\ ~IsClosing(tok)
      BY <1>1, <1>3, <1>6, <2>1, <2>2, <2>3, <2>4 DEF Nested
    <3> QED BY <1>1, <3>1 DEF tok
  <2>5. CASE ~IsQuote(tok)
    <3>1. Outside(t, a, i + 1)
      BY <1>6, <2>1, <2>5
    <3>2. IF IsClosing(tok) /\ Depth(t, a, i + 1) = 0 THEN p'.state = "OUT"
          ELSE Nested(p'.state, p'.block_level, t, a, i + 1)
      BY <1>1, <2>2, <2>3, <2>5, <3>1 DEF Nested
    <3> QED BY <1>1, <3>1, <3>2 DEF tok
  <2> QED BY <2>4, <2>5
<1> QED BY <1>7, <1>8 DEF Nested

\* In a block, up to the brace that ends it.
LEMMA InBlock ==
    ASSUME NEW t, NEW a \in Int, NEW b \in Int, NEW i \in Int, a <= i + 1, i + 1 <= b,
           Block(t, a, b), Reads(t[i + 1]), Next, Nested(p.state, p.block_level, t, a, i)
    PROVE  /\ Goes(symbols, p.ns)
           /\ IF i + 1 = b THEN p'.state = "OUT"
              ELSE Nested(p'.state, p'.block_level, t, a, i + 1)
<1>1. \A k \in a..b : k \in Closing(t, a, b) <=> IsClosing(t[k]) /\ Outside(t, a, k)
  BY DEF Closing, Outside
<1>2. /\ b \in Closing(t, a, b) /\ Depth(t, a, b) = 0
      /\ \A k \in a..(b - 1) : IsClosing(t[k]) /\ Outside(t, a, k) => Depth(t, a, k) > 0
  BY DEF Block, Closing, Outside
<1>3. CASE i + 1 = b
  <2>1. IsClosing(t[i + 1]) /\ Outside(t, a, i + 1) /\ Depth(t, a, i + 1) = 0
    BY <1>1, <1>2, <1>3
  <2> QED BY <1>3, <2>1, NestedStep
<1>4. CASE i + 1 # b
  <2>1. i + 1 \in a..(b - 1)
    BY <1>4
  <2>2. IsClosing(t[i + 1]) /\ Outside(t, a, i + 1) => Depth(t, a, i + 1) > 0
    BY <1>2, <2>1
  <2>3. ~(IsClosing(t[i + 1]) /\ Outside(t, a, i + 1) /\ Depth(t, a, i + 1) = 0)
    BY <2>2
  <2> QED BY <1>4, <2>3, NestedStep
<1> QED BY <1>3, <1>4

-----------------------------------------------------------------------------
\* Where i tokens of piece j of script s leave a call x that has found keys.
\* Before and After say whether the piece has been seen to declare something.

TokensAt(s, j) == s.pieces[j].tokens
Before(x, keys, s, j) == keys = FoundIn(s, j - 1) /\ x.ns = NamespaceAt(s, j - 1)
After(x, keys, s, j)  == keys = FoundIn(s, j) /\ x.ns = NamespaceAt(s, j)

Keeps(s, j)   == FoundIn(s, j) = FoundIn(s, j - 1) /\ NamespaceAt(s, j) = NamespaceAt(s, j - 1)
Adds(s, j, k) == /\ FoundIn(s, j) = Append(FoundIn(s, j - 1), k)
                 /\ NamespaceAt(s, j) = NamespaceAt(s, j - 1)

\* The name of a class or function comes, and its body.
Named(x, keys, s, j, b, i) ==
    LET t == TokensAt(s, j) IN
      /\ x.state \in {"CLASS_FOUND", "FUNCTION_FOUND"} /\ Before(x, keys, s, j)
      /\ \E n \in (i + 1)..b :
           /\ IF x.state = "CLASS_FOUND" THEN Blank(t, i + 1, n - 1)
              ELSE Reference(t, i + 1, n - 1)
           /\ t[n][1] = "string" /\ Block(t, n + 1, b)
           /\ Adds(s, j, key(IF x.state = "CLASS_FOUND" THEN T_CLASS ELSE T_FUNCTION,
                             combineNSSymbol(NamespaceAt(s, j - 1), t[n][2])))

\* In a body, or a block that is skipped
Enclosed(x, keys, s, j, b, i) ==
    /\ After(x, keys, s, j)
    /\ \E c \in 1..(i + 1) :
         /\ Block(TokensAt(s, j), c, b)
         /\ Nested(x.state, x.block_level, TokensAt(s, j), c, i)

\* The name of a constant comes.
Constant(x, keys, s, j, b, i) ==
    LET t == TokensAt(s, j) IN
      /\ x.state = "CONST_FOUND" /\ Before(x, keys, s, j)
      /\ Blank(t, i + 1, b - 1) /\ t[b][1] = "string"
      /\ Adds(s, j, key(T_CONSTANT, combineNSSymbol(NamespaceAt(s, j - 1), t[b][2])))

\* The rest of a define: '(', the literal, and what ends with ';'
Ending(t, b, i) == IsSemicolon(t[b]) /\ \A k \in (i + 1)..(b - 1) : ~IsSemicolon(t[k])
Literal(s, j, b, i) ==
    LET t == TokensAt(s, j) IN
      \E n \in (i + 1)..(b - 1) :
        /\ Blank(t, i + 1, n - 1) /\ t[n][1] = "literal" /\ Ending(t, b, n)
        /\ Adds(s, j, key(T_CONSTANT, <<t[n][2]>>))
Defining(x, keys, s, j, b, i) ==
    LET t == TokensAt(s, j) IN
      \/ /\ x.state = "DEFINE_FOUND" /\ Before(x, keys, s, j)
         /\ \E m \in (i + 1)..(b - 1) :
              Blank(t, i + 1, m - 1) /\ IsParen(t[m]) /\ Literal(s, j, b, m)
      \/ x.state = "DEFINE_2" /\ Before(x, keys, s, j) /\ Literal(s, j, b, i)
      \/ x.state = "SKIPPING_TO_EOL" /\ After(x, keys, s, j) /\ Ending(t, b, i)

\* The rest of a namespace, whose name begins after token w
NameParts(t, w, b) == [k \in 1..(b - 1 - w) |-> NamePart(t[w + k])]
NameOf(t, w, b)    == Joined(NamePiece, NameParts(t, w, b))
Names(s, j, b, w) ==
    LET t == TokensAt(s, j) IN
      /\ \A k \in (w + 1)..(b - 1) : IsBlank(t[k]) \/ t[k][1] \in {"string", "separator"}
      /\ ~IsBlank(t[b]) /\ t[b][1] \notin {"string", "separator"}
      /\ FoundIn(s, j) = FoundIn(s, j - 1) /\ NamespaceAt(s, j) = NameOf(t, w, b)[b - 1 - w]
Naming(x, keys, s, j, b, i) ==
    LET t == TokensAt(s, j) IN
      \/ /\ x.state = "NAMESPACE_FOUND" /\ x.name = <<>> /\ Before(x, keys, s, j)
         /\ \E w \in (i + 1)..(b - 1) :
              Comments(t, i + 1, w - 1) /\ t[w][1] = "whitespace" /\ Names(s, j, b, w)
      \/ /\ x.state = "NAMESPACE_2" /\ Before(x, keys, s, j)
         /\ \E w \in 1..i : Names(s, j, b, w) /\ x.name = NameOf(t, w, b)[i - w]

Inside(x, keys, s, j, b, i) ==
    i < b /\ \/ Named(x, keys, s, j, b, i) \/ Enclosed(x, keys, s, j, b, i)
             \/ Constant(x, keys, s, j, b, i) \/ Defining(x, keys, s, j, b, i)
             \/ Naming(x, keys, s, j, b, i)

\* Something else than a name comes.
Doomed(x, t, i) ==
    \/ /\ x.state \in {"CLASS_FOUND", "CONST_FOUND"}
       /\ \E n \in (i + 1)..Len(t) :
            Blank(t, i + 1, n - 1) /\ ~IsBlank(t[n]) /\ t[n][1] # "string"
    \/ /\ x.state = "FUNCTION_FOUND"
       /\ \E n \in (i + 1)..Len(t) :
            /\ Reference(t, i + 1, n - 1) /\ ~IsBlank(t[n]) /\ t[n][1] # "string"
            /\ ~IsAmpersand(t[n]) /\ ~IsParen(t[n])
    \/ /\ x.state = "DEFINE_FOUND"
       /\ \E m \in (i + 1)..Len(t) :
            /\ Blank(t, i + 1, m - 1) /\ ~IsBlank(t[m])
            /\ IsParen(t[m]) =>
                 \E n \in (m + 1)..Len(t) :
                   Blank(t, m + 1, n - 1) /\ ~IsBlank(t[n]) /\ t[n][1] # "literal"
    \/ /\ x.state = "DEFINE_2"
       /\ \E n \in (i + 1)..Len(t) :
            Blank(t, i + 1, n - 1) /\ ~IsBlank(t[n]) /\ t[n][1] # "literal"

\* One more token of the part that ends at b
Onward(s, j, b, i) ==
    /\ Advances
    /\ IF i + 1 = b THEN p'.state = "OUT" /\ After(p', symbols', s, j)
       ELSE Inside(p', symbols', s, j, b, i + 1)

LEMMA EnclosedStep ==
    ASSUME NEW s, NEW j, NEW b \in Nat, NEW i \in Nat, i < b, Reads(TokensAt(s, j)[i + 1]), Next,
           Enclosed(p, symbols, s, j, b, i)
    PROVE  Onward(s, j, b, i)
<1> DEFINE t == TokensAt(s, j)
<1>1. PICK c \in 1..(i + 1) :
        Block(t, c, b) /\ Nested(p.state, p.block_level, t, c, i)
  BY DEF Enclosed
<1>2. /\ Goes(symbols, p.ns)
      /\ IF i + 1 = b THEN p'.state = "OUT"
         ELSE Nested(p'.state, p'.block_level, t, c, i + 1)
  <2> HIDE DEF t
  <2>1. Reads(t[i + 1]) /\ c \in Int /\ c <= i + 1 /\ i + 1 <= b
    BY DEF t
  <2> QED BY <1>1, <2>1, InBlock
<1>3. After(p', symbols', s, j)
  BY <1>2 DEF Enclosed, After, Goes
<1>4. i + 1 # b => Inside(p', symbols', s, j, b, i + 1)
  <2>1. c \in 1..((i + 1) + 1)
    OBVIOUS
  <2> QED BY <1>1, <1>2, <1>3, <2>1 DEF Inside, Enclosed
<1> QED BY <1>2, <1>3, <1>4 DEF Onward, Goes

LEMMA NamedNext ==
    ASSUME NEW s, NEW j, NEW b \in Nat, NEW i \in Nat, i < b, Reads(TokensAt(s, j)[i + 1]), Next,
           Named(p, symbols, s, j, b, i)
    PROVE  Onward(s, j, b, i)
<1> DEFINE t == TokensAt(s, j)
           tok == t[i + 1]
           k(m) == key(IF p.state = "CLASS_FOUND" THEN T_CLASS ELSE T_FUNCTION,
                       combineNSSymbol(NamespaceAt(s, j - 1), t[m][2]))
<1>0. Reads(tok) /\ tok \in Token
  BY DEF Reads
<1>1. /\ p.state \in {"CLASS_FOUND", "FUNCTION_FOUND"}
      /\ symbols = FoundIn(s, j - 1) /\ p.ns = NamespaceAt(s, j - 1)
  BY DEF Named, Before
<1>2. PICK n \in (i + 1)..b :
        /\ IF p.state = "CLASS_FOUND" THEN Blank(t, i + 1, n - 1) ELSE Reference(t, i + 1, n - 1)
        /\ t[n][1] = "string" /\ Block(t, n + 1, b) /\ Adds(s, j, k(n))
  BY DEF Named
<1>3. n + 1 <= b
  BY <1>2 DEF Block
<1>4. CASE n = i + 1
  <2>1. Moves("SKIPPING_BLOCK_NOSTRING", 0, Append(symbols, k(i + 1)), p.ns)
    <3>1. tok[1] = "string"
      BY <1>2, <1>4
    <3>2. ~IsBlank(tok) /\ ~IsParen(tok) /\ ~IsAmpersand(tok)
      BY <1>0, <3>1, MarksApart DEF IsBlank
    <3> HIDE DEF t
    <3> QED BY <1>0, <1>1, <3>1, <3>2, NamedStep
  <2>2. After(p', symbols', s, j)
    BY <1>1, <1>2, <1>4, <2>1 DEF After, Adds, Moves, Goes
  <2>3. Nested(p'.state, p'.block_level, t, n + 1, i + 1)
    <3>1. Nested("SKIPPING_BLOCK_NOSTRING", 0, t, n + 1, (n + 1) - 1)
      BY NestedStart
    <3>2. (n + 1) - 1 = i + 1
      BY <1>4
    <3> QED BY <2>1, <3>1, <3>2 DEF Moves
  <2>4. n + 1 \in 1..((i + 1) + 1)
    BY <1>4
  <2> QED BY <1>2, <1>3, <1>4, <2>1, <2>2, <2>3, <2>4 DEF Onward, Inside, Enclosed, Moves, Goes
<1>5. CASE n # i + 1
  <2>1. i + 1 \in (i + 1)..(n - 1) /\ n \in ((i + 1) + 1)..b
    BY <1>5
  <2>2. /\ IF p.state = "CLASS_FOUND" THEN IsBlank(tok) ELSE IsBlank(tok) \/ IsAmpersand(tok)
        /\ IF p.state = "CLASS_FOUND" THEN Blank(t, (i + 1) + 1, n - 1)
           ELSE Reference(t, (i + 1) + 1, n - 1)
    BY <1>2, <2>1 DEF Blank, Reference
  <2>3. Moves(p.state, p.block_level, symbols, p.ns)
    <3>1. tok[1] # "string" /\ ~IsParen(tok)
      BY <1>0, <2>2, MarksApart DEF IsBlank
    <3> HIDE DEF t, tok
    <3> QED BY <1>0, <1>1, <2>2, <3>1, NamedStep
  <2>4. Named(p', symbols', s, j, b, i + 1)
    BY <1>1, <1>2, <2>1, <2>2, <2>3 DEF Named, Before, Moves, Goes
  <2> QED BY <1>3, <2>1, <2>3, <2>4 DEF Onward, Inside, Moves, Goes
<1> QED BY <1>4, <1>5

LEMMA ConstantNext ==
    ASSUME NEW s, NEW j, NEW b \in Nat, NEW i \in Nat, i < b, Reads(TokensAt(s, j)[i + 1]), Next,
           Constant(p, symbols, s, j, b, i)
    PROVE  Onward(s, j, b, i)
<1> DEFINE t == TokensAt(s, j)
           tok == t[i + 1]
           k == key(T_CONSTANT, combineNSSymbol(NamespaceAt(s, j - 1), t[b][2]))
<1>0. Reads(tok) /\ tok \in Token
  BY DEF Reads
<1>1. /\ p.state = "CONST_FOUND" /\ symbols = FoundIn(s, j - 1) /\ p.ns = NamespaceAt(s, j - 1)
      /\ Blank(t, i + 1, b - 1) /\ t[b][1] = "string" /\ Adds(s, j, k)
  BY DEF Constant, Before
<1>2. CASE i + 1 = b
  <2>1. tok[1] = "string" /\ ~IsBlank(tok)
    BY <1>1, <1>2 DEF IsBlank
  <2>2. Moves("OUT", p.block_level, Append(symbols, k), p.ns)
    <3>1. t[b] = tok
      BY <1>2
    <3> HIDE DEF t, tok
    <3> QED BY <1>0, <1>1, <2>1, <3>1, ConstStep
  <2>3. After(p', symbols', s, j)
    BY <1>1, <2>2 DEF After, Adds, Moves, Goes
  <2> QED BY <1>2, <2>2, <2>3 DEF Onward, Moves, Goes
<1>3. CASE i + 1 # b
  <2>1. IsBlank(tok) /\ Blank(t, (i + 1) + 1, b - 1)
    BY <1>1, <1>3 DEF Blank
  <2>2. tok[1] # "string"
    BY <2>1 DEF IsBlank
  <2>3. Moves("CONST_FOUND", p.block_level, symbols, p.ns)
    <3> HIDE DEF t, tok
    <3> QED BY <1>0, <1>1, <2>1, <2>2, ConstStep
  <2>4. Constant(p', symbols', s, j, b, i + 1)
    BY <1>1, <2>1, <2>3 DEF Constant, Before, Moves, Goes
  <2> QED BY <1>3, <2>3, <2>4 DEF Onward, Inside, Moves, Goes
<1> QED BY <1>2, <1>3

LEMMA DefiningNext ==
    ASSUME NEW s, NEW j, NEW b \in Nat, NEW i \in Nat, i < b, Reads(TokensAt(s, j)[i + 1]), Next,
           Defining(p, symbols, s, j, b, i)
    PROVE  Onward(s, j, b, i)
<1> DEFINE t == TokensAt(s, j)
           tok == t[i + 1]
<1>0. Reads(tok) /\ tok \in Token
  BY DEF Reads
<1>1. CASE p.state = "DEFINE_FOUND"
  <2>1. Before(p, symbols, s, j)
    BY <1>1 DEF Defining
  <2>2. PICK m \in (i + 1)..(b - 1) :
          Blank(t, i + 1, m - 1) /\ IsParen(t[m]) /\ Literal(s, j, b, m)
    BY <1>1 DEF Defining
  <2>3. CASE m = i + 1
    <3>1. IsParen(tok) /\ ~IsBlank(tok) /\ Literal(s, j, b, i + 1)
      BY <1>0, <2>2, <2>3, MarksApart
    <3>2. Moves("DEFINE_2", p.block_level, symbols, p.ns)
      <4> HIDE DEF t, tok
      <4> QED BY <1>0, <1>1, <3>1, DefineStep
    <3>3. Defining(p', symbols', s, j, b, i + 1)
      BY <2>1, <3>1, <3>2 DEF Defining, Before, Moves, Goes
    <3> QED BY <2>2, <2>3, <3>2, <3>3 DEF Onward, Inside, Moves, Goes
  <2>4. CASE m # i + 1
    <3>1. i + 1 \in (i + 1)..(m - 1) /\ m \in ((i + 1) + 1)..(b - 1)
      BY <2>4
    <3>2. IsBlank(tok) /\ Blank(t, (i + 1) + 1, m - 1)
      BY <2>2, <3>1 DEF Blank
    <3>3. Moves("DEFINE_FOUND", p.block_level, symbols, p.ns)
      <4>1. ~IsParen(tok)
        BY <1>0, <3>2, MarksApart
      <4> HIDE DEF t, tok
      <4> QED BY <1>0, <1>1, <3>2, <4>1, DefineStep
    <3>4. Defining(p', symbols', s, j, b, i + 1)
      BY <2>1, <2>2, <3>1, <3>2, <3>3 DEF Defining, Before, Moves, Goes
    <3> QED BY <3>1, <3>3, <3>4 DEF Onward, Inside, Moves, Goes
  <2> QED BY <2>3, <2>4
<1>2. CASE p.state = "DEFINE_2"
  <2>1. Before(p, symbols, s, j) /\ Literal(s, j, b, i)
    BY <1>2 DEF Defining
  <2>2. PICK n \in (i + 1)..(b - 1) :
          /\ Blank(t, i + 1, n - 1) /\ t[n][1] = "literal" /\ Ending(t, b, n)
          /\ Adds(s, j, key(T_CONSTANT, <<t[n][2]>>))
    BY <2>1 DEF Literal
  <2>3. CASE n = i + 1
    <3>1. /\ tok[1] = "literal" /\ ~IsBlank(tok) /\ Ending(t, b, i + 1)
          /\ Adds(s, j, key(T_CONSTANT, <<tok[2]>>))
      BY <2>2, <2>3 DEF IsBlank
    <3>2. Moves("SKIPPING_TO_EOL", p.block_level, Append(symbols, key(T_CONSTANT, <<tok[2]>>)), p.ns)
      <4> HIDE DEF t, tok
      <4> QED BY <1>0, <1>2, <3>1, Define2Step
    <3>3. After(p', symbols', s, j)
      BY <2>1, <3>1, <3>2 DEF Before, After, Adds, Moves, Goes
    <3>4. Defining(p', symbols', s, j, b, i + 1)
      BY <3>1, <3>2, <3>3 DEF Defining, Moves
    <3> QED BY <2>2, <2>3, <3>2, <3>4 DEF Onward, Inside, Moves, Goes
  <2>4. CASE n # i + 1
    <3>1. i + 1 \in (i + 1)..(n - 1) /\ n \in ((i + 1) + 1)..(b - 1)
      BY <2>4
    <3>2. IsBlank(tok) /\ tok[1] # "literal" /\ Blank(t, (i + 1) + 1, n - 1)
      BY <2>2, <3>1 DEF Blank, IsBlank
    <3>3. Moves("DEFINE_2", p.block_level, symbols, p.ns)
      <4> HIDE DEF t, tok
      <4> QED BY <1>0, <1>2, <3>2, Define2Step
    <3>4. Literal(s, j, b, i + 1)
      BY <2>2, <3>1, <3>2 DEF Literal
    <3>5. Defining(p', symbols', s, j, b, i + 1)
      BY <2>1, <3>3, <3>4 DEF Defining, Before, Moves, Goes
    <3> QED BY <3>1, <3>3, <3>5 DEF Onward, Inside, Moves, Goes
  <2> QED BY <2>3, <2>4
<1>3. CASE p.state = "SKIPPING_TO_EOL"
  <2>1. After(p, symbols, s, j) /\ Ending(t, b, i)
    BY <1>3 DEF Defining
  <2>2. Moves(IF IsSemicolon(tok) THEN "OUT" ELSE "SKIPPING_TO_EOL", p.block_level, symbols, p.ns)
    <3> HIDE DEF t, tok
    <3> QED BY <1>0, <1>3, EolStep
  <2>3. After(p', symbols', s, j)
    BY <2>1, <2>2 DEF After, Moves, Goes
  <2>4. CASE i + 1 = b
    <3>1. IsSemicolon(tok)
      BY <2>1, <2>4 DEF Ending
    <3> QED BY <2>2, <2>3, <2>4, <3>1 DEF Onward, Moves, Goes
  <2>5. CASE i + 1 # b
    <3>1. ~IsSemicolon(tok) /\ Ending(t, b, i + 1)
      BY <2>1, <2>5 DEF Ending
    <3>2. Defining(p', symbols', s, j, b, i + 1)
      BY <2>2, <2>3, <3>1 DEF Defining, Moves
    <3> QED BY <2>2, <2>5, <3>2 DEF Onward, Inside, Moves, Goes
  <2> QED BY <2>4, <2>5
<1> QED BY <1>1, <1>2, <1>3 DEF Defining

\* The name of a namespace grows by its parts.
LEMMA NameGrows ==
    ASSUME NEW t, NEW w \in Nat, NEW b \in Nat, w < b,
           \A i \in (w + 1)..(b - 1) : t[i] \in Token
    PROVE  /\ NameOf(t, w, b)[0] = <<>>
           /\ \A i \in (w + 1)..(b - 1) :
                NameOf(t, w, b)[i - w] = NameOf(t, w, b)[(i - 1) - w] \o NamePart(t[i])
           /\ FlattenSeq(NameParts(t, w, b)) = NameOf(t, w, b)[b - 1 - w]
<1> DEFINE n == b - 1 - w
           ss == NameParts(t, w, b)
           f == NameOf(t, w, b)
<1>1. n \in Nat /\ \A k \in 1..n : w + k \in (w + 1)..(b - 1)
  OBVIOUS
<1>2. \A tok \in Token : NamePart(tok) \in Seq(NamePiece)
  <2>1. ASSUME NEW tok \in Token PROVE NamePart(tok) \in Seq(NamePiece)
    <3>1. tok[2] \in NamePiece /\ Sep \in NamePiece
      BY TokenType DEF NamePiece
    <3>2. <<tok[2]>> \in Seq(NamePiece) /\ <<Sep>> \in Seq(NamePiece) /\ <<>> \in Seq(NamePiece)
      BY <3>1
    <3> QED BY <3>2 DEF NamePart
  <2> QED BY <2>1
<1>3. ss \in Seq(Seq(NamePiece)) /\ Len(ss) = n
  <2>1. \A k \in 1..n : NamePart(t[w + k]) \in Seq(NamePiece)
    BY <1>1, <1>2
  <2>2. ss = [k \in 1..n |-> NamePart(t[w + k])]
    BY DEF NameParts
  <2> HIDE DEF ss, n
  <2> QED BY <1>1, <2>1, <2>2
<1>4. \A k \in 1..n : ss[k] = NamePart(t[w + k])
  BY DEF NameParts
<1> HIDE DEF ss, n
<1>5. f[0] = <<>> /\ \A k \in 1..n : f[k] = f[k - 1] \o ss[k]
  BY <1>3, JoinsExists DEF Joins, NameOf, ss
<1>6. FlattenSeq(ss) = f[n]
  BY <1>3, Flattened DEF NameOf, ss
<1> HIDE DEF f
<1>7. ASSUME NEW i \in (w + 1)..(b - 1) PROVE f[i - w] = f[(i - 1) - w] \o NamePart(t[i])
  <2>1. i - w \in 1..n /\ (i - w) - 1 = (i - 1) - w /\ w + (i - w) = i
    BY DEF n
  <2>2. f[i - w] = f[(i - w) - 1] \o NamePart(t[w + (i - w)])
    BY <1>4, <1>5, <2>1
  <2> QED BY <2>1, <2>2
<1> QED BY <1>5, <1>6, <1>7 DEF f, ss, n

LEMMA NamingNext ==
    ASSUME NEW s, NEW j, NEW b \in Nat, NEW i \in Nat, i < b, Reads(TokensAt(s, j)[i + 1]), Next,
           \A k \in 1..b : TokensAt(s, j)[k] \in Token,
           Naming(p, symbols, s, j, b, i)
    PROVE  Onward(s, j, b, i)
<1> DEFINE t == TokensAt(s, j)
           tok == t[i + 1]
<1>0. Reads(tok) /\ tok \in Token
  BY DEF Reads
<1>1. symbols = FoundIn(s, j - 1) /\ p.ns = NamespaceAt(s, j - 1)
  BY DEF Naming, Before
<1>2. CASE p.state = "NAMESPACE_FOUND"
  <2>1. PICK w \in (i + 1)..(b - 1) :
          Comments(t, i + 1, w - 1) /\ t[w][1] = "whitespace" /\ Names(s, j, b, w)
    BY <1>2 DEF Naming
  <2>2. p.name = <<>>
    BY <1>2 DEF Naming
  <2>3. CASE w = i + 1
    <3>1. tok[1] = "whitespace"
      BY <2>1, <2>3
    <3>2. Moves("NAMESPACE_2", p.block_level, symbols, p.ns) /\ p'.name = <<>>
      <4> HIDE DEF t, tok
      <4> QED BY <1>0, <1>2, <2>2, <3>1, NamespaceStep DEF IsBlank
    <3>3. NameOf(t, w, b)[(i + 1) - w] = <<>>
      <4>1. \A k \in (w + 1)..(b - 1) : t[k] \in Token
        OBVIOUS
      <4>2. w \in Nat /\ w < b /\ (i + 1) - w = 0
        BY <2>3
      <4> HIDE DEF t
      <4>3. NameOf(t, w, b)[0] = <<>>
        BY <4>1, <4>2, NameGrows
      <4> QED BY <4>2, <4>3
    <3>4. Naming(p', symbols', s, j, b, i + 1)
      <4>1. w \in 1..(i + 1)
        BY <2>3
      <4> QED BY <1>1, <2>1, <3>2, <3>3, <4>1 DEF Naming, Before, Moves, Goes
    <3> QED BY <2>1, <2>3, <3>2, <3>4 DEF Onward, Inside, Moves, Goes
  <2>4. CASE w # i + 1
    <3>1. i + 1 \in (i + 1)..(w - 1) /\ w \in ((i + 1) + 1)..(b - 1)
      BY <2>4
    <3>2. tok[1] = "comment" /\ Comments(t, (i + 1) + 1, w - 1)
      BY <2>1, <3>1 DEF Comments
    <3>3. Moves("NAMESPACE_FOUND", p.block_level, symbols, p.ns) /\ p'.name = <<>>
      <4> HIDE DEF t, tok
      <4> QED BY <1>0, <1>2, <2>2, <3>2, NamespaceStep DEF IsBlank
    <3>4. Naming(p', symbols', s, j, b, i + 1)
      BY <1>1, <2>1, <3>1, <3>2, <3>3 DEF Naming, Before, Moves, Goes
    <3> QED BY <3>1, <3>3, <3>4 DEF Onward, Inside, Moves, Goes
  <2> QED BY <2>3, <2>4
<1>3. CASE p.state = "NAMESPACE_2"
  <2>1. PICK w \in 1..i : Names(s, j, b, w) /\ p.name = NameOf(t, w, b)[i - w]
    BY <1>3 DEF Naming
  <2>2. /\ \A k \in (w + 1)..(b - 1) : IsBlank(t[k]) \/ t[k][1] \in {"string", "separator"}
        /\ ~IsBlank(t[b]) /\ t[b][1] \notin {"string", "separator"}
        /\ FoundIn(s, j) = FoundIn(s, j - 1) /\ NamespaceAt(s, j) = NameOf(t, w, b)[b - 1 - w]
    BY <2>1 DEF Names
  <2>3. CASE i + 1 = b
    <3>1. ~IsBlank(tok) /\ tok[1] \notin {"string", "separator"}
      BY <2>2, <2>3
    <3>2. Moves("OUT", p.block_level, symbols, p.name)
      <4> HIDE DEF t, tok
      <4> QED BY <1>0, <1>3, <3>1, Namespace2Step
    <3>3. b - 1 - w = i - w
      BY <2>3
    <3>4. After(p', symbols', s, j)
      BY <1>1, <2>1, <2>2, <3>2, <3>3 DEF After, Moves, Goes
    <3> QED BY <2>3, <3>2, <3>4 DEF Onward, Moves, Goes
  <2>4. CASE i + 1 # b
    <3>1. i + 1 \in (w + 1)..(b - 1)
      BY <2>4
    <3>2. IsBlank(tok) \/ tok[1] \in {"string", "separator"}
      BY <2>2, <3>1
    <3>3. Moves("NAMESPACE_2", p.block_level, symbols, p.ns) /\ p'.name = p.name \o NamePart(tok)
      <4> HIDE DEF t, tok
      <4> QED BY <1>0, <1>3, <3>2, Namespace2Step
    <3>4. NameOf(t, w, b)[(i + 1) - w] = p.name \o NamePart(tok)
      <4>1. \A k \in (w + 1)..(b - 1) : t[k] \in Token
        OBVIOUS
      <4>2. w \in Nat /\ w < b /\ (i + 1) - 1 = i
        OBVIOUS
      <4> HIDE DEF t
      <4>3. NameOf(t, w, b)[(i + 1) - w] = NameOf(t, w, b)[((i + 1) - 1) - w] \o NamePart(t[i + 1])
        BY <3>1, <4>1, <4>2, NameGrows
      <4> QED BY <2>1, <4>2, <4>3 DEF t
    <3>5. Naming(p', symbols', s, j, b, i + 1)
      <4>1. w \in 1..(i + 1)
        OBVIOUS
      <4> QED BY <1>1, <2>1, <3>3, <3>4, <4>1 DEF Naming, Before, Moves, Goes
    <3> QED BY <2>4, <3>1, <3>3, <3>5 DEF Onward, Inside, Moves, Goes
  <2> QED BY <2>3, <2>4
<1> QED BY <1>2, <1>3 DEF Naming

LEMMA InsideStep ==
    ASSUME NEW s, NEW j, NEW b \in Nat, NEW i \in Nat, Reads(TokensAt(s, j)[i + 1]), Next,
           \A k \in 1..b : TokensAt(s, j)[k] \in Token,
           Inside(p, symbols, s, j, b, i)
    PROVE  Onward(s, j, b, i)
  BY NamedNext, EnclosedStep, ConstantNext, DefiningNext, NamingNext DEF Inside

\* What cannot be parsed is given up at the latest at its last token.
LEMMA DoomedStep ==
    ASSUME NEW t, NEW i \in Nat, Len(t) \in Nat, Reads(t[i + 1]), Next, Doomed(p, t, i)
    PROVE  Stops \/ (Advances /\ Doomed(p', t, i + 1))
<1> DEFINE tok == t[i + 1]
<1>0. Reads(tok) /\ tok \in Token
  BY DEF Reads
<1> HIDE DEF tok
<1>1. CASE p.state \in {"CLASS_FOUND", "CONST_FOUND"}
  <2>1. PICK n \in (i + 1)..Len(t) :
          Blank(t, i + 1, n - 1) /\ ~IsBlank(t[n]) /\ t[n][1] # "string"
    BY <1>1 DEF Doomed
  <2>2. CASE n = i + 1
    BY <1>0, <1>1, <2>1, <2>2, NamedStep, ConstStep DEF tok
  <2>3. CASE n # i + 1
    <3>1. i + 1 \in (i + 1)..(n - 1) /\ n \in ((i + 1) + 1)..Len(t)
      BY <2>3
    <3>2. IsBlank(tok) /\ Blank(t, (i + 1) + 1, n - 1)
      BY <2>1, <3>1 DEF Blank, tok
    <3>3. tok[1] # "string"
      BY <3>2 DEF IsBlank
    <3>4. Moves(p.state, p.block_level, symbols, p.ns)
      BY <1>0, <1>1, <3>2, <3>3, NamedStep, ConstStep
    <3> QED BY <1>1, <2>1, <3>1, <3>2, <3>4 DEF Doomed, Moves, Goes
  <2> QED BY <2>2, <2>3
<1>2. CASE p.state = "FUNCTION_FOUND"
  <2>1. PICK n \in (i + 1)..Len(t) :
          /\ Reference(t, i + 1, n - 1) /\ ~IsBlank(t[n]) /\ t[n][1] # "string"
          /\ ~IsAmpersand(t[n]) /\ ~IsParen(t[n])
    BY <1>2 DEF Doomed
  <2>2. CASE n = i + 1
    BY <1>0, <1>2, <2>1, <2>2, NamedStep DEF tok
  <2>3. CASE n # i + 1
    <3>1. i + 1 \in (i + 1)..(n - 1) /\ n \in ((i + 1) + 1)..Len(t)
      BY <2>3
    <3>2. (IsBlank(tok) \/ IsAmpersand(tok)) /\ Reference(t, (i + 1) + 1, n - 1)
      BY <2>1, <3>1 DEF Reference, tok
    <3>3. tok[1] # "string" /\ ~IsParen(tok)
      BY <1>0, <3>2, MarksApart DEF IsBlank
    <3>4. Moves(p.state, p.block_level, symbols, p.ns)
      BY <1>0, <1>2, <3>2, <3>3, NamedStep
    <3> QED BY <1>2, <2>1, <3>1, <3>2, <3>4 DEF Doomed, Moves, Goes
  <2> QED BY <2>2, <2>3
<1>3. CASE p.state = "DEFINE_FOUND"
  <2>1. PICK m \in (i + 1)..Len(t) :
          /\ Blank(t, i + 1, m - 1) /\ ~IsBlank(t[m])
          /\ IsParen(t[m]) =>
               \E n \in (m + 1)..Len(t) :
                 Blank(t, m + 1, n - 1) /\ ~IsBlank(t[n]) /\ t[n][1] # "literal"
    BY <1>3 DEF Doomed
  <2>2. CASE m = i + 1
    <3>1. CASE IsParen(tok)
      <4>1. Moves("DEFINE_2", p.block_level, symbols, p.ns)
        BY <1>0, <1>3, <2>1, <2>2, <3>1, DefineStep DEF tok
      <4> QED BY <2>1, <2>2, <3>1, <4>1 DEF Doomed, Moves, Goes, tok
    <3>2. CASE ~IsParen(tok)
      BY <1>0, <1>3, <2>1, <2>2, <3>2, DefineStep DEF tok
    <3> QED BY <3>1, <3>2
  <2>3. CASE m # i + 1
    <3>1. i + 1 \in (i + 1)..(m - 1) /\ m \in ((i + 1) + 1)..Len(t)
      BY <2>3
    <3>2. IsBlank(tok) /\ Blank(t, (i + 1) + 1, m - 1)
      BY <2>1, <3>1 DEF Blank, tok
    <3>3. ~IsParen(tok)
      BY <1>0, <3>2, MarksApart
    <3>4. Moves("DEFINE_FOUND", p.block_level, symbols, p.ns)
      BY <1>0, <1>3, <3>2, <3>3, DefineStep
    <3> QED BY <1>3, <2>1, <3>1, <3>2, <3>4 DEF Doomed, Moves, Goes
  <2> QED BY <2>2, <2>3
<1>4. CASE p.state = "DEFINE_2"
  <2>1. PICK n \in (i + 1)..Len(t) :
          Blank(t, i + 1, n - 1) /\ ~IsBlank(t[n]) /\ t[n][1] # "literal"
    BY <1>4 DEF Doomed
  <2>2. CASE n = i + 1
    BY <1>0, <1>4, <2>1, <2>2, Define2Step DEF tok
  <2>3. CASE n # i + 1
    <3>1. i + 1 \in (i + 1)..(n - 1) /\ n \in ((i + 1) + 1)..Len(t)
      BY <2>3
    <3>2. IsBlank(tok) /\ Blank(t, (i + 1) + 1, n - 1)
      BY <2>1, <3>1 DEF Blank, tok
    <3>3. tok[1] # "literal"
      BY <3>2 DEF IsBlank
    <3>4. Moves("DEFINE_2", p.block_level, symbols, p.ns)
      BY <1>0, <1>4, <3>2, <3>3, Define2Step
    <3> QED BY <1>4, <2>1, <3>1, <3>2, <3>4 DEF Doomed, Moves, Goes
  <2> QED BY <2>2, <2>3
<1> QED BY <1>1, <1>2, <1>3, <1>4 DEF Doomed

-----------------------------------------------------------------------------
\* Where a piece begins to be something else than plain code

\* What the piece declares or begins, as the parser forms it
LEMMA Effects ==
    ASSUME NEW s \in Script, NEW j \in 1..Len(s.pieces), Clean(NamespaceAt(s, j - 1)),
           NEW a, NEW b
    PROVE  LET q    == s.pieces[j]
               skip == Has(s, "skip-blocks")
           IN
             /\ Nothing(a, b, q) \/ SkippedBlock(a, b, q, skip) => Keeps(s, j)
             /\ \A d : q.declares = <<d>> /\ q.namespace = Null /\ ~(skip /\ d.block) =>
                  Adds(s, j, key(d.type, IF d.global THEN <<d.name>>
                                         ELSE combineNSSymbol(NamespaceAt(s, j - 1), d.name)))
             /\ Begins(a, b, q) =>
                  FoundIn(s, j) = FoundIn(s, j - 1) /\ NamespaceAt(s, j) = q.namespace
             /\ Nothing(a, b, q) \/ SkippedBlock(a, b, q, skip) \/ Begins(a, b, q)
                \/ Declaration(a, b, q, skip) => Clean(NamespaceAt(s, j))
<1> DEFINE q    == s.pieces[j]
           skip == Has(s, "skip-blocks")
           K    == FoundIn(s, j - 1)
<1>1. /\ q.declares \in Seq([type : SymbolType, name : Name, block : BOOLEAN, global : BOOLEAN])
      /\ q.namespace \in Seq(Name \cup {Sep}) \cup {Null} /\ q \in Piece
  BY ScriptTypes, PieceTypes
<1>2. /\ FoundIn(s, j) = K \o KeysOfPiece(s, j) /\ K \in Seq(Key)
      /\ NamespaceAt(s, j) = IF q.namespace # Null THEN q.namespace ELSE NamespaceAt(s, j - 1)
  <2>1. j - 1 \in 0..Len(s.pieces)
    BY ScriptTypes
  <2> QED BY <2>1, FoundNext, NamespaceNext
<1>3. /\ KeysOfPiece(s, j) \in Seq(Key)
      /\ (\A i \in 1..Len(q.declares) : q.declares[i].block /\ skip) => KeysOfPiece(s, j) = <<>>
      /\ \A d : q.declares = <<d>> /\ ~(d.block /\ skip) => KeysOfPiece(s, j) = <<KeyOf(s, j, d)>>
  BY KeysInPiece
<1> HIDE DEF q, K, skip
<1>4. \A x \in Seq(Key) : \A k : x \o <<>> = x /\ x \o <<k>> = Append(x, k)
  OBVIOUS
<1>5. q.declares = <<>> => KeysOfPiece(s, j) = <<>>
  <2>1. q.declares = <<>> => 1..Len(q.declares) = {}
    OBVIOUS
  <2> QED BY <1>3, <2>1
<1>6. Nothing(a, b, q) \/ SkippedBlock(a, b, q, skip) => KeysOfPiece(s, j) = <<>> /\ q.namespace = Null
  BY <1>3, <1>5 DEF Nothing, SkippedBlock
<1>7. Nothing(a, b, q) \/ SkippedBlock(a, b, q, skip) => Keeps(s, j)
  <2>1. ASSUME KeysOfPiece(s, j) = <<>>, q.namespace = Null PROVE Keeps(s, j)
    <3>1. FoundIn(s, j) = K
      BY <1>2, <1>4, <2>1
    <3> QED BY <1>2, <2>1, <3>1 DEF Keeps, K
  <2> QED BY <1>6, <2>1
<1>8. ASSUME NEW d, q.declares = <<d>>, q.namespace = Null, ~(skip /\ d.block)
      PROVE  Adds(s, j, key(d.type, IF d.global THEN <<d.name>>
                                    ELSE combineNSSymbol(NamespaceAt(s, j - 1), d.name)))
  <2>1. NamespaceAt(s, j) = NamespaceAt(s, j - 1)
    BY <1>2, <1>8
  <2>2. combineNSSymbol(NamespaceAt(s, j - 1), d.name) =
          IF NamespaceAt(s, j - 1) = <<>> THEN <<d.name>>
          ELSE NamespaceAt(s, j - 1) \o <<Sep, d.name>>
    BY Combined
  <2>3. KeyOf(s, j, d) = key(d.type, IF d.global THEN <<d.name>>
                                     ELSE combineNSSymbol(NamespaceAt(s, j - 1), d.name))
    BY <2>1, <2>2 DEF KeyOf, key
  <2>4. KeysOfPiece(s, j) = <<KeyOf(s, j, d)>>
    BY <1>3, <1>8
  <2>5. FoundIn(s, j) = Append(K, KeyOf(s, j, d))
    BY <1>2, <1>4, <2>4
  <2> QED BY <2>1, <2>3, <2>5 DEF Adds, K
<1>9. ASSUME Begins(a, b, q)
      PROVE  /\ FoundIn(s, j) = FoundIn(s, j - 1) /\ NamespaceAt(s, j) = q.namespace
             /\ Clean(NamespaceAt(s, j))
  <2>1. /\ q.declares = <<>> /\ q.namespace # Null
        /\ q.namespace # <<>> => q.namespace[1] # Sep /\ q.namespace[Len(q.namespace)] # Sep
    BY <1>9 DEF Begins, Namespace
  <2>2. FoundIn(s, j) = K /\ NamespaceAt(s, j) = q.namespace
    BY <1>2, <1>4, <1>5, <2>1
  <2> QED BY <1>1, <2>1, <2>2 DEF Clean, K
<1>10. Nothing(a, b, q) \/ SkippedBlock(a, b, q, skip) \/ Declaration(a, b, q, skip) =>
         Clean(NamespaceAt(s, j))
  <2>1. Nothing(a, b, q) \/ SkippedBlock(a, b, q, skip) \/ Declaration(a, b, q, skip) =>
          q.namespace = Null
    BY DEF Nothing, SkippedBlock, Declaration
  <2> QED BY <1>2, <2>1
<1> QED BY <1>7, <1>8, <1>9, <1>10 DEF q, skip

LEMMA KeywordStep ==
    ASSUME NEW tok, Reads(tok), Next, p.state = "OUT"
    PROVE  /\ tok[1] = "class" => Moves("CLASS_FOUND", p.block_level, symbols, p.ns)
           /\ tok[1] = "function" => Moves("FUNCTION_FOUND", p.block_level, symbols, p.ns)
           /\ tok[1] = "const" => Moves("CONST_FOUND", p.block_level, symbols, p.ns)
           /\ tok = <<"string", "define">> => Moves("DEFINE_FOUND", p.block_level, symbols, p.ns)
           /\ tok[1] = "namespace" =>
                Moves("NAMESPACE_FOUND", p.block_level, symbols, p.ns) /\ p'.name = <<>>
           /\ IsBrace(tok) /\ p.skip_blocks =>
                Moves("SKIPPING_BLOCK_NOSTRING", 1, symbols, p.ns)
<1>1. tok \in Token
  BY DEF Reads
<1>2. /\ IsBrace(tok) => tok[1] = "char"
      /\ tok = <<"string", "define">> => tok[1] = "string"
  BY <1>1, MarksApart
<1> QED BY <1>2, OutStep DEF IsBlank

\* The first token of the part a..b
LEMMA EnterStep ==
    ASSUME NEW s \in Script, NEW j \in 1..Len(s.pieces), Clean(NamespaceAt(s, j - 1)),
           NEW a \in 1..(Len(TokensAt(s, j)) + 1), NEW b \in 0..Len(TokensAt(s, j)), a <= b,
           Cut(a, b, s.pieces[j], Has(s, "skip-blocks")),
           p.state = "OUT", p.skip_blocks = Has(s, "skip-blocks"), Before(p, symbols, s, j),
           Reads(TokensAt(s, j)[a]), Next
    PROVE  /\ Advances
           /\ \/ a < b /\ Inside(p', symbols', s, j, b, a) /\ s.pieces[j].valid
              \/ Doomed(p', TokensAt(s, j), a) /\ ~s.pieces[j].valid
<1> DEFINE q    == s.pieces[j]
           t    == TokensAt(s, j)
           skip == Has(s, "skip-blocks")
           N    == NamespaceAt(s, j - 1)
<1>0. /\ Reads(t[a]) /\ p.skip_blocks = skip /\ a \in Nat /\ b \in Nat /\ a >= 1 /\ a <= b
      /\ q.tokens = t /\ \A k \in 1..b : t[k] \in Token
  <2>1. t \in Seq(Token) /\ Len(t) \in Nat /\ \A i \in 1..Len(t) : t[i] \in Token
    BY ScriptTypes, PieceTypes DEF TokensAt
  <2>2. \A k \in 1..b : k \in 1..Len(t)
    BY <2>1
  <2> QED BY <2>1, <2>2 DEF TokensAt
<1>1. CASE Declaration(a, b, q, skip)
  <2>1. PICK d : /\ q.declares = <<d>> /\ ~(skip /\ d.block) /\ q.namespace = Null /\ q.valid
                 /\ \/ Class(t, a, b, d) \/ Function(t, a, b, d)
                    \/ Const(t, a, b, d) \/ Define(t, a, b, d)
    BY <1>0, <1>1 DEF Declaration
  <2>2. Adds(s, j, key(d.type, IF d.global THEN <<d.name>> ELSE combineNSSymbol(N, d.name)))
    BY <2>1, Effects
  <2> HIDE DEF q, t, skip, N
  <2>3. CASE Class(t, a, b, d)
    <3>1. /\ t[a][1] = "class" /\ d.type = T_CLASS /\ ~d.global
          /\ \E n \in (a + 1)..b :
               Blank(t, a + 1, n - 1) /\ t[n] = <<"string", d.name>> /\ Block(t, n + 1, b)
      BY <2>3 DEF Class
    <3>2. PICK n \in (a + 1)..b :
            Blank(t, a + 1, n - 1) /\ t[n] = <<"string", d.name>> /\ Block(t, n + 1, b)
      BY <3>1
    <3>3. t[n][1] = "string" /\ t[n][2] = d.name
      BY <3>2
    <3>4. Moves("CLASS_FOUND", p.block_level, symbols, p.ns)
      BY <1>0, <3>1, KeywordStep
    <3>5. Named(p', symbols', s, j, b, a)
      BY <2>2, <3>1, <3>2, <3>3, <3>4 DEF Named, Before, Moves, Goes, t, N
    <3>6. a < b
      BY <1>0, <3>2
    <3> QED BY <2>1, <3>4, <3>5, <3>6 DEF Inside, Moves, Goes, q
  <2>4. CASE Function(t, a, b, d)
    <3>1. /\ t[a][1] = "function" /\ d.type = T_FUNCTION /\ ~d.global
          /\ \E n \in (a + 1)..b :
               Reference(t, a + 1, n - 1) /\ t[n] = <<"string", d.name>> /\ Block(t, n + 1, b)
      BY <2>4 DEF Function
    <3>2. PICK n \in (a + 1)..b :
            Reference(t, a + 1, n - 1) /\ t[n] = <<"string", d.name>> /\ Block(t, n + 1, b)
      BY <3>1
    <3>3. t[n][1] = "string" /\ t[n][2] = d.name
      BY <3>2
    <3>4. Moves("FUNCTION_FOUND", p.block_level, symbols, p.ns)
      BY <1>0, <3>1, KeywordStep
    <3>5. Named(p', symbols', s, j, b, a)
      BY <2>2, <3>1, <3>2, <3>3, <3>4 DEF Named, Before, Moves, Goes, t, N
    <3>6. a < b
      BY <1>0, <3>2
    <3> QED BY <2>1, <3>4, <3>5, <3>6 DEF Inside, Moves, Goes, q
  <2>5. CASE Const(t, a, b, d)
    <3>1. /\ t[a][1] = "const" /\ d.type = T_CONSTANT /\ ~d.global
          /\ a < b /\ Blank(t, a + 1, b - 1) /\ t[b] = <<"string", d.name>>
      BY <2>5 DEF Const
    <3>3. t[b][1] = "string" /\ t[b][2] = d.name
      BY <3>1
    <3>4. Moves("CONST_FOUND", p.block_level, symbols, p.ns)
      BY <1>0, <3>1, KeywordStep
    <3>5. Constant(p', symbols', s, j, b, a)
      BY <2>2, <3>1, <3>3, <3>4 DEF Constant, Before, Moves, Goes, t, N
    <3> QED BY <2>1, <3>1, <3>4, <3>5 DEF Inside, Moves, Goes, q
  <2>6. CASE Define(t, a, b, d)
    <3>1. t[a] = <<"string", "define">> /\ d.type = T_CONSTANT /\ d.global
      BY <2>6 DEF Define
    <3>2. PICK m \in (a + 1)..b, n \in (a + 1)..b :
            /\ m < n /\ n < b
            /\ Blank(t, a + 1, m - 1) /\ IsParen(t[m])
            /\ Blank(t, m + 1, n - 1) /\ t[n] = <<"literal", d.name>>
            /\ IsSemicolon(t[b]) /\ \A i \in (n + 1)..(b - 1) : ~IsSemicolon(t[i])
      BY <2>6 DEF Define
    <3>3. t[n][1] = "literal" /\ t[n][2] = d.name
      BY <3>2
    <3>4. Moves("DEFINE_FOUND", p.block_level, symbols, p.ns)
      BY <1>0, <3>1, KeywordStep
    <3>5. m \in (a + 1)..(b - 1) /\ n \in (m + 1)..(b - 1) /\ a < b
      BY <1>0, <3>2
    <3>6. Literal(s, j, b, m)
      <4>1. Adds(s, j, key(T_CONSTANT, <<t[n][2]>>))
        BY <2>2, <3>1, <3>3
      <4>2. Ending(t, b, n)
        BY <3>2 DEF Ending
      <4> QED BY <3>2, <3>3, <3>5, <4>1, <4>2 DEF Literal, t
    <3>7. Defining(p', symbols', s, j, b, a)
      BY <3>2, <3>4, <3>5, <3>6 DEF Defining, Before, Moves, Goes, t
    <3> QED BY <2>1, <3>4, <3>5, <3>7 DEF Inside, Moves, Goes, q
  <2> QED BY <2>1, <2>3, <2>4, <2>5, <2>6
<1>2. CASE Begins(a, b, q)
  <2>1. /\ q.valid /\ q.namespace # Null /\ t[a][1] = "namespace"
        /\ \E w \in (a + 1)..(b - 1) :
             /\ Comments(t, a + 1, w - 1) /\ t[w][1] = "whitespace"
             /\ \A i \in (w + 1)..(b - 1) : IsBlank(t[i]) \/ t[i][1] \in {"string", "separator"}
             /\ ~IsBlank(t[b]) /\ t[b][1] \notin {"string", "separator"}
             /\ q.namespace = FlattenSeq([i \in 1..(b - 1 - w) |-> NamePart(t[w + i])])
    BY <1>0, <1>2 DEF Begins, Namespace
  <2>2. PICK w \in (a + 1)..(b - 1) :
          /\ Comments(t, a + 1, w - 1) /\ t[w][1] = "whitespace"
          /\ \A i \in (w + 1)..(b - 1) : IsBlank(t[i]) \/ t[i][1] \in {"string", "separator"}
          /\ ~IsBlank(t[b]) /\ t[b][1] \notin {"string", "separator"}
          /\ q.namespace = FlattenSeq([i \in 1..(b - 1 - w) |-> NamePart(t[w + i])])
    BY <2>1
  <2>3. FoundIn(s, j) = FoundIn(s, j - 1) /\ NamespaceAt(s, j) = q.namespace
    BY <1>2, Effects
  <2> HIDE DEF q, t, skip, N
  <2>4. q.namespace = NameOf(t, w, b)[b - 1 - w]
    <3>1. w \in Nat /\ w < b /\ \A i \in (w + 1)..(b - 1) : t[i] \in Token
      BY <1>0
    <3>2. FlattenSeq(NameParts(t, w, b)) = NameOf(t, w, b)[b - 1 - w]
      BY <1>0, <3>1, NameGrows
    <3> QED BY <2>2, <3>2 DEF NameParts
  <2>5. Names(s, j, b, w)
    BY <2>2, <2>3, <2>4 DEF Names, t
  <2>6. Moves("NAMESPACE_FOUND", p.block_level, symbols, p.ns) /\ p'.name = <<>>
    BY <1>0, <2>1, KeywordStep
  <2>7. Naming(p', symbols', s, j, b, a)
    BY <2>2, <2>5, <2>6 DEF Naming, Before, Moves, Goes, t
  <2>8. a < b
    BY <1>0, <2>2
  <2> QED BY <2>1, <2>6, <2>7, <2>8 DEF Inside, Moves, Goes, q
<1>3. CASE SkippedBlock(a, b, q, skip)
  <2>1. skip /\ q.valid /\ IsBrace(t[a]) /\ Block(t, a, b)
    BY <1>0, <1>3 DEF SkippedBlock
  <2>2. Keeps(s, j)
    BY <1>3, Effects
  <2> HIDE DEF q, t, skip, N
  <2>3. Moves("SKIPPING_BLOCK_NOSTRING", 1, symbols, p.ns)
    BY <1>0, <2>1, KeywordStep
  <2>4. Nested("SKIPPING_BLOCK_NOSTRING", 1, t, a, a) /\ IsOpening(t[a]) /\ ~IsClosing(t[a])
    <3>1. /\ t[a] \in Token /\ a - 1 \in Int /\ (a - 1) + 1 = a /\ a <= (a - 1) + 1
      BY <1>0
    <3>2. IsOpening(t[a]) /\ ~IsClosing(t[a]) /\ ~IsQuote(t[a])
      BY <2>1, <3>1, MarksApart
    <3>3. Quotes(t, a, a) = 0
      <4>1. /\ Quotes(t, a, a - 1) = 0
            /\ Quotes(t, a, (a - 1) + 1) = IF IsQuote(t[(a - 1) + 1]) THEN Quotes(t, a, a - 1) + 1
                                           ELSE Quotes(t, a, a - 1)
        BY <3>1, QuotesStep
      <4> QED BY <3>1, <3>2, <4>1
    <3>4. Outside(t, a, a)
      BY <3>3 DEF Outside
    <3>5. Depth(t, a, a) = 1
      <4>1. Depth(t, a, a - 1) = 0 /\ Depth(t, a, a) = Depth(t, a, a - 1) + 1
        BY <3>1, <3>2, <3>4, DepthStep
      <4> QED BY <4>1
    <3> QED BY <3>2, <3>4, <3>5 DEF Nested
  <2>5. a < b
    <3>1. IsClosing(t[b])
      BY <2>1 DEF Block, Closing
    <3>2. a # b
      BY <2>4, <3>1
    <3> QED BY <1>0, <3>2
  <2>6. Enclosed(p', symbols', s, j, b, a)
    <3>1. After(p', symbols', s, j)
      BY <2>2, <2>3 DEF Before, After, Keeps, Moves, Goes
    <3>2. a \in 1..(a + 1)
      BY <1>0
    <3> QED BY <2>1, <2>3, <2>4, <3>1, <3>2 DEF Enclosed, Moves, t
  <2> QED BY <2>1, <2>3, <2>5, <2>6 DEF Inside, Moves, Goes, q
<1>4. CASE Refused(a, b, q)
  <2>1. ~q.valid /\ Broken(t, a)
    BY <1>0, <1>4 DEF Refused
  <2> HIDE DEF q, t, skip, N
  <2>2. CASE t[a][1] \in {"class", "const"}
    <3>1. PICK n \in (a + 1)..Len(t) :
            Blank(t, a + 1, n - 1) /\ ~IsBlank(t[n]) /\ t[n][1] # "string"
      <4>1. t[a] # <<"string", "define">> /\ t[a][1] # "function"
        BY <2>2
      <4> QED BY <2>1, <4>1 DEF Broken
    <3>2. \E st \in {"CLASS_FOUND", "CONST_FOUND"} : Moves(st, p.block_level, symbols, p.ns)
      BY <1>0, <2>2, KeywordStep
    <3>3. Doomed(p', t, a) /\ Advances
      BY <3>1, <3>2 DEF Doomed, Moves, Goes
    <3> QED BY <2>1, <3>3 DEF q, t
  <2>3. CASE t[a][1] = "function"
    <3>1. PICK n \in (a + 1)..Len(t) :
            /\ Reference(t, a + 1, n - 1) /\ ~IsBlank(t[n]) /\ t[n][1] # "string"
            /\ ~IsAmpersand(t[n]) /\ ~IsParen(t[n])
      <4>1. t[a] # <<"string", "define">>
        BY <2>3
      <4> QED BY <2>1, <2>3, <4>1 DEF Broken
    <3>2. Moves("FUNCTION_FOUND", p.block_level, symbols, p.ns)
      BY <1>0, <2>3, KeywordStep
    <3>3. Doomed(p', t, a) /\ Advances
      BY <3>1, <3>2 DEF Doomed, Moves, Goes
    <3> QED BY <2>1, <3>3 DEF q, t
  <2>4. CASE t[a] = <<"string", "define">>
    <3>1. PICK m \in (a + 1)..Len(t) :
            /\ Blank(t, a + 1, m - 1) /\ ~IsBlank(t[m])
            /\ IsParen(t[m]) =>
                 \E n \in (m + 1)..Len(t) :
                   Blank(t, m + 1, n - 1) /\ ~IsBlank(t[n]) /\ t[n][1] # "literal"
      <4>1. t[a][1] = "string"
        BY <2>4
      <4> QED BY <2>1, <4>1 DEF Broken
    <3>2. Moves("DEFINE_FOUND", p.block_level, symbols, p.ns)
      BY <1>0, <2>4, KeywordStep
    <3>3. Doomed(p', t, a) /\ Advances
      BY <3>1, <3>2 DEF Doomed, Moves, Goes
    <3> QED BY <2>1, <3>3 DEF q, t
  <2> QED BY <2>1, <2>2, <2>3, <2>4 DEF Broken
<1>5. ~Nothing(a, b, q)
  BY <1>0 DEF Nothing
<1> QED BY <1>1, <1>2, <1>3, <1>4, <1>5 DEF Cut

-----------------------------------------------------------------------------
\* The way through a piece

\* Cut at a and b, piece j leaves the call x before, inside or after a..b.
Place(x, keys, s, j, i) ==
    LET t == TokensAt(s, j)
        q == s.pieces[j]
    IN  \E a \in 1..(Len(t) + 1), b \in 0..Len(t) :
          /\ Cut(a, b, q, Has(s, "skip-blocks"))
          /\ \/ i < a /\ Loose(x.state, t, a - 1, i) /\ Before(x, keys, s, j)
             \/ Inside(x, keys, s, j, b, i) /\ q.valid
             \/ Doomed(x, t, i) /\ ~q.valid
             \/ b <= i /\ Loose(x.state, t, Len(t), i) /\ After(x, keys, s, j) /\ q.valid

LEMMA PlaceStep ==
    ASSUME NEW s \in Script, NEW j \in 1..Len(s.pieces), Clean(NamespaceAt(s, j - 1)),
           NEW i \in 0..(Len(TokensAt(s, j)) - 1),
           p.skip_blocks = Has(s, "skip-blocks"), Place(p, symbols, s, j, i),
           Reads(TokensAt(s, j)[i + 1]), Next
    PROVE  \/ Stops /\ ~s.pieces[j].valid
           \/ Advances /\ Place(p', symbols', s, j, i + 1)
<1> DEFINE q    == s.pieces[j]
           t    == TokensAt(s, j)
           skip == Has(s, "skip-blocks")
<1>1. t \in Seq(Token) /\ Len(t) \in Nat /\ (\A k \in 1..Len(t) : t[k] \in Token) /\ q.tokens = t
  BY ScriptTypes, PieceTypes DEF TokensAt
<1>2. i \in Nat /\ i + 1 <= Len(t)
  BY <1>1
<1>3. PICK a \in 1..(Len(t) + 1), b \in 0..Len(t) :
        /\ Cut(a, b, q, skip)
        /\ \/ i < a /\ Loose(p.state, t, a - 1, i) /\ Before(p, symbols, s, j)
           \/ Inside(p, symbols, s, j, b, i) /\ q.valid
           \/ Doomed(p, t, i) /\ ~q.valid
           \/ b <= i /\ Loose(p.state, t, Len(t), i) /\ After(p, symbols, s, j) /\ q.valid
  BY DEF Place
<1>4. a \in Nat /\ b \in Nat /\ a >= 1 /\ b <= Len(t)
  BY <1>1
<1>5. ASSUME b <= i, Loose(p.state, t, Len(t), i), After(p, symbols, s, j), q.valid
      PROVE  Advances /\ Place(p', symbols', s, j, i + 1)
  <2>1. Plain(t, b + 1, Len(t), p.skip_blocks)
    BY <1>1, <1>3 DEF Cut
  <2>2. Goes(symbols, p.ns) /\ Loose(p'.state, t, Len(t), i + 1)
    <3> HIDE DEF t
    <3>1. b + 1 \in Int /\ b + 1 <= i + 1
      BY <1>2, <1>4, <1>5
    <3> QED BY <1>1, <1>2, <1>5, <2>1, <3>1, LooseStep DEF t
  <2>3. After(p', symbols', s, j)
    BY <1>5, <2>2 DEF After, Goes
  <2>4. b <= i + 1
    BY <1>2, <1>4, <1>5
  <2> QED BY <1>3, <1>5, <2>2, <2>3, <2>4 DEF Place, Goes
<1>6. CASE i < a /\ Loose(p.state, t, a - 1, i) /\ Before(p, symbols, s, j)
  <2>1. CASE i + 1 < a
    <3>1. Plain(t, 1, a - 1, p.skip_blocks)
      BY <1>1, <1>3 DEF Cut
    <3>2. Goes(symbols, p.ns) /\ Loose(p'.state, t, a - 1, i + 1)
      <4> DEFINE e == a - 1
      <4>1. e \in Int /\ i \in Int /\ 1 \in Int /\ i + 1 <= e /\ 1 <= i + 1
        BY <1>2, <1>4, <2>1
      <4>2. /\ Plain(t, 1, e, p.skip_blocks) /\ Reads(t[i + 1])
            /\ Next /\ Loose(p.state, t, e, i)
        BY <1>6, <3>1
      <4> HIDE DEF t, e
      <4>3. Goes(symbols, p.ns) /\ Loose(p'.state, t, e, i + 1)
        BY <4>1, <4>2, LooseStep
      <4> QED BY <4>3 DEF t, e
    <3>3. Before(p', symbols', s, j)
      BY <1>6, <3>2 DEF Before, Goes
    <3> QED BY <1>3, <2>1, <3>2, <3>3 DEF Place, Goes
  <2>2. CASE i + 1 = a
    <3>1. p.state = "OUT"
      <4>1. a - 1 = i
        BY <1>2, <1>4, <2>2
      <4> QED BY <1>2, <1>6, <4>1, LooseEnd
    <3>2. CASE a <= b
      <4>1. Reads(t[a])
        BY <2>2
      <4>2. /\ Advances
            /\ \/ a < b /\ Inside(p', symbols', s, j, b, a) /\ q.valid
               \/ Doomed(p', t, a) /\ ~q.valid
        BY <1>3, <1>6, <3>1, <3>2, <4>1, EnterStep
      <4> QED BY <1>3, <2>2, <4>2 DEF Place
    <3>3. CASE ~(a <= b)
      <4>1. Nothing(a, b, q)
        BY <1>3, <3>3 DEF Cut, Declaration, Begins, SkippedBlock, Refused
      <4>2. b <= i /\ q.valid /\ Keeps(s, j)
        <5>1. Keeps(s, j)
          BY <4>1, Effects
        <5> QED BY <1>2, <1>4, <2>2, <4>1, <5>1 DEF Nothing
      <4>3. After(p, symbols, s, j)
        BY <1>6, <4>2 DEF Before, After, Keeps
      <4>4. Loose(p.state, t, Len(t), i)
        BY <3>1 DEF Loose
      <4> QED BY <1>5, <4>2, <4>3, <4>4
    <3> QED BY <3>2, <3>3
  <2> QED BY <1>2, <1>4, <1>6, <2>1, <2>2
<1>7. CASE Inside(p, symbols, s, j, b, i) /\ q.valid
  <2>1. \A k \in 1..b : TokensAt(s, j)[k] \in Token
    BY <1>1, <1>4
  <2>2. Onward(s, j, b, i)
    BY <1>2, <1>4, <1>7, <2>1, InsideStep
  <2>3. CASE i + 1 = b
    <3>1. Advances /\ p'.state = "OUT" /\ After(p', symbols', s, j)
      BY <2>2, <2>3 DEF Onward
    <3>2. Loose(p'.state, t, Len(t), i + 1) /\ b <= i + 1
      BY <1>4, <2>3, <3>1 DEF Loose
    <3> QED BY <1>3, <1>7, <3>1, <3>2 DEF Place
  <2>4. CASE i + 1 # b
    <3>1. Advances /\ Inside(p', symbols', s, j, b, i + 1)
      BY <2>2, <2>4 DEF Onward
    <3> QED BY <1>3, <1>7, <3>1 DEF Place
  <2> QED BY <2>3, <2>4
<1>8. CASE Doomed(p, t, i) /\ ~q.valid
  <2>1. Stops \/ (Advances /\ Doomed(p', t, i + 1))
    <3> HIDE DEF t
    <3> QED BY <1>1, <1>2, <1>8, DoomedStep DEF t
  <2> QED BY <1>3, <1>8, <2>1 DEF Place
<1> QED BY <1>3, <1>5, <1>6, <1>7, <1>8

\* At the end of a piece the parser has found what it declares.
LEMMA PlaceEnd ==
    ASSUME NEW s \in Script, NEW j \in 1..Len(s.pieces), Clean(NamespaceAt(s, j - 1)),
           NEW x, NEW keys, Place(x, keys, s, j, Len(TokensAt(s, j)))
    PROVE  /\ x.state = "OUT" /\ After(x, keys, s, j)
           /\ s.pieces[j].valid /\ Clean(NamespaceAt(s, j))
<1> DEFINE q    == s.pieces[j]
           t    == TokensAt(s, j)
           skip == Has(s, "skip-blocks")
           i    == Len(t)
<1>1. i \in Nat
  BY ScriptTypes, PieceTypes DEF TokensAt
<1>2. PICK a \in 1..(i + 1), b \in 0..i :
        /\ Cut(a, b, q, skip)
        /\ \/ i < a /\ Loose(x.state, t, a - 1, i) /\ Before(x, keys, s, j)
           \/ Inside(x, keys, s, j, b, i) /\ q.valid
           \/ Doomed(x, t, i) /\ ~q.valid
           \/ b <= i /\ Loose(x.state, t, i, i) /\ After(x, keys, s, j) /\ q.valid
  BY DEF Place
<1>3. ASSUME q.valid PROVE Clean(NamespaceAt(s, j))
  <2>1. ~Refused(a, b, q)
    BY <1>3 DEF Refused
  <2>2. Nothing(a, b, q) \/ SkippedBlock(a, b, q, skip) \/ Begins(a, b, q)
        \/ Declaration(a, b, q, skip)
    BY <1>2, <2>1 DEF Cut
  <2> QED BY <2>2, Effects
<1>4. CASE i < a /\ Loose(x.state, t, a - 1, i) /\ Before(x, keys, s, j)
  <2>1. a - 1 = i /\ ~(a <= b)
    BY <1>1, <1>4
  <2>2. x.state = "OUT"
    BY <1>1, <1>4, <2>1, LooseEnd
  <2>3. Nothing(a, b, q)
    BY <1>2, <2>1 DEF Cut, Declaration, Begins, SkippedBlock, Refused
  <2>4. q.valid /\ Keeps(s, j)
    BY <2>3, Effects DEF Nothing
  <2> QED BY <1>3, <1>4, <2>2, <2>4 DEF Before, After, Keeps
<1>5. ~Inside(x, keys, s, j, b, i)
  BY <1>1 DEF Inside
<1>6. ~Doomed(x, t, i)
  <2>1. (i + 1)..i = {}
    BY <1>1
  <2> QED BY <2>1 DEF Doomed
<1>7. CASE b <= i /\ Loose(x.state, t, i, i) /\ After(x, keys, s, j) /\ q.valid
  BY <1>1, <1>3, <1>7, LooseEnd
<1> QED BY <1>2, <1>4, <1>5, <1>6, <1>7

LEMMA PlaceBegin ==
    ASSUME NEW s, NEW j, NEW x, NEW keys,
           UnderstoodPiece(s.pieces[j], Has(s, "skip-blocks")),
           x.state = "OUT", Before(x, keys, s, j)
    PROVE  Place(x, keys, s, j, 0)
<1>1. PICK a \in 1..(Len(TokensAt(s, j)) + 1), b \in 0..Len(TokensAt(s, j)) :
        Cut(a, b, s.pieces[j], Has(s, "skip-blocks"))
  BY DEF UnderstoodPiece, TokensAt
<1>2. 0 < a /\ Loose(x.state, TokensAt(s, j), a - 1, 0)
  BY DEF Loose
<1> QED BY <1>1, <1>2 DEF Place

-----------------------------------------------------------------------------
\* The way through a script

AllUnderstood(s) ==
    \A j \in 1..Len(s.pieces) : UnderstoodPiece(s.pieces[j], Has(s, "skip-blocks"))
ValidUpTo(s, j) == \A m \in 1..j : s.pieces[m].valid

Reached(x, keys, s) ==
    \/ x.tokens = <<>> /\ keys = FoundIn(s, Len(s.pieces)) /\ ValidUpTo(s, Len(s.pieces))
    \/ \E j \in 1..Len(s.pieces) : \E i \in 0..(Len(TokensAt(s, j)) - 1) :
         /\ x.tokens = Rest(s, j, i) /\ ValidUpTo(s, j - 1)
         /\ Clean(NamespaceAt(s, j - 1)) /\ Place(x, keys, s, j, i)

\* Between two pieces
LEMMA Arrives ==
    ASSUME NEW s \in Script, AllUnderstood(s), NEW j \in 0..Len(s.pieces), NEW x, NEW keys,
           x.tokens = IF j = Len(s.pieces) THEN <<>> ELSE Rest(s, j + 1, 0),
           x.state = "OUT", After(x, keys, s, j), Clean(NamespaceAt(s, j)), ValidUpTo(s, j)
    PROVE  Reached(x, keys, s)
<1>1. CASE j = Len(s.pieces)
  BY <1>1 DEF Reached, After
<1>2. CASE j # Len(s.pieces)
  <2>1. j + 1 \in 1..Len(s.pieces) /\ (j + 1) - 1 = j
    BY <1>2, ScriptTypes
  <2>2. UnderstoodPiece(s.pieces[j + 1], Has(s, "skip-blocks"))
    BY <2>1 DEF AllUnderstood
  <2>3. Place(x, keys, s, j + 1, 0)
    <3>1. Before(x, keys, s, j + 1)
      BY <2>1 DEF Before, After
    <3> QED BY <2>2, <3>1, PlaceBegin
  <2>4. 0 \in 0..(Len(TokensAt(s, j + 1)) - 1)
    <3>1. TokensAt(s, j + 1) # <<>>
      BY <2>2 DEF UnderstoodPiece, TokensAt
    <3>2. TokensAt(s, j + 1) \in Seq(Token)
      BY <2>1, ScriptTypes, PieceTypes DEF TokensAt
    <3>3. Len(TokensAt(s, j + 1)) \in Nat /\ Len(TokensAt(s, j + 1)) # 0
      <4> DEFINE t == TokensAt(s, j + 1)
      <4>1. t # <<>> /\ t \in Seq(Token)
        BY <3>1, <3>2
      <4> HIDE DEF t
      <4>2. Len(t) \in Nat /\ Len(t) # 0
        BY <4>1
      <4> QED BY <4>2 DEF t
    <3> QED BY <3>3
  <2>5. x.tokens = Rest(s, j + 1, 0)
    BY <1>2
  <2> QED BY <2>1, <2>3, <2>4, <2>5 DEF Reached
<1> QED BY <1>1, <1>2

LEMMA ReachedStep ==
    ASSUME NEW s \in Script, AllUnderstood(s), Reached(p, symbols, s),
           p \in CallType, p.pc = "tokens", p.tokens # <<>>,
           p.skip_blocks = Has(s, "skip-blocks"), Next
    PROVE  \/ Stops /\ ~ValidUpTo(s, Len(s.pieces))
           \/ Advances /\ Reached(p', symbols', s)
<1>1. PICK j \in 1..Len(s.pieces) : \E i \in 0..(Len(TokensAt(s, j)) - 1) :
        /\ p.tokens = Rest(s, j, i) /\ ValidUpTo(s, j - 1)
        /\ Clean(NamespaceAt(s, j - 1)) /\ Place(p, symbols, s, j, i)
  BY DEF Reached
<1> DEFINE t == TokensAt(s, j)
<1>2. PICK i \in 0..(Len(t) - 1) :
        /\ p.tokens = Rest(s, j, i) /\ ValidUpTo(s, j - 1)
        /\ Clean(NamespaceAt(s, j - 1)) /\ Place(p, symbols, s, j, i)
  BY <1>1
<1>3. Len(t) \in Nat /\ i \in Nat /\ i + 1 \in 1..Len(t) /\ t[i + 1] \in Token
      /\ Len(s.pieces) \in Nat /\ j \in Nat
  <2>1. Len(t) \in Nat /\ \A k \in 1..Len(t) : t[k] \in Token
    BY ScriptTypes, PieceTypes DEF TokensAt
  <2>2. i \in Nat /\ i + 1 \in 1..Len(t)
    BY <2>1
  <2> QED BY <2>1, <2>2, ScriptTypes
<1>4. Head(p.tokens) = t[i + 1] /\ Tail(p.tokens) = Rest(s, j, i + 1)
  BY <1>2, RestStep DEF TokensAt
<1>5. Reads(t[i + 1])
  BY <1>3, <1>4 DEF Reads
<1>6. \/ Stops /\ ~s.pieces[j].valid
      \/ Advances /\ Place(p', symbols', s, j, i + 1)
  BY <1>2, <1>5, PlaceStep
<1>7. CASE Stops /\ ~s.pieces[j].valid
  BY <1>7 DEF ValidUpTo
<1>8. CASE Advances /\ Place(p', symbols', s, j, i + 1)
  <2>1. p'.tokens = Rest(s, j, i + 1)
    BY <1>4, <1>8 DEF Advances
  <2>2. CASE i + 1 = Len(t)
    <3>1. /\ p'.state = "OUT" /\ After(p', symbols', s, j)
          /\ s.pieces[j].valid /\ Clean(NamespaceAt(s, j))
      BY <1>2, <1>8, <2>2, PlaceEnd
    <3>2. p'.tokens = IF j = Len(s.pieces) THEN <<>> ELSE Rest(s, j + 1, 0)
      BY <2>1, <2>2, RestNext DEF TokensAt
    <3>3. ValidUpTo(s, j)
      <4>1. \A m \in 1..j : m \in 1..(j - 1) \/ m = j
        BY <1>3
      <4> QED BY <1>2, <3>1, <4>1 DEF ValidUpTo
    <3>4. j \in 0..Len(s.pieces)
      BY <1>3
    <3> QED BY <1>8, <3>1, <3>2, <3>3, <3>4, Arrives
  <2>3. CASE i + 1 # Len(t)
    <3>1. i + 1 \in 0..(Len(t) - 1)
      BY <1>3, <2>3
    <3> QED BY <1>2, <1>8, <2>1, <3>1 DEF Reached
  <2> QED BY <2>2, <2>3
<1> QED BY <1>6, <1>7, <1>8

-----------------------------------------------------------------------------
\* The directives

\* One of the first d directives has this command.
Seen(s, d, cmd)   == \E i \in 1..d : s.directives[i].cmd = cmd
IgnoredIn(s, d)   == {<<s.directives[i].type, <<s.directives[i].name>>>> :
                        i \in {j \in 1..d : s.directives[j].cmd = "ignore"}}
Remaining(s, d)   == SubSeq(s.directives, d + 1, Len(s.directives))

\* The call x has obeyed the first d directives of s.
Directed(x, keys, ignored, s, d) ==
    /\ x = [NoCall EXCEPT !.pc = "directives", !.directives = Remaining(s, d),
                          !.indexing = ~Seen(s, d, "ignore-file"),
                          !.skip_blocks = Seen(s, d, "skip-blocks") \/ Seen(s, d, "ignore-file")]
    /\ keys = Told(s, d) /\ ignored = IgnoredIn(s, d) /\ ~Seen(s, d, "invalid")

LEMMA NoCallType == NoCall \in CallType
<1>1. "OUT" \in State
  BY DEF State
<1> QED BY <1>1 DEF NoCall, CallType

LEMMA DirectedType ==
    ASSUME NEW s \in Script, NEW d \in 0..Len(s.directives), NEW x, NEW keys, NEW ignored,
           Directed(x, keys, ignored, s, d)
    PROVE  /\ x \in CallType /\ x.pc = "directives" /\ x.directives = Remaining(s, d)
           /\ x.tokens = <<>> /\ x.state = "OUT" /\ x.ns = <<>>
           /\ x.indexing = ~Seen(s, d, "ignore-file")
           /\ x.skip_blocks = (Seen(s, d, "skip-blocks") \/ Seen(s, d, "ignore-file"))
<1>1. Remaining(s, d) \in Seq(Directive)
  <2> DEFINE w == s.directives
  <2>1. w \in Seq(Directive) /\ d \in 0..Len(w)
    BY ScriptTypes
  <2> HIDE DEF w
  <2>2. SubSeq(w, d + 1, Len(w)) \in Seq(Directive)
    BY <2>1
  <2> QED BY <2>2 DEF w, Remaining
<1> DEFINE indexing    == ~Seen(s, d, "ignore-file")
           skip_blocks == Seen(s, d, "skip-blocks") \/ Seen(s, d, "ignore-file")
<1>2. indexing \in BOOLEAN /\ skip_blocks \in BOOLEAN
  OBVIOUS
<1>3. "OUT" \in State
  BY DEF State
<1>4. x = [NoCall EXCEPT !.pc = "directives", !.directives = Remaining(s, d),
                         !.indexing = indexing, !.skip_blocks = skip_blocks]
  BY DEF Directed
<1> HIDE DEF indexing, skip_blocks
<1>5. /\ x \in CallType /\ x.pc = "directives" /\ x.directives = Remaining(s, d)
      /\ x.tokens = <<>> /\ x.state = "OUT" /\ x.ns = <<>>
      /\ x.indexing = indexing /\ x.skip_blocks = skip_blocks
  <2>1. x \in CallType
    BY <1>1, <1>2, <1>4, NoCallType DEF CallType
  <2>2. /\ x.pc = "directives" /\ x.directives = Remaining(s, d)
        /\ x.tokens = <<>> /\ x.state = "OUT" /\ x.ns = <<>>
    BY <1>4 DEF NoCall
  <2>3. x.indexing = indexing /\ x.skip_blocks = skip_blocks
    BY <1>4 DEF NoCall
  <2> QED BY <2>1, <2>2, <2>3
<1> QED BY <1>5 DEF indexing, skip_blocks

LEMMA SeenNext ==
    ASSUME NEW s \in Script
    PROVE  /\ \A cmd : ~Seen(s, 0, cmd) /\ (Seen(s, Len(s.directives), cmd) <=> Has(s, cmd))
           /\ \A d \in 0..(Len(s.directives) - 1) : \A cmd :
                Seen(s, d + 1, cmd) <=> Seen(s, d, cmd) \/ s.directives[d + 1].cmd = cmd
           /\ IgnoredIn(s, 0) = {} /\ IgnoredIn(s, Len(s.directives)) = Ignored(s)
           /\ \A d \in 0..(Len(s.directives) - 1) :
                IgnoredIn(s, d + 1) =
                  IF s.directives[d + 1].cmd = "ignore"
                  THEN IgnoredIn(s, d) \cup
                         {<<s.directives[d + 1].type, <<s.directives[d + 1].name>>>>}
                  ELSE IgnoredIn(s, d)
<1>1. 1..0 = {} /\ Len(s.directives) \in Nat
  BY ScriptTypes
<1>2. \A d \in 0..(Len(s.directives) - 1) : 1..(d + 1) = (1..d) \cup {d + 1}
  BY <1>1
<1>3. \A d \in 0..(Len(s.directives) - 1) : \A cmd :
        Seen(s, d + 1, cmd) <=> Seen(s, d, cmd) \/ s.directives[d + 1].cmd = cmd
  BY <1>2 DEF Seen
<1>4. \A d \in 0..(Len(s.directives) - 1) :
        IgnoredIn(s, d + 1) =
          IF s.directives[d + 1].cmd = "ignore"
          THEN IgnoredIn(s, d) \cup
                 {<<s.directives[d + 1].type, <<s.directives[d + 1].name>>>>}
          ELSE IgnoredIn(s, d)
  BY <1>2 DEF IgnoredIn
<1> QED BY <1>1, <1>3, <1>4 DEF Seen, Has, IgnoredIn, Ignored

LEMMA RemainingNext ==
    ASSUME NEW s \in Script, NEW d \in 0..Len(s.directives)
    PROVE  /\ Remaining(s, d) = <<>> <=> d = Len(s.directives)
           /\ d # Len(s.directives) =>
                /\ Head(Remaining(s, d)) = s.directives[d + 1]
                /\ Tail(Remaining(s, d)) = Remaining(s, d + 1)
           /\ Remaining(s, 0) = s.directives
<1> DEFINE w == s.directives
<1>1. w \in Seq(Directive) /\ Len(w) \in Nat /\ d \in Nat /\ d <= Len(w)
  BY ScriptTypes
<1> HIDE DEF w
<1>2. SubSeq(w, 1, Len(w)) = w
  BY <1>1
<1>3. CASE d = Len(w)
  <2>1. SubSeq(w, d + 1, Len(w)) = <<>>
    BY <1>1, <1>3
  <2> QED BY <1>2, <1>3, <2>1 DEF Remaining, w
<1>4. CASE d # Len(w)
  <2>1. d + 1 \in 1..Len(w) /\ d + 1 \in 1..(Len(w) + 1)
    BY <1>1, <1>4
  <2>2. SubSeq(w, d + 1, Len(w)) \in Seq(Directive) /\ Len(SubSeq(w, d + 1, Len(w))) = Len(w) - d
    BY <1>1, <2>1
  <2>3. SubSeq(w, d + 1, Len(w)) # <<>>
    <3>1. Len(w) - d # 0 /\ Len(<<>>) = 0
      BY <1>1, <1>4
    <3> QED BY <2>2, <3>1
  <2>4. Head(SubSeq(w, d + 1, Len(w))) = w[d + 1]
    BY <1>1, <2>1, <2>2
  <2>5. Tail(SubSeq(w, d + 1, Len(w))) = SubSeq(w, (d + 1) + 1, Len(w))
    BY <1>1, <1>4, <2>1, HeadTailOfSubSeq
  <2> QED BY <1>2, <1>4, <2>3, <2>4, <2>5 DEF Remaining, w
<1> QED BY <1>3, <1>4

LEMMA DirectedStep ==
    ASSUME NEW s \in Script, NEW d \in 0..Len(s.directives),
           Directed(p, symbols, exclude_list, s, d), Next
    PROVE  /\ UNCHANGED script
           /\ \/ Stops /\ Has(s, "invalid")
              \/ /\ d + 1 \in 0..Len(s.directives)
                 /\ Directed(p', symbols', exclude_list', s, d + 1)
              \/ d = Len(s.directives) /\ StartTokens
<1> DEFINE n == Len(s.directives)
           c == s.directives[d + 1]
<1>1. /\ p \in CallType /\ p.pc = "directives" /\ p.directives = Remaining(s, d)
      /\ p.skip_blocks = (Seen(s, d, "skip-blocks") \/ Seen(s, d, "ignore-file"))
  BY DirectedType
<1>2. \/ Flag \/ Declare \/ exclude \/ InvalidDirective
      \/ StartTokens
  BY <1>1 DEF Next, ParseStep, parse, cleanup, EndRequest, SkipToken, Out, NamespaceFound,
     NamespacePart, NamespaceEnd, FunctionFound, NameFound, ConstFound, DefineFound, Define2,
     SkippingToEol, BlockString, BlockNoString, UnexpectedToken, In
<1>3. CASE StartTokens
  <2>1. Remaining(s, d) = <<>>
    BY <1>1, <1>3 DEF StartTokens
  <2> QED BY <1>3, <2>1, RemainingNext DEF StartTokens
<1>4. ASSUME InDirectives
      PROVE  /\ d \in 0..(n - 1) /\ d + 1 \in 0..n /\ d + 1 \in 1..n /\ (d + 1) - 1 = d
             /\ Line = c /\ Tail(p.directives) = Remaining(s, d + 1)
  <2>1. d # n
    BY <1>1, <1>4, RemainingNext DEF InDirectives
  <2>2. n \in Nat
    BY ScriptTypes
  <2>3. d \in 0..(n - 1) /\ d + 1 \in 0..n /\ d + 1 \in 1..n /\ (d + 1) - 1 = d
    BY <2>1, <2>2
  <2> QED BY <1>1, <2>1, <2>3, RemainingNext DEF Line
<1>5. CASE InvalidDirective
  <2>1. InDirectives /\ Line.cmd = "invalid" /\ Stops
    BY <1>5 DEF InvalidDirective, Throw, Stops
  <2>2. d + 1 \in 1..n /\ c.cmd = "invalid"
    BY <1>4, <2>1
  <2> QED BY <2>1, <2>2 DEF Has, Stops
<1>6. ASSUME InDirectives
      PROVE  /\ \A cmd : Seen(s, d + 1, cmd) <=> Seen(s, d, cmd) \/ c.cmd = cmd
             /\ IgnoredIn(s, d + 1) = IF c.cmd = "ignore"
                                      THEN IgnoredIn(s, d) \cup {<<c.type, <<c.name>>>>}
                                      ELSE IgnoredIn(s, d)
             /\ Told(s, d + 1) = IF c.cmd = "declare"
                                 THEN Append(Told(s, d), <<c.type, <<c.name>>>>)
                                 ELSE Told(s, d)
  <2>1. d \in 0..(n - 1) /\ d + 1 \in 1..n /\ (d + 1) - 1 = d
    BY <1>4, <1>6
  <2>2. /\ \A cmd : Seen(s, d + 1, cmd) <=> Seen(s, d, cmd) \/ c.cmd = cmd
        /\ IgnoredIn(s, d + 1) = IF c.cmd = "ignore"
                                 THEN IgnoredIn(s, d) \cup {<<c.type, <<c.name>>>>}
                                 ELSE IgnoredIn(s, d)
    BY <2>1, SeenNext
  <2>3. Told(s, d + 1) = IF c.cmd = "declare"
                         THEN Append(Told(s, (d + 1) - 1), <<c.type, <<c.name>>>>)
                         ELSE Told(s, (d + 1) - 1)
    BY <2>1, ToldNext
  <2> QED BY <2>1, <2>2, <2>3
<1>7. /\ p = [NoCall EXCEPT !.pc = "directives", !.directives = Remaining(s, d),
                !.indexing = ~Seen(s, d, "ignore-file"),
                !.skip_blocks = Seen(s, d, "skip-blocks") \/ Seen(s, d, "ignore-file")]
      /\ symbols = Told(s, d) /\ exclude_list = IgnoredIn(s, d) /\ ~Seen(s, d, "invalid")
  BY DEF Directed
<1> HIDE DEF c, n
<1>8. CASE Flag
  <2>1. /\ InDirectives /\ Line.cmd \in {"ignore-file", "skip-blocks"}
        /\ p' = [p EXCEPT !.directives = Tail(p.directives), !.skip_blocks = TRUE,
                          !.indexing = p.indexing /\ Line.cmd # "ignore-file"]
        /\ UNCHANGED <<script, symbols, exclude_list, result>>
    BY <1>8 DEF Flag
  <2>2. c.cmd \in {"ignore-file", "skip-blocks"}
    BY <1>4, <2>1
  <2>3. p.indexing = ~Seen(s, d, "ignore-file")
    BY DirectedType
  <2>4. /\ (p.indexing /\ Line.cmd # "ignore-file") = ~Seen(s, d + 1, "ignore-file")
        /\ TRUE = (Seen(s, d + 1, "skip-blocks") \/ Seen(s, d + 1, "ignore-file"))
        /\ ~Seen(s, d + 1, "invalid")
    BY <1>4, <1>6, <1>7, <2>1, <2>2, <2>3
  <2>5. p' = [NoCall EXCEPT !.pc = "directives", !.directives = Remaining(s, d + 1),
                !.indexing = ~Seen(s, d + 1, "ignore-file"),
                !.skip_blocks = Seen(s, d + 1, "skip-blocks") \/ Seen(s, d + 1, "ignore-file")]
    BY <1>4, <1>7, <2>1, <2>4 DEF NoCall
  <2>6. symbols' = Told(s, d + 1) /\ exclude_list' = IgnoredIn(s, d + 1)
    BY <1>6, <1>7, <2>1, <2>2
  <2>7. Directed(p', symbols', exclude_list', s, d + 1)
    BY <2>4, <2>5, <2>6 DEF Directed
  <2> QED BY <1>4, <2>1, <2>7 DEF n
<1>9. ASSUME c.cmd \in {"declare", "ignore"}, InDirectives,
             p' = [p EXCEPT !.directives = Tail(p.directives)]
      PROVE  /\ p' = [NoCall EXCEPT !.pc = "directives", !.directives = Remaining(s, d + 1),
                        !.indexing = ~Seen(s, d + 1, "ignore-file"),
                        !.skip_blocks = Seen(s, d + 1, "skip-blocks")
                                        \/ Seen(s, d + 1, "ignore-file")]
             /\ ~Seen(s, d + 1, "invalid")
  <2>1. /\ Seen(s, d + 1, "ignore-file") = Seen(s, d, "ignore-file")
        /\ Seen(s, d + 1, "skip-blocks") = Seen(s, d, "skip-blocks")
        /\ ~Seen(s, d + 1, "invalid")
    <3>1. \A cmd : Seen(s, d, cmd) \in BOOLEAN /\ Seen(s, d + 1, cmd) \in BOOLEAN
      BY DEF Seen
    <3> QED BY <1>6, <1>7, <1>9, <3>1
  <2> QED BY <1>4, <1>7, <1>9, <2>1 DEF NoCall
<1>10. CASE Declare
  <2>1. /\ InDirectives /\ Line.cmd = "declare"
        /\ symbols' = Append(symbols, <<Line.type, <<Line.name>>>>)
        /\ p' = [p EXCEPT !.directives = Tail(p.directives)]
        /\ UNCHANGED <<script, exclude_list, result>>
    BY <1>10 DEF Declare, addSymbol, key
  <2>2. Line = c /\ c.cmd = "declare"
    BY <1>4, <2>1
  <2>3. symbols' = Told(s, d + 1) /\ exclude_list' = IgnoredIn(s, d + 1)
    BY <1>6, <1>7, <2>1, <2>2
  <2>4. Directed(p', symbols', exclude_list', s, d + 1)
    BY <1>9, <2>1, <2>2, <2>3 DEF Directed
  <2> QED BY <1>4, <2>1, <2>4 DEF n
<1>11. CASE exclude
  <2>1. /\ InDirectives /\ Line.cmd = "ignore"
        /\ exclude_list' = exclude_list \cup {<<Line.type, <<Line.name>>>>}
        /\ p' = [p EXCEPT !.directives = Tail(p.directives)]
        /\ UNCHANGED <<script, symbols, result>>
    BY <1>11 DEF exclude, key
  <2>2. Line = c /\ c.cmd = "ignore"
    BY <1>4, <2>1
  <2>3. symbols' = Told(s, d + 1) /\ exclude_list' = IgnoredIn(s, d + 1)
    BY <1>6, <1>7, <2>1, <2>2
  <2>4. Directed(p', symbols', exclude_list', s, d + 1)
    BY <1>9, <2>1, <2>2, <2>3 DEF Directed
  <2> QED BY <1>4, <2>1, <2>4 DEF n
<1> QED BY <1>2, <1>3, <1>5, <1>8, <1>10, <1>11

-----------------------------------------------------------------------------
\* The invariant

\* The tokens of a script that the parser understands
Tokenized(x, keys, ignored, s) ==
    /\ ~Has(s, "invalid") /\ ignored = Ignored(s)
    /\ IF Has(s, "ignore-file")
       THEN x.tokens = <<>> /\ keys = KeysOfDirectives(s)
       ELSE AllUnderstood(s) /\ x.skip_blocks = Has(s, "skip-blocks") /\ Reached(x, keys, s)

ParseInv ==
    /\ p \in CallType
    /\ p.pc = "idle" =>
         /\ symbols = <<>> /\ exclude_list = {}
         /\ script # Null /\ Understood(script) =>
              result = IF IsValid(script) THEN Expected(script) ELSE Exception
    /\ p.pc # "idle" => script \in Script
    /\ p.pc = "directives" =>
         \E d \in 0..Len(script.directives) : Directed(p, symbols, exclude_list, script, d)
    /\ p.pc = "tokens" /\ Understood(script) => Tokenized(p, symbols, exclude_list, script)
    /\ p.pc = "failed" => result = Exception /\ (Understood(script) => ~IsValid(script))

LEMMA InitParseInv == Init => ParseInv
<1> SUFFICES ASSUME Init PROVE ParseInv
  OBVIOUS
<1>1. p = NoCall /\ p.pc = "idle" /\ symbols = <<>> /\ exclude_list = {} /\ script = Null
  BY DEF Init, NoCall
<1> QED BY <1>1, NoCallType DEF ParseInv

\* parse() is called: no directive has been seen.
LEMMA ParseBegins ==
    ASSUME ParseInv, NEW s \in Script, parse(s)
    PROVE  ParseInv'
<1>1. /\ symbols' = <<>> /\ exclude_list' = {} /\ script' = s
      /\ p' = [NoCall EXCEPT !.pc = "directives", !.directives = s.directives]
  BY DEF parse, ParseInv
<1>2. 0 \in 0..Len(s.directives)
  BY ScriptTypes
<1>3. Directed(p', symbols', exclude_list', s, 0)
  <2>1. \A cmd : Seen(s, 0, cmd) = FALSE
    BY DEF Seen
  <2>2. p' = [NoCall EXCEPT !.pc = "directives", !.directives = Remaining(s, 0),
                !.indexing = ~Seen(s, 0, "ignore-file"),
                !.skip_blocks = Seen(s, 0, "skip-blocks") \/ Seen(s, 0, "ignore-file")]
    <3>1. /\ NoCall.indexing = ~Seen(s, 0, "ignore-file")
          /\ NoCall.skip_blocks = (Seen(s, 0, "skip-blocks") \/ Seen(s, 0, "ignore-file"))
      BY <2>1 DEF NoCall
    <3>2. s.directives = Remaining(s, 0)
      BY <1>2, RemainingNext
    <3>3. p' = [NoCall EXCEPT !.pc = "directives", !.directives = Remaining(s, 0),
                  !.indexing = NoCall.indexing, !.skip_blocks = NoCall.skip_blocks]
      BY <1>1, <3>2 DEF NoCall
    <3> QED BY <3>1, <3>3
  <2> QED BY <1>1, <2>1, <2>2, ToldNext, SeenNext DEF Directed
<1>4. p' \in CallType /\ p'.pc = "directives"
  BY <1>2, <1>3, DirectedType
<1> QED BY <1>1, <1>2, <1>3, <1>4 DEF ParseInv

\* The tokens are taken once all directives have been obeyed.
LEMMA TokensBegin ==
    ASSUME NEW s \in Script, Directed(p, symbols, exclude_list, s, Len(s.directives)),
           script = s, StartTokens
    PROVE  /\ p' \in CallType /\ p'.pc = "tokens"
           /\ Understood(s) => Tokenized(p', symbols', exclude_list', s)
<1> DEFINE toks == IF p.indexing THEN Whole(s) ELSE <<>>
<1>1. /\ p \in CallType /\ p.state = "OUT" /\ p.ns = <<>>
      /\ p.indexing = ~Has(s, "ignore-file")
      /\ p.skip_blocks = (Has(s, "skip-blocks") \/ Has(s, "ignore-file"))
  <2>1. Len(s.directives) \in 0..Len(s.directives)
    BY ScriptTypes
  <2>2. \A cmd : Seen(s, Len(s.directives), cmd) = Has(s, cmd)
    BY DEF Seen, Has
  <2> QED BY <2>1, <2>2, DirectedType
<1>2. symbols = KeysOfDirectives(s) /\ exclude_list = Ignored(s) /\ ~Has(s, "invalid")
  BY ToldNext, SeenNext DEF Directed
<1>3. /\ p' = [p EXCEPT !.pc = "tokens", !.tokens = toks]
      /\ UNCHANGED <<script, symbols, exclude_list, result>>
  <2>1. FlattenSeq([i \in 1..Len(s.pieces) |-> s.pieces[i].tokens]) = Whole(s)
    BY WholeType DEF TokensOf
  <2> QED BY <2>1 DEF StartTokens
<1>4. toks \in Seq(Token)
  <2>1. Whole(s) \in Seq(Token)
    BY WholeType
  <2>2. \A S : <<>> \in Seq(S)
    OBVIOUS
  <2> QED BY <2>1, <2>2
<1>5. (p.indexing => toks = Whole(s)) /\ (~p.indexing => toks = <<>>)
  OBVIOUS
<1> HIDE DEF toks
<1>6. /\ p' \in CallType /\ p'.pc = "tokens" /\ p'.tokens = toks
      /\ p'.state = "OUT" /\ p'.ns = <<>> /\ p'.skip_blocks = p.skip_blocks
  BY <1>1, <1>3, <1>4 DEF CallType
<1>7. ASSUME Understood(s), ~Has(s, "ignore-file")
      PROVE  AllUnderstood(s) /\ Reached(p', symbols', s)
  <2>1. AllUnderstood(s)
    BY <1>2, <1>7 DEF Understood, AllUnderstood
  <2>2. p'.tokens = IF 0 = Len(s.pieces) THEN <<>> ELSE Rest(s, 0 + 1, 0)
    <3>1. p'.tokens = Whole(s)
      <4>1. p.indexing
        BY <1>1, <1>7
      <4> QED BY <1>5, <1>6, <4>1
    <3> QED BY <3>1, RestAll
  <2>3. NamespaceAt(s, 0) = <<>> /\ FoundIn(s, 0) = KeysOfDirectives(s)
    BY NamespaceNext, FoundNext
  <2>4. After(p', symbols', s, 0) /\ Clean(NamespaceAt(s, 0)) /\ ValidUpTo(s, 0)
    <3>1. ValidUpTo(s, 0)
      BY DEF ValidUpTo
    <3>2. Clean(NamespaceAt(s, 0))
      <4>1. <<>> \in Seq(Name \cup {Sep})
        OBVIOUS
      <4> QED BY <2>3, <4>1 DEF Clean
    <3> QED BY <1>2, <1>3, <1>6, <2>3, <3>1, <3>2 DEF After
  <2>5. 0 \in 0..Len(s.pieces)
    BY ScriptTypes
  <2>6. Reached(p', symbols', s)
    BY <1>6, <2>1, <2>2, <2>4, <2>5, Arrives
  <2> QED BY <2>1, <2>6
<1>8. ASSUME Understood(s) PROVE Tokenized(p', symbols', exclude_list', s)
  <2>1. CASE Has(s, "ignore-file")
    <3>1. p'.tokens = <<>>
      BY <1>1, <1>5, <1>6, <2>1
    <3> QED BY <1>2, <1>3, <2>1, <3>1 DEF Tokenized
  <2>2. CASE ~Has(s, "ignore-file")
    <3>1. p'.skip_blocks = Has(s, "skip-blocks")
      <4>1. Has(s, "skip-blocks") \in BOOLEAN
        BY DEF Has
      <4> QED BY <1>1, <1>6, <2>2, <4>1
    <3> QED BY <1>2, <1>3, <1>7, <1>8, <2>2, <3>1 DEF Tokenized
  <2> QED BY <2>1, <2>2
<1> QED BY <1>6, <1>8

\* A token is read or refused, whatever the script.
LEMMA TokenRead ==
    ASSUME NEW tok, Reads(tok), Next
    PROVE  Stops \/ Advances
<1>1. p.state \in State
  BY DEF Reads, CallType
<1>2. \A st, l, ks, ns : Moves(st, l, ks, ns) => Advances
  BY DEF Moves, Goes
<1>3. CASE p.state = "OUT"
  BY <1>2, <1>3, OutStep
<1>4. CASE p.state \in {"CLASS_FOUND", "FUNCTION_FOUND"}
  BY <1>2, <1>4, NamedStep
<1>5. CASE p.state = "CONST_FOUND"
  BY <1>2, <1>5, ConstStep
<1>6. CASE p.state = "DEFINE_FOUND"
  BY <1>2, <1>6, DefineStep
<1>7. CASE p.state = "DEFINE_2"
  BY <1>2, <1>7, Define2Step
<1>8. CASE p.state = "SKIPPING_TO_EOL"
  BY <1>2, <1>8, EolStep
<1>9. CASE p.state = "NAMESPACE_FOUND"
  BY <1>2, <1>9, NamespaceStep
<1>10. CASE p.state = "NAMESPACE_2"
  BY <1>2, <1>10, Namespace2Step
<1>11. CASE p.state \in {"SKIPPING_BLOCK_STRING", "SKIPPING_BLOCK_NOSTRING"}
  BY <1>2, <1>11, BlockStep
<1> QED BY <1>1, <1>3, <1>4, <1>5, <1>6, <1>7, <1>8, <1>9, <1>10, <1>11 DEF State

\* When all tokens have been read, what was found is what the script declares.
LEMMA AllRead ==
    ASSUME NEW s \in Script, NEW x, NEW keys, NEW ignored,
           Tokenized(x, keys, ignored, s), x.tokens = <<>>
    PROVE  IsValid(s) /\ Without(keys, ignored) = Expected(s)
<1>1. CASE Has(s, "ignore-file")
  <2>1. ~Has(s, "invalid") /\ ignored = Ignored(s) /\ keys = KeysOfDirectives(s)
    BY <1>1 DEF Tokenized
  <2>2. KeysOfDirectives(s) \o <<>> = KeysOfDirectives(s)
    <3>1. Len(s.directives) \in 0..Len(s.directives)
      BY ScriptTypes
    <3>2. KeysOfDirectives(s) \in Seq(Key)
      BY <3>1, ToldNext
    <3>3. \A k \in Seq(Key) : k \o <<>> = k
      OBVIOUS
    <3> QED BY <3>2, <3>3
  <2>3. Expected(s) = Without(KeysOfDirectives(s), Ignored(s))
    BY <1>1, <2>2 DEF Expected
  <2> QED BY <1>1, <2>1, <2>3 DEF IsValid
<1>2. CASE ~Has(s, "ignore-file")
  <2>1. ~Has(s, "invalid") /\ ignored = Ignored(s) /\ Reached(x, keys, s)
    BY <1>2 DEF Tokenized
  <2>2. keys = FoundIn(s, Len(s.pieces)) /\ ValidUpTo(s, Len(s.pieces))
    BY <2>1, RestStep DEF Reached, TokensAt
  <2>3. keys = KeysOfDirectives(s) \o KeysOfPieces(s)
    BY <2>2, FoundNext
  <2>4. Expected(s) = Without(KeysOfDirectives(s) \o KeysOfPieces(s), Ignored(s))
    BY <1>2 DEF Expected
  <2> QED BY <2>1, <2>2, <2>3, <2>4 DEF IsValid, ValidUpTo
<1> QED BY <1>1, <1>2

LEMMA NextParseInv == ParseInv /\ [Next]_vars => ParseInv'
<1> SUFFICES ASSUME ParseInv, [Next]_vars PROVE ParseInv'
  OBVIOUS
<1>1. CASE UNCHANGED vars
  BY <1>1 DEF vars, ParseInv
<1>0. p \in CallType /\ p.pc \in {"idle", "directives", "tokens", "failed"}
  BY DEF ParseInv, CallType
<1> DEFINE Failure == [NoCall EXCEPT !.pc = "failed"]
<1>2. Failure \in CallType /\ Failure.pc = "failed"
  BY NoCallType DEF NoCall, CallType
<1>3. NoCall \in CallType /\ NoCall.pc = "idle"
  BY NoCallType DEF NoCall
<1>4. ASSUME Next, p.pc = "idle" PROVE ParseInv'
  <2>1. PICK s \in Script : parse(s)
    BY <1>4 DEF Next, ParseStep, Flag, Declare, exclude, InvalidDirective, InDirectives,
       StartTokens, cleanup, EndRequest, SkipToken, Out, NamespaceFound, NamespacePart,
       NamespaceEnd, FunctionFound, NameFound, ConstFound, DefineFound, Define2,
       SkippingToEol, BlockString, BlockNoString, UnexpectedToken, In
  <2> QED BY <2>1, ParseBegins
<1>5. ASSUME Next, p.pc = "directives" PROVE ParseInv'
  <2>1. PICK s : s = script
    OBVIOUS
  <2>2. s \in Script
    BY <1>5, <2>1 DEF ParseInv
  <2>3. PICK d \in 0..Len(s.directives) : Directed(p, symbols, exclude_list, s, d)
    BY <1>5, <2>1 DEF ParseInv
  <2>4. /\ script' = s
        /\ \/ Stops /\ Has(s, "invalid")
           \/ /\ d + 1 \in 0..Len(s.directives)
              /\ Directed(p', symbols', exclude_list', s, d + 1)
           \/ d = Len(s.directives) /\ StartTokens
    BY <1>5, <2>1, <2>2, <2>3, DirectedStep
  <2>5. CASE Stops /\ Has(s, "invalid")
    <3>1. p' = Failure /\ result' = Exception /\ ~IsValid(s)
      BY <2>5 DEF Stops, IsValid
    <3> QED BY <1>2, <2>2, <2>4, <3>1 DEF ParseInv
  <2>6. CASE /\ d + 1 \in 0..Len(s.directives)
             /\ Directed(p', symbols', exclude_list', s, d + 1)
    <3>1. p' \in CallType /\ p'.pc = "directives"
      BY <2>2, <2>6, DirectedType
    <3> QED BY <2>2, <2>4, <2>6, <3>1 DEF ParseInv
  <2>7. CASE d = Len(s.directives) /\ StartTokens
    <3>1. /\ p' \in CallType /\ p'.pc = "tokens"
          /\ Understood(s) => Tokenized(p', symbols', exclude_list', s)
      BY <2>1, <2>2, <2>3, <2>7, TokensBegin
    <3> QED BY <2>2, <2>4, <3>1 DEF ParseInv
  <2> QED BY <2>4, <2>5, <2>6, <2>7
<1>6. ASSUME Next, p.pc = "tokens", p.tokens # <<>> PROVE ParseInv'
  <2>1. PICK s : s = script
    OBVIOUS
  <2>2. s \in Script /\ (Understood(s) => Tokenized(p, symbols, exclude_list, s))
    BY <1>6, <2>1 DEF ParseInv
  <2>3. Stops \/ Advances
    <3>1. Head(p.tokens) \in Token
      BY <1>0, <1>6 DEF CallType
    <3>2. Reads(Head(p.tokens))
      BY <1>0, <1>6, <3>1 DEF Reads
    <3> QED BY <1>6, <3>2, TokenRead
  <2>4. script' = s
    BY <2>1, <2>3 DEF Stops, Advances
  <2>5. ~(Stops /\ Advances)
    BY <1>2 DEF Stops, Advances
  <2>6. ASSUME Understood(s)
        PROVE  \/ Stops /\ ~IsValid(s)
               \/ Advances /\ Tokenized(p', symbols', exclude_list', s)
    <3>1. /\ ~Has(s, "invalid") /\ exclude_list = Ignored(s) /\ ~Has(s, "ignore-file")
          /\ AllUnderstood(s) /\ p.skip_blocks = Has(s, "skip-blocks")
          /\ Reached(p, symbols, s)
      BY <1>6, <2>2, <2>6 DEF Tokenized
    <3>2. \/ Stops /\ ~ValidUpTo(s, Len(s.pieces))
          \/ Advances /\ Reached(p', symbols', s)
      BY <1>0, <1>6, <2>2, <3>1, ReachedStep
    <3>3. ~ValidUpTo(s, Len(s.pieces)) => ~IsValid(s)
      BY <3>1 DEF ValidUpTo, IsValid
    <3>4. Advances => p'.skip_blocks = p.skip_blocks /\ exclude_list' = exclude_list
      BY DEF Advances
    <3> QED BY <3>1, <3>2, <3>3, <3>4 DEF Tokenized
  <2>7. CASE Stops
    <3>1. p' = Failure /\ result' = Exception
      BY <2>7 DEF Stops
    <3>2. Understood(s) => ~IsValid(s)
      BY <2>5, <2>6, <2>7
    <3> QED BY <1>2, <2>2, <2>4, <3>1, <3>2 DEF ParseInv
  <2>8. CASE Advances
    <3>1. p' \in CallType /\ p'.pc = "tokens"
      BY <2>8 DEF Advances
    <3>2. Understood(s) => Tokenized(p', symbols', exclude_list', s)
      BY <2>5, <2>6, <2>8
    <3> QED BY <2>2, <2>4, <3>1, <3>2 DEF ParseInv
  <2> QED BY <2>3, <2>7, <2>8
<1>7. ASSUME Next, p.pc = "tokens", p.tokens = <<>> PROVE ParseInv'
  <2>1. cleanup
    BY <1>7 DEF Next, ParseStep, parse, Flag, Declare, exclude, InvalidDirective, InDirectives,
       StartTokens, EndRequest, SkipToken, Out, NamespaceFound, NamespacePart,
       NamespaceEnd, FunctionFound, NameFound, ConstFound, DefineFound, Define2,
       SkippingToEol, BlockString, BlockNoString, UnexpectedToken, In
  <2>2. PICK s : s = script
    OBVIOUS
  <2>3. s \in Script /\ (Understood(s) => Tokenized(p, symbols, exclude_list, s))
    BY <1>7, <2>2 DEF ParseInv
  <2>4. /\ result' = Without(symbols, exclude_list) /\ symbols' = <<>> /\ exclude_list' = {}
        /\ p' = NoCall /\ script' = s
    BY <2>1, <2>2 DEF cleanup
  <2>5. Understood(s) => IsValid(s) /\ result' = Expected(s)
    BY <1>7, <2>3, <2>4, AllRead
  <2> QED BY <1>3, <2>4, <2>5 DEF ParseInv
<1>8. ASSUME Next, p.pc = "failed" PROVE ParseInv'
  <2>1. EndRequest
    BY <1>8 DEF Next, ParseStep, parse, Flag, Declare, exclude, InvalidDirective, InDirectives,
       StartTokens, cleanup, SkipToken, Out, NamespaceFound, NamespacePart,
       NamespaceEnd, FunctionFound, NameFound, ConstFound, DefineFound, Define2,
       SkippingToEol, BlockString, BlockNoString, UnexpectedToken, In
  <2>2. /\ symbols' = <<>> /\ exclude_list' = {} /\ p' = NoCall
        /\ script' = script /\ result' = result
    BY <2>1 DEF EndRequest
  <2>3. result = Exception /\ (Understood(script) => ~IsValid(script))
    BY <1>8 DEF ParseInv
  <2>4. Understood(script) => result' = IF IsValid(script) THEN Expected(script) ELSE Exception
    BY <2>2, <2>3
  <2> QED BY <1>3, <2>2, <2>4 DEF ParseInv
<1> QED BY <1>0, <1>1, <1>4, <1>5, <1>6, <1>7, <1>8

\* Of a script that it understands, the parser returns exactly the symbols that
\* its directives and pieces declare, in their order, and it throws an exception
\* exactly for those with an invalid directive or a broken declaration: from the
\* tokens alone, for scripts of any length, whatever was parsed before.
THEOREM ParseExactInvariant == Spec => [](Understood(script) => ParseExact)
<1>1. Init => ParseInv
  BY InitParseInv
<1>2. ParseInv /\ [Next]_vars => ParseInv'
  BY NextParseInv
<1>3. ParseInv => (Understood(script) => ParseExact)
  BY DEF ParseInv, ParseExact
<1> QED BY <1>1, <1>2, <1>3, PTL DEF Spec
=============================================================================
