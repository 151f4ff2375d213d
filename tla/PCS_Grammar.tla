---------------------------- MODULE PCS_Grammar ----------------------------
(***************************************************************************)
(* The scripts that the parser understands, as a grammar of their pieces.  *)
(* It speaks of tokens only and knows nothing of the automaton.            *)
(*                                                                         *)
(* A piece is plain code, one declaration, namespace or block, and plain   *)
(* code again; any script is a sequence of such pieces unless it has a     *)
(* construct that the parser misreads: a declaration without a body, a     *)
(* list of constants, A::class, "${x}" in a heredoc.                       *)
(***************************************************************************)
EXTENDS PCS_Parser

\* The characters that the grammar knows
IsParen(tok)     == tok = <<"char", "(">>
IsAmpersand(tok) == tok = <<"char", "&">>
IsSemicolon(tok) == tok = <<"char", ";">>
IsQuote(tok)     == tok = <<"char", "\"">>
IsBrace(tok)     == tok = <<"char", "{">>
IsOpening(tok)   == IsBrace(tok) \/ tok[1] = "curly_open"
IsClosing(tok)   == tok = <<"char", "}">>
IsBlank(tok)     == tok[1] \in {"whitespace", "comment"}

\* Below, t is the tokens of a piece, and a and b where a part of it begins and
\* ends.
Blank(t, a, b)     == \A i \in a..b : IsBlank(t[i])
Reference(t, a, b) == \A i \in a..b : IsBlank(t[i]) \/ IsAmpersand(t[i])
Comments(t, a, b)  == \A i \in a..b : t[i][1] = "comment"

\* What stands before and after a declaration: any code with closures and names
\* like namespace\f, but no other keyword and, with skip-blocks, no block.
Plain(t, a, b, skip) ==
    \A i \in a..b :
      /\ t[i][1] \notin {"class", "const"} /\ t[i] # <<"string", "define">>
      /\ t[i][1] = "function" =>
           \E k \in (i + 1)..b : IsParen(t[k]) /\ Reference(t, i + 1, k - 1)
      /\ t[i][1] = "namespace" =>
           \E k \in (i + 1)..b : t[k][1] = "separator" /\ Comments(t, i + 1, k - 1)
      /\ skip => ~IsBrace(t[i])

\* The braces outside of double-quoted strings; every second quote ends one.
Quotes(t, a, i)   == Cardinality({k \in a..i : IsQuote(t[k])})
Opening(t, a, i)  == {k \in a..i : IsOpening(t[k]) /\ Quotes(t, a, k) % 2 = 0}
Closing(t, a, i)  == {k \in a..i : IsClosing(t[k]) /\ Quotes(t, a, k) % 2 = 0}
Depth(t, a, i)    == Cardinality(Opening(t, a, i)) - Cardinality(Closing(t, a, i))

\* A block, with what is before it, ends with the brace that closes its first one.
Block(t, a, b) ==
    /\ a <= b /\ b \in Closing(t, a, b) /\ Depth(t, a, b) = 0
    /\ \A i \in Closing(t, a, b - 1) : Depth(t, a, i) > 0

Class(t, a, b, d) ==
    /\ t[a][1] = "class" /\ d.type = T_CLASS /\ ~d.global
    /\ \E n \in (a + 1)..b :
         Blank(t, a + 1, n - 1) /\ t[n] = <<"string", d.name>> /\ Block(t, n + 1, b)
Function(t, a, b, d) ==
    /\ t[a][1] = "function" /\ d.type = T_FUNCTION /\ ~d.global
    /\ \E n \in (a + 1)..b :
         Reference(t, a + 1, n - 1) /\ t[n] = <<"string", d.name>> /\ Block(t, n + 1, b)
Const(t, a, b, d) ==
    /\ t[a][1] = "const" /\ d.type = T_CONSTANT /\ ~d.global
    /\ a < b /\ Blank(t, a + 1, b - 1) /\ t[b] = <<"string", d.name>>
\* A literal of define() spells the constant's name: one with an escape in it,
\* whose source text is not the name, is left out.
Define(t, a, b, d) ==
    /\ t[a] = <<"string", "define">> /\ d.type = T_CONSTANT /\ d.global
    /\ \E m \in (a + 1)..b, n \in (a + 1)..b :
         /\ m < n /\ n < b
         /\ Blank(t, a + 1, m - 1) /\ IsParen(t[m])
         /\ Blank(t, m + 1, n - 1) /\ t[n] = <<"literal", d.name>>
         /\ IsSemicolon(t[b]) /\ \A i \in (n + 1)..(b - 1) : ~IsSemicolon(t[i])

NamePart(tok) == IF tok[1] = "string" THEN <<tok[2]>>
                 ELSE IF tok[1] = "separator" THEN <<Sep>> ELSE <<>>
Namespace(t, a, b, ns) ==
    /\ t[a][1] = "namespace" /\ ns # Null
    /\ \E w \in (a + 1)..(b - 1) :
         /\ Comments(t, a + 1, w - 1) /\ t[w][1] = "whitespace"
         /\ \A i \in (w + 1)..(b - 1) : IsBlank(t[i]) \/ t[i][1] \in {"string", "separator"}
         /\ ~IsBlank(t[b]) /\ t[b][1] \notin {"string", "separator"}
         /\ ns = FlattenSeq([i \in 1..(b - 1 - w) |-> NamePart(t[w + i])])
         /\ ns # <<>> => ns[1] # Sep /\ ns[Len(ns)] # Sep

\* A keyword that something else than a name follows
Broken(t, a) ==
    \/ /\ t[a][1] \in {"class", "const"}
       /\ \E n \in (a + 1)..Len(t) :
            Blank(t, a + 1, n - 1) /\ ~IsBlank(t[n]) /\ t[n][1] # "string"
    \/ /\ t[a][1] = "function"
       /\ \E n \in (a + 1)..Len(t) :
            /\ Reference(t, a + 1, n - 1) /\ ~IsBlank(t[n]) /\ t[n][1] # "string"
            /\ ~IsAmpersand(t[n]) /\ ~IsParen(t[n])
    \/ /\ t[a] = <<"string", "define">>
       /\ \E m \in (a + 1)..Len(t) :
            /\ Blank(t, a + 1, m - 1) /\ ~IsBlank(t[m])
            /\ IsParen(t[m]) =>
                 \E n \in (m + 1)..Len(t) :
                   Blank(t, m + 1, n - 1) /\ ~IsBlank(t[n]) /\ t[n][1] # "literal"

\* The part a..b of piece q, with skip-blocks or without
Nothing(a, b, q) == b = a - 1 /\ q.valid /\ q.declares = <<>> /\ q.namespace = Null
Declaration(a, b, q, skip) ==
    /\ a <= b /\ q.valid /\ q.namespace = Null
    /\ \E d \in {q.declares[i] : i \in 1..Len(q.declares)} :
         /\ q.declares = <<d>> /\ ~(skip /\ d.block)
         /\ \/ Class(q.tokens, a, b, d)
            \/ Function(q.tokens, a, b, d)
            \/ Const(q.tokens, a, b, d)
            \/ Define(q.tokens, a, b, d)
Begins(a, b, q) ==
    a <= b /\ q.valid /\ q.declares = <<>> /\ Namespace(q.tokens, a, b, q.namespace)
SkippedBlock(a, b, q, skip) ==
    /\ skip /\ a <= b /\ q.valid /\ q.namespace = Null
    /\ \A i \in 1..Len(q.declares) : q.declares[i].block
    /\ IsBrace(q.tokens[a]) /\ Block(q.tokens, a, b)
Refused(a, b, q) == a <= b /\ b = Len(q.tokens) /\ ~q.valid /\ Broken(q.tokens, a)

Cut(a, b, q, skip) ==
    /\ Plain(q.tokens, 1, a - 1, skip)
    /\ \/ Nothing(a, b, q) \/ Declaration(a, b, q, skip) \/ Begins(a, b, q)
       \/ SkippedBlock(a, b, q, skip) \/ Refused(a, b, q)
    /\ Plain(q.tokens, b + 1, Len(q.tokens), skip)

UnderstoodPiece(q, skip) ==
    /\ q.tokens # <<>>
    /\ \E a \in 1..(Len(q.tokens) + 1), b \in 0..Len(q.tokens) : Cut(a, b, q, skip)

Understood(s) ==
    ~Has(s, "invalid") /\ ~Has(s, "ignore-file") =>
      \A j \in 1..Len(s.pieces) : UnderstoodPiece(s.pieces[j], Has(s, "skip-blocks"))
=============================================================================
