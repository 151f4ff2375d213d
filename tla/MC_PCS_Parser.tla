--------------------------- MODULE MC_PCS_Parser ---------------------------
(***************************************************************************)
(* Pieces of scripts with the tokens that token_get_all() makes of them.   *)
(***************************************************************************)
EXTENDS PCS_Grammar

MC_Name == {"A", "B", "N", "M", "x"}

Ch(ch)  == <<"char", ch>>
Str(n)  == <<"string", n>>
Kw(kind) == <<kind, "">>
Ws      == Kw("whitespace")
Other   == Kw("other")
Curly   == <<"curly_open", "{">>

Decl(type, name) == [type |-> type, name |-> name, block |-> FALSE, global |-> FALSE]
Tokens(toks) ==
    [tokens |-> toks, valid |-> TRUE, declares |-> <<>>, namespace |-> Null]
Declares(toks, d) == [Tokens(toks) EXCEPT !.declares = <<d>>]

\* function x($y) { <<<heredoc with {$y}>>> "${y}" }
Method == <<Kw("function"), Ws, Str("x"), Ch("("), Other, Ch(""), Ws, Ch("{"),
            Other, Curly, Other, Ch("}"), Other,
            Ch("\""), Other, Other, Ch("}"), Ch("\""), Ch("}")>>

\* class A { two methods }
ClassA == Declares(<<Kw("class"), Ws, Str("A"), Ws, Ch("{")>> \o Method \o Method
                   \o <<Ch("}")>>, Decl(T_CLASS, "A"))
\* function & /* */ B() { { } }
FunctionB == Declares(<<Kw("function"), Ws, Ch("&"), Kw("comment"), Str("B"), Ch("("),
                        Ch(""), Ch("{"), Ch("{"), Ch("}"), Ch("}")>>,
                      Decl(T_FUNCTION, "B"))
\* $f = function() { };
Closure == Tokens(<<Other, Ch(""), Kw("function"), Ch("("), Ch(""), Ch("{"), Ch("}"),
                    Ch(";")>>)
\* const A = 1;
ConstA == Declares(<<Kw("const"), Ws, Str("A"), Ch(""), Other, Ch(";")>>,
                   Decl(T_CONSTANT, "A"))
\* define('B', 1);
DefineB == Declares(<<Str("define"), Ch("("), <<"literal", "B">>, Ch(""), Other, Ch(""),
                      Ch(";")>>, [Decl(T_CONSTANT, "B") EXCEPT !.global = TRUE])
\* namespace N\M;   namespace N {   namespace {
NamespaceNM == [Tokens(<<Kw("namespace"), Ws, Str("N"), Kw("separator"), Str("M"), Ch(";")>>)
                EXCEPT !.namespace = <<"N", Sep, "M">>]
NamespaceBlock == [Tokens(<<Kw("namespace"), Ws, Str("N"), Ws, Ch("{")>>)
                     EXCEPT !.namespace = <<"N">>]
GlobalBlock == [Tokens(<<Ch("}"), Kw("namespace"), Ws, Ch("{")>>)
                  EXCEPT !.namespace = <<>>]
\* namespace\x();
Relative == Tokens(<<Kw("namespace"), Kw("separator"), Str("x"), Ch("("), Ch(""), Ch(";")>>)
\* if (...) { class A { } }
Conditional == Declares(<<Other, Ch("("), Other, Ch(""), Ch("{"), Kw("class"), Ws,
                          Str("A"), Ch("{"), Ch("}"), Ch("}")>>,
                        [Decl(T_CLASS, "A") EXCEPT !.block = TRUE])
\* const = 1;
BrokenConst == [Tokens(<<Kw("const"), Ws, Ch(""), Other, Ch(";")>>) EXCEPT !.valid = FALSE]

Statement == {ClassA, FunctionB, Closure, ConstA, DefineB, NamespaceNM, NamespaceBlock,
              GlobalBlock, Relative, Conditional, BrokenConst}

\* All of them are in the grammar of what the parser understands.
ASSUME StatementsUnderstood ==
    \A q \in Statement, skip \in BOOLEAN : UnderstoodPiece(q, skip)

Line_(cmd, type, name) == [cmd |-> cmd, type |-> type, name |-> name]
DirectiveList ==
    {<<>>,
     <<Line_("skip-blocks", T_CLASS, "x")>>,
     <<Line_("ignore", T_CLASS, "A"), Line_("declare", T_FUNCTION, "A")>>,
     <<Line_("declare", T_CLASS, "A"), Line_("ignore-file", T_CLASS, "x")>>,
     <<Line_("ignore", T_CONSTANT, "B"), Line_("invalid", T_CLASS, "x")>>}

Pieces(n) == UNION {[1..k -> Statement] : k \in 0..n}
MC_Script ==
    [directives : DirectiveList, pieces : Pieces(2)]
    \cup [directives : {<<>>}, pieces : {<<NamespaceNM>> \o q : q \in Pieces(2)}]
=============================================================================
