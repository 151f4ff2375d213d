----------------------------- MODULE PCS_Parser -----------------------------
(***************************************************************************)
(* StringParser (src/php/src/internal/parser/StringParser.php), which the  *)
(* loader runs on every script to find out which symbols it declares.      *)
(* parse() takes the "// <Parser>:" directives of the script first and     *)
(* then runs an automaton over its tokens, one token per action.           *)
(*                                                                         *)
(* A script is a sequence of pieces, statements with the tokens that       *)
(* token_get_all() makes of them; what a piece declares is the reference   *)
(* that the automaton, which only sees the tokens, is compared with.  A    *)
(* token is its number and its value, number "char" standing for -1; the   *)
(* value is "" where the automaton does not look at it, and the value of a *)
(* string literal is its source text without the quotes: an escape in it   *)
(* is not decoded, neither here nor in the code.                           *)
(***************************************************************************)
EXTENDS Naturals, Sequences, FiniteSetsExt, SequencesExt

CONSTANTS
    Script,         \* the scripts that are parsed
    Name,           \* identifiers
    Exception,      \* stands for an exception thrown by a call
    Null

Sep == "\\"                             \* the namespace separator

\* Symbol types; the prefix makes the key of a symbol
T_CLASS    == "L"
T_FUNCTION == "F"
T_CONSTANT == "C"
SymbolType == {T_CLASS, T_FUNCTION, T_CONSTANT}

TokenNum == {"char", "function", "class", "namespace", "const", "string", "whitespace",
             "comment", "separator", "curly_open", "literal", "other"}
Token == (TokenNum \ {"curly_open"}) \X (Name \cup {"", "define", "(", "&", "{", "}", ";", "\""})
         \cup {<<"curly_open", "{">>}

\* What a piece declares: block for a declaration in a conditional block,
\* global for one that takes no namespace.  namespace is the one it begins.
Piece == [tokens : Seq(Token), valid : BOOLEAN,
          declares : Seq([type : SymbolType, name : Name, block : BOOLEAN,
                          global : BOOLEAN]),
          namespace : Seq(Name \cup {Sep}) \cup {Null}]
Directive == [cmd : {"declare", "ignore", "ignore-file", "skip-blocks", "invalid"},
              type : SymbolType, name : Name]

ASSUME ScriptAssumption ==
    /\ \A s \in Script : s.directives \in Seq(Directive) /\ s.pieces \in Seq(Piece)
    /\ Null # Exception /\ Null \notin Seq(Name \cup {Sep})

VARIABLES
    script,         \* the argument of the last parse() call
    p,              \* the local variables of the call in progress
    symbols,        \* static: keys found so far
    exclude_list,   \* static: keys to leave out
    result          \* what the last call returned, or Exception

vars == <<script, p, symbols, exclude_list, result>>

NoCall == [pc |-> "idle", directives |-> <<>>, indexing |-> TRUE,
           skip_blocks |-> FALSE, tokens |-> <<>>, state |-> "OUT",
           block_level |-> 0, name |-> <<>>, ns |-> <<>>]

Init ==
    /\ script = Null
    /\ p = NoCall
    /\ symbols = <<>>
    /\ exclude_list = {}
    /\ result = Null

-----------------------------------------------------------------------------
\* Helpers

key(type, name) == <<type, name>>

\* A name is the sequence of its parts and separators
Trim(ns) ==
    LET kept == {i \in 1..Len(ns) : ns[i] # Sep} IN
      IF kept = {} THEN <<>> ELSE SubSeq(ns, Min(kept), Max(kept))
combineNSSymbol(ns, name) ==
    IF Trim(ns) = <<>> THEN <<name>> ELSE Trim(ns) \o <<Sep, name>>

addSymbol(type, name) == symbols' = Append(symbols, key(type, name))

Without(keys, excluded) == SelectSeq(keys, LAMBDA k : k \notin excluded)

Throw ==
    /\ p' = [NoCall EXCEPT !.pc = "failed"]
    /\ result' = Exception
    /\ UNCHANGED <<script, symbols, exclude_list>>

-----------------------------------------------------------------------------
\* The call, and the directives

parse(s) ==
    /\ p.pc = "idle"
    /\ script' = s
    /\ p' = [NoCall EXCEPT !.pc = "directives", !.directives = s.directives]
    /\ result' = Null
    /\ UNCHANGED <<symbols, exclude_list>>

InDirectives == p.pc = "directives" /\ p.directives # <<>>
Line == Head(p.directives)

\* ignore-file falls through to skip-blocks
Flag ==
    /\ InDirectives /\ Line.cmd \in {"ignore-file", "skip-blocks"}
    /\ p' = [p EXCEPT !.directives = Tail(@), !.skip_blocks = TRUE,
                      !.indexing = @ /\ Line.cmd # "ignore-file"]
    /\ UNCHANGED <<script, symbols, exclude_list, result>>

Declare ==
    /\ InDirectives /\ Line.cmd = "declare"
    /\ addSymbol(Line.type, <<Line.name>>)
    /\ p' = [p EXCEPT !.directives = Tail(@)]
    /\ UNCHANGED <<script, exclude_list, result>>

exclude ==
    /\ InDirectives /\ Line.cmd = "ignore"
    /\ exclude_list' = exclude_list \cup {key(Line.type, <<Line.name>>)}
    /\ p' = [p EXCEPT !.directives = Tail(@)]
    /\ UNCHANGED <<script, symbols, result>>

InvalidDirective ==
    /\ InDirectives /\ Line.cmd = "invalid"
    /\ Throw

StartTokens ==
    /\ p.pc = "directives" /\ p.directives = <<>>
    /\ p' = [p EXCEPT !.pc = "tokens",
               !.tokens = IF p.indexing
                          THEN FlattenSeq([i \in 1..Len(script.pieces) |->
                                             script.pieces[i].tokens])
                          ELSE <<>>]
    /\ UNCHANGED <<script, symbols, exclude_list, result>>

\* The keys are filtered, and the static tables reset for the next call
cleanup ==
    /\ p.pc = "tokens" /\ p.tokens = <<>>
    /\ result' = Without(symbols, exclude_list)
    /\ symbols' = <<>>
    /\ exclude_list' = {}
    /\ p' = NoCall
    /\ UNCHANGED script

\* Nobody catches the exception: the request ends, and the class with it
EndRequest ==
    /\ p.pc = "failed"
    /\ symbols' = <<>>
    /\ exclude_list' = {}
    /\ p' = NoCall
    /\ UNCHANGED <<script, result>>

-----------------------------------------------------------------------------
\* The automaton of parseTokens

num == Head(p.tokens)[1]
val == Head(p.tokens)[2]
IsChar(ch) == num = "char" /\ val = ch

Skipped ==
    \/ num = "comment"
    \/ num = "whitespace" /\ p.state # "NAMESPACE_FOUND"
In(state) == p.pc = "tokens" /\ p.tokens # <<>> /\ ~Skipped /\ p.state = state

Enter(state) == p' = [p EXCEPT !.tokens = Tail(@), !.state = state]
NoSymbol == UNCHANGED <<script, symbols, exclude_list, result>>
Found(type, name) ==
    addSymbol(type, name) /\ UNCHANGED <<script, exclude_list, result>>

SkipToken ==
    /\ p.pc = "tokens" /\ p.tokens # <<>> /\ Skipped
    /\ Enter(p.state)
    /\ NoSymbol

\* The state that a token of the upper level leads to
Opens ==
    CASE num = "function"  -> "FUNCTION_FOUND"
      [] num = "class"     -> "CLASS_FOUND"
      [] num = "namespace" -> "NAMESPACE_FOUND"
      [] num = "const"     -> "CONST_FOUND"
      [] num = "string" /\ val = "define" -> "DEFINE_FOUND"
      [] OTHER -> "OUT"

\* With skip_blocks, what is enclosed in braces is left out
OpensBlock == IsChar("{") /\ p.skip_blocks

Out ==
    /\ In("OUT")
    /\ p' = [p EXCEPT !.tokens = Tail(@),
               !.state = IF OpensBlock THEN "SKIPPING_BLOCK_NOSTRING" ELSE Opens,
               !.block_level = IF OpensBlock THEN 1 ELSE @,
               !.name = IF num \in {"namespace", "string"} THEN <<>> ELSE @]
    /\ NoSymbol

NamespaceFound ==
    /\ In("NAMESPACE_FOUND")
    /\ Enter(IF num = "whitespace" THEN "NAMESPACE_2" ELSE "OUT")
    /\ NoSymbol

NamespacePart ==
    /\ In("NAMESPACE_2") /\ num \in {"string", "separator"}
    /\ p' = [p EXCEPT !.tokens = Tail(@),
                      !.name = Append(@, IF num = "string" THEN val ELSE Sep)]
    /\ NoSymbol

NamespaceEnd ==
    /\ In("NAMESPACE_2") /\ num \notin {"string", "separator"}
    /\ p' = [p EXCEPT !.tokens = Tail(@), !.state = "OUT", !.ns = p.name]
    /\ NoSymbol

\* A closure has no name, and a '&' stands before the name
FunctionFound ==
    /\ In("FUNCTION_FOUND") /\ (IsChar("(") \/ IsChar("&"))
    /\ Enter(IF IsChar("(") THEN "OUT" ELSE p.state)
    /\ NoSymbol

NameFound ==
    /\ In("FUNCTION_FOUND") \/ In("CLASS_FOUND")
    /\ num = "string"
    /\ Found(IF p.state = "CLASS_FOUND" THEN T_CLASS ELSE T_FUNCTION,
             combineNSSymbol(p.ns, val))
    /\ p' = [p EXCEPT !.tokens = Tail(@), !.state = "SKIPPING_BLOCK_NOSTRING",
                      !.block_level = 0]

ConstFound ==
    /\ In("CONST_FOUND") /\ num = "string"
    /\ Found(T_CONSTANT, combineNSSymbol(p.ns, val))
    /\ Enter("OUT")

DefineFound ==
    /\ In("DEFINE_FOUND") /\ IsChar("(")
    /\ Enter("DEFINE_2")
    /\ NoSymbol

Define2 ==
    /\ In("DEFINE_2") /\ num = "literal"
    /\ Found(T_CONSTANT, <<val>>)
    /\ Enter("SKIPPING_TO_EOL")

SkippingToEol ==
    /\ In("SKIPPING_TO_EOL")
    /\ Enter(IF IsChar(";") THEN "OUT" ELSE p.state)
    /\ NoSymbol

\* Braces in a double-quoted string do not count
BlockString ==
    /\ In("SKIPPING_BLOCK_STRING")
    /\ Enter(IF IsChar("\"") THEN "SKIPPING_BLOCK_NOSTRING" ELSE p.state)
    /\ NoSymbol

\* The brace that opens an expression in a string or heredoc counts
Bug_BlockChar(ch) == IsChar(ch)
BlockChar(ch) == num \in {"char", "curly_open"} /\ val = ch

BlockNoString ==
    /\ In("SKIPPING_BLOCK_NOSTRING")
    /\ LET level == CASE BlockChar("{") -> p.block_level + 1
                      [] BlockChar("}") -> p.block_level - 1
                      [] OTHER -> p.block_level
       IN p' = [p EXCEPT !.tokens = Tail(@), !.block_level = level,
                  !.state = CASE BlockChar("\"") -> "SKIPPING_BLOCK_STRING"
                              [] BlockChar("}") /\ level = 0 -> "OUT"
                              [] OTHER -> @]
    /\ NoSymbol

UnexpectedToken ==
    /\ \/ /\ In("FUNCTION_FOUND") /\ ~IsChar("(") /\ ~IsChar("&") /\ num # "string"
       \/ /\ In("CLASS_FOUND") \/ In("CONST_FOUND")
          /\ num # "string"
       \/ In("DEFINE_FOUND") /\ ~IsChar("(")
       \/ In("DEFINE_2") /\ num # "literal"
    /\ Throw

ParseStep ==
    \/ Flag \/ Declare \/ exclude \/ InvalidDirective \/ StartTokens
    \/ SkipToken \/ Out \/ NamespaceFound \/ NamespacePart \/ NamespaceEnd
    \/ FunctionFound \/ NameFound \/ ConstFound
    \/ DefineFound \/ Define2 \/ SkippingToEol
    \/ BlockString \/ BlockNoString \/ UnexpectedToken
    \/ cleanup

Next ==
    \/ \E s \in Script : parse(s)
    \/ ParseStep
    \/ EndRequest

Spec == Init /\ [][Next]_vars

-----------------------------------------------------------------------------
\* Properties

\* The namespace at piece j: that of the last piece up to j that begins one
NamespaceAt(s, j) ==
    LET begins == {i \in 1..j : s.pieces[i].namespace # Null} IN
      IF begins = {} THEN <<>> ELSE s.pieces[Max(begins)].namespace

Has(s, cmd) == \E i \in 1..Len(s.directives) : s.directives[i].cmd = cmd

\* The keys that a script declares, by definition: those its directives declare
\* and, unless the file is ignored, those of its pieces, in their order; with
\* skip-blocks without the conditional ones; all without the ignored ones.
KeysOfDirectives(s) ==
    FlattenSeq([i \in 1..Len(s.directives) |->
      LET d == s.directives[i] IN
        IF d.cmd = "declare" THEN <<<<d.type, <<d.name>>>>>> ELSE <<>>])
KeysOfPiece(s, j) ==
    FlattenSeq([i \in 1..Len(s.pieces[j].declares) |->
      LET d  == s.pieces[j].declares[i]
          ns == NamespaceAt(s, j)
      IN  IF d.block /\ Has(s, "skip-blocks") THEN <<>>
          ELSE <<<<d.type, IF d.global \/ ns = <<>> THEN <<d.name>>
                           ELSE ns \o <<Sep, d.name>>>>>>])
KeysOfPieces(s) == FlattenSeq([j \in 1..Len(s.pieces) |-> KeysOfPiece(s, j)])
Ignored(s) ==
    {<<s.directives[i].type, <<s.directives[i].name>>>> :
       i \in {j \in 1..Len(s.directives) : s.directives[j].cmd = "ignore"}}
Expected(s) ==
    Without(KeysOfDirectives(s) \o (IF Has(s, "ignore-file") THEN <<>> ELSE KeysOfPieces(s)),
            Ignored(s))

IsValid(s) ==
    /\ ~Has(s, "invalid")
    /\ Has(s, "ignore-file") \/ \A j \in 1..Len(s.pieces) : s.pieces[j].valid

\* parse() returns the symbols that the script declares, whatever was parsed
\* before it, and throws an exception for what it cannot parse.
ParseExact ==
    p.pc = "idle" /\ script # Null =>
      result = IF IsValid(script) THEN Expected(script) ELSE Exception
=============================================================================
