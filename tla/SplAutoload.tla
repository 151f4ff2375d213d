---------------------------- MODULE SplAutoload ----------------------------
(***************************************************************************)
(* Autoloading as PHP code sees it without PCS: the engine calls the       *)
(* autoload function for a class that is not defined, and the              *)
(* spl_autoload_...() functions manage which one that is and the list that *)
(* spl_autoload_call() goes through.  The operators say what the functions *)
(* of the SPL extension do to the pointer and to the list they are given.  *)
(***************************************************************************)
EXTENDS Naturals, Sequences, SequencesExt

CONSTANTS Callback,     \* what PHP code registers
          Null

VARIABLES func,         \* the autoload function, or Null for __autoload(), if any
          list,         \* the registered callbacks in order, or Null for no list
          running,      \* whether spl_autoload_call() is under way
          has_autoload, \* whether PHP code has defined __autoload()
          answer        \* what spl_autoload_functions() has just returned

vars == <<func, list, running, has_autoload, answer>>

Has(seq, x) == \E i \in 1..Len(seq) : seq[i] = x
Without(seq, x) ==
    IF Has(seq, x) THEN RemoveAt(seq, CHOOSE i \in 1..Len(seq) : seq[i] = x) ELSE seq
Added(seq, x, prepend) ==
    IF prepend THEN <<x>> \o seq ELSE Append(seq, x)

\* spl_autoload_register(): a function that is registered already stays where it
\* is; spl_autoload() goes to the list when it was alone.
Registered(f, l, cb, prepend) ==
    LET old == IF l = Null THEN <<>> ELSE l
        spl == IF f = "spl_autoload" /\ ~Has(old, f) THEN Append(old, f) ELSE old
    IN  [func |-> "spl_autoload_call",
         list |-> IF Has(old, cb) THEN old ELSE Added(spl, cb, prepend)]

\* Without arguments
RegisteredDefault(l) ==
    [func |-> IF l = Null THEN "spl_autoload" ELSE "spl_autoload_call", list |-> l]

\* spl_autoload_unregister(): spl_autoload_call stands for all of the list
Unregistered(f, l, x, r) ==
    CASE l # Null /\ x = "spl_autoload_call" ->
           IF r THEN [func |-> f, list |-> <<>>] ELSE [func |-> Null, list |-> Null]
      [] l # Null /\ x # "spl_autoload_call" ->
           [func |-> f, list |-> Without(l, x)]
      [] l = Null ->
           [func |-> IF x = "spl_autoload" /\ f = x THEN Null ELSE f, list |-> l]

\* spl_autoload_functions(); FALSE is Null
FunctionsOf(f, l, autoload) ==
    CASE f = Null -> IF autoload THEN <<"__autoload">> ELSE Null
      [] f = "spl_autoload_call" -> IF l = Null THEN <<>> ELSE l
      [] OTHER -> <<f>>

-----------------------------------------------------------------------------
Init ==
    /\ func = Null /\ list = Null /\ running = FALSE
    /\ has_autoload = FALSE /\ answer = Null

Becomes(r) == func' = r.func /\ list' = r.list

Register ==
    /\ \/ \E cb \in Callback, prepend \in BOOLEAN :
            Becomes(Registered(func, list, cb, prepend))
       \/ Becomes(RegisteredDefault(list))
    /\ answer' = Null /\ UNCHANGED <<running, has_autoload>>

Unregister ==
    /\ \E x \in Callback \cup {"spl_autoload_call", "spl_autoload"} :
         Becomes(Unregistered(func, list, x, running))
    /\ answer' = Null /\ UNCHANGED <<running, has_autoload>>

Functions ==
    /\ answer' = FunctionsOf(func, list, has_autoload)
    /\ UNCHANGED <<func, list, running, has_autoload>>

Define == has_autoload' = TRUE /\ answer' = Null /\ UNCHANGED <<func, list, running>>

\* A class is looked up
Call ==
    /\ func = "spl_autoload_call" /\ list # Null /\ running' = TRUE
    /\ answer' = Null /\ UNCHANGED <<func, list, has_autoload>>

\* An autoloader returns, or PHP code does something else
Other == running' \in {running, FALSE} /\ answer' = Null /\ UNCHANGED <<func, list, has_autoload>>

NewRequest ==
    /\ func' = Null /\ list' = Null /\ has_autoload' = FALSE
    /\ answer' = Null /\ UNCHANGED running

Next == Register \/ Unregister \/ Functions \/ Define \/ Call \/ Other \/ NewRequest

Spec == Init /\ [][Next]_vars

=============================================================================
