---------------------------- MODULE PCS_Autoload ----------------------------
(***************************************************************************)
(* The autoload hook of PCS (src/src/PCS_Loader.c) in one thread.  RINIT   *)
(* puts the hook in EG(autoload_func) and keeps what was there; the hook   *)
(* loads what the symbol table has and transfers control for the rest; the *)
(* spl_autoload_...() functions are wrapped so that they see what they     *)
(* would see without PCS.                                                  *)
(*                                                                         *)
(* PHP code, the script's or that of an autoloader or of a file under way, *)
(* does anything at any time.  Calls under way are a stack, the innermost  *)
(* at 1.  The engine and SPL are external: SplAutoload has what they do.   *)
(***************************************************************************)
EXTENDS Naturals, Sequences

CONSTANTS
    Class,          \* classes that PHP code uses
    PcsClass,       \* classes that the symbol table has
    Callback,       \* what PHP code registers: functions and static methods
    ClassOf,        \* callback -> its class, or Null for a function
    NestedSpl,      \* whether autoloaders that a registration waits for call
                    \* spl_autoload_...() functions
    MaxDepth,       \* bounds the calls under way
    Null

ASSUME AutoloadAssumption ==
    /\ PcsClass \subseteq Class
    /\ ClassOf \in [Callback -> Class \cup {Null}] /\ Null \notin Class
    /\ (Callback \cup {Null}) \cap {"pcs", "spl_autoload_call", "spl_autoload", "__autoload"} = {}
    /\ NestedSpl \in BOOLEAN /\ MaxDepth \in Nat

VARIABLES
    eg,             \* EG(autoload_func); "pcs" is the hook
    pcs_g,          \* PCS_G(autoload_func), which outlives the request
    list,           \* SPL_G(autoload_functions), or Null
    running,        \* SPL_G(autoload_running)
    has_autoload,   \* whether __autoload() is defined
    defined,        \* the classes that are defined
    in_autoload,    \* EG(in_autoload)
    stack,          \* calls under way
    stage,          \* "activated", then "run" after RINIT
    cut,            \* whether a fatal error has ended a registration and the hook
                    \* was not inserted since
    answer          \* what spl_autoload_functions() has just returned

vars == <<eg, pcs_g, list, running, has_autoload, defined, in_autoload, stack,
          stage, cut, answer>>

\* What EG(autoload_func) would be without PCS; the engine takes an __autoload()
\* for a missing function itself.
Func == LET f == IF eg = "pcs" THEN pcs_g ELSE eg
        IN  IF f = "__autoload" THEN Null ELSE f
Spl == INSTANCE SplAutoload WITH func <- Func

Init ==
    /\ eg = Null /\ pcs_g = Null /\ list = Null /\ running = FALSE
    /\ has_autoload = FALSE /\ defined = {} /\ in_autoload = {}
    /\ stack = <<>> /\ stage = "activated" /\ cut = FALSE /\ answer = Null

\* PCS_Loader_insertAutoloadHook, after EG(autoload_func) has become f
Bug_InsertFirst(f) ==                   \* saves what it has just inserted
    /\ eg' = "pcs"
    /\ pcs_g' = IF f = "pcs" THEN pcs_g ELSE eg'
    /\ cut' = FALSE
Bug_KeepPrevious(f) ==                  \* saves only what there is to call
    /\ eg' = "pcs"
    /\ pcs_g' = IF f \in {"pcs", Null} THEN pcs_g ELSE f
    /\ cut' = FALSE
InsertHook(f) ==
    /\ eg' = "pcs"
    /\ pcs_g' = IF f = "pcs" THEN pcs_g ELSE f
    /\ cut' = FALSE

\* The previous request may have left anything in PCS_G(autoload_func)
RINIT ==
    /\ stage = "activated"
    /\ InsertHook(eg)
    /\ stage' = "run"
    /\ answer' = Null
    /\ UNCHANGED <<list, running, has_autoload, defined, in_autoload, stack>>

-----------------------------------------------------------------------------
\* Calls

\* A call of a registration that waits for the class of its callback, and a
\* class that is being loaded: by the hook, which executes its file, or by an
\* autoloader, of which spl_autoload_call() notes that it is running and restores
\* that when it returns.
RegisterCall(cb, prepend) == [call |-> "register", of |-> cb, prepend |-> prepend]
LoadCall(c, by) ==
    [call |-> "load", of |-> c, by |-> by, running |-> running,
     restores |-> by = "spl_autoload_call" /\ list # Null]

Waiting == {i \in 1..Len(stack) : stack[i].call = "register"}
AtRegister == stack # <<>> /\ stack[1].call = "register"
PhpRuns == stage = "run" /\ ~AtRegister
MayCallSpl == PhpRuns /\ (Waiting # {} => NestedSpl)

\* f is called for class c from the calls below.
CallBy(c, f, below) ==
    IF f = Null THEN stack' = below /\ UNCHANGED <<running, in_autoload>>
    ELSE /\ running' = (running \/ LoadCall(c, f).restores)
         /\ in_autoload' = in_autoload \cup {c}
         /\ stack' = <<LoadCall(c, f)>> \o below

\* Without PCS the engine takes an __autoload() for the missing function, and so
\* does the hook: it may be defined at any time.
OrAutoload(f) == IF f = Null /\ has_autoload THEN "__autoload" ELSE f

\* _pcs_autoload: the file is loaded, which defines the class when it is
\* compiled, or else control goes to the function that was there before.
Hook(c) ==
    IF c \in PcsClass
    THEN CallBy(c, "pcs", stack) /\ defined' = defined \cup {c} /\ UNCHANGED pcs_g
    ELSE /\ pcs_g' = OrAutoload(pcs_g) /\ CallBy(c, pcs_g', stack)
         /\ UNCHANGED defined

\* A class that is neither defined nor being looked up
UseClass(c) ==
    /\ PhpRuns
    /\ c \notin defined \cup in_autoload
    /\ Len(stack) < MaxDepth
    /\ IF eg = "pcs" THEN Hook(c) /\ UNCHANGED eg
       ELSE /\ eg' = OrAutoload(eg) /\ CallBy(c, eg', stack)
            /\ UNCHANGED <<defined, pcs_g>>
    /\ answer' = Null
    /\ UNCHANGED <<list, has_autoload, stage, cut>>

\* The autoloader of the innermost class returns, having defined it or not
LoadReturns ==
    /\ PhpRuns /\ stack # <<>>
    /\ \/ defined' = defined
       \/ stack[1].by # "pcs" /\ defined' = defined \cup {stack[1].of}
    /\ running' = IF stack[1].restores THEN stack[1].running ELSE running
    /\ in_autoload' = in_autoload \ {stack[1].of}
    /\ stack' = Tail(stack)
    /\ answer' = Null
    /\ UNCHANGED <<eg, pcs_g, list, has_autoload, stage, cut>>

\* A longjmp, when the classes looked up are those of lookups: to the innermost
\* file that PCS executes (PCS_Loader_loadNode), which returns FAILURE to what
\* loads it, and the PHP code below goes on; else to the end of the script, after
\* which shutdown functions run.
Catching == {i \in 1..Len(stack) : stack[i].call = "load" /\ stack[i].by = "pcs"}

Fatal(lookups) ==
    /\ \/ /\ Catching = {}
          /\ stack' = <<>> /\ in_autoload' = lookups
          /\ cut' = (cut \/ Waiting # {})
       \/ \E i \in Catching :
            /\ \A j \in Catching : i <= j
            /\ stack' = SubSeq(stack, i + 1, Len(stack))
            /\ in_autoload' = lookups \ {stack[i].of}
            /\ cut' = (cut \/ \E j \in Waiting : j < i)
    /\ answer' = Null
    /\ UNCHANGED <<eg, pcs_g, list, running, has_autoload, defined, stage>>

FatalError == PhpRuns /\ stack # <<>> /\ Fatal(in_autoload)

\* A file that does not compile is not executed yet: what executes below catches.
CompileError(c) ==
    /\ PhpRuns
    /\ c \in PcsClass \ (defined \cup in_autoload)
    /\ eg = "pcs"
    /\ Fatal(in_autoload \cup {c})

\* PCS\Mgr::getClass(c, always) and requireClass; with a second argument the file
\* of a class that is defined is compiled again, which is a fatal error.
GetClass(c, always) ==
    /\ PhpRuns
    /\ c \in PcsClass
    /\ \/ /\ c \notin defined
          /\ Len(stack) < MaxDepth
          /\ defined' = defined \cup {c}
          /\ stack' = <<LoadCall(c, "pcs")>> \o stack
          /\ answer' = Null
          /\ UNCHANGED <<eg, pcs_g, list, running, has_autoload, in_autoload, stage, cut>>
       \/ (c \in defined => always) /\ Fatal(in_autoload)

-----------------------------------------------------------------------------
\* The spl_autoload_...() functions

\* What the wrappers put in EG(autoload_func) for the original functions
Bug_Original == eg
Original == pcs_g

\* _pcs_autoload_register with a callback: SPL looks first whether it can be
\* called, for which the engine may load its class.
RegisterBegin(cb, prepend) ==
    /\ MayCallSpl
    /\ Len(stack) + 1 < MaxDepth
    /\ LET c == ClassOf[cb]
           below == <<RegisterCall(cb, prepend)>> \o stack
       IN IF c # Null /\ c \notin defined \cup in_autoload
          THEN eg' = OrAutoload(Original) /\ CallBy(c, eg', below)
          ELSE eg' = Original /\ stack' = below /\ UNCHANGED <<running, in_autoload>>
    /\ answer' = Null
    /\ UNCHANGED <<pcs_g, list, has_autoload, defined, stage, cut>>

\* It is registered, or its class was not found
RegisterEnd ==
    /\ AtRegister
    /\ LET cb == stack[1].of
           r == Spl!Registered(eg, list, cb, stack[1].prepend)
       IN IF ClassOf[cb] \in defined \cup {Null}
          THEN InsertHook(r.func) /\ list' = r.list
          ELSE InsertHook(eg) /\ UNCHANGED list
    /\ stack' = Tail(stack)
    /\ answer' = Null
    /\ UNCHANGED <<running, has_autoload, defined, in_autoload, stage>>

\* Without arguments it loads nothing; nor does unregistering
RegisterDefault ==
    /\ MayCallSpl
    /\ InsertHook(Spl!RegisteredDefault(list).func)
    /\ answer' = Null
    /\ UNCHANGED <<list, running, has_autoload, defined, in_autoload, stack, stage>>

\* _pcs_autoload_unregister
Bug_Unregister(x) ==                    \* the hook is not put back
    /\ MayCallSpl
    /\ LET r == Spl!Unregistered(Original, list, x, running)
       IN eg' = r.func /\ list' = r.list
    /\ answer' = Null
    /\ UNCHANGED <<pcs_g, running, has_autoload, defined, in_autoload, stack, stage, cut>>
Unregister(x) ==
    /\ MayCallSpl
    /\ LET r == Spl!Unregistered(Original, list, x, running)
       IN InsertHook(r.func) /\ list' = r.list
    /\ answer' = Null
    /\ UNCHANGED <<running, has_autoload, defined, in_autoload, stack, stage>>

\* _pcs_autoload_functions: EG(autoload_func) is put back
Functions ==
    /\ MayCallSpl
    /\ answer' = Spl!FunctionsOf(Original, list, has_autoload)
    /\ UNCHANGED <<eg, pcs_g, list, running, has_autoload, defined, in_autoload,
                   stack, stage, cut>>

-----------------------------------------------------------------------------
DefineAutoload ==
    /\ PhpRuns /\ ~has_autoload
    /\ has_autoload' = TRUE /\ answer' = Null
    /\ UNCHANGED <<eg, pcs_g, list, running, defined, in_autoload, stack, stage, cut>>

\* The request ends with its functions, classes and list; the engine and SPL
\* start the next one.  RSHUTDOWN of PCS does nothing.
NewRequest ==
    /\ stage = "run" /\ stack = <<>>
    /\ eg' = Null /\ list' = Null /\ has_autoload' = FALSE
    /\ defined' = {} /\ in_autoload' = {}
    /\ stage' = "activated" /\ cut' = FALSE /\ answer' = Null
    /\ UNCHANGED <<pcs_g, running, stack>>

Next ==
    \/ RINIT \/ LoadReturns \/ FatalError
    \/ \E c \in Class : UseClass(c) \/ CompileError(c)
    \/ \E c \in Class, always \in BOOLEAN : GetClass(c, always)
    \/ \E cb \in Callback, prepend \in BOOLEAN : RegisterBegin(cb, prepend)
    \/ RegisterEnd \/ RegisterDefault
    \/ \E x \in Callback \cup {"spl_autoload_call", "spl_autoload"} : Unregister(x)
    \/ Functions
    \/ DefineAutoload \/ NewRequest

Spec == Init /\ [][Next]_vars

-----------------------------------------------------------------------------
\* Properties

Other == Callback \cup {"spl_autoload_call", "spl_autoload", "__autoload", Null}

\* The types; the hook never becomes the function that it transfers control to.
AutoloadTypeOK ==
    /\ eg \in Other \cup {"pcs"} /\ pcs_g \in Other
    /\ list = Null \/ list \in Seq(Callback \cup {"spl_autoload"})
    /\ running \in BOOLEAN /\ has_autoload \in BOOLEAN /\ cut \in BOOLEAN
    /\ defined \subseteq Class /\ in_autoload \subseteq Class
    /\ stack \in Seq([call : {"register"}, of : Callback, prepend : BOOLEAN]
                     \cup [call : {"load"}, of : Class, by : Other \cup {"pcs"},
                           running : BOOLEAN, restores : BOOLEAN])
    /\ stage \in {"activated", "run"}

\* Whatever PHP code does, the hook is the autoload function: it is out only while
\* a registration waits for the class of its callback, and, when a fatal error ends
\* that registration, until the next call or request that inserts it.
HookInstalled == stage = "run" /\ Waiting = {} /\ ~cut => eg = "pcs"

\* spl_autoload_register() "reinserts the PCS autoloader, so that it will be called
\* first" (PCS_Loader.c:29): no other autoloader is asked for a class that the
\* symbol table has.  This is so when PHP code registers functions; the class of a
\* static method is looked up while the hook is out (HookInstalled).
CalledFirst ==
    \A i \in 1..Len(stack) :
      stack[i].call = "load" /\ stack[i].of \in PcsClass => stack[i].by = "pcs"

\* PCS never transfers control to the __autoload() of a request that has ended.
NoStaleAutoload == stage = "run" /\ "__autoload" \in {eg, pcs_g} => has_autoload

\* PHP code sees the autoload functions that it would see without PCS.
ImplementsSpl == Spl!Spec

=============================================================================
