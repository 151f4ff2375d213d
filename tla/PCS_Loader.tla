----------------------------- MODULE PCS_Loader -----------------------------
(***************************************************************************)
(* The loader of PCS (src/src/PCS_Loader.c).  The first request of the     *)
(* process fills the symbol table, under a mutex, with what the parser     *)
(* finds in every registered file, and chooses how each file is loaded.    *)
(* Every request then loads the RINIT files, and runs its script: classes  *)
(* are autoloaded at their first use, and functions on demand.             *)
(*                                                                         *)
(* The files are those of the tree, which does not change any more (see    *)
(* PCS_Tree).  A file that is executed declares its symbols when it is     *)
(* compiled, which is a fatal error if one is declared already, and then   *)
(* uses classes.  The PHP engine is external: a fatal error, or any PHP    *)
(* code that hits a limit, ends in a bailout, a longjmp to the innermost   *)
(* zend_try, which is the one around the execution of a file in            *)
(* PCS_Loader_loadNode or else the one around the whole request.  When     *)
(* RINIT returns FAILURE the engine exits.                                 *)
(***************************************************************************)
EXTENDS Naturals, Sequences

CONSTANTS
    Script,         \* file -> what the loader, the parser and the engine see in it
    FileList,       \* the files in the order of their IDs
    Parser,         \* the files of the parser in the order they are loaded
    ClassKey,       \* symbols that are classes
    OtherKey,       \* symbols that are functions or constants
    Wanted,         \* symbols that request scripts use
    Loadable,       \* files that clients load with PCS_loadScript
    Thread,
    ZTS,            \* whether the build has mutexes
    Bailouts,       \* whether PHP code may bail out
    Null

File == DOMAIN Script
Key  == ClassKey \cup OtherKey

\* Values of PCS_LOAD_MASK; 0 is the default, by contents
AUTOLOAD == 1
RINIT    == 2
NONE     == 3

Elems(seq) == {seq[i] : i \in 1..Len(seq)}

ASSUME LoaderAssumption ==
    /\ \A f \in File : Script[f] \in
          [flags : 0..3, php : BOOLEAN, parse : {"array", "error"},
           keys : Seq(Key), declares : SUBSET Key, uses : Seq(ClassKey)]
    /\ FileList \in Seq(File) /\ Parser \in Seq(File) /\ Loadable \subseteq File
    /\ ClassKey \cap OtherKey = {} /\ Wanted \subseteq Key
    /\ Null \notin Thread
    /\ ZTS \/ \A t, u \in Thread : t = u       \* else there is one thread
    /\ ZTS \in BOOLEAN /\ Bailouts \in BOOLEAN

VARIABLES
    load_mode,          \* of every file, 0 when it is not chosen yet
    symbols,            \* symbol -> the file that is loaded for it
    loader_init_done,
    mutex,              \* holder of the symbols mutex
    req                 \* the request of every thread

vars == <<load_mode, symbols, loader_init_done, mutex, req>>
table == <<load_mode, symbols>>

NoRequest == [pc |-> "off", i |-> 1, keys |-> <<>>, stack |-> <<>>,
              status |-> "SUCCESS", defined |-> {}, noext |-> FALSE]

Init ==
    /\ load_mode = [f \in File |-> 0]
    /\ symbols = [k \in {} |-> Null]
    /\ loader_init_done = FALSE
    /\ mutex = Null
    /\ req = [t \in Thread |-> NoRequest]

Put(f, k, v) == [x \in DOMAIN f \cup {k} |-> IF x = k THEN v ELSE f[x]]
Goto(t, pc, i) == req' = [req EXCEPT ![t].pc = pc, ![t].i = i]

-----------------------------------------------------------------------------
\* Loading a file (PCS_Loader_loadNode).  The files under way in a thread are a
\* stack, the innermost at 1; "wait" is a file that waits for an autoload.

Stack(t) == req[t].stack
Top(t)   == Stack(t)[1]
At(t, pc) == Stack(t) # <<>> /\ Top(t).pc = pc

Frame(f) == [file |-> f, pc |-> "compile", rest |-> <<>>]
OnTop(r, pc, rest) ==
    [r EXCEPT !.stack = <<[file |-> r.stack[1].file, pc |-> pc, rest |-> rest]>>
                          \o Tail(r.stack)]
Pushed(r, f) == [r EXCEPT !.stack = <<Frame(f)>> \o @]

(* PCS_Loader_loadNode returns to what called it: the autoload hook in the *)
(* file below, which looks whether the class is there now, the loop over   *)
(* the RINIT files, PCS_Loader_Init, or the script of the request.         *)
Returned(r, stack, status) ==
    LET back == [r EXCEPT !.stack = stack] IN
    CASE stack # <<>> -> back
      [] stack = <<>> /\ r.pc \in {"parser", "loop"} ->
            IF status = "SUCCESS" THEN [back EXCEPT !.i = @ + 1]
            ELSE [back EXCEPT !.pc = IF r.pc = "parser" THEN "unlock" ELSE "exit",
                              !.status = status]
      [] OTHER -> back

\* The files that execute, and those that wait while they do, are in a zend_try
\* of loadNode; a file that is being compiled is not.  EG(no_extensions) is not
\* reset by the handler.  What no file catches ends RINIT, or the script.
BailedOut(r) ==
    LET stack == IF r.stack # <<>> /\ r.stack[1].pc = "compile"
                 THEN Tail(r.stack) ELSE r.stack
    IN  IF stack = <<>>
        THEN [r EXCEPT !.pc = IF r.pc = "run" THEN "aborted" ELSE "failed",
                       !.stack = <<>>, !.keys = <<>>]
        ELSE Returned(r, Tail(stack), "FAILURE")

Redeclares(t) == Script[Top(t).file].declares \cap req[t].defined # {}

Compile(t) ==
    /\ At(t, "compile")
    /\ ~Redeclares(t)
    /\ LET s == Script[Top(t).file]
           r == OnTop(req[t], "exec", s.uses)
       IN req' = [req EXCEPT ![t] = [r EXCEPT !.defined = r.defined \cup s.declares,
                                              !.noext = TRUE]]
    /\ UNCHANGED <<load_mode, symbols, loader_init_done, mutex>>

FatalError(t) ==
    /\ At(t, "compile")
    /\ Redeclares(t)
    /\ req' = [req EXCEPT ![t] = BailedOut(@)]
    /\ UNCHANGED <<load_mode, symbols, loader_init_done, mutex>>

\* A limit is hit while a file is compiled or executed
BailOut(t) ==
    /\ Bailouts
    /\ At(t, "compile") \/ At(t, "exec")
    /\ req' = [req EXCEPT ![t] = BailedOut(@)]
    /\ UNCHANGED <<load_mode, symbols, loader_init_done, mutex>>

Class(t) == Head(Top(t).rest)
Continue(t) == OnTop(req[t], "exec", Tail(Top(t).rest))

\* An exception that no file catches: the files under way all end, and each
\* loadNode returns SUCCESS.
Thrown(r) == Returned([r EXCEPT !.noext = FALSE], <<>>, "SUCCESS")

\* A class that is defined, a class to load, and one no autoloader knows
UseDefined(t) ==
    /\ At(t, "exec") \/ At(t, "wait")
    /\ Top(t).rest # <<>> /\ Class(t) \in req[t].defined
    /\ req' = [req EXCEPT ![t] = Continue(t)]
    /\ UNCHANGED <<load_mode, symbols, loader_init_done, mutex>>

UseAutoload(t) ==
    /\ At(t, "exec")
    /\ Top(t).rest # <<>>
    /\ Class(t) \in DOMAIN symbols \ req[t].defined
    /\ req' = [req EXCEPT ![t] = Pushed(OnTop(@, "wait", Top(t).rest), symbols[Class(t)])]
    /\ UNCHANGED <<load_mode, symbols, loader_init_done, mutex>>

UseUnknown(t) ==
    /\ \/ At(t, "wait") /\ Class(t) \notin req[t].defined
       \/ /\ At(t, "exec") /\ Top(t).rest # <<>>
          /\ Class(t) \notin DOMAIN symbols \cup req[t].defined
    /\ req' = [req EXCEPT ![t] = Thrown(@)]
    /\ UNCHANGED <<load_mode, symbols, loader_init_done, mutex>>

ExecDone(t) ==
    /\ At(t, "exec")
    /\ Top(t).rest = <<>>
    /\ req' = [req EXCEPT ![t] = Returned([@ EXCEPT !.noext = FALSE],
                                          Tail(Stack(t)), "SUCCESS")]
    /\ UNCHANGED <<load_mode, symbols, loader_init_done, mutex>>

LoadStep(t) ==
    \/ Compile(t) \/ FatalError(t) \/ BailOut(t)
    \/ UseDefined(t) \/ UseAutoload(t) \/ UseUnknown(t) \/ ExecDone(t)

-----------------------------------------------------------------------------
\* RINIT

Exited == \E t \in Thread : req[t].pc = "exit"

\* The engine starts the request with an empty class table
BeginRequest(t) ==
    /\ req[t].pc = "off" /\ ~Exited
    /\ req' = [req EXCEPT ![t] = [NoRequest EXCEPT !.pc = "lock"]]
    /\ UNCHANGED <<load_mode, symbols, loader_init_done, mutex>>

\* loader_init_done is tested before the mutex is taken
Bug_LockSymbols(t) ==
    /\ req[t].pc = "lock" /\ ~Exited
    /\ mutex' = mutex
    /\ IF loader_init_done
       THEN Goto(t, "unlock", 1)
       ELSE Goto(t, "parser", 1)
    /\ UNCHANGED <<load_mode, symbols, loader_init_done>>

LockSymbols(t) ==
    /\ req[t].pc = "lock" /\ ~Exited
    /\ mutex = Null
    /\ mutex' = IF ZTS THEN t ELSE Null
    /\ IF loader_init_done
       THEN Goto(t, "unlock", 1)
       ELSE Goto(t, "parser", 1)
    /\ UNCHANGED <<load_mode, symbols, loader_init_done>>

\* PCS_Loader_Init
LoadParser(t) ==
    /\ req[t].pc = "parser" /\ Stack(t) = <<>>
    /\ IF req[t].i <= Len(Parser)
       THEN req' = [req EXCEPT ![t] = Pushed(@, Parser[@.i])]
       ELSE Goto(t, "register", 1)
    /\ UNCHANGED <<load_mode, symbols, loader_init_done, mutex>>

Registering(t) == FileList[req[t].i]

\* Whether the parser is run on a file
Forced(f)    == Script[f].flags \in {RINIT, NONE}
NotScript(f) == Script[f].flags = 0 /\ ~Script[f].php
Parsed(f)    == ~Forced(f) /\ ~NotScript(f)

\* PCS_Loader_registerNode up to the result of the parser
RegisterUnparsed(t) ==
    /\ req[t].pc = "register" /\ req[t].i <= Len(FileList)
    /\ ~Parsed(Registering(t))
    /\ load_mode' = [load_mode EXCEPT ![Registering(t)] =
                       IF Forced(Registering(t)) THEN Script[Registering(t)].flags
                       ELSE NONE]
    /\ Goto(t, "register", req[t].i + 1)
    /\ UNCHANGED <<symbols, loader_init_done, mutex>>

RegisterParsed(t) ==
    /\ req[t].pc = "register" /\ req[t].i <= Len(FileList)
    /\ LET f == Registering(t) IN
         /\ Parsed(f) /\ Script[f].parse = "array"
         /\ load_mode' = [load_mode EXCEPT ![f] = Script[f].flags]
         /\ req' = [req EXCEPT ![t].pc = "keys", ![t].keys = Script[f].keys]
    /\ UNCHANGED <<symbols, loader_init_done, mutex>>

\* php_error(E_CORE_ERROR) bails out once the module is started: it never comes
\* back to registerNode, which would return a FAILURE that PCS_Loader_Init ignores
Bug_ErrorInFile(t) == Goto(t, "register", req[t].i + 1)
ErrorInFile(t) == req' = [req EXCEPT ![t] = BailedOut(@)]

\* The parser returns no array of strings, or hits a limit
ParseError(t) ==
    /\ req[t].pc = "register" /\ req[t].i <= Len(FileList)
    /\ Parsed(Registering(t))
    /\ Script[Registering(t)].parse = "error" \/ Bailouts
    /\ load_mode' = [load_mode EXCEPT ![Registering(t)] = Script[Registering(t)].flags]
    /\ ErrorInFile(t)
    /\ UNCHANGED <<symbols, loader_init_done, mutex>>

\* PCS_Loader_registerKey, for every key the parser returned
RegisterKey(t) ==
    /\ req[t].pc = "keys" /\ req[t].keys # <<>>
    /\ Head(req[t].keys) \notin DOMAIN symbols
    /\ symbols' = Put(symbols, Head(req[t].keys), Registering(t))
    /\ req' = [req EXCEPT ![t].keys = Tail(@)]
    /\ UNCHANGED <<load_mode, loader_init_done, mutex>>

\* The later file takes the symbol over
Bug_DuplicateKey(t) ==
    /\ req[t].pc = "keys" /\ req[t].keys # <<>>
    /\ Head(req[t].keys) \in DOMAIN symbols
    /\ symbols' = Put(symbols, Head(req[t].keys), Registering(t))
    /\ ErrorInFile(t)
    /\ UNCHANGED <<load_mode, loader_init_done, mutex>>

DuplicateKey(t) ==
    /\ req[t].pc = "keys" /\ req[t].keys # <<>>
    /\ Head(req[t].keys) \in DOMAIN symbols
    /\ ErrorInFile(t)
    /\ UNCHANGED <<load_mode, symbols, loader_init_done, mutex>>

Bug_ChosenMode(f) ==                    \* any class makes the file autoloaded
    IF Script[f].keys = <<>> THEN NONE
    ELSE IF \E k \in Elems(Script[f].keys) : k \in OtherKey
         /\ \A c \in Elems(Script[f].keys) : c \notin ClassKey
         THEN RINIT ELSE AUTOLOAD
ChosenMode(f) ==
    IF Script[f].keys = <<>> THEN NONE
    ELSE IF \E k \in Elems(Script[f].keys) : k \in OtherKey THEN RINIT ELSE AUTOLOAD

\* The mode is stored as a bit
Bug_FileRegistered(t) ==
    /\ req[t].pc = "keys" /\ req[t].keys = <<>>
    /\ LET f == Registering(t) IN
         load_mode' = [load_mode EXCEPT ![f] = IF @ = 0 THEN 2 ^ ChosenMode(f) ELSE @]
    /\ Goto(t, "register", req[t].i + 1)
    /\ UNCHANGED <<symbols, loader_init_done, mutex>>

FileRegistered(t) ==
    /\ req[t].pc = "keys" /\ req[t].keys = <<>>
    /\ LET f == Registering(t) IN
         load_mode' = [load_mode EXCEPT ![f] = IF @ = 0 THEN ChosenMode(f) ELSE @]
    /\ Goto(t, "register", req[t].i + 1)
    /\ UNCHANGED <<symbols, loader_init_done, mutex>>

InitDone(t) ==
    /\ req[t].pc = "register" /\ req[t].i > Len(FileList)
    /\ loader_init_done' = TRUE
    /\ Goto(t, "unlock", 1)
    /\ UNCHANGED <<load_mode, symbols, mutex>>

\* The status of PCS_Loader_Init is not tested
Bug_UnlockSymbols(t) ==
    /\ req[t].pc = "unlock"
    /\ mutex' = Null
    /\ Goto(t, "loop", 1)
    /\ UNCHANGED <<load_mode, symbols, loader_init_done>>

\* The mutex is not released
Bug_KeepSymbols(t) ==
    /\ req[t].pc = "unlock"
    /\ mutex' = mutex
    /\ Goto(t, IF req[t].status = "SUCCESS" THEN "loop" ELSE "exit", 1)
    /\ UNCHANGED <<load_mode, symbols, loader_init_done>>

UnlockSymbols(t) ==
    /\ req[t].pc = "unlock"
    /\ mutex' = Null
    /\ Goto(t, IF req[t].status = "SUCCESS" THEN "loop" ELSE "exit", 1)
    /\ UNCHANGED <<load_mode, symbols, loader_init_done>>

\* The last file is left out
Bug_LoadRinit(t) ==
    /\ req[t].pc = "loop" /\ Stack(t) = <<>>
    /\ IF req[t].i < Len(FileList)
       THEN IF load_mode[FileList[req[t].i]] = RINIT
            THEN req' = [req EXCEPT ![t] = Pushed(@, FileList[@.i])]
            ELSE Goto(t, "loop", req[t].i + 1)
       ELSE Goto(t, "run", 1)
    /\ UNCHANGED <<load_mode, symbols, loader_init_done, mutex>>

\* The loop over the RINIT files
LoadRinit(t) ==
    /\ req[t].pc = "loop" /\ Stack(t) = <<>>
    /\ IF req[t].i <= Len(FileList)
       THEN IF load_mode[FileList[req[t].i]] = RINIT
            THEN req' = [req EXCEPT ![t] = Pushed(@, FileList[@.i])]
            ELSE Goto(t, "loop", req[t].i + 1)
       ELSE Goto(t, "run", 1)
    /\ UNCHANGED <<load_mode, symbols, loader_init_done, mutex>>

RinitStep(t) ==
    \/ LoadParser(t)
    \/ RegisterUnparsed(t) \/ RegisterParsed(t) \/ ParseError(t)
    \/ RegisterKey(t) \/ DuplicateKey(t) \/ FileRegistered(t) \/ InitDone(t)
    \/ UnlockSymbols(t) \/ LoadRinit(t)
    \/ req[t].pc # "run" /\ LoadStep(t)

-----------------------------------------------------------------------------
\* The script of the request

Running(t) == req[t].pc = "run" /\ Stack(t) = <<>>

\* The autoload hook, called by the engine for classes that are not defined,
\* and PCS\Mgr::get...() and require...(), which look whether the symbol is
\* defined, unless their second argument says that the autoloader calls
Bug_MustLoad(t, k, autoload) ==         \* the test is turned round
    k \in DOMAIN symbols /\ (~autoload \/ k \notin req[t].defined)
MustLoad(t, k, autoload) ==
    k \in DOMAIN symbols /\ (autoload \/ k \notin req[t].defined)

LoadSymbol(t, k, autoload) ==
    /\ Running(t)
    /\ MustLoad(t, k, autoload)
    /\ req' = [req EXCEPT ![t] = Pushed(@, symbols[k])]
    /\ UNCHANGED <<load_mode, symbols, loader_init_done, mutex>>

PCS_loadScript(t, f) ==
    /\ Running(t)
    /\ req' = [req EXCEPT ![t] = Pushed(@, f)]
    /\ UNCHANGED <<load_mode, symbols, loader_init_done, mutex>>

\* Also after a RINIT or a script that bailed out
EndRequest(t) ==
    /\ Running(t) \/ req[t].pc \in {"failed", "aborted"}
    /\ req' = [req EXCEPT ![t] = NoRequest]
    /\ UNCHANGED <<load_mode, symbols, loader_init_done, mutex>>

Next ==
    \E t \in Thread :
      \/ BeginRequest(t) \/ LockSymbols(t) \/ RinitStep(t)
      \/ \E k \in Wanted, autoload \in BOOLEAN : LoadSymbol(t, k, autoload)
      \/ \E f \in Loadable : PCS_loadScript(t, f)
      \/ req[t].pc = "run" /\ LoadStep(t)
      \/ EndRequest(t)

Spec == Init /\ [][Next]_vars

\* Threads keep running, and a mutex that is free again and again is taken
FairSpec ==
    Spec /\ \A t \in Thread : SF_vars(LockSymbols(t)) /\ WF_vars(RinitStep(t))

-----------------------------------------------------------------------------
\* Properties

LoaderTypeOK ==
    /\ load_mode \in [File -> 0..3]
    /\ DOMAIN symbols \subseteq Key /\ \A k \in DOMAIN symbols : symbols[k] \in File
    /\ loader_init_done \in BOOLEAN
    /\ mutex \in Thread \cup {Null}
    /\ req \in [Thread ->
         [pc : {"off", "lock", "parser", "register", "keys", "unlock", "loop", "run",
                "failed", "aborted", "exit"},
          i : Nat, keys : Seq(Key),
          stack : Seq([file : File, pc : {"compile", "exec", "wait"}, rest : Seq(ClassKey)]),
          status : {"SUCCESS", "FAILURE"}, defined : SUBSET Key, noext : BOOLEAN]]

Ready(t) == req[t].pc \in {"loop", "run"}

\* No request gets past the mutex before the symbol table is complete, also
\* after an initialisation that failed or bailed out.
ReadyAfterInit == \A t \in Thread : Ready(t) => loader_init_done

\* Requests read the symbol table and the load modes without the mutex: no
\* thread writes to them while any request can do so.
TableFrozen == [][(\E t \in Thread : Ready(t)) => UNCHANGED table]_vars

\* The file that is loaded for a symbol, by definition: the one that is parsed
\* and whose keys have it
Declaring(k) == {f \in Elems(FileList) : Parsed(f) /\ k \in Elems(Script[f].keys)}

\* Once the table counts as complete it has every symbol of every parsed file and
\* no other one, also when earlier initialisations stopped halfway, and the mode
\* of a file is the one its flags say or, by default, the one client.h:46 derives
\* from its contents.
TableExact ==
    loader_init_done =>
      /\ \A k \in Key :
            IF Declaring(k) = {} THEN k \notin DOMAIN symbols
            ELSE k \in DOMAIN symbols /\ symbols[k] \in Declaring(k)
      /\ \A f \in Elems(FileList) :
            load_mode[f] =
              CASE Script[f].flags # 0 -> Script[f].flags
                [] Script[f].flags = 0 /\ (~Script[f].php \/ Script[f].keys = <<>>) -> NONE
                [] Script[f].flags = 0 /\ Script[f].php /\ Script[f].keys # <<>> ->
                     IF Elems(Script[f].keys) \subseteq ClassKey THEN AUTOLOAD ELSE RINIT

\* A symbol that is registered, by whichever initialisation and however it went
\* on, is that of the first file that declares it: no later one takes it over.
FirstWins ==
    \A k \in DOMAIN symbols : \E i \in 1..Len(FileList) :
      /\ symbols[k] = FileList[i] /\ FileList[i] \in Declaring(k)
      /\ \A j \in 1..(i - 1) : FileList[j] \notin Declaring(k)

\* The parser refuses a file, or a symbol is declared twice.
Clash(i, m, j, n) ==
    /\ Parsed(FileList[i]) /\ Parsed(FileList[j]) /\ (i # j \/ m # n)
    /\ Script[FileList[i]].keys[m] = Script[FileList[j]].keys[n]
Faulty ==
    \/ \E f \in Elems(FileList) : Parsed(f) /\ Script[f].parse = "error"
    \/ \E i, j \in 1..Len(FileList) :
         \E m \in 1..Len(Script[FileList[i]].keys), n \in 1..Len(Script[FileList[j]].keys) :
           Clash(i, m, j, n)

\* Then no initialisation ever succeeds, the one that meets the error and those of
\* later requests: no request runs with a table from which symbols were left out.
NoneLeftOut == Faulty => ~loader_init_done

\* "Load script at every RINIT" (client.h:54): when the RINIT of a request is
\* over, all RINIT files have been loaded in this request.
RinitLoaded ==
    \A t \in Thread : req[t].pc = "run" =>
      \A f \in Elems(FileList) : load_mode[f] = RINIT =>
        Script[f].declares \subseteq req[t].defined

\* A load never begins that declares again what the request has already, whether
\* it is one of RINIT, of a client or an autoload inside other loads; except that a
\* script asks for it, by PCS\Mgr::get...() or require...() with a second argument.
LoadedOnce ==
    [][\A t \in Thread : Len(req'[t].stack) > Len(Stack(t)) =>
         \/ Script[req'[t].stack[1].file].declares \cap req[t].defined = {}
         \/ \E k \in Wanted \cap req[t].defined : LoadSymbol(t, k, TRUE)]_vars

\* A request that left the initialisation by a bailout still holds the mutex.
Abandoned ==
    /\ mutex # Null /\ ~loader_init_done
    /\ req[mutex].pc \notin {"parser", "register", "keys", "unlock"}

\* Every RINIT ends, also that of a request that has to wait for another one to
\* fill the table, unless that one bailed out.
RinitEnds ==
    \A t \in Thread :
      req[t].pc = "lock" ~> req[t].pc \in {"run", "failed"} \/ Exited \/ Abandoned

\* "Mutex ensures symbol table is populated only once" (PCS_Loader.c:696): the
\* table is populated once requests have started, unless the engine exits.
Populated ==
    \A t \in Thread : req[t].pc = "lock" ~> loader_init_done \/ Exited

\* "Load script at every RINIT" (client.h:54): no RINIT that began with the
\* symbol table complete fails.
RinitSucceeds ==
    \A t \in Thread : req[t].pc \in {"failed", "exit"} => ~loader_init_done
=============================================================================
