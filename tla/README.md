# PCS in TLA+

PCS ("PHP Code Service", `php_pcs.c` and `src/`) is a PHP extension that lets other
extensions ship PHP scripts inside the PHP process.  A client extension registers
files during its MINIT; PCS keeps them in a virtual file tree, serves them through
the `pcs://` stream wrapper, finds out which symbols they define, and loads them by
itself: when a class is first used, or at the start of every request.

This directory models that code in TLA+, checks the models with TLC on small
instances, and proves the main results about the virtual tree, the API on top of it, the
streams, the loader, the parser and the autoload hook with TLAPS.
Paths below are relative to the root of the repository (`src/PCS_Tree.c` is the
C file, `client.h` the public header).

## Inventory

| component | state | operations | hard behaviour |
|---|---|---|---|
| Tree (`src/PCS_Tree.c`) | nodes, `root`, `pathList` (path cache), `fileList` (IDs) | add file / dir, path lookup, ID lookup | lookups by all threads, cache written under a mutex but read without; aliases cached for ever; failure halfway through a path |
| API (`src/PCS_API.c`, `client.h`) | none of its own; buffers of file contents | registerEmbedded, registerData, registerPath, loadScript, getPath, getID | recursive crawl that fails in the middle; ownership of buffers; the file that shrinks while it is read |
| Loader (`src/PCS_Loader.c`) | `symbols` table, `load_mode` of nodes, list of RINIT scripts, init flag | first RINIT builds the symbol table under a mutex, every RINIT runs the RINIT scripts, loadSymbol, loadNode | threads that start at the same time; failure and bailout with the mutex held; nested loads; engine flags set and reset |
| Autoload hook (`src/PCS_Loader.c` 23-144) | `EG(autoload_func)`, `PCS_G(autoload_func)` | hook, insertion at RINIT, wrappers of the three `spl_autoload_...` functions | nested lookups, a pointer that outlives its request, calls cut short by a fatal error |
| Parser (`php/src/internal/parser/StringParser.php`, `src/PCS_Parser`) | parser automaton | directives and symbols of a script | namespace and block levels, declarations the automaton does not know |
| Stream (`src/PCS_Stream.c`) | private data (node, offset) of every open stream | open, read, seek, stat, opendir, readdir, rewinddir, close | positions at the ends under the read-ahead of PHP's streams layer, rewinding a directory, reuse of a persistent stream |
| Shared strings (`src/PCS_Tree.c`, `src/PCS_Info.c`) | reference counts of the nodes' paths and URIs | created with the node, handed out by fileInfos, symbolInfos and open, released at MSHUTDOWN | counts changed by all threads without a lock |
| Info, Class, Display (`src/PCS_Info.c`, `src/PCS_Class.c`, `php/src/...`) | none | the `PCS\Mgr` class: information about files and symbols, loading on demand | see Shared strings and Autoload hook |
| Module (`php_pcs.c`) | `in_startup`, per-thread globals | MINIT, RINIT, RSHUTDOWN, MSHUTDOWN | order of the components' hooks |

Interaction: client extensions call the API from their MINIT; the API calls the
Tree; the first RINIT of any thread ends the startup phase and makes the Loader
walk `fileList`; later the stream wrapper, the API and the Loader look nodes up in
the Tree from every thread.  The engine calls the autoload hook, which looks up the
Loader's `symbols`, which opens `pcs://` URIs, which call the stream wrapper.

What makes each component correct:

- **Tree.** Parent pointers, directory entries, paths, `pathList` and `fileList` always
  describe the same tree, also between the steps of an addition and after one that
  failed halfway; a cached path, aliases through `.` and `..` included, never becomes
  stale; a lookup finds what a walk of the tree finds, whatever other threads do; IDs are
  dense and never move; nothing a lookup reads without a lock changes during a lookup.
- **API.** The counts and IDs returned are those of the files added; a crawl registers
  exactly the regular files of the subtree; a buffer is owned by one call or one node and
  is freed once; every call returns.
- **Loader.** No request runs with an incomplete symbol table; the table is exactly what
  the files declare and does not change under its readers; every RINIT file is loaded in
  every request, and no symbol is declared again in one unless a script forces it; every
  RINIT ends.
- **Parser.** The symbols of a script are those it declares at top level, and those of one
  script do not leak into the next.
- **Stream.** A sequence of reads and seeks behaves like one on an ordinary read-only
  file, and a directory stream lists every entry once, also after a rewind.
- **Autoload hook.** The hook is put back after whatever PHP code registers, so that PCS
  is called before the other autoloaders, and PHP code sees the autoloaders that it would see without PCS; no function
  of a request that has ended is ever called.
- **Shared strings.** The count of a node's string is what its owners and all PHP values
  add up to, so that it lives as long as the node and is freed at MSHUTDOWN.

## Modules

| module | models | runs | theorems |
|---|---|---|---|
| `VirtualFS` | what the tree promises to clients: a set of directories and a numbered sequence of files that only grow | (as property `ImplementsVFS`) | |
| `PCS_Tree` | `PCS_Tree.c`: additions, lookups, the path cache and its mutex | `tree_safety`, `api` | `PCS_Tree_proofs` |
| `PCS_Path` | `PCS_Tree_cleanPath` | `path_exact` | `PCS_Path_proofs` |
| `PCS_API` | `PCS_API.c` on top of `PCS_Tree`, MSHUTDOWN of the tree | `api`, `api_shrinking` | `PCS_API_proofs` |
| `PCS_Loader` | `PCS_Loader.c`: the symbol table, RINIT, loading of files | `loader_*` | `PCS_Loader_proofs` |
| `SplAutoload` | what PHP code sees of autoloading without PCS | (as property `ImplementsSpl`) | |
| `PCS_Autoload` | `PCS_Loader.c`: the hook and the wrapped `spl_autoload_...` functions | `autoload` | `PCS_Autoload_proofs` |
| `PCS_Parser` | `StringParser.php`: directives and token automaton | `parser_exact` | `PCS_Parser_proofs` |
| `PCS_Grammar` | the scripts that the parser understands, as a grammar of their tokens | `parser_exact` (`StatementsUnderstood`) | `PCS_Parser_proofs` |
| `PCS_Strings` | the nodes' shared strings and their counts | `strings_race`, `stream` | |
| `ReadCursor` | what a stream promises: a position in a fixed sequence | (as property `ImplementsCursor`) | |
| `PCS_Stream` | `PCS_Stream.c` on top of `PCS_Strings` | `stream` | `PCS_Stream_proofs` |
| `Induction` | induction over numbers and functions defined by steps, for the proofs | | its lemmas |
| `MC_...` | constants of the runs | | |

`PCS_API` extends `PCS_Tree`: its actions conjoin the tree's (`AddNode`, `AddReturn`,
`Lookup`, ...) with the state of the call, and the property `ImplementsTree` (which is the
tree's specification) says that it uses the tree in no other way.  `PCS_Loader` takes the
files of the tree as a constant: `TreeStable` is the reason why it may.  It also takes
the keys that a file declares as given; `PCS_Parser` is where they come from.
`PCS_Stream` extends `PCS_Strings`: opening a stream with `opened_path` is the action
`OpenedPath` there.  `PCS_Autoload` and `PCS_Loader` meet at the hook: the loader has
what the hook loads and executes, `PCS_Autoload` who is asked for a class and in which
order.

### PCS_Tree

| in the code | in the model |
|---|---|
| `PCS_Node`, its directory table and file data | `node`, a function from allocated addresses to records |
| `pathList` | path -> node found first, and the number of buckets with that key |
| `fileList` | a sequence; ID `i` is at index `i + 1` |
| `PCS_Tree_addNode` | `AddNode` (start), then one step per segment: `SubNodeForbidden` (`.`/`..`), `SubNodeExists`, `SubNodeCreate`, and `AddReturn` |
| `PCS_Tree_getNodeFromPath` | `Lookup`, `FindHit`, `FindMiss`, the walk of `PCS_Tree_resolvePath` (`WalkOn`, `WalkFail`, `WalkEnd`), `Lock`, `Write`, `LookupReturn` |
| `in_startup` | `in_startup`, cleared by `BeginRequests` |

Additions run in one thread before requests begin (`MayRegister`), lookups in any thread
afterwards, and in the main thread during startup between additions.  A path is the
sequence of its segments; `PCS_Path` and its theorems justify this.  A read of
`pathList` while another thread writes to it is a data race; `FindMiss` lets such a read
miss an entry that is there, and a read that succeeds is `FindHit`.  Worse outcomes of
the race (a crash, while the table is being reallocated) are outside what the properties
can speak of.  `zend_hash_add_new_ptr` does not look for the key, so `Listed` counts
buckets; the newest one wins.

### PCS_Path

One action per turn of the two loops of `PCS_Tree_cleanPath`, on characters.

### PCS_API

`call` is the call in progress, `frames` its recursion over directories, and `pc` the
place in the innermost frame.  Disk objects have a kind: directory, regular file,
something else, missing (`stat` fails), unopenable, unscannable, shrinking (the file gets
shorter between `fstat` and `fread`).  `scandir`'s entries come in any order.  `heap` says
which buffers are in use and for which object.  `php_error(E_CORE_ERROR)` ends the process
during MINIT in most builds of PHP; the model follows the code that comes after it, which
returns FAILURE, since that is the path the authors wrote and the harder one.  MSHUTDOWN
destroys the nodes reachable from the root, as `PCS_Tree_destroyNode` does.

### PCS_Loader

`req` is the request of every thread, with `pc` for RINIT (wait for the mutex, load the
parser, register every file and key, unlock, loop over RINIT files) and `stack` for the
files being loaded, the innermost first.  What a file declares and uses is the constant
`Script`.  The engine is external: compiling a file declares its symbols, a second
declaration is a fatal error, a fatal error or a limit is a bailout (`BailedOut`), a
`longjmp` to the nearest `zend_try`.  PHP code that waits for the autoload of a class is
in `pc = "wait"`.  A RINIT that returns FAILURE ends the process (`pc = "exit"`).

An error that the loader itself reports, `php_error(E_CORE_ERROR)` for a symbol that is
registered already or a script that cannot be parsed, is a bailout too once the module has
started (`ErrorInFile`): it leaves `RINIT_PCS_Loader` with the mutex held, and what the code
does after `php_error`, return FAILURE and go on with the next file, is never reached.
`BailOut` is only enabled with `Bailouts`, as anything PHP code may run into; `ErrorInFile`
and the fatal redeclaration do not depend on it.

`LoadSymbol(t, k, autoload)` has the argument of `PCS_Loader_loadSymbol`: the hook passes
TRUE for what the engine found undefined, `PCS\Mgr::get...()` and `require...()` pass on what
the script gives as second argument, with which the test for a defined symbol is skipped
(`MustLoad`).

### PCS_Autoload

`eg` is `EG(autoload_func)`, `pcs_g` is `PCS_G(autoload_func)`, which belongs to the thread
and not to the request.  `list` and `running` are SPL's list of autoloaders and its flag
that it is going through it.  Calls under way are a stack: a class being loaded (by the
hook, by SPL or by an `__autoload()`), and a registration that waits for the class of its
callback, which `spl_autoload_register` loads to see whether it can be called, while the
hook is out.  At every level PHP code may do anything.  Each wrapper is one action, except
that a registration is `RegisterBegin` and `RegisterEnd`.  The semantics of the engine are
those of PHP 7.0: an `__autoload()` is taken when there is no autoload function;
`spl_autoload_unregister` only looks at the syntax of its argument.

The `longjmp` of a fatal error (`Fatal`) ends at the innermost file that PCS executes
(`Catching`), since `PCS_Loader_loadNode` has a `zend_try` around the execution: the file is
taken from the stack with all that it had called, and the PHP code below goes on.  If there
is no such file the script is over and shutdown functions run.  Either way the classes of
the calls that are gone stay in `in_autoload`, `running` and both pointers stay as they were,
and if a registration was among those calls the hook stays out (`cut`).  A file that fails
to compile (`CompileError`, and `GetClass(c, TRUE)` of a class that is defined) is not
executed yet, so that what lies below it catches.

`SplAutoload` is the same without PCS: the autoload function, the list and the answers of
`spl_autoload_functions()`.  The refinement maps its `func` to `pcs_g` while the hook is
in and to `eg` while it is out.

### PCS_Strings and PCS_Stream

`refs` has the count of every path and URI.  A change of a count is a load (`Load`) and a
store (`Store`), since `zend_string_addref` is neither atomic nor locked; `work` is what a
thread still has to change and `held` what its PHP values refer to.

A stream of `PCS_Stream` has the fields of a `php_stream` that matter (position, read-ahead
buffer, eof, persistent ID) and a `PCS_STREAM_DATA` in `dp`.  The operations of
`PCS_Stream.c` are `StreamRead`, `SeekTargets`, `ReadDir`, `RewindDir`, `Stat` and the
`Open...` actions; the streams layer around them (fill the buffer in chunks, seek within
the buffer without a call, turn `SEEK_CUR` into `SEEK_SET`, clear eof after a seek, keep
persistent streams over requests and give them back with their old position) is external.
The sum for `SEEK_END` may overflow, which is undefined; it ends at either end.
A file or directory does not change any more, so its contents are the constant `Items`.
`Data` and streams are taken by CHOOSE: which one the allocator gives does not matter.

### PCS_Parser

`p` holds the local variables of the `parse()` call in progress, `symbols` and
`exclude_list` are the static members of the class.  One action takes one directive or one
token; the actions carry the names of the automaton's states (`ST_NAMESPACE_2` is
`NamespacePart` and `NamespaceEnd`, the two definition states are `NameFound`).
`token_get_all` is external: a script is a sequence of pieces (statements) and each piece
comes with the tokens PHP makes of it and with what it declares.  `Expected` derives from
the latter what the whole script declares, and the automaton, which sees only the tokens,
is compared with it.  An exception leaves the static members as they are; since nothing in
the extension catches it, the request ends and the engine resets them (`EndRequest`).

`PCS_Grammar` says which pieces the parser understands, without a word about the automaton: a
piece is plain code, at most one declaration, namespace or block, and plain code again
(`Cut`), or it ends in a declaration that something else than a name follows (`Refused`,
the pieces that are not valid).  The grammar relates the tokens to what the piece declares:
`Class` and `Function` end with the brace that closes the first one, where the braces in
every other pair of double quotes do not count (`Depth`), `Namespace` spells the name out.
What it leaves out are the constructs that the parser misreads, each of which makes
`ParseExact` false.  Those met are:

- `use function f;`, which has no body, so that the automaton skips the next block;
- `A::class`, `new class { }`, `define($x, 1)` and `$x->define()` in valid code, which the
  parser refuses;
- `const A = 1, B = 2;`, of which it sees `A` only;
- `namespace{` without a space, after which the old namespace stays in force;
- `"${x}"` in a heredoc, whose `}` is counted and whose `{` is not;
- an escape in the literal of a `define`, since only the quotes are trimmed and nothing is
  decoded: `define('NS\\C', 1)` gives a key with two backslashes.  (The value of a literal
  in the model is its source text, as in the code, and the grammar asks for that text to be
  the constant's name.)

The pieces of the run are all in the grammar, with skip-blocks and without
(`StatementsUnderstood`, which TLC evaluates).

## Runs

| run | question | result |
|---|---|---|
| `tree_safety` | all orders of additions of four paths (a file or directory, an entry below it, a sibling, a path refused halfway) and of concurrent lookups of three paths, aliases included, by two threads | holds |
| `path_exact` | `cleanPath` on all strings of up to five characters out of `/`, `\`, `.`, `a` | holds |
| `api` | any sequence of registrations of a disk tree with failing sources of all kinds, embedded lists (bad ones too) and client data, with two threads looking up aliases: are counts, buffers, contents and IDs right, does every call and lookup return? | holds |
| `api_shrinking` | the same with a file that shrinks while it is read | **no**: the loop around `fread` has no exit |
| `loader_safety` | two threads, bailouts anywhere, nested autoloads, RINIT files, a file loaded by its client, scripts that force a load; does every RINIT end, unless an initialisation bails out? | holds |
| `loader_clash` | clashing symbols and a file the parser refuses: who gets a symbol, can a table be complete with symbols missing, over any number of requests that try again? | holds |
| `loader_stuck` | is the table populated once requests have started, with bailouts? | **no**: a bailout in the initialisation leaves the mutex locked |
| `loader_rinit` | can a RINIT fail once the table is complete? | **yes**: a RINIT file autoloaded by an earlier one is loaded again |
| `autoload` | PHP code at any depth registers, unregisters, lists and defines autoloaders, uses classes and dies, over any number of requests: when is the hook out, is a function of an earlier request called, does PHP code see what it would see without PCS? | holds |
| `parser_exact` | scripts of up to three statements of eleven kinds, five lists of directives, parsed one after the other: are the symbols returned those declared? | holds |
| `stream` | any mixture of opens, reads, seeks, listings, rewinds, persistent opens, closes and ends of requests | holds |
| `strings_race` | do a node's strings stay allocated as long as the node, with two threads? | **no**: two unlocked changes of a count lose an increment |

Met while modelling, and not given runs of their own:

- Tree: `pathList` is read without the mutex while it may be resized; two threads that
  miss a path both add it, which makes a duplicate bucket; every alias that a script uses
  stays in `pathList` and holds its key for ever; registering at the empty virtual path
  creates a child of the root with an empty name (an assertion fails in debug builds).
- API: the filter for `.` and `..` in `PCS_registerPath` also drops `.x` and `..xyz`
  (`CrawlComplete` fails with such a file on the disk); `PCS_getID` of a directory returns
  the directory's element counters, where `client.h` promises FAILURE.
- Loader: one file that clashes or cannot be parsed keeps the table from ever being complete:
  with threads every later request waits for the mutex (as in `loader_stuck`), without
  threads each starts the initialisation again, on the half-filled table, where it clashes
  with what the first one registered.  `PCS\Mgr::getClass(c, TRUE)` of a class that is loaded
  compiles its file again, a fatal error.
- Autoload: registering a static method looks its class up without PCS, and when a fatal
  error ends that lookup the hook stays out for what runs afterwards; calls of
  `spl_autoload_...` functions from inside the lookup lose or misplace a registration
  (`NestedSpl`).
- Parser: `A::class` makes it throw; it misreads `use function f;` and
  `const A = 1, B = 2;`; the name in `define` is not decoded; a `declare` directive with an
  unknown type makes a key without a type prefix.
- Stream: opening a persistent stream that is there forgets the private data of this call,
  a leak of the process, and returns the stream at its old position.

They are in `PROJECT.json` under the hazards.

### Bounds

- `tree_safety`: four addresses (root and three nodes) allow a directory with a child and a
  sibling, which every clash between registrations needs; two threads suffice for races
  on `pathList`, since a lookup only meets the writes of one other at a time (the mutex);
  `MaxCopies = 2` bounds torn reads, so that a duplicate bucket can occur and a third one
  adds nothing.
- `path_exact`: five characters; the loop keeps one bit of memory, so any local pattern
  occurs (slash, run of slashes, start and end).
- `api`, `api_shrinking`: nine nodes and six buffers are enough for the largest sequence of registrations of the
  run: the guard of `Allocate` and `SubNodeCreate` never blocks for lack of one in a way
  that hides a failing call (the calls that fail are those of the disk).  The hidden file
  of the disk of `api` has a name of three characters, which the filter lets pass;
  the names that it should let pass and does not are left out.
- `loader_*`: two threads (one fills the table, one waits or reads it), eight files, with
  one case of each kind of file; nested loads are three deep.  `loader_clash` has one thread
  and no mutex, since only then does a second initialisation follow one that failed.
- `parser_exact`: the automaton remembers its state, the namespace, a brace level and one flag,
  so what a statement leaves behind shows in the next one; two statements in any order,
  and three when the first begins a namespace, meet every pair of states.  The statements
  include one that is not valid and one in a conditional block.
- `autoload`: a class that PCS has and one that it has not, each with a static method as
  callback, and a function: every case of `RegisterBegin` and of the hook.  Three calls
  deep: a class used by the autoloader of a class in a registration.  `NestedSpl = FALSE`
  leaves out `spl_autoload_...` calls made during the lookup of a registration, for which
  `ImplementsSpl` does not hold (see above).
- `stream`: one thread (the streams of different threads share only strings, whose race is
  `strings_race`), two streams (one may be persistent, the other a new one on the same
  node), three private data, so that one can be forgotten; a file of three bytes read in
  chunks of two by reads of one and of four bytes meets a short last chunk, a read from the
  buffer alone and one that is longer than the file; an empty file, a directory of two
  entries; offsets -1, 1 and 4, before, in and after the buffer and the file, and
  `MaxOffset = 4`, so that a sum overflows.  The VIEW leaves out `last`, the last operation
  and its result, which no action reads; `ImplementsCursor`, which is about it, is
  checked on every step.  `MaxHeld = 1` reference is enough for a count to differ.
- `strings_race`: one node and one reference per thread.

Deadlock is checked in `tree_safety`, `parser_exact` and `autoload`.  It is switched off where
the program ends: after MSHUTDOWN (`api`, `api_shrinking`, `stream`, `strings_race`), after the
engine's exit or with the mutex held for ever (`loader_*`), and when `cleanPath` has returned
(`path_exact`).

### Fairness

`ApiFairSpec` (API and tree) has weak fairness of a call's next step and of each thread's
lookup step: a thread that can run is eventually scheduled.  It is enough for the
`pathList` mutex: each path is inserted after a bounded number of misses, so that
contention ends.  `FairSpec` of the loader has weak fairness of each RINIT's step and
strong fairness of `LockSymbols`: a mutex that is free again and again is eventually
taken.  `RinitEnds` has one exception, `Abandoned`: a bailout in the initialisation leaves
the mutex locked, and the others wait for ever (`loader_stuck`).  New requests, registrations and the end of a request have no
fairness: nothing makes clients act.

## Proofs

`PCS_Tree_proofs` proves, for every value of the constants, any number of threads and any
tree: `TypeCorrect`, `TreeShapeInvariant`, `PathListExactInvariant`,
`FileListInvariant`, `TreeStableInvariant`, `PathListSoundInvariant`,
`LookupExactInvariant` and `TreeImplementsVFS`.  `TreeShape`, `PathListExact`,
`PathListSound`, `LookupExact` and `ImplementsVFS` are proved under the hypothesis `<<>> \notin RegPath`, no client registers at the empty
path, without which they are false (see "met while modelling").

The argument is by layers, each an inductive invariant that uses those before it:

1. `TypeInv`: `TypeOK`, and what every step needs to be well typed: the root is a
   directory, links lead to allocated nodes, an addition in progress stands on a directory
   with a segment left, a walk has its index inside the path.  `FileListExact` is
   inductive together with it.
2. `PhaseInv`: additions happen in the startup only, and never while the main thread looks
   something up; all other threads are idle until it ends.  `TreeStable` follows: a step
   that changes the tree belongs to an addition, which excludes lookups.
3. `ShapeInv`: `TypeInv`, names are proper segments, `TreeShape` and `PathListExact`.
4. `TreeInv`: `ShapeInv`, and that a walk along ordinary names is, after k of them, at the
   node whose path is those k names.  The layer is needed for `PathListExact`: that a new
   node's path is not in `pathList` yet follows from the exactness of `pathList` for its
   parent, and from the parent having no entry of that name; that two nodes never share a
   path, from paths being injective in (parent, name).
5. `SoundInv`: every cached path has a trace from the root, and so has the part that
   a walk in progress has passed.  A trace survives additions because entries and parents
   are never changed once set.
6. `LookupExact` compares a lookup that returns with `Walk`, a function defined by
   recursion on the length of the path.  `Walk` is shown to be well defined and to be
   what a trace ends at, by induction on the length (`Induction`); then a hit is exact by
   `SoundInv`, and a walk in progress by its trace so far, or by the lack of one.
7. `TreeImplementsVFS` maps directories to the set of their paths and `fileList` to the
   sequence of paths; `SubNodeCreate` is the one action that is not a stutter.

Induction.  The library states induction with an operator as a parameter, which the
provers cannot instantiate.  The module `Induction` derives it from the library's theorem
that `<` is well founded on the numbers, stated with sets: `LeastNatural` (a non-empty set of
numbers has a least element), `InductionUpTo`, and `Iteration`, that the function which a
recursion over `0..n` describes exists.  The last one is what turns a recursive function of
a model, which is a CHOOSE to the prover, into its defining equations.

`PCS_Path_proofs` proves `PathTypeOK`, `NoEmptySegment`, `CleanKept` and `CleanExact` for paths
of any length.  Its invariant `PathInv` says that `ignore_slash` is true exactly when the
output is empty or ends in a slash, that the output has no two slashes in a row, and that
for a clean path the output is the part of the path read so far.  For `CleanExact`, the
invariant has besides an increasing function from the places of the output to the places of
the path, whose image is the places that a clean path keeps; two such functions with the
same image are equal, by `LeastNatural`.

`PCS_API_proofs` is about the API and the tree together.  `ApiImplementsTree`: every step of
`ApiSpec` is a step of the tree or leaves it alone.  `TreeUnderApi` cites it to carry the
theorems of `PCS_Tree_proofs` over to the composed system.  About calls it proves `ApiTypes`,
`DataIsKept`, `NoFileIsWithoutData`, `BufferIsOwned`, `ReturnIsExact` and
`CrawlIsComplete` (the last two, like the tree's shape, for clients that do not register at
the empty path).  Its
layers:

1. `CallInv`: the types of `call`, `frames` and `heap`; the directories of the recursion lie
   inside the tree of disk objects (`CrawlOK`); an addition runs inside a call and a call
   inside the startup.
2. `ApiInv`: `CallInv`, the tree's `TypeInv` and `FileListExact`, and two facts that relate
   the call to the tree.  `Filled`: only the file whose addition has not returned lacks
   data, and it is the newest file.  `Reached`: every set of nodes that contains the root
   and the entries of its directories is the set of all nodes.  MSHUTDOWN destroys what can
   be reached from the root, and `Reached` says that this is everything; it is preserved
   from one building step to the next, which takes the place of an induction over the tree.
3. `OwnInv`: a buffer belongs to the frame or the addition in progress, or to exactly one
   node, or to none and is free.
4. `CountInv`: the counts of the frames add up to the files added so far by this call, of
   which the data of the current frame may be pending.
5. `CrawlInv`, for `CrawlIsComplete` (`CrawlComplete`): at every step of a crawl, the files
   that the call has added, those of the object in hand and those under the entries that
   any frame still has to do are together the files under the source (`Balance`), with
   the places and contents they have on the disk; a buffer that is being added is at the
   place of its file (`FileInHand`).  `FilesUnder`, a recursion over the depth, is unfolded
   once by `FilesUnfold`, which takes `Iteration` and `InductionUpTo` from `Induction`.

`CrawlIsComplete` has two hypotheses about the disk, which the one of the run `api` meets.
`NoCycle`: no directory contains itself at any depth (with such a link the code recurses
until it fails).  `OnlyDotsSkipped`: no entry but `.` and `..` is left out; the filter of the
code also drops names like `.x` and `..xyz`, and their files are then missing.

`PCS_Stream_proofs` proves `StreamTypes`, `DataIsOwned` (a stream that is open has private data
of its own, which no other stream has), `ReadAheadAgrees` (what the streams layer has
buffered are the items before the wrapper's own position), `StreamImplementsCursor`, and for
the strings, when there is one thread (`OneThread`, a build without ZTS),
`CountExactInvariant` and `StringsAliveInvariant`; with two threads `strings_race` violates
the latter.

1. `StreamInv` adds to the first three that directory streams have no buffer: `rewinddir` moves
   the wrapper and not the buffer.
2. `CursorInv`, for `StreamImplementsCursor`: what is in the buffer is what comes in the contents
   behind the position that PHP code sees (`BufferExact`), and a persistent stream is kept under
   an ID of its own node (`IdExact`).  Every operation then moves one cursor of `ReadCursor`, or
   opens or closes some; the refinement maps a stream to its node and its position, the
   read-ahead left out.
3. `CountInv`: the count of a string is the number of its owners and of the references that
   PHP code holds, except for what the one operation in progress still has to store.  With
   one thread a count that was loaded is still the one in memory when it is stored.

`PCS_Loader_proofs` proves `LoaderTypes`, `TableIsComplete` (`ReadyAfterInit`: no request runs
with an incomplete table) and `NoWriteUnderReader` (`TableFrozen`).  `LoaderInv` has the
invariant of the mutex: with threads, a request that is in the initialisation holds it, hence
two never are, and once the initialisation is done nobody is.  `LoadStepOutcome` sums up
what the loading of a file, with nested loads and bailouts, may do to its request: it goes
on in the same phase, ends, or (in the initialisation) takes the process down with the
mutex locked.

The second part of `PCS_Loader_proofs` builds more invariants on `LoaderInv`:

1. `RinitInv`, for `RinitFilesAreLoaded` (`RinitLoaded`), without hypotheses: a file on the
   stack of a request that is past its compilation has declared its symbols, all files but
   the innermost wait, and the RINIT files before the index of the loop are loaded.
2. `TableInv`, for `FirstToDeclareWins` (`FirstWins`) and `NoSymbolIsLeftOut` (`NoneLeftOut`),
   without hypotheses: `Progress` says what an initialisation that has come to a certain key
   of a certain file has met so far.  All files up to there could be parsed, all their keys
   are in the table, and no key came twice.  Its own keys are in the table although
   another initialisation, stopped halfway, may have left some there, since otherwise it
   would have clashed.  At the end of the list, `Progress` says that nothing is `Faulty`.
3. `ModeInv`, for `TableIsExact` (`TableExact`): the load modes of the files done so far.
4. `DeclaredInv` and `OnceInv`, for `NothingLoadedTwice` (`LoadedOnce`): the table only leads to
   files that declare the symbol; during RINIT a request has declared any file as a whole or
   not at all (`Whole`), and nothing of the files that it will still come to (`ToCome`); what
   is on its stack is among the files that the current one reaches (`UnderWay`).  An autoload
   is of a class that is not declared, hence of a file that is not.  In the script of the
   request, where any file may have been loaded again by force, `Whole` is what remains.
5. `NoFailure`, for `RinitNeverFails` (`RinitSucceeds`): no request has met an error.  A file
   that is compiled in RINIT declares nothing anew, so that the engine has no reason to fail.

The last three have the hypothesis `Distinct`, no file is in the list twice, which is part of
`FileListExact` of the tree.

`NothingLoadedTwice` and `RinitNeverFails` are false for some scripts: `loader_rinit` shows a
RINIT file that is autoloaded by an earlier one and then loaded again by the loop.  Their
hypotheses say which scripts a client must not ship.  `OneDeclaration`: a symbol is declared
by one file, which the parser did not invent; the parser's own files are not flagged to be
loaded in another way; what clients load by themselves, as often as they like, declares
nothing.  `InOrder`: the parser reaches no RINIT file, and a RINIT file reaches no later one,
where a file reaches those that hold the classes it uses, and so on (`Reached`, the least
closed set).  The scripts of `loader_safety` satisfy them, those of `loader_rinit` do not.
`RinitNeverFails` also excludes bailouts; `NothingLoadedTwice` does not, nor initialisations
that start again.  What `NothingLoadedTwice` says has one exception, a load that a script
forces by the second argument of `PCS\Mgr::get...()` or `require...()` for a symbol that is
defined.  The exception is that step only: the loads nested in it are not excepted.

`PCS_Autoload_proofs` proves `AutoloadTypes`, `HookStaysIn` (`HookInstalled`), `NothingStale`,
`PcsIsCalledFirst` (`CalledFirst`) when the callbacks registered are functions, and, when no
registration is made inside the lookup of another (`~NestedSpl`), `AutoloadImplementsSpl`.
`AutoloadInv` says which of the two pointers is the hook: it is in, unless a registration
waits or was cut short (`HookInstalled`), and without nested calls it is out while one waits
(`HookOut`).  It also says how nested calls lie on the stack (`Nested`) and, in `PointersAgree`,
that while the hook is out the two pointers are the same up to `Strip`, which takes an
`__autoload()` for a missing function, as PHP code sees it.

Without the hypothesis on callbacks `CalledFirst` is false, and no run has it as a property: the
class of a static method is looked up while the hook is out, and a fatal error in that
lookup that a file below catches leaves the hook out for what PHP code does next.  What
holds of all callbacks is `HookInstalled`, which says exactly when the hook is out.  With functions a
registration waits for nothing, so that it is only ever the innermost call and nothing
cuts it (`FirstInv`).

`PCS_Parser_proofs` proves `ParseExactInvariant`: `ParseExact` holds of every script that is
`Understood`, that is, made of pieces in the grammar, unless it is ignored or has an invalid
directive.  Scripts, pieces and namespaces have any length, declarations any tokens that the
grammar allows, and scripts follow each other in any order, understood or not.

1. Sequences.  `Joined` is the concatenation of a sequence of sequences as a function of how many
   of them are taken; it exists by `Iteration`, and the library's `FlattenSeq`, which is recursive,
   is its last value (`Flattened`).  It gives the tokens that are left after `i` tokens of
   piece `j` (`Rest`) and the keys of the first pieces (`FoundIn`) one step at a time.
2. Steps.  For each state of the automaton a lemma says where a token leads, in words of the
   token (`OutStep`, `NamedStep`, `BlockStep`, ...).
3. Counting.  `QuotesStep` and `DepthStep` relate the grammar's cardinalities to the counter of
   the automaton; inside a block the level is the depth (`Nested`), so that it gets to 0 at the
   brace that ends the block and not before (`InBlock`).
4. Places.  `Place` is the inductive invariant inside a piece that is cut at `a` and `b`: the
   call is before `a` in plain code (`Loose`: in no declaration, or past a keyword that
   the grammar says is harmless), inside `a..b` at a certain place of a declaration, a
   namespace or a block (`Inside`), before the token that it refuses (`Doomed`), or behind `b`,
   with the keys and the namespace of the pieces before it, or of this one too.
5. `ParseInv`: how far the directives have been obeyed (`Directed`) or the tokens read
   (`Reached`), and that an exception is only thrown for a script that is not valid.  It
   needs that `symbols` and `exclude_list` are empty between calls, which `cleanup`
   and `EndRequest` establish.

The hypothesis cannot be dropped, see the constructs above; the run checks scripts that
satisfy it.

Assumptions: the named ASSUMEs of the modules (`Root \in Addr`, names are not `.`, `..` or
empty, ...), which TLC evaluates in every run.

The assumptions on the streams say that sizes are at most `MaxOffset` (an offset is a C
integer, and a file in memory is shorter than its range).

Only model-checked:

- liveness and fairness, which are out of the prover's reach: `CallReturns`,
  `LookupReturns`, `RinitEnds`;
- what the runs that expect a violation show, which are counterexamples.

## Not modelled, and plan

- Loader and API: `PCS_loadScript` is in the loader's model; the load flags are in the
  loader's model and left out of the API's and the tree's, which only pass them on; messages
  and the start and end of the module are left out.
- Info and PCS\Mgr: what fileInfos and symbolInfos do to the shared strings is in
  `PCS_Strings`; the rest builds PHP arrays out of a node that does not change.
- Possible further proofs: that the grammar covers what PHP accepts, short of the listed
  constructs, which needs a model of PHP's own grammar; the refinement of `PCS_API` to a
  specification of registrations as single steps.

Not planned: phpinfo() and HTML output, ini settings, the build-time embedding tool and
the arrays it generates, the vendored compatibility headers, the build and CI files: they
keep no state that a property could be about.
