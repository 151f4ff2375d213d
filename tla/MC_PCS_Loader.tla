--------------------------- MODULE MC_PCS_Loader ---------------------------
(***************************************************************************)
(* Scripts for model checking the loader.                                  *)
(***************************************************************************)
EXTENDS PCS_Loader

CONSTANTS t1, t2, null

MC_ClassKey == {"LItf", "LParser", "LA", "LB", "LC", "LD"}
MC_OtherKey == {"Ff", "Fg"}

\* A file whose keys are exactly what it declares, and that uses some classes
File_(flags, keys, uses) ==
    [flags |-> flags, php |-> TRUE, parse |-> "array", keys |-> keys,
     declares |-> Elems(keys), uses |-> uses]

\* "data" is no script; "a" extends the class of "b" at run time; "lib" has a
\* function, so that it is loaded at RINIT, and uses "a"; "forced" is loaded at
\* RINIT without having been parsed; "tool" is loaded by its client.
MC_Script ==
    [itf    |-> File_(NONE, <<"LItf">>, <<>>),
     parser |-> File_(NONE, <<"LParser">>, <<"LItf">>),
     data   |-> [File_(0, <<>>, <<>>) EXCEPT !.php = FALSE],
     a      |-> File_(0, <<"LA">>, <<"LB">>),
     b      |-> File_(AUTOLOAD, <<"LB">>, <<>>),
     lib    |-> File_(0, <<"LC", "Ff">>, <<"LA">>),
     forced |-> File_(RINIT, <<"Fg">>, <<>>),
     tool   |-> File_(NONE, <<>>, <<"LA", "LItf">>)]
MC_FileList == <<"itf", "parser", "data", "lib", "a", "b", "tool", "forced">>
MC_Parser == <<"itf", "parser">>
MC_Wanted == {"LA", "LC", "Ff", "LItf"}
MC_Loadable == {"tool"}
MC_FewWanted == {"LA"}
MC_None == {}

\* Two files that declare the same class, a file that declares what the second has
\* after the clash, and one the parser refuses
MC_TwinScript ==
    [itf    |-> File_(NONE, <<"LItf">>, <<>>),
     parser |-> File_(NONE, <<"LParser">>, <<"LItf">>),
     a      |-> File_(0, <<"LA">>, <<>>),
     lib    |-> File_(0, <<"Ff", "Fg">>, <<"LA">>),
     twin   |-> File_(0, <<"LB", "LA", "LC">>, <<>>),
     late   |-> File_(0, <<"LC">>, <<>>),
     odd    |-> [File_(0, <<"LD">>, <<>>) EXCEPT !.parse = "error"]]
MC_TwinList == <<"itf", "parser", "a", "lib", "twin", "late", "odd">>

\* A file loaded at RINIT uses the class of a later one
MC_RinitScript ==
    [itf    |-> File_(NONE, <<"LItf">>, <<>>),
     parser |-> File_(NONE, <<"LParser">>, <<"LItf">>),
     first  |-> File_(0, <<"Ff">>, <<"LA">>),
     second |-> File_(0, <<"LA", "Fg">>, <<>>)]
MC_RinitList == <<"itf", "parser", "first", "second">>
=============================================================================
