-------------------------- MODULE MC_PCS_Autoload --------------------------
(* Instances of PCS_Autoload for TLC. *)
EXTENDS PCS_Autoload

\* A class that PCS has and one that it does not have, each with a static method
\* as callback, and a function
MC_Class == {"P", "K"}
MC_Callback == {"f", "P::load", "K::load"}
MC_ClassOf == [cb \in MC_Callback |->
                 CASE cb = "P::load" -> "P" [] cb = "K::load" -> "K" [] OTHER -> Null]
=============================================================================
