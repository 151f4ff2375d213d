------------------------------ MODULE PCS_Path ------------------------------
(***************************************************************************)
(* PCS_Tree_cleanPath (src/src/PCS_Tree.c), which every path given to the  *)
(* tree goes through: backslashes become slashes, and leading, trailing    *)
(* and repeated slashes go away.  PCS_Tree and the modules above it work   *)
(* on the segments of cleaned paths; that there is no empty segment, and   *)
(* that cleaning a clean path does nothing, is what they rely on.          *)
(*                                                                         *)
(* The loops are stepped through one character at a time.                  *)
(***************************************************************************)
EXTENDS Naturals, Sequences

CONSTANTS
    Char,           \* characters other than slashes and backslashes
    MaxLen          \* bounds the length of the paths in Init

Slash     == "/"
Backslash == "\\"
Byte      == Char \cup {Slash, Backslash}

ASSUME CharAssumption == Slash \notin Char /\ Backslash \notin Char
ASSUME MaxLenAssumption == MaxLen \in Nat

VARIABLES
    path,           \* the input
    i,              \* position of the next character
    ignore_slash,
    target,         \* the characters written so far
    pc              \* "copy", "trim" or "done"

vars == <<path, i, ignore_slash, target, pc>>

Init ==
    /\ path \in UNION {[1..n -> Byte] : n \in 0..MaxLen}
    /\ i = 1
    /\ ignore_slash = TRUE
    /\ target = <<>>
    /\ pc = "copy"

Bug_c == path[i]                        \* backslashes are kept
c == IF path[i] = Backslash THEN Slash ELSE path[i]

InCopy == pc = "copy" /\ i <= Len(path)

SkipSlash ==
    /\ InCopy
    /\ c = Slash /\ ignore_slash
    /\ i' = i + 1
    /\ UNCHANGED <<path, ignore_slash, target, pc>>

\* Two slashes in a row are both kept
Bug_CopySlash ==
    /\ InCopy
    /\ c = Slash /\ ~ignore_slash
    /\ i' = i + 1
    /\ target' = Append(target, c)
    /\ UNCHANGED <<path, ignore_slash, pc>>

CopySlash ==
    /\ InCopy
    /\ c = Slash /\ ~ignore_slash
    /\ i' = i + 1
    /\ ignore_slash' = TRUE
    /\ target' = Append(target, c)
    /\ UNCHANGED <<path, pc>>

\* ignore_slash is only reset by the first character
Bug_CopyChar ==
    /\ InCopy
    /\ c # Slash
    /\ i' = i + 1
    /\ ignore_slash' = (target # <<>>)
    /\ target' = Append(target, c)
    /\ UNCHANGED <<path, pc>>

CopyChar ==
    /\ InCopy
    /\ c # Slash
    /\ i' = i + 1
    /\ ignore_slash' = FALSE
    /\ target' = Append(target, c)
    /\ UNCHANGED <<path, pc>>

CopyEnd ==
    /\ pc = "copy" /\ i > Len(path)
    /\ pc' = "trim"
    /\ UNCHANGED <<path, i, ignore_slash, target>>

TrailingSlash == target # <<>> /\ target[Len(target)] = Slash

\* The trailing slash stays
Bug_Trim ==
    /\ pc = "trim"
    /\ pc' = "done"
    /\ UNCHANGED <<path, i, ignore_slash, target>>

Trim ==
    /\ pc = "trim"
    /\ IF TrailingSlash
       THEN target' = SubSeq(target, 1, Len(target) - 1) /\ pc' = pc
       ELSE target' = target /\ pc' = "done"
    /\ UNCHANGED <<path, i, ignore_slash>>

Next == SkipSlash \/ CopySlash \/ CopyChar \/ CopyEnd \/ Trim

Spec == Init /\ [][Next]_vars

-----------------------------------------------------------------------------
\* Properties

PathTypeOK ==
    /\ path \in Seq(Byte)
    /\ i \in 1..(Len(path) + 1)
    /\ ignore_slash \in BOOLEAN
    /\ target \in Seq(Char \cup {Slash})
    /\ pc \in {"copy", "trim", "done"}

\* A path whose segments are all non-empty
IsClean(p) ==
    /\ p \in Seq(Char \cup {Slash})
    /\ p # <<>> => p[1] # Slash /\ p[Len(p)] # Slash
    /\ \A k \in 1..(Len(p) - 1) : p[k] = Slash => p[k + 1] # Slash

\* The cleaned path has no empty segment.
NoEmptySegment == pc = "done" => IsClean(target)

\* A path that is clean is left as it is: cleaning twice is cleaning once.
CleanKept == pc = "done" /\ IsClean(path) => target = path

\* The characters that are kept, by definition: all that are no slashes, and of
\* the slashes those that follow such a character and have one behind them
IsSlash(b) == b \in {Slash, Backslash}
Kept(p) ==
    {k \in 1..Len(p) : \/ ~IsSlash(p[k])
                       \/ /\ k > 1 /\ ~IsSlash(p[k - 1])
                          /\ \E l \in (k + 1)..Len(p) : ~IsSlash(p[l])}

\* The cleaned path is the kept characters in their order, backslashes turned.
CleanExact ==
    pc = "done" =>
      \E f \in [1..Len(target) -> Kept(path)] :
        /\ \A k \in Kept(path) : \E j \in 1..Len(target) : f[j] = k
        /\ \A j \in 1..Len(target) :
             /\ target[j] = IF IsSlash(path[f[j]]) THEN Slash ELSE path[f[j]]
             /\ j > 1 => f[j - 1] < f[j]
=============================================================================
