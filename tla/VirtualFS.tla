----------------------------- MODULE VirtualFS -----------------------------
(***************************************************************************)
(* What the virtual file tree promises to a client extension, without      *)
(* nodes, hash tables or locks: a set of directory paths and a numbered    *)
(* list of file paths.  Directories and files are only ever added, each    *)
(* below an existing directory and at a path that is not yet taken, and    *)
(* the n-th file added keeps the ID n - 1 for ever (client.h, PCS_ID).     *)
(***************************************************************************)
EXTENDS Naturals, Sequences

CONSTANT EntryName      \* the names an entry may have

VARIABLES dirs,         \* set of directory paths, a path being a sequence of names
          files         \* sequence of file paths; file ID i is at index i + 1

TakenPaths == dirs \cup {files[i] : i \in 1..Len(files)}

Init == dirs = {<<>>} /\ files = <<>>

MakeDir(p) ==
    /\ p \notin TakenPaths
    /\ dirs' = dirs \cup {p}
    /\ UNCHANGED files

CreateFile(p) ==
    /\ p \notin TakenPaths
    /\ files' = Append(files, p)
    /\ UNCHANGED dirs

Next == \E d \in dirs, n \in EntryName :
            MakeDir(Append(d, n)) \/ CreateFile(Append(d, n))

Spec == Init /\ [][Next]_<<dirs, files>>

=============================================================================
