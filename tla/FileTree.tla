------------------------------ MODULE FileTree ------------------------------
(***************************************************************************)
(* What the virtual filesystem promises: a tree of named directories and   *)
(* files, which a call extends by one entry or cuts at one branch.  A path *)
(* is a sequence of names and begins with that of a mountpoint.            *)
(***************************************************************************)
EXTENDS Naturals, Sequences

CONSTANTS
    Names,      \* names an entry may have
    MountNames  \* names of mountpoints

VARIABLE entries    \* the entries there are, each a path and its type

IsDirectory(path) == [path |-> path, type |-> "directory"] \in entries

Parent(path) == SubSeq(path, 1, Len(path) - 1)

Below(path) ==
    { e \in entries : Len(e.path) >= Len(path) /\ SubSeq(e.path, 1, Len(path)) = path }

Init == entries = {}

Mount(name) ==
    /\ ~ \E e \in entries : e.path = <<name>>
    /\ entries' = entries \cup {[path |-> <<name>>, type |-> "directory"]}

\* A new name in a directory.
Add(e) ==
    /\ Len(e.path) > 1
    /\ IsDirectory(Parent(e.path))
    /\ e.path[Len(e.path)] \in Names
    /\ ~ \E f \in entries : f.path = e.path
    /\ entries' = entries \cup {e}

\* An entry goes, and with it all that is in it.
Cut(path) ==
    /\ Len(path) > 1
    /\ Below(path) # {}
    /\ entries' = entries \ Below(path)

Destroy == entries' = {}

\* The step is named by what it changed.
Next ==
    \/ \E name \in MountNames : Mount(name)
    \/ \E e \in entries' \ entries : Add(e)
    \/ \E e \in entries \ entries' : Cut(e.path)
    \/ Destroy

Spec == Init /\ [][Next]_entries
=============================================================================
