-------------------------------- MODULE FileTree --------------------------------
(***************************************************************************)
(* The file system under the server, as its code uses it: a tree maps each *)
(* path that exists to "dir" or "file".  A path is the sequence of its     *)
(* components from "/", which is the empty sequence; it may hold "." and   *)
(* ".." where it is an argument, never where it is in a tree.  There are   *)
(* no symbolic links.                                                      *)
(*                                                                         *)
(* A call that fails leaves the tree as it is.                             *)
(***************************************************************************)
EXTENDS Naturals, FiniteSets, SequencesExt

\* The size of the file system: a call that would exceed it fails.
CONSTANTS
    MaxDepth,       \* components of a path
    MaxEntries      \* files and directories

ASSUME SizeAssumption == MaxDepth \in Nat /\ MaxEntries \in Nat

NoPath == <<"">>
Dots == {".", ".."}

\* The paths at and under a directory.
Under(path, top) == IsPrefix(top, path)

IsDirAt(tree, at) == at \in DOMAIN tree /\ tree[at] = "dir"
IsFileAt(tree, at) == at \in DOMAIN tree /\ tree[at] = "file"

\* Only the root directory lacks a parent.
WellFormed(tree) ==
    /\ IsDirAt(tree, <<>>)
    /\ \A at \in DOMAIN tree \ {<<>>} : IsDirAt(tree, Front(at)) /\ Last(at) \notin Dots

\* Where a component leads, and where a path leads, one component after
\* another; or NoPath.
Into(tree, at, name) ==
    IF ~IsDirAt(tree, at) THEN NoPath
    ELSE IF name = "." THEN at
    ELSE IF name = ".." THEN IF at = <<>> THEN at ELSE Front(at)
    ELSE IF Append(at, name) \in DOMAIN tree THEN Append(at, name)
    ELSE NoPath

Walk(tree, path) ==
    LET to[n \in 0 .. Len(path)] ==
            IF n = 0 THEN <<>> ELSE Into(tree, to[n - 1], path[n])
    IN  IF path \in DOMAIN tree THEN path ELSE to[Len(path)]

Exists(tree, path) == Walk(tree, path) # NoPath
IsDirectory(tree, path) == IsDirAt(tree, Walk(tree, path))

\* The entry that a call with this path makes, removes or renames.
Entry(tree, path) ==
    IF path \in DOMAIN tree \/ Last(path) \in Dots THEN Walk(tree, path)
    ELSE IF IsDirectory(tree, Front(path))
         THEN Append(Walk(tree, Front(path)), Last(path))
    ELSE NoPath

HasRoom(tree, at) == Len(at) <= MaxDepth /\ Cardinality(DOMAIN tree) < MaxEntries

With(tree, at, what) ==
    [p \in DOMAIN tree \cup {at} |-> IF p = at THEN what ELSE tree[p]]

Without(tree, at) == [p \in DOMAIN tree \ {at} |-> tree[p]]

-------------------------------------------------------------------------------
\* mkdir; makedirs and Path.mkdir make the parents first.
MakeDir(tree, path) ==
    LET at == Entry(tree, path)
    IN  IF at # NoPath /\ at \notin DOMAIN tree /\ HasRoom(tree, at)
        THEN With(tree, at, "dir") ELSE tree

MakeDirs(tree, path) ==
    LET made[n \in 0 .. Len(path)] ==
            IF n = 0 THEN tree ELSE MakeDir(made[n - 1], SubSeq(path, 1, n))
    IN  made[Len(path)]

IsEmpty(tree, at) == \A p \in DOMAIN tree : Under(p, at) => p = at

RemoveDir(tree, path) ==
    LET at == Entry(tree, path)
    IN  IF Last(path) \notin Dots /\ IsDirAt(tree, at) /\ IsEmpty(tree, at)
        THEN Without(tree, at) ELSE tree

RemoveFile(tree, path) ==
    LET at == Entry(tree, path)
    IN  IF IsFileAt(tree, at) THEN Without(tree, at) ELSE tree

\* open for writing
CanCreate(tree, path) ==
    LET at == Entry(tree, path)
    IN  at # NoPath /\ (IsFileAt(tree, at) \/ (at \notin DOMAIN tree /\ HasRoom(tree, at)))

CreateFile(tree, path) ==
    IF CanCreate(tree, path) THEN With(tree, Entry(tree, path), "file") ELSE tree

\* A file may replace a file, a directory an empty directory; a directory
\* does not go under itself.
CanRename(tree, old, new) ==
    LET from == Entry(tree, old)
        to == Entry(tree, new)
    IN  /\ from \in DOMAIN tree /\ to # NoPath
        /\ {Last(old), Last(new)} \cap Dots = {}
        /\ \/ from = to
           \/ /\ ~Under(to, from)
              /\ to \in DOMAIN tree => tree[to] = tree[from] /\ IsEmpty(tree, to)
              /\ \A p \in DOMAIN tree :
                    Under(p, from) => Len(p) - Len(from) + Len(to) <= MaxDepth

\* All at and under one place goes to the other.
Move(tree, from, to) ==
    LET Source(p) == from \o SubSeq(p, Len(to) + 1, Len(p))
        Stays(p) == p \in DOMAIN tree /\ ~Under(p, from) /\ p # to
        Moved(p) == to \o SubSeq(p, Len(from) + 1, Len(p))
    IN  [p \in {q \in DOMAIN tree : Stays(q)}
                    \cup {Moved(q) : q \in {r \in DOMAIN tree : Under(r, from)}}
            |-> IF Under(p, to) THEN tree[Source(p)] ELSE tree[p]]

Rename(tree, old, new) ==
    LET from == Entry(tree, old)
        to == Entry(tree, new)
    IN  IF ~CanRename(tree, old, new) \/ from = to THEN tree
        ELSE Move(tree, from, to)
===============================================================================
