---------------------------- MODULE MCFileSystem ----------------------------
(* FileSystem for TLC: two processes, three file names, of which c is a    *)
(* long one, and one device.                                               *)
EXTENDS FileSystem, TLC

CONSTANTS p1, p2, a, b, c, tty

Devices == <<tty>>

\* The processes and the short names are interchangeable.
FsSymmetry == Permutations({p1, p2}) \cup Permutations({a, b})
\* So are the short names when there is one process.
NameSymmetry == Permutations({a, b})

\* What every start promises, also on a disk that an earlier one has left in the
\* middle of a creation or a removal: mkfs begins the maps anew and leaves no
\* entry of then among its own, so that the counts cover who has an inode open,
\* what is open exists until the directory has reached old entries, and the map
\* has the sectors of the files of this start (main.cpp:157-249).
HoldsAgain ==
    RefCountCovers /\ OpenFilesExist /\ NoAliases /\ SectorsExact /\ EntriesAreFiles
=============================================================================
