---------------------------- MODULE ProductTree ----------------------------
(***************************************************************************)
(* The installed product as MojoPatch sees it once it has chdir()'d there: *)
(* a tree of files and directories, reached by relative paths.  Every path *)
(* operation of the handlers (stat, unlink, rmdir, mkdir, fopen) is a      *)
(* function of such a tree.                                                *)
(*                                                                         *)
(* A path is the sequence of its components, so the code's                 *)
(* "%s" PATH_SEP "%s" is Append.  The content of a file is its md5: the    *)
(* code compares contents by md5sum only, and collisions are left out.     *)
(* Modes, symbolic links (make_filelist hides them) and empty files as a   *)
(* case of their own are left out too.                                     *)
(***************************************************************************)
EXTENDS Integers, Sequences

CONSTANTS
    Path,       \* the relative paths any patch or install may hold
    Content,    \* whole file contents, one per md5sum that matters
    Absent,     \* "no such file or directory"
    Dir,        \* a directory
    Partial     \* a file cut short: bytes whose md5sum no archive names

\* The directory the patcher has chdir()'d to; it is never itself a target.
Root == << >>

ASSUME PathAssumption ==
    /\ Path \subseteq Seq(STRING)
    /\ \A p \in Path : Len(p) > 0
    /\ \A p \in Path : \A n \in 1..Len(p) : SubSeq(p, 1, n) \in Path

ASSUME NodeAssumption ==
    /\ Absent \notin Content /\ Dir \notin Content /\ Partial \notin Content
    /\ Absent # Dir /\ Absent # Partial /\ Dir # Partial

Node == Content \cup {Absent, Dir, Partial}
File == Content \cup {Partial}
Tree == [Path -> Node]

Parent(p) == SubSeq(p, 1, Len(p) - 1)

\* The paths inside directory d, at any depth.
Under(d) == {q \in Path : Len(d) < Len(q) /\ \A k \in 1..Len(d) : q[k] = d[k]}

----------------------------------------------------------------------------
(* What the platform layer answers about a tree t. *)

file_exists(t, p) == t[p] # Absent
file_is_directory(t, p) == t[p] = Dir
make_filelist(t, d) == {q \in Path : Parent(q) = d /\ t[q] # Absent}

\* open(O_CREAT), mkdir() and rename() need the directory to be there.
ParentIsDir(t, p) == Parent(p) # Root => t[Parent(p)] = Dir

\* No entry without the directories above it.
IsTree(t) == \A d \in Path : \A q \in Under(d) : t[q] # Absent => t[d] = Dir
=============================================================================
