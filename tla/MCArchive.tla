----------------------------- MODULE MCArchive -----------------------------
(* Two patches, alone or one appended to the other: a PATCH whose delta ends *)
(* inside a buffer, before an ADD that fills two chunks; and one small ADD.  *)
(* Programs with and without zlib; threads, or fork with both C libraries.   *)
EXTENDS ArchiveStream

O(op, size, id) == [op |-> op, size |-> size, id |-> id, z |-> FALSE]
MCPatches == { << O("PATCH", 1, "p"), O("ADD", 3, "a") >>, << O("ADD", 1, "b") >> }
MCBuilds == [zlib : BOOLEAN, pthread : {FALSE}, syncs : {TRUE}]
              \cup { [zlib |-> TRUE, pthread |-> FALSE, syncs |-> FALSE],
                     [zlib |-> FALSE, pthread |-> TRUE, syncs |-> TRUE] }
=============================================================================
