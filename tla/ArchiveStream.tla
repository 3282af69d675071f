--------------------------- MODULE ArchiveStream ---------------------------
(***************************************************************************)
(* The archive as a stream: what SerialArchive and the stdio under it do   *)
(* to the bytes, for the process that creates an archive and for the one   *)
(* that applies it, with the child processes both of them start.           *)
(*                                                                         *)
(* The unit is a cell: a piece of the file that the code reads or writes   *)
(* with one call and whose length it knows.  A signature is two cells, for *)
(* an archive may end inside it; an operation is its code and its fields;  *)
(* a payload is its data, one cell for each unit of a file, and with       *)
(* USE_ZLIB in chunks that begin with a cell for the two sizes.            *)
(*                                                                         *)
(* What stdio and fork do is external: fread fills a buffer of BufSize     *)
(* cells, exit in a child writes out its copy of an unwritten buffer and,  *)
(* where the C library does so ("syncs"), moves the offset it shares with  *)
(* its parent back to the first cell the parent has not consumed.          *)
(***************************************************************************)
EXTENDS Integers, Sequences, FiniteSets, SequencesExt

CONSTANTS
  Patches,      \* the patches that may be created: sequences of operations
  Builds,       \* [zlib, pthread, syncs : BOOLEAN]: use_zlib, use_pthread, libc
  BufSize,      \* cells in a stdio buffer
  IoBuf,        \* units of a file in iobuf
  MaxProcesses, \* runs of the program
  MaxDone       \* where the ghost that counts operations stops

\* The operations with a payload; the others have none and are only fields.
Op == [op : {"ADD", "PATCH"}, size : Nat, id : STRING, z : BOOLEAN]

ASSUME PatchesAssumption ==
  /\ Patches \subseteq Seq(Op)
  /\ Builds \subseteq [zlib : BOOLEAN, pthread : BOOLEAN, syncs : BOOLEAN]
ASSUME SizesAssumption ==
  /\ BufSize \in Nat \ {0} /\ IoBuf \in Nat \ {0}
  /\ MaxProcesses \in Nat /\ MaxDone \in Nat
\* No archive that is written here has more operations than the ghost counts.
ASSUME CountAssumption ==
  \E k \in 1..MaxDone :
    (MaxProcesses - 1) * k <= MaxDone /\ \A p \in Patches : Len(p) < k

VARIABLES
  disk,      \* the cells of the file
  wbuf,      \* the writer's cells that stdio holds
  todo,      \* what put_... and the serializers still have to write
  pos,       \* where the reader believes it is
  off,       \* the offset of the file descriptor, shared with the children
  rbuf,      \* the reader's cells that stdio holds
  mode,      \* "idle", "create", "apply", or "lost": data is taken for operations
  rd,        \* the reader's place: [at, op, left, got]
  child,     \* "none", "running", "over": the process of spawn_binary
  build,     \* how the running program was built
  skip,      \* info_only()
  piped,     \* the archive is standard input and cannot be sought in
  made,      \* ghost: the patches of the archive, the last one perhaps in part
  torn,      \* ghost: a creation that wrote to this file did not end well
  causes,    \* ghost: what happened that can make a reader lose its place
  done,      \* ghost: operations the current or last application has consumed
  result,    \* of the last process: "none", "created", "ok", "bad"
  processes  \* how many have run

avars == <<disk, wbuf, todo, pos, off, rbuf, mode, rd, child, build, skip,
           piped, made, torn, causes, done, result, processes>>
writer == <<disk, wbuf, todo, made, torn>>
stream == <<pos, off, rbuf>>
process == <<build, skip, piped, processes>>

-----------------------------------------------------------------------------
(* What is written.                                                        *)

Signature == << [k |-> "sig1"], [k |-> "sig2"] >>
HeaderCells == Signature \o << [k |-> "strings"] >>
OpCells(o) == << [k |-> "code", o |-> o], [k |-> "fields", o |-> o] >>
Done == [op |-> "DONE", size |-> 0, id |-> "done", z |-> FALSE]

\* compress2: nobody promises that the result has another length.
CompSize(u) == (u + 1) \div 2

DataCells(o, n) == [i \in 1..n |-> [k |-> "data", id |-> o.id]]

\* Slip: the last piece is a whole buffer too.
PiecesUp(n) == [i \in 1..((n + IoBuf - 1) \div IoBuf) |-> IoBuf]
\* Slip: what is left over is not moved.
PiecesDown(n) == [i \in 1..(n \div IoBuf) |-> IoBuf]
\* The pieces of at most IoBuf units in which a file of n is moved.
Pieces(n) == [i \in 1..((n + IoBuf - 1) \div IoBuf) |->
                IF i * IoBuf <= n THEN IoBuf ELSE n % IoBuf]

\* The chunks of write_between_files_compress, each under its two sizes.
ChunkCells(o) ==
  FlattenSeq([i \in DOMAIN Pieces(o.size) |->
    LET u == Pieces(o.size)[i] IN
    << [k |-> "sizes", u |-> u, c |-> CompSize(u)] >> \o DataCells(o, CompSize(u))])

\* write_between_files: an ADD is compressed, a delta is not.
Payload(o) ==
  IF o.op = "ADD" /\ o.z THEN ChunkCells(o) ELSE DataCells(o, o.size)

PatchImage(ops) ==
  HeaderCells
    \o FlattenSeq([i \in DOMAIN ops |-> OpCells(ops[i]) \o Payload(ops[i])])
    \o OpCells(Done)
Image(ps) == FlattenSeq([i \in DOMAIN ps |-> PatchImage(ps[i])])

\* The calls that write one operation, in order: put_patch runs xdelta first.
PutOp(o) ==
  (IF o.op = "PATCH" THEN << [w |-> "spawn"] >> ELSE <<>>)
    \o << [w |-> "put", cells |-> OpCells(o)],
          [w |-> "put", cells |-> Payload(o)] >>

PutPatch(ops) ==
  << [w |-> "put", cells |-> HeaderCells] >>
    \o FlattenSeq([i \in DOMAIN ops |-> PutOp(ops[i])])
    \o << [w |-> "put", cells |-> OpCells(Done)] >>

-----------------------------------------------------------------------------
(* stdio.                                                                  *)

\* fwrite leaves the cells with stdio; flush_archive hands them on.
Written(f, cells) == [f EXCEPT !.wbuf = @ \o cells]
\* Slip: nothing is flushed after an operation.
flush_archive_later(f) == f
flush_archive(f) == [disk |-> f.disk \o f.wbuf, wbuf |-> <<>>]

\* fread: n cells from the buffer, then from the descriptor's offset, with as
\* many behind them as fill the last buffer.  Fewer than n: the end of file.
FRead(f, n) ==
  LET fresh == SubSeq(disk, f.off + 1, Len(disk))
      more  == n - Len(f.rbuf)
      fill  == Min({Len(fresh), BufSize * ((more + BufSize - 1) \div BufSize)})
      held  == IF more <= 0 THEN f.rbuf ELSE f.rbuf \o SubSeq(fresh, 1, fill)
      taken == Min({n, Len(held)})
  IN [cells |-> SubSeq(held, 1, taken),
      f     |-> [pos  |-> f.pos + taken,
                 rbuf |-> SubSeq(held, taken + 1, Len(held)),
                 off  |-> IF more <= 0 THEN f.off ELSE f.off + fill]]

\* fseek by n from where the reader believes it is.  It may go past the end.
\* Either way the descriptor is put where stdio believes it was.
FSeek(f, n) ==
  IF n <= Len(f.rbuf)
    THEN [pos |-> f.pos + n, rbuf |-> SubSeq(f.rbuf, n + 1, Len(f.rbuf)),
          off |-> f.pos + Len(f.rbuf)]
    ELSE [pos |-> f.pos + n, rbuf |-> <<>>, off |-> f.pos + n]

Here == [pos |-> pos, off |-> off, rbuf |-> rbuf]
MoveTo(f) == pos' = f.pos /\ off' = f.off /\ rbuf' = f.rbuf


-----------------------------------------------------------------------------
\* Where an application starts a child: for its three scripts and for xdelta.
Spawning == {"prepatch", "xdelta", "postpatch", "patchingdone"}

NoOp == Done
Resting == [at |-> "none", op |-> NoOp, left |-> 0, got |-> <<>>]

TypeOK ==
  /\ mode \in {"idle", "create", "apply", "lost"}
  /\ child \in {"none", "running", "over"}
  /\ result \in {"none", "created", "ok", "bad", "stopped"}
  /\ rd.at \in {"none", "header", "operation", "body", "skipping", "copying"}
                \cup Spawning
  /\ build \in Builds
  /\ pos \in Nat /\ off \in Nat /\ rd.left \in Int /\ done \in 0..MaxDone
  /\ Len(rbuf) <= BufSize
  /\ causes \subseteq {"raw seek", "rewound", "other build", "torn"}
  /\ processes \in 0..MaxProcesses

Init ==
  /\ disk = <<>> /\ wbuf = <<>> /\ todo = <<>>
  /\ pos = 0 /\ off = 0 /\ rbuf = <<>>
  /\ mode = "idle" /\ rd = Resting /\ child = "none"
  /\ build \in Builds /\ skip = FALSE /\ piped = FALSE
  /\ made = <<>> /\ torn = FALSE /\ causes = {} /\ done = 0
  /\ result = "none" /\ processes = 0

-----------------------------------------------------------------------------
(* Creation.                                                               *)

\* create_patchfile opens the archive: "ab" with --append, "wb" without.
OpenToWrite(ops, appending) ==
  /\ mode = "idle" /\ processes < MaxProcesses
  /\ mode' = "create" /\ processes' = processes + 1
  /\ build' \in Builds
  /\ disk' = IF appending THEN disk ELSE <<>>
  /\ LET own == [i \in DOMAIN ops |-> [ops[i] EXCEPT !.z = build'.zlib]]
     IN /\ todo' = PutPatch(own)
        /\ made' = Append(IF appending THEN made ELSE <<>>, own)
  /\ torn' = (appending /\ torn)
  /\ causes' = IF appending /\ torn THEN {"torn"} ELSE {}
  /\ result' = "none" /\ done' = 0
  /\ UNCHANGED <<wbuf, stream, rd, child, skip, piped>>

\* A serializer or write_between_files, and the flush it ends with.
Put ==
  /\ mode = "create" /\ todo # <<>> /\ child = "none"
  /\ Head(todo).w = "put"
  /\ LET f == flush_archive(Written([disk |-> disk, wbuf |-> wbuf], Head(todo).cells))
     IN disk' = f.disk /\ wbuf' = f.wbuf
  /\ todo' = Tail(todo)
  /\ UNCHANGED <<stream, mode, rd, child, process, made, torn, causes, done, result>>

\* The same call failing, or the process killed in it: part of the cells is there.
PutFails ==
  /\ mode = "create" /\ todo # <<>> /\ child = "none"
  /\ \E cells \in {wbuf} \cup (IF Head(todo).w = "put"
                                  THEN {wbuf \o Head(todo).cells} ELSE {}) :
     \E n \in 0..Len(cells) : disk' = disk \o SubSeq(cells, 1, n)
  /\ wbuf' = <<>> /\ todo' = <<>>
  /\ mode' = "idle" /\ torn' = TRUE /\ result' = "stopped"
  /\ UNCHANGED <<stream, rd, child, process, made, causes, done>>

\* close_serialized_archive.
CloseWritten ==
  /\ mode = "create" /\ todo = <<>>
  /\ disk' = disk \o wbuf /\ wbuf' = <<>>
  /\ mode' = "idle" /\ result' = "created"
  /\ UNCHANGED <<todo, stream, rd, child, process, made, torn, causes, done>>

-----------------------------------------------------------------------------
(* Child processes: spawn_binary.                                          *)

WantsChild ==
  \/ mode = "create" /\ todo # <<>> /\ Head(todo).w = "spawn"
  \/ mode = "apply" /\ rd.at \in Spawning

\* fork, or pthread_create with a thread that calls system.
Spawn ==
  /\ WantsChild /\ child = "none"
  /\ child' = "running"
  /\ UNCHANGED <<writer, stream, mode, rd, process, causes, done, result>>

\* The forked child leaves by exit, which closes its copies of the streams.
ChildExits ==
  /\ child = "running" /\ child' = "over"
  /\ disk' = IF build.pthread THEN disk ELSE disk \o wbuf
  /\ IF ~build.pthread /\ build.syncs /\ ~piped /\ mode = "apply"
          /\ Len(rbuf) \in 1..off
       THEN off' = off - Len(rbuf) /\ causes' = causes \cup {"rewound"}
       ELSE UNCHANGED <<off, causes>>
  /\ UNCHANGED <<wbuf, todo, pos, rbuf, mode, rd, process, made, torn, done, result>>

\* How the program leaves do_patching, and how it loses its place.
OneMore == done' = IF done < MaxDone THEN done + 1 ELSE done
Finish(r) == mode' = "idle" /\ rd' = Resting /\ result' = r
Lose == mode' = "lost" /\ rd' = Resting /\ UNCHANGED result
Go(r) == rd' = r /\ UNCHANGED <<mode, result>>
At(where) == [Resting EXCEPT !.at = where]

OfOtherBuild ==
  IF rd.op.op = "ADD" /\ rd.op.z # build.zlib THEN {"other build"} ELSE {}

\* The operation rd.op is through with its payload, of which it got cells.
\* The md5sum of what was made of them tells other data from its own.
Verified(cells) == cells = Payload(rd.op) /\ OfOtherBuild = {}
Consumed(cells) ==
  IF Verified(cells) THEN Go(At("operation")) /\ OneMore
                     ELSE Finish("bad") /\ UNCHANGED done

\* A script is over: the next thing is done.  One that fails stops the program,
\* but not patchingdone, whose result nobody looks at.
AfterScript == rd.at # "patchingdone" /\
  Go(At(IF rd.at = "prepatch" THEN "operation" ELSE "header"))
ScriptFails == Finish(IF rd.at = "patchingdone" THEN "ok" ELSE "stopped")

\* The loop around waitpid, or around thread_alive, ends.  What xdelta returned
\* is not looked at: the md5sum of its output is.  A script may fail, and one that
\* did well is taken for one that failed when waitpid returns -1.  It does that only
\* when the child is gone, reaped by the system because SIGCHLD is ignored: for a
\* child of one's own, with WNOHANG, there is no other error.
Waited ==
  /\ child = "over" /\ child' = "none"
  /\ \/ /\ mode = "create" /\ todo' = Tail(todo)
        /\ UNCHANGED <<mode, rd, result, done>>
     \/ /\ mode = "apply" /\ rd.at = "xdelta" /\ UNCHANGED todo
        /\ Consumed(rd.got)
     \/ /\ mode = "apply" /\ rd.at # "xdelta" /\ UNCHANGED <<todo, done>>
        /\ AfterScript \/ ScriptFails
  /\ UNCHANGED <<disk, wbuf, stream, process, made, torn, causes>>

SpawnFails ==
  /\ mode = "apply" /\ WantsChild /\ child = "none"
  /\ ScriptFails
  /\ UNCHANGED <<writer, stream, child, process, causes, done>>

-----------------------------------------------------------------------------
(* Application.                                                            *)

OpenToRead ==
  /\ mode = "idle" /\ processes < MaxProcesses
  /\ mode' = "apply" /\ processes' = processes + 1
  /\ build' \in Builds /\ piped' \in BOOLEAN /\ skip' = FALSE
  /\ rd' = At("header") /\ pos' = 0 /\ off' = 0 /\ rbuf' = <<>>
  /\ causes' = causes \cap {"torn"} /\ done' = 0 /\ result' = "none"
  /\ UNCHANGED <<writer, child>>

\* Slip: the end of the file anywhere in the header is legitimate.
AnyEOF(sig, str) == Len(sig.cells) < 2 \/ str.cells = <<>>
legitEOF(sig, str) == Len(sig.cells) < 2

\* serialize_header, and the part of process_patch_header that decides whether
\* the operations that follow are performed.  A file that ends before a whole
\* signature has ended well: it is closed, and patchingdone is run if it is there.
Header ==
  /\ mode = "apply" /\ rd.at = "header"
  /\ LET sig == FRead(Here, 2)
         str == FRead(sig.f, 1)
     IN \/ /\ legitEOF(sig, str)
           /\ Finish("ok") \/ Go(At("patchingdone"))
           /\ MoveTo(sig.f) /\ UNCHANGED skip
        \/ /\ Len(sig.cells) = 2 /\ sig.cells # Signature
           /\ Finish("bad") /\ MoveTo(sig.f) /\ UNCHANGED skip
        \/ /\ sig.cells = Signature
           /\ ~legitEOF(sig, str) /\ MoveTo(str.f) /\ skip' \in BOOLEAN
           /\ \/ /\ str.cells = << [k |-> "strings"] >>
                 /\ \/ Go(At("operation"))
                    \/ ~skip' /\ Go(At("prepatch"))
              \/ str.cells # << [k |-> "strings"] >> /\ Finish("bad")
              \/ str.cells \notin { <<>>, << [k |-> "strings"] >> } /\ Lose
  /\ UNCHANGED <<writer, child, build, piped, processes, causes, done>>

\* serialize_operation.  A code that is none is found out; data need not be.  The
\* last one ends the patch; if it was performed, postpatch is run if it is there.
Operation ==
  /\ mode = "apply" /\ rd.at = "operation"
  /\ LET code   == FRead(Here, 1)
         fields == FRead(code.f, 1)
         cells  == code.cells \o fields.cells
         whole  == /\ Len(cells) = 2 /\ cells[1].k = "code"
                   /\ cells = OpCells(cells[1].o)
         inSig  == code.cells # <<>> /\ code.cells[1] \in Range(Signature)
     IN /\ MoveTo(fields.f)
        /\ \/ /\ whole
              /\ Go(IF cells[1].o = Done THEN At("header")
                    ELSE [at |-> "body", op |-> cells[1].o, left |-> cells[1].o.size,
                          got |-> <<>>])
              /\ IF cells[1].o = Done THEN OneMore ELSE UNCHANGED done
           \/ /\ whole /\ cells[1].o = Done /\ ~skip
              /\ Go(At("postpatch")) /\ OneMore
           \/ ~whole /\ Finish("bad") /\ UNCHANGED done
           \/ ~whole /\ ~inSig /\ Len(cells) = 2 /\ Lose /\ UNCHANGED done
  /\ UNCHANGED <<writer, child, process, causes>>

InBody == mode = "apply" /\ rd.at = "body"

\* Slip: SEEK_SET for SEEK_CUR.
SeekFromStart(n) ==
  /\ MoveTo(FSeek([pos |-> 0, off |-> 0, rbuf |-> <<>>], n))
  /\ Go(At("operation")) /\ OneMore
Seek(n) ==
  \/ ~piped /\ MoveTo(FSeek(Here, n)) /\ Go(At("operation")) /\ OneMore
  \/ piped /\ Finish("stopped") /\ UNCHANGED <<stream, done>>

\* A PATCH that is not performed, or whose file is patched already, is skipped
\* by the size of its delta; one that is performed has the delta copied out.
PatchBody ==
  /\ InBody /\ rd.op.op = "PATCH"
  /\ LET delta == FRead(Here, rd.op.size) IN
     \/ Seek(rd.op.size)
     \/ /\ ~skip /\ MoveTo(delta.f) /\ UNCHANGED done
        /\ IF Len(delta.cells) = rd.op.size
             THEN Go([rd EXCEPT !.at = "xdelta", !.got = delta.cells])
             ELSE Finish("bad")
  /\ UNCHANGED <<writer, child, process, causes>>

\* The file of an ADD is there with the right contents.  Its payload is skipped
\* by the size of the file, also when the payload is compressed.
AddThere ==
  /\ InBody /\ rd.op.op = "ADD" /\ ~skip /\ rd.left = rd.op.size /\ rd.got = <<>>
  /\ Seek(rd.op.size)
  /\ causes' = causes \cup OfOtherBuild \cup
       (IF build.zlib /\ Len(Payload(rd.op)) # rd.op.size
          THEN {"raw seek"} ELSE {})
  /\ UNCHANGED <<writer, child, process>>

\* Without USE_ZLIB: skipped by its size, or copied.
AddPlain ==
  /\ InBody /\ rd.op.op = "ADD" /\ ~build.zlib
  /\ LET data == FRead(Here, rd.op.size) IN
     \/ Seek(rd.op.size)
     \/ ~skip /\ MoveTo(data.f) /\ Consumed(data.cells)
  /\ causes' = causes \cup OfOtherBuild
  /\ UNCHANGED <<writer, child, process>>

\* With USE_ZLIB: write_between_files_uncompress, to the file or past the data.
AddZlib ==
  /\ InBody /\ rd.op.op = "ADD" /\ build.zlib
  /\ \/ Go([rd EXCEPT !.at = "skipping"])
     \/ ~skip /\ Go([rd EXCEPT !.at = "copying"])
  /\ causes' = causes \cup OfOtherBuild
  /\ UNCHANGED <<writer, stream, child, process, done>>

InChunks == mode = "apply" /\ rd.at \in {"skipping", "copying"}

\* Slip: a chunk is skipped by its uncompressed size.
SkipUncompressed(sizes) == sizes.u
SkipSize(sizes) == sizes.c

\* One turn of its loop.  Sizes read from other data are bogus or are believed.
Chunk ==
  /\ InChunks /\ rd.left > 0
  /\ LET sizes == FRead(Here, 1)
         one   == sizes.cells # <<>> /\ sizes.cells[1].k = "sizes"
         data  == FRead(sizes.f, sizes.cells[1].c)
         next  == [rd EXCEPT !.left = @ - sizes.cells[1].u,
                             !.got = @ \o sizes.cells \o data.cells]
     IN \/ /\ one /\ rd.at = "skipping" /\ ~piped
           /\ MoveTo(FSeek(sizes.f, SkipSize(sizes.cells[1]))) /\ Go(next)
        \/ /\ one /\ rd.at = "skipping" /\ piped
           /\ MoveTo(sizes.f) /\ Finish("stopped")
        \/ /\ one /\ rd.at = "copying" /\ MoveTo(data.f)
           /\ IF Len(data.cells) = sizes.cells[1].c THEN Go(next) ELSE Finish("bad")
        \/ ~one /\ MoveTo(sizes.f) /\ Finish("bad")
        \/ ~one /\ sizes.cells # <<>> /\ MoveTo(sizes.f) /\ Lose
  /\ UNCHANGED <<writer, child, process, causes, done>>

ChunksEnd ==
  /\ InChunks /\ rd.left <= 0
  /\ IF rd.at = "copying" THEN Consumed(rd.got)
                          ELSE Go(At("operation")) /\ OneMore
  /\ UNCHANGED <<writer, stream, child, process, causes>>

-----------------------------------------------------------------------------
Create == (\E ops \in Patches, appending \in BOOLEAN : OpenToWrite(ops, appending))
            \/ Put \/ PutFails \/ CloseWritten
Running == Put \/ CloseWritten \/ Spawn \/ ChildExits \/ Waited \/ Header
             \/ Operation \/ PatchBody \/ AddThere \/ AddPlain \/ AddZlib
             \/ Chunk \/ ChunksEnd
\* Nobody starts the program again.
Rest ==
  /\ mode = "lost" \/ (mode = "idle" /\ processes = MaxProcesses)
  /\ UNCHANGED avars
Next == Create \/ OpenToRead \/ SpawnFails \/ Running \/ Rest

Spec == Init /\ [][Next]_avars

\* The program runs on, and so do its children: a started process is run by the
\* system until it ends.  This is weak fairness of Running with what enables it
\* written out; that it is enabled then is what the check for deadlock shows.
FairSpec ==
  Spec /\ ([]<><<Running>>_avars \/ []<>(mode \notin {"create", "apply"}))

-----------------------------------------------------------------------------
\* A reader takes data for an operation only after one of four things: a raw
\* seek over a compressed payload (handle_add_op, an ADD that is already there),
\* a child that moved the shared offset, an archive of a build with another
\* use_zlib, and a patch appended to an archive that was never finished.
InStep ==
  /\ TypeOK
  /\ mode = "lost" => causes # {}

\* An archive that was written to its end, by a build like the reader's and with
\* none of those events, is never refused for its contents.
WholeIsAccepted == result = "bad" => causes # {} \/ torn

\* A creation that says it succeeded left exactly the patches it and the ones it
\* was appended to stand for: nothing twice, from a child's copy of a buffer.
CreatedIsWhole == mode = "idle" /\ ~torn => disk = Image(made)

\* An application that says it succeeded has consumed every operation of every
\* patch; what an unfinished creation added after them is at most a part of one
\* signature.  A cut anywhere else is noticed.
Operations(ps) == Len(FlattenSeq([i \in DOMAIN ps |-> Append(ps[i], Done)]))
CutIsNoticed ==
  result = "ok" /\ causes = {} =>
     \E n \in 0..Len(made) :
       /\ done = Operations(SubSeq(made, 1, n))
       /\ disk \in { Image(SubSeq(made, 1, n)),
                     Image(SubSeq(made, 1, n)) \o << Signature[1] >> }
       /\ ~torn => n = Len(made)

\* What an application says of the archive is so.
ResultIsTrue == WholeIsAccepted /\ CutIsNoticed

\* Every process ends, or has lost its place: the loops of do_patching, of
\* write_between_files_uncompress and around waitpid all run out, unless a child
\* made the reader read again what it had read.
ProcessesEnd ==
  (mode \in {"create", "apply"}) ~>
     (mode \in {"idle", "lost"} \/ "rewound" \in causes)
=============================================================================
