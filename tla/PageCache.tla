------------------------------ MODULE PageCache ------------------------------
(***************************************************************************)
(* The pages of a file xdelta has mapped: the list of the least recently   *)
(* used ones, the bound on their number, and the md5sum that is computed   *)
(* as the pages, or the bytes of a stream, go by.  The handle "plays games"*)
(* with the calling patterns of the library, so these are part of the      *)
(* model: what follows is one handle in one of the roles MojoPatch has for *)
(* it.                                                                     *)
(*   "from"  FROM of a delta: indexed page by page, then any page at a     *)
(*           time, one held                                                *)
(*   "to"    TO of a delta: page after page, never one before              *)
(*   "base"  FROM of a patch: whatever page a copy needs                   *)
(*   "in"    the delta a patch reads: a header, and then the data piece by *)
(*           piece, as the instructions ask for it                         *)
(*   "out"   what is written: behind a header the data of a delta, or at   *)
(*           once the TO of a patch                                        *)
(***************************************************************************)
EXTENDS Integers, FiniteSets, Sequences, Md5

CONSTANTS
    Lengths,            \* of the file, in bytes
    PageLen,            \* XD_PAGE_SIZE, a multiple of BlockLen
    IoBuf,              \* what md5sum of mojopatch.c reads at a time
    max_mapped_pages,   \* at least 8: maxmem is raised to that
    MaxCopies           \* bound on the copies a patch makes

ASSUME PagesAssumption ==
    /\ Lengths \subseteq Nat /\ {PageLen, IoBuf} \subseteq Nat \ {0}
    /\ max_mapped_pages \in Nat \ {0} /\ MaxCopies \in Nat

VARIABLES
    role,
    no_verify,
    length,     \* of the file, or of the data in it
    fh,         \* the handle, see FreshHandle
    held,       \* the page the client has mapped between two calls, or None
    at,         \* the page, or the byte, the client has come to
    phase       \* "head", "index", "scan", "md5", "end" or "failed"

vars == <<role, no_verify, length, fh, held, at, phase>>

None == -1
last == length \div PageLen     \* xd_handle_pages; this page may be empty
PageNo == 0..last
File == [k \in 1..length |-> k]
HeaderBytes == << length + 1 >>
\* The bytes on_page p.
PageBytes(p) == SubSeq(File, p * PageLen + 1, IF p = last THEN length ELSE (p + 1) * PageLen)

\* next leads to the head, prev to the tail; ctx is what is hashed, md5 the digest.
FreshHandle(n) == [next |-> [p \in 0..n |-> None], prev |-> [p \in 0..n |-> None],
                   head |-> None, tail |-> None,
                   refs |-> [p \in 0..n |-> 0], mapped |-> {},
                   md5_page |-> 0, ctx |-> edsio_md5_init, md5 |-> << >>,
                   aborted |-> FALSE]

\* Slip: the tail stays where it was.
pull_lru_tail(h, p) ==
    LET n == h.next[p]
        v == h.prev[p]
        a == IF n # None THEN [h EXCEPT !.prev[n] = v] ELSE [h EXCEPT !.head = v]
        b == IF v # None THEN [a EXCEPT !.next[v] = n] ELSE a
    IN  [b EXCEPT !.next[p] = None, !.prev[p] = None]

pull_lru(h, p) ==
    LET n == h.next[p]
        v == h.prev[p]
        a == IF n # None THEN [h EXCEPT !.prev[n] = v] ELSE [h EXCEPT !.head = v]
        b == IF v # None THEN [a EXCEPT !.next[v] = n] ELSE [a EXCEPT !.tail = n]
    IN  [b EXCEPT !.next[p] = None, !.prev[p] = None]

\* The loop starts at the tail and goes on by prev, away from the list: only
\* the tail is ever looked at.
really_free_one_page(h) ==
    IF h.tail # None /\ h.refs[h.tail] = 0
    THEN [pull_lru(h, h.tail) EXCEPT !.mapped = @ \ {h.tail}]
    ELSE h

\* g_assert (lru_count < max_mapped_pages) is compiled in.
make_lru_room(h) ==
    LET room == IF Cardinality(h.mapped) = max_mapped_pages THEN really_free_one_page(h) ELSE h
    IN  [room EXCEPT !.aborted = @ \/ Cardinality(room.mapped) >= max_mapped_pages]

\* edsio_md5_final leaves the context zeroized.
Final(h) == [h EXCEPT !.md5 = edsio_md5_final(h.ctx), !.ctx = zeroized]

\* The page whose turn it was goes through the digest, the last one ends it.
Hashed(h, p, verify) ==
    LET a == [h EXCEPT !.ctx = IF verify THEN edsio_md5_update(@, PageBytes(p)) ELSE @,
                       !.md5_page = @ + 1]
    IN  IF a.md5_page > last THEN Final(a) ELSE a

\* Slip: the page is hashed when it comes, in whatever order.
md5_any_page(h, p) == Hashed(h, p, ~no_verify)

\* A page that is mapped when its turn has come is hashed.
md5_this_page(h, p) == IF p = h.md5_page THEN Hashed(h, p, ~no_verify) ELSE h

\* The page becomes the head of the list.
ToHead(h, p) ==
    LET pulled == IF p \in h.mapped THEN pull_lru(h, p) ELSE h
        a == [pulled EXCEPT !.prev[p] = pulled.head, !.next[p] = None, !.head = p]
        b == IF pulled.head # None THEN [a EXCEPT !.next[pulled.head] = p] ELSE a
    IN  IF b.tail = None THEN [b EXCEPT !.tail = p] ELSE b

Mapped(h, p) == [make_lru_room(h) EXCEPT !.mapped = @ \cup {p}]

map_page(h, p) ==
    LET c == ToHead(h, p)
        d == IF p \in h.mapped THEN c ELSE md5_this_page(Mapped(c, p), p)
    IN  [d EXCEPT !.refs[p] = @ + 1]

\* A page of TO that is let go becomes the tail, and is freed.
unmap_page(h, p) ==
    LET a == [h EXCEPT !.refs[p] = @ - 1]
        b == pull_lru(a, p)
        c == [b EXCEPT !.next[p] = b.tail, !.tail = p]
        d == IF b.tail # None THEN [c EXCEPT !.prev[b.tail] = p] ELSE c
    IN  IF role = "to" /\ a.refs[p] = 0 THEN really_free_one_page(d) ELSE a

----------------------------------------------------------------------------

\* -n is for "delta"; "patch" is as the delta it reads.
Init == /\ role \in {"from", "to", "base", "in", "out"}
        /\ no_verify \in BOOLEAN
        /\ length \in Lengths
        /\ fh = FreshHandle(last)
        /\ held = None
        /\ at = 0
        /\ phase \in IF role = "from" THEN {"index"} ELSE IF role = "in" THEN {"head"}
                     ELSE IF role = "out" THEN {"head", "scan"} ELSE {"scan"}

Fixed == UNCHANGED <<role, no_verify, length>>

\* generate_checksums maps and unmaps one page after the other.
IndexPage == /\ phase = "index"
             /\ at <= last
             /\ fh' = unmap_page(map_page(fh, at), at)
             /\ at' = at + 1
             /\ Fixed /\ UNCHANGED <<held, phase>>

Indexed == /\ phase = "index"
           /\ at > last
           /\ phase' = "scan"
           /\ Fixed /\ UNCHANGED <<fh, held, at>>

\* FROM or TO is too short to be compared: FROM is not mapped at all.
NotIndexed == /\ phase = "index"
              /\ at = 0
              /\ phase' = "md5"
              /\ Fixed /\ UNCHANGED <<fh, held, at>>

\* Slip: the page held so far stays mapped.
PosMapKeeping(p) ==
    /\ phase = "scan"
    /\ role \in {"from", "to"}
    /\ p # held
    /\ role = "to" => p = at
    /\ fh' = map_page(fh, p)
    /\ held' = p
    /\ at' = p + 1
    /\ Fixed /\ UNCHANGED phase

\* map_page of xdelta.c: the page of a position, instead of the one before.
PosMap(p) ==
    /\ phase = "scan"
    /\ role \in {"from", "to"}
    /\ p # held
    /\ role = "to" => p = at
    /\ fh' = map_page(IF held = None THEN fh ELSE unmap_page(fh, held), p)
    /\ held' = p
    /\ at' = p + 1
    /\ Fixed /\ UNCHANGED phase

\* The position in TO is unmapped at the end, the one in FROM is not.
Scanned == /\ phase = "scan"
           /\ role \in {"from", "to"}
           /\ IF role = "to" /\ held # None
              THEN fh' = unmap_page(fh, held) /\ held' = None
              ELSE UNCHANGED <<fh, held>>
           /\ phase' = "md5"
           /\ Fixed /\ UNCHANGED at

\* xd_handle_copy; at counts the copies.
CopyPage(p) == /\ phase = "scan"
               /\ role = "base"
               /\ at < MaxCopies
               /\ fh' = unmap_page(map_page(fh, p), p)
               /\ at' = at + 1
               /\ Fixed /\ UNCHANGED <<held, phase>>

\* The md5sum of FROM is only asked for when the output was wrong.
Copied == /\ phase = "scan"
          /\ role = "base"
          /\ phase' = "md5"
          /\ Fixed /\ UNCHANGED <<fh, held, at>>

\* xd_handle_checksum_md5: what has not been hashed on the way, with or
\* without -n.
ChecksumPage ==
    /\ phase = "md5"
    /\ role \notin {"in", "out"}
    /\ fh.md5_page <= last
    /\ LET p == fh.md5_page
           h == map_page(fh, p)
           hashed == IF p = h.md5_page THEN Hashed(h, p, TRUE) ELSE h
       IN  fh' = unmap_page(hashed, p)
    /\ Fixed /\ UNCHANGED <<held, at, phase>>

ChecksumDone == /\ phase = "md5"
                /\ role \notin {"in", "out"}
                /\ fh.md5_page > last
                /\ phase' = "end"
                /\ Fixed /\ UNCHANGED <<fh, held, at>>

\* The pages the client may ask for next, and the handle it then has.
Asked == {p \in PageNo :
            \/ phase = "index" /\ p = at
            \/ phase = "scan" /\ role \in {"from", "to"} /\ p # held /\ (role = "to" => p = at)
            \/ phase = "scan" /\ role = "base" /\ at < MaxCopies
            \/ phase = "md5" /\ role \notin {"in", "out"} /\ p = fh.md5_page}
Free == IF held = None THEN fh ELSE unmap_page(fh, held)

GiveUp == phase' = "failed" /\ Fixed /\ UNCHANGED <<held, at>>

\* mmap fails, which xd_handle_map_page does not notice, as MAP_FAILED is not NULL:
\* xdelta is killed when it looks at the page, or cannot write what is in it.  Or
\* munmap fails, and the page is in the list but not mapped; every caller gives up.
MapFails(p) ==
    /\ p \in Asked /\ p \notin Free.mapped
    /\ LET c == ToHead(Free, p)
       IN  \/ PageBytes(p) # << >> /\ fh' = Mapped(c, p)
           \/ /\ Cardinality(c.mapped) = max_mapped_pages
              /\ fh' = really_free_one_page(c)
    /\ GiveUp

\* munmap fails when a page of TO is let go.
UnmapFails == /\ phase = "scan" /\ role = "to" /\ held # None
              /\ fh' = Free
              /\ GiveUp

----------------------------------------------------------------------------
(* The handles that are streams. *)

Updated(h, bytes) == [h EXCEPT !.ctx = IF no_verify THEN @ ELSE edsio_md5_update(@, bytes)]

\* process_patch reads the header and the control, and narrows patch_in to the
\* data: edsio_md5_init forgets what was read before.
Narrow == /\ phase = "head"
          /\ role = "in"
          /\ fh' = [Updated(fh, HeaderBytes) EXCEPT !.ctx = edsio_md5_init]
          /\ phase' = "scan"
          /\ Fixed /\ UNCHANGED <<held, at>>

\* xd_handle_close "is really a reset for writable files": what is written next
\* is a file of its own, and has its own digest.
CloseHeader == /\ phase = "head"
               /\ role = "out"
               /\ fh' = [Final(Updated(fh, HeaderBytes)) EXCEPT !.ctx = edsio_md5_init]
               /\ phase' = "scan"
               /\ Fixed /\ UNCHANGED <<held, at>>

\* xd_handle_read and xd_handle_write: the next n bytes.
Piece(n) == /\ phase = "scan"
            /\ role \in {"in", "out"}
            /\ at + n <= length
            /\ fh' = Updated(fh, SubSeq(File, at + 1, at + n))
            /\ at' = at + n
            /\ Fixed /\ UNCHANGED <<held, phase>>

\* xd_handle_close and the digest of what was written; of what was read there is
\* one only when the output was wrong.
Streamed == /\ phase = "scan"
            /\ role \in {"in", "out"}
            /\ at = length
            /\ fh' = IF role = "out" THEN [Final(fh) EXCEPT !.ctx = edsio_md5_init]
                     ELSE Final(fh)
            /\ phase' = "end"
            /\ Fixed /\ UNCHANGED <<held, at>>

Next == \/ IndexPage \/ Indexed \/ NotIndexed
        \/ \E p \in PageNo : PosMap(p) \/ CopyPage(p) \/ MapFails(p)
        \/ UnmapFails \/ Scanned \/ Copied \/ ChecksumPage \/ ChecksumDone
        \/ Narrow \/ CloseHeader \/ (\E n \in 1..length : Piece(n)) \/ Streamed

Spec == Init /\ [][Next]_vars

----------------------------------------------------------------------------

Linked(p, q) == fh.prev[p] = q /\ fh.next[q] = p

(* The list holds the mapped pages, each of them once: from the head every
   step by prev comes to another one, and the last of them is the tail. *)
ListIsSound ==
    /\ fh.mapped = {} <=> fh.head = None
    /\ fh.mapped = {} <=> fh.tail = None
    /\ \A p \in fh.mapped :
          /\ IF p = fh.head THEN fh.next[p] = None
             ELSE \E q \in fh.mapped : Linked(q, p)
          /\ IF p = fh.tail THEN fh.prev[p] = None
             ELSE \E q \in fh.mapped : Linked(p, q)
    /\ \A p \in PageNo \ fh.mapped : fh.next[p] = None /\ fh.prev[p] = None

(* No more pages are mapped than there may be, and the assertion about it
   never fires, although a page cannot be freed while it is the tail and in
   use, and only the tail is tried: a client has no page mapped when it maps
   another.  Of TO nothing but the page in hand is kept. *)
WithinTheBound ==
    /\ ~fh.aborted
    /\ Cardinality(fh.mapped) <= max_mapped_pages
    /\ role = "to" => fh.mapped \subseteq {held}

(* What a client has mapped stays where it is until the client lets it go. *)
HeldStaysMapped ==
    \A p \in PageNo : /\ fh.refs[p] = IF p = held THEN 1 ELSE 0
                      /\ fh.refs[p] > 0 => p \in fh.mapped

(* The bytes are hashed in the order of the file, each of them once, however
   they are mapped, read or written, and no others with them; with -n, which
   MojoPatch gives to "delta", none at all. *)
HashedInOrder ==
    fh.ctx # zeroized /\ ~(no_verify /\ role = "base") =>
       Absorbed(fh.ctx) =
         IF no_verify \/ phase \in {"head", "end"} THEN << >>
         ELSE IF role \in {"in", "out"} THEN SubSeq(File, 1, at)
         ELSE SubSeq(File, 1, fh.md5_page * PageLen)

(* The cache of one handle at every point of its use: the list is that of the
   mapped pages, within the bound, with what the client holds. *)
PagesAreSound ==
    phase # "failed" => /\ ListIsSound
                        /\ WithinTheBound
                        /\ HeldStaysMapped

(* md5sum of mojopatch.c: IoBuf bytes at a time. *)
md5sum(file) ==
    LET pieces == [k \in 1..((Len(file) + IoBuf - 1) \div IoBuf) |->
                     SubSeq(file, (k - 1) * IoBuf + 1,
                            IF k * IoBuf > Len(file) THEN Len(file) ELSE k * IoBuf)]
    IN  md5_finish(FoldLeft(md5_append, md5_init, pieces))

(* Every byte is hashed in its turn, and the digest is that of the whole file,
   whatever pages or pieces it came in: patch compares what it has written in
   pieces with what "delta" has mapped page by page, and MojoPatch's own sum is
   the same.  With -n there is only the digest of nothing. *)
DigestIsOfTheFile ==
    /\ HashedInOrder
    /\ md5sum(File) = Digest(File)
    /\ phase = "end" /\ ~(no_verify /\ role = "base") =>
          fh.md5 = Digest(IF no_verify THEN << >> ELSE File)
=============================================================================
