---------------------------- MODULE XdeltaGenerate ----------------------------
(***************************************************************************)
(* The making of a delta: xdp_generate_delta goes through the TO file page *)
(* by page with a rolling checksum, finds the blocks of the FROM file it   *)
(* also holds, and writes what lies between them as patch data.            *)
(*                                                                         *)
(* xpos is where the scan is: a page and an offset in it, and the page     *)
(* that is mapped, which may lag behind.  What is not yet written, from    *)
(* to_output_pos to xpos, has to lie in the mapped page.                   *)
(***************************************************************************)
EXTENDS XdeltaControl

CONSTANTS
    Byte,           \* the values of a byte
    QuerySize,      \* log2 of the block size
    PageSize,       \* XD_PAGE_SIZE
    CHEW,           \* single_hash: a random number for each byte
    Bits,           \* the width of the two halves of a checksum, 16
    TableSize,      \* g_spaced_primes_closest
    c_hash(_, _)

QUERY_SIZE_POW == 2 ^ QuerySize
Word == 0 .. 2 ^ Bits - 1

ASSUME SizeAssumption ==
    /\ QuerySize \in Nat \ {0} /\ Bits \in Nat \ {0} /\ TableSize \in Nat \ {0}
    /\ PageSize \in Nat /\ PageSize >= QUERY_SIZE_POW
    /\ PageSize % QUERY_SIZE_POW = 0
    /\ CHEW \in [Byte -> Word]

VARIABLES
    from, to,       \* the two files
    table,          \* the block of FROM found at each place of the hash table
    xpos,           \* [page, off, mem]
    low, high,      \* the checksum of the block at xpos
    gen,            \* the instructions and the patch data so far
    at              \* "start", "page", "scan", "tail", "made" or "failed"

files == <<from, to>>
gvars == <<from, to, table, xpos, low, high, gen, at>>

Unmapped == -1
NoBlock == -1

\* How many bytes page p of file f has.
Pages(f) == Len(f) \div PageSize
on_page(f, p) == IF p = Pages(f) THEN Len(f) % PageSize ELSE PageSize

XPOS == xpos.page * PageSize + xpos.off
InitPos == [page |-> 0, off |-> 0, mem |-> Unmapped]

\* What is read at offset k of a mapped page p; what lies behind its end is
\* no byte of the file.
Mem(p, k) == IF p \in 0..Pages(to) /\ k < on_page(to, p)
             THEN to[p * PageSize + k + 1] ELSE -1

Checksum(f, k) ==
    LET byte(n) == CHEW[f[k + n]]
        sum[n \in 0..QUERY_SIZE_POW] ==
            IF n = 0 THEN [low |-> 0, high |-> 0]
            ELSE LET l == (sum[n - 1].low + byte(n)) % 2 ^ Bits
                 IN  [low |-> l, high |-> (sum[n - 1].high + l) % 2 ^ Bits]
    IN  sum[QUERY_SIZE_POW]

\* The whole blocks of FROM, by number.
Blocks == 0 .. (Len(from) \div QUERY_SIZE_POW) - 1
BlockChecksum(j) == Checksum(from, j * QUERY_SIZE_POW)
HashOf(c) == c_hash(c.low, c.high) % TableSize

----------------------------------------------------------------------------

GenerateInit(f, t) ==
    /\ from = f
    /\ to = t
    /\ table = << >>
    /\ xpos = InitPos
    /\ low = 0 /\ high = 0
    /\ gen = NewGenerator
    /\ at = "start"

TooSmall == Len(to) < QUERY_SIZE_POW \/ Len(from) < QUERY_SIZE_POW

\* The loop of just_output is the one compute_copies ends with.
just_output == /\ at = "start"
               /\ TooSmall
               /\ at' = "tail"
               /\ UNCHANGED <<files, table, xpos, low, high, gen>>

\* The blocks are entered from the back, each in the place of another with
\* its hash, so that the first one stays.
BuildTable == /\ at = "start"
              /\ ~TooSmall
              /\ table' = [n \in 0 .. TableSize - 1 |->
                      LET here == {j \in Blocks : HashOf(BlockChecksum(j)) = n}
                      IN  IF here = {} THEN NoBlock
                          ELSE CHOOSE j \in here : \A k \in here : j <= k]
              /\ at' = "page"
              /\ UNCHANGED <<files, xpos, low, high, gen>>

\* What is pending is written from the mapped page, up to TO offset end.
Insert(g, page, end) ==
    region_insert(g, [k \in 1 .. end - g.to_output_pos |->
                         Mem(page, (g.to_output_pos % PageSize) + k - 1)])

\* Slip: what is pending is left for later, and its page is unmapped.
NextPageKeeping(pos) ==
    IF on_page(to, pos.mem) < PageSize
    THEN /\ at' = "tail"
         /\ xpos' = [pos EXCEPT !.off = gen.to_output_pos % PageSize]
         /\ UNCHANGED gen
    ELSE /\ at' = "page"
         /\ xpos' = [pos EXCEPT !.page = @ + 1, !.off = 0]
         /\ UNCHANGED gen

\* Slip: on a page that is not the last one the scan begins again.
NextPageAgain(pos) ==
    IF on_page(to, pos.mem) < PageSize
    THEN /\ at' = "tail"
         /\ xpos' = [pos EXCEPT !.off = gen.to_output_pos % PageSize]
         /\ UNCHANGED gen
    ELSE /\ at' = "page"
         /\ xpos' = [pos EXCEPT !.off = gen.to_output_pos % PageSize]
         /\ UNCHANGED gen

\* nextpage: on the last page the loop is left; otherwise what is pending is
\* written before the page is unmapped.
NextPage(pos) ==
    IF on_page(to, pos.mem) < PageSize
    THEN /\ at' = "tail"
         /\ xpos' = [pos EXCEPT !.off = gen.to_output_pos % PageSize]
         /\ UNCHANGED gen
    ELSE /\ at' = "page"
         /\ xpos' = [pos EXCEPT !.page = @ + 1, !.off = 0]
         /\ gen' = Insert(gen, pos.mem, (pos.page + 1) * PageSize)

\* The head of the loop of compute_copies.
MapPage ==
    /\ at = "page"
    /\ XPOS <= Len(to) - QUERY_SIZE_POW
    /\ LET pos == [xpos EXCEPT !.mem = xpos.page] IN
       IF on_page(to, pos.page) - pos.off < QUERY_SIZE_POW
       THEN NextPage(pos) /\ UNCHANGED <<low, high>>
       ELSE /\ low' = Checksum(to, XPOS).low
            /\ high' = Checksum(to, XPOS).high
            /\ xpos' = pos
            /\ at' = "scan"
            /\ UNCHANGED gen
    /\ UNCHANGED <<files, table>>

LoopEnds == /\ at = "page"
            /\ XPOS > Len(to) - QUERY_SIZE_POW
            /\ at' = "tail"
            /\ xpos' = [xpos EXCEPT !.off = gen.to_output_pos % PageSize]
            /\ UNCHANGED <<files, table, low, high, gen>>

----------------------------------------------------------------------------
(* compute_copies: one step of the scan, at xpos. *)

Largest(max, match(_)) ==
    CHOOSE n \in 0..max : match(n) /\ \A k \in n + 1 .. max : ~match(k)

Least(S) == CHOOSE n \in S : \A k \in S : n <= k

\* The block of FROM the table gives for the checksum, where there is one.
Candidate == table[HashOf([low |-> low, high |-> high])]
IsCandidate == /\ Candidate # NoBlock
               /\ BlockChecksum(Candidate) = [low |-> low, high |-> high]
src_offset == Candidate * QUERY_SIZE_POW

\* try_match: how far the files agree before and behind the block.
match_backward ==
    Largest(Least({src_offset, XPOS - gen.to_output_pos, xpos.off}),
            LAMBDA n : \A k \in 1..n : to[XPOS - k + 1] = from[src_offset - k + 1])

match_forward_max == Least({Len(to) - XPOS, Len(from) - src_offset})

\* Slip: the match ends with the page.
match_forward_in_page ==
    Largest(Least({match_forward_max, PageSize - xpos.off}),
            LAMBDA n : \A k \in 1..n : to[XPOS + k] = from[src_offset + k])

match_forward ==
    Largest(match_forward_max,
            LAMBDA n : \A k \in 1..n : to[XPOS + k] = from[src_offset + k])

\* Slip: a match of just one block is not enough.
MatchesMore == match_backward + match_forward > QUERY_SIZE_POW

Matches == match_backward + match_forward >= QUERY_SIZE_POW

\* Behind the match the page is mapped the next byte of the match would be
\* in; the files are not compared further than they both reach.
PageBehind == (XPOS + match_forward - IF match_forward = match_forward_max THEN 1 ELSE 0)
                  \div PageSize

\* one_insert: the match goes on in another page, so what is pending was
\* written out before it was known to be long enough.
one_insert == match_forward_max > 0 /\ PageBehind # xpos.mem

Match == /\ at = "scan"
         /\ IsCandidate
         /\ Matches
         /\ gen' = region_copy(Insert(gen, xpos.mem, XPOS - match_backward),
                               src_offset - match_backward, src_offset + match_forward)
         /\ xpos' = [page |-> (XPOS + match_forward) \div PageSize,
                     off |-> (XPOS + match_forward) % PageSize,
                     mem |-> PageBehind]
         /\ at' = "page"
         /\ UNCHANGED <<files, table, low, high>>

NoMatch == /\ at = "scan"
           /\ ~(IsCandidate /\ Matches)

\* segment_index: the last block of the mapped page has been looked at.
EndOfPage == xpos.off + QUERY_SIZE_POW = on_page(to, xpos.mem)

PageScanned == /\ NoMatch
               /\ EndOfPage
               /\ NextPage(xpos)
               /\ UNCHANGED <<files, table, low, high>>

\* Slip: the byte that leaves the block is taken from high only once.
AdvanceUnweighted ==
    /\ NoMatch
    /\ ~EndOfPage
    /\ LET old_c == CHEW[to[XPOS + 1]]
           new_c == CHEW[to[XPOS + QUERY_SIZE_POW + 1]]
       IN  /\ low' = (low - old_c + new_c) % 2 ^ Bits
           /\ high' = (high - old_c + low') % 2 ^ Bits
    /\ xpos' = [xpos EXCEPT !.off = @ + 1]
    /\ UNCHANGED <<files, table, gen, at>>

Advance ==
    /\ NoMatch
    /\ ~EndOfPage
    /\ LET old_c == CHEW[to[XPOS + 1]]
           new_c == CHEW[to[XPOS + QUERY_SIZE_POW + 1]]
       IN  /\ low' = (low - old_c + new_c) % 2 ^ Bits
           /\ high' = (high - old_c * 2 ^ QuerySize + low') % 2 ^ Bits
    /\ xpos' = [xpos EXCEPT !.off = @ + 1]
    /\ UNCHANGED <<files, table, gen, at>>

----------------------------------------------------------------------------

\* What is left of TO, one page at a time.
RestOfPage == /\ at = "tail"
         /\ gen.to_output_pos < Len(to)
         /\ gen' = Insert(gen, xpos.page,
                          gen.to_output_pos + on_page(to, xpos.page) - xpos.off)
         /\ xpos' = [page |-> xpos.page + 1, off |-> 0, mem |-> xpos.page]
         /\ UNCHANGED <<files, table, low, high, at>>

Made == /\ at = "tail"
        /\ gen.to_output_pos = Len(to)
        /\ at' = "made"
        /\ UNCHANGED <<files, table, xpos, low, high, gen>>

GenerateStep == \/ just_output \/ BuildTable \/ MapPage \/ LoopEnds \/ Match
                \/ PageScanned \/ Advance \/ RestOfPage \/ Made

----------------------------------------------------------------------------
(* Types: what is mapped is a page of TO, and every instruction copies
   something from where its source has it. *)
GTypeOK ==
    /\ {from, to} \subseteq Seq(Byte)
    /\ {low, high} \subseteq Word
    /\ xpos.page \in Nat /\ xpos.off \in 0..PageSize
    /\ xpos.mem \in {Unmapped} \cup 0..Pages(to)
    /\ gen.data \in Seq(Byte)
    /\ gen.inst \in Seq(Instruction)
    /\ \A k \in DOMAIN gen.inst : gen.inst[k].length > 0
    /\ at \in {"start", "page", "scan", "tail", "made"}

(* The instructions written so far rebuild the part of TO they are for, and
   the generator never has to take one back. *)
RebuildsWhatIsWritten ==
    /\ Rebuild(gen, from).ok
    /\ Rebuild(gen, from).out = SubSeq(to, 1, gen.to_output_pos)

(* The checksum that is carried along is the one of the block it has come to:
   what DEBUG_CKSUM_UPDATE checks, wrapped to its width and all. *)
RollingIsFresh ==
    at = "scan" => [low |-> low, high |-> high] = Checksum(to, XPOS)

(* region_insert computes its offset into "the current page, which is
   guaranteed to be correct since map_page has not occured yet": whatever is
   pending lies in the page that is mapped or about to be. *)
PendingIsMapped ==
    /\ at = "scan" => gen.to_output_pos >= xpos.mem * PageSize
    /\ at \in {"page", "tail"} /\ gen.to_output_pos < Len(to) =>
          gen.to_output_pos \div PageSize = xpos.page

(* "Fortunately, if this map happens it means that the match must be long
   enough to succeed below, therefore it is safe to write the insert out
   now." *)
PagingMeansMatch == at = "scan" /\ IsCandidate /\ one_insert => Matches

(* Where the offsets of a source are not written because it is sequential,
   they can be told from the order of its instructions: the g_assert in
   pack_instructions, which is compiled out.  It needs every match to go as
   far as the files agree, for control_copy lengthens an instruction without
   moving source->position. *)
OffsetsAreImplied ==
    at = "made" =>
        \A s \in Source : gen.sequential[s] =>
            \A k \in DOMAIN gen.inst : gen.inst[k].index = s =>
                gen.inst[k].offset =
                    FoldLeft(LAMBDA sum, i : IF i.index = s THEN sum + i.length ELSE sum,
                             0, SubSeq(gen.inst, 1, k - 1))

(* At every point of the scan: types; what is written rebuilds what it is for;
   the checksum is that of the block; what is pending can be written; a page
   change inside a match does not write it in vain; and at the end the offsets
   that are left out are the ones the reader will find. *)
GeneratorIsSound ==
    /\ GTypeOK
    /\ RebuildsWhatIsWritten
    /\ RollingIsFresh
    /\ PendingIsMapped
    /\ PagingMeansMatch
    /\ OffsetsAreImplied
=============================================================================
