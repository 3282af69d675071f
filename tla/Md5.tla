-------------------------------- MODULE Md5 --------------------------------
(***************************************************************************)
(* The two message digests in the program: md5.c, with which MojoPatch     *)
(* checks whole files, and md5c.c of libedsio, to which xdelta gives a     *)
(* file as it reads, maps or writes it.  What both have to get right is    *)
(* that the digest is of the bytes and not of the pieces they come in: the *)
(* partial block, the count of bits in two words, the padding.  The        *)
(* function of a block is left uninterpreted: a state is the sequence of   *)
(* blocks it has been through.                                             *)
(***************************************************************************)
EXTENDS Naturals, Integers, Sequences, SequencesExt

CONSTANTS
    BlockLen,   \* bytes in a block: 64
    LengthLen,  \* bytes that hold the length behind the padding: 8
    ByteBits,   \* a byte adds so much to the count: 8
    WordSize    \* the words of the count wrap there: 2^32

ASSUME Md5Assumption ==
    /\ {BlockLen, LengthLen, ByteBits, WordSize} \subseteq Nat \ {0}
    /\ LengthLen = 2    \* one cell for each word of the count
    /\ LengthLen < BlockLen
    /\ WordSize % (ByteBits * BlockLen) = 0

\* A message is a sequence of positive numbers; these are the other bytes.
Pad == -1
Zero == 0
Garbage == -2   \* what a context holds before it is written to
Wiped == -3     \* the state of a context that edsio_md5_final has zeroized

Block == 1..BlockLen

md5_init == [lo |-> 0, hi |-> 0, state |-> << >>, buf |-> [k \in Block |-> Garbage]]
edsio_md5_init == md5_init

md5_process(c, block) == [c EXCEPT !.state = Append(@, block)]
MD5Transform(c, block) == md5_process(c, block)

\* memcpy to buf + offset.
Fill(buf, offset, bytes) ==
    [k \in Block |-> IF k - offset \in DOMAIN bytes THEN bytes[k - offset] ELSE buf[k]]

\* The block of data that begins behind the first n bytes.
BlockAt(data, n) == [k \in Block |-> data[n + k]]

\* The full blocks of data behind its first n bytes go through the function,
\* and the rest is left in the buffer, at its beginning.
ThroughBlocks(c, data, n) ==
    LET whole == (Len(data) - n) \div BlockLen
    IN  [c EXCEPT
          !.state = @ \o [j \in 1..whole |-> BlockAt(data, n + (j - 1) * BlockLen)],
          !.buf = Fill(@, 0, SubSeq(data, n + whole * BlockLen + 1, Len(data)))]

\* The count of bits, modulo the size of its two words.
Counted(c, n) ==
    LET bits == (n * ByteBits) % WordSize
        lo == (c.lo + bits) % WordSize
        carry == IF lo < bits THEN 1 ELSE 0
    IN  [c EXCEPT !.lo = lo,
                  !.hi = (@ + (n * ByteBits) \div WordSize + carry) % WordSize]

Offset(c) == (c.lo \div ByteBits) % BlockLen

----------------------------------------------------------------------------
(* md5.c *)

md5_append(c, data) ==
    LET offset == Offset(c)
        n == Len(data)
        copy == IF offset + n > BlockLen THEN BlockLen - offset ELSE n
        a == Counted(c, n)
        b == [a EXCEPT !.buf = Fill(@, offset, SubSeq(data, 1, copy))]
    IN  IF n = 0 THEN c
        ELSE IF offset = 0 THEN ThroughBlocks(a, data, 0)
        ELSE IF offset + copy < BlockLen THEN b
        ELSE ThroughBlocks(md5_process(b, b.buf), data, copy)

PADDING(n) == [k \in 1..n |-> IF k = 1 THEN Pad ELSE Zero]

\* The length is saved before the padding adds to it.
md5_finish(c) ==
    LET n == ((BlockLen - LengthLen - 1 - (c.lo \div ByteBits)) % BlockLen) + 1
    IN  md5_append(md5_append(c, PADDING(n)), <<c.lo, c.hi>>).state

----------------------------------------------------------------------------
(* md5c.c *)

edsio_md5_update(c, input) ==
    LET index == Offset(c)
        part == BlockLen - index
        a == Counted(c, Len(input))
        full == [a EXCEPT !.buf = Fill(@, index, SubSeq(input, 1, part))]
    IN  IF Len(input) >= part
        THEN ThroughBlocks(MD5Transform(full, full.buf), input, part)
        ELSE [a EXCEPT !.buf = Fill(@, index, input)]

\* Slip: a block that has just room for the length gets no padding.
edsio_md5_final_tight(c) ==
    LET index == Offset(c)
        n == IF index <= BlockLen - LengthLen THEN BlockLen - LengthLen - index
             ELSE 2 * BlockLen - LengthLen - index
    IN  edsio_md5_update(edsio_md5_update(c, PADDING(n)), <<c.lo, c.hi>>).state

edsio_md5_final(c) ==
    LET index == Offset(c)
        n == IF index < BlockLen - LengthLen THEN BlockLen - LengthLen - index
             ELSE 2 * BlockLen - LengthLen - index
    IN  edsio_md5_update(edsio_md5_update(c, PADDING(n)), <<c.lo, c.hi>>).state

\* The context behind edsio_md5_final, until it is initialised again.
zeroized == [lo |-> 0, hi |-> 0, state |-> << [k \in Block |-> Wiped] >>,
             buf |-> [k \in Block |-> Zero]]

----------------------------------------------------------------------------
(* What a digest is of: the blocks of the padded message. *)

Padded(msg) ==
    LET used == (Len(msg) + 1 + LengthLen) % BlockLen
        zeros == IF used = 0 THEN 0 ELSE BlockLen - used
        bits == Len(msg) * ByteBits
    IN  msg \o PADDING(1 + zeros) \o <<bits % WordSize, (bits \div WordSize) % WordSize>>

Digest(msg) == [j \in 1..(Len(Padded(msg)) \div BlockLen) |->
                  BlockAt(Padded(msg), (j - 1) * BlockLen)]

\* The bytes that have been given to a context.
Absorbed(c) == FlattenSeq(c.state) \o SubSeq(c.buf, 1, Offset(c))
=============================================================================
