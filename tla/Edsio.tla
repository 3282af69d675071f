------------------------------- MODULE Edsio -------------------------------
(***************************************************************************)
(* libedsio: how the control of a delta becomes a stream and is read       *)
(* again.  A stream is a sequence of tokens: the groups of bits an integer *)
(* is cut into, one token for each other scalar, and one for an md5sum.    *)
(*                                                                         *)
(* The reader allocates everything from one block, whose size the writer   *)
(* has put in the stream: its own count of what the structures will need.  *)
(***************************************************************************)
EXTENDS Integers, Sequences, SequencesExt

CONSTANTS
    UintBits,       \* the bits of an integer that go into one byte, 7
    FromName        \* the name of the FROM source, a sequence

ASSUME EdsioAssumption == UintBits \in Nat \ {0} /\ FromName \in Seq(Nat)

ST_XdeltaControl == "XdeltaControl"

\* The types of objects the library of xdelta knows.
XdTypes == {ST_XdeltaControl, "XdeltaSourceInfo", "XdeltaInstruction", "XdeltaIndex",
            "XdeltaChecksum", "Version0Control", "Version0SourceInfo",
            "Version0Instruction", "RsyncIndex", "RsyncIndexElt"}

\* The size of a pointer on the machine decides the size of the structures.
Machine == {"32bit", "64bit"}
Pointer == [m \in Machine |-> IF m = "32bit" THEN 4 ELSE 8]
SizeControl == [m \in Machine |-> IF m = "32bit" THEN 48 ELSE 72]
SizeSourceInfo == [m \in Machine |-> IF m = "32bit" THEN 48 ELSE 56]
SizeInstruction == 16

PatchDataName == [k \in 1..12 |-> k]        \* "(patch data)"
NameOf(info) == IF info.isdata THEN PatchDataName ELSE FromName

ALIGN_8(n) == ((n + 7) \div 8) * 8
Total(seq, size(_)) == FoldLeft(LAMBDA sum, x : sum + size(x), 0, seq)

----------------------------------------------------------------------------
(* The sink. *)

Base == 2 ^ UintBits

\* The lowest bits come first, and all groups but the last are marked.
sink_next_uint(n) ==
    LET groups[k \in Nat] ==
            IF k < Base THEN <<k>> ELSE <<(k % Base) + Base>> \o groups[k \div Base]
    IN  groups[n]

sink_next_string(str) == sink_next_uint(Len(str)) \o str

serialize_xdeltasourceinfo(info) ==
    sink_next_string(NameOf(info)) \o <<info.md5>> \o sink_next_uint(info.len)
        \o <<info.isdata, info.sequential>>

serialize_xdeltainstruction(inst) ==
    sink_next_uint(inst.index) \o sink_next_uint(inst.offset) \o sink_next_uint(inst.length)

serialize_xdeltacontrol_internal(cont) ==
    <<cont.to_md5>> \o sink_next_uint(cont.to_len) \o <<cont.has_data>>
        \o sink_next_uint(Len(cont.source_info))
        \o FlattenSeq([k \in DOMAIN cont.source_info |->
                          serialize_xdeltasourceinfo(cont.source_info[k])])
        \o sink_next_uint(Len(cont.inst))
        \o FlattenSeq([k \in DOMAIN cont.inst |-> serialize_xdeltainstruction(cont.inst[k])])

count_xdeltasourceinfo(info, m) == ALIGN_8(SizeSourceInfo[m] + Len(NameOf(info)) + 1)

\* Slip: the pointers to the source infos are not counted.
count_xdeltacontrol_bare(cont, m) ==
    ALIGN_8(SizeControl[m]
            + Total(cont.source_info, LAMBDA info : count_xdeltasourceinfo(info, m)))
        + Len(cont.inst) * SizeInstruction

count_xdeltacontrol(cont, m) ==
    ALIGN_8(SizeControl[m]
            + Total(cont.source_info,
                    LAMBDA info : count_xdeltasourceinfo(info, m) + Pointer[m]))
        + Len(cont.inst) * SizeInstruction

serialize_xdeltacontrol(cont, m) ==
    <<ST_XdeltaControl, count_xdeltacontrol(cont, m)>> \o serialize_xdeltacontrol_internal(cont)

----------------------------------------------------------------------------
(* The source: [in, alloc, total, ok, val], where val is what the last call  *)
(* has read, and in what is still to be read.                                *)

Reading(in) == [in |-> in, alloc |-> 0, total |-> 0, ok |-> TRUE, val |-> 0]
Failed(r) == [r EXCEPT !.ok = FALSE, !.val = 0]

source_read(r) ==
    IF r.ok /\ r.in # << >> THEN [r EXCEPT !.val = Head(r.in), !.in = Tail(@)] ELSE Failed(r)

source_alloc(r, len) ==
    IF r.ok /\ r.alloc + len <= r.total THEN [r EXCEPT !.alloc = ALIGN_8(@ + len)] ELSE Failed(r)

source_next_uint(r) ==
    LET ends(k) == r.in[k] < Base /\ \A j \in 1 .. k - 1 : r.in[j] >= Base
        end == CHOOSE k \in DOMAIN r.in : ends(k)
        bits(group, high) == high * Base + (group % Base)
    IN  IF r.ok /\ \E k \in DOMAIN r.in : ends(k)
        THEN [r EXCEPT !.val = FoldRight(bits, SubSeq(r.in, 1, end), 0),
                       !.in = SubSeq(@, end + 1, Len(@))]
        ELSE Failed(r)

\* A name is allocated with its terminating zero.
source_next_string(r) ==
    LET len == source_next_uint(r)
        buf == source_alloc(len, len.val + 1)
    IN  IF buf.ok /\ len.val <= Len(buf.in)
        THEN [buf EXCEPT !.val = SubSeq(buf.in, 1, len.val),
                         !.in = SubSeq(@, len.val + 1, Len(@))]
        ELSE Failed(buf)

\* One field more of an object, which is a sequence until all are there; nothing is
\* read behind what could not be.
Started(r) == [r EXCEPT !.val = << >>]
Field(r, one(_)) ==
    IF ~r.ok THEN r
    ELSE LET next == one(r)
         IN  IF next.ok THEN [next EXCEPT !.val = Append(r.val, @)] ELSE next

source_next(r, kind) == CASE kind = "uint" -> source_next_uint(r)
                          [] kind = "string" -> source_next_string(r)
                          [] kind = "other" -> source_read(r)

Fields(r, kinds) ==
    FoldLeft(LAMBDA sofar, kind : Field(sofar, LAMBDA s : source_next(s, kind)),
             Started(r), kinds)

\* n of what one reads, behind their number.
Several(r, size, one(_)) ==
    LET array(n) == FoldLeft(LAMBDA sofar, k : Field(sofar, one),
                             Started(source_alloc(n, size * n.val)), [k \in 1..n.val |-> k])
    IN  array(source_next_uint(r))

\* What was read, with the names of its fields.
As(r, object(_)) == IF r.ok THEN [r EXCEPT !.val = object(@)] ELSE r

unserialize_xdeltasourceinfo(r, m) ==
    As(Fields(source_alloc(r, SizeSourceInfo[m]), <<"string", "other", "uint", "other", "other">>),
       LAMBDA f : [md5 |-> f[2], len |-> f[3], isdata |-> f[4], sequential |-> f[5]])

unserialize_xdeltainstruction(r) ==
    As(Fields(r, <<"uint", "uint", "uint">>),
       LAMBDA f : [index |-> f[1], offset |-> f[2], length |-> f[3]])

unserialize_xdeltacontrol(r, m) ==
    LET head == Fields(source_alloc(r, SizeControl[m]), <<"other", "uint", "other">>)
        infos == Field(head, LAMBDA s : Several(s, Pointer[m],
                                   LAMBDA t : unserialize_xdeltasourceinfo(t, m)))
        all == Field(infos, LAMBDA s : Several(s, SizeInstruction, unserialize_xdeltainstruction))
    IN  As(all, LAMBDA f : [to_md5 |-> f[1], to_len |-> f[2], has_data |-> f[3],
                            source_info |-> f[4], inst |-> f[5]])

\* serializeio_unserialize_generic_acceptable: the type, the size of the
\* block, then the object.  The types that are read and accepted are joined with |
\* in the test, so that every one of the library passes; of an object that is no
\* XdeltaControl, which nothing here writes, no more than its type is kept.
unserialize_generic(in, m) ==
    LET type == source_read(Reading(in))
        total == source_read(type)
    IN  CASE ~total.ok \/ type.val \notin XdTypes -> Failed(total)
          [] total.ok /\ type.val = ST_XdeltaControl ->
               unserialize_xdeltacontrol([total EXCEPT !.total = total.val], m)
          [] OTHER -> [total EXCEPT !.val = [type |-> type.val]]
=============================================================================
