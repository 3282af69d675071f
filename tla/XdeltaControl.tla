---------------------------- MODULE XdeltaControl ----------------------------
(***************************************************************************)
(* The control of an xdelta: the instructions that rebuild one file from   *)
(* another and from the patch data, how the generator collects them, what  *)
(* is written of them and read again, and what applying them gives.        *)
(*                                                                         *)
(* A file is a sequence of bytes, and its md5sum is itself: collisions are *)
(* left out.                                                               *)
(***************************************************************************)
EXTENDS Integers, FiniteSets, Sequences, SequencesExt

\* The sources, in the order of gen->sources: the patch data, the FROM file.
DataSource == 0
FromSource == 1
Source == {DataSource, FromSource}

Instruction == [index : Nat, offset : Nat, length : Nat]

\* What a generator has when it starts: no instruction, no data, and both
\* sources unused.
NewGenerator == [inst |-> << >>,
                 data |-> << >>,
                 to_output_pos |-> 0,
                 used |-> [s \in Source |-> FALSE],
                 sequential |-> [s \in Source |-> TRUE],
                 position |-> [s \in Source |-> 0]]

\* Slip: it is not asked whether the last copy ends where this one begins.
control_copy_blind(g, s, from, to) ==
    LET n == Len(g.inst) IN
    IF n > 0 /\ g.inst[n].index = s
    THEN [g EXCEPT !.inst[n].length = @ + (to - from)]
    ELSE [g EXCEPT !.inst = Append(@, [index |-> s, offset |-> from, length |-> to - from]),
                   !.used[s] = TRUE,
                   !.sequential[s] = @ /\ g.position[s] = from,
                   !.position[s] = to]

\* A copy that goes on where the last one ended lengthens it, and leaves
\* source->position where it was.
control_copy(g, s, from, to) ==
    LET n == Len(g.inst) IN
    IF n > 0 /\ g.inst[n].index = s /\ g.inst[n].offset + g.inst[n].length = from
    THEN [g EXCEPT !.inst[n].length = @ + (to - from)]
    ELSE [g EXCEPT !.inst = Append(@, [index |-> s, offset |-> from, length |-> to - from]),
                   !.used[s] = TRUE,
                   !.sequential[s] = @ /\ g.position[s] = from,
                   !.position[s] = to]

\* Slip: an instruction is made for no bytes, too.
region_insert_always(g, bytes) ==
    [control_copy(g, DataSource, Len(g.data), Len(g.data) + Len(bytes))
        EXCEPT !.data = @ \o bytes, !.to_output_pos = @ + Len(bytes)]

\* The bytes go to the patch data; none at all leaves no instruction.
region_insert(g, bytes) ==
    IF bytes = << >> THEN g
    ELSE [control_copy(g, DataSource, Len(g.data), Len(g.data) + Len(bytes))
            EXCEPT !.data = @ \o bytes, !.to_output_pos = @ + Len(bytes)]

region_copy(g, from, to) ==
    [control_copy(g, FromSource, from, to) EXCEPT !.to_output_pos = @ + (to - from)]

----------------------------------------------------------------------------
(* Only the sources that were used are described in the control, and the   *)
(* instructions then count those.                                          *)

control_add_info(g, s, len, md5) ==
    IF ~g.used[s] THEN << >>
    ELSE <<[isdata |-> s = DataSource, sequential |-> g.sequential[s],
            len |-> len, md5 |-> md5]>>

\* Slip: the other sources are counted, used or not.
control_reindex_back(g) ==
    [k \in DOMAIN g.inst |->
        [g.inst[k] EXCEPT !.index = Cardinality({s \in Source : g.used[s] /\ s > @})]]

control_reindex(g) ==
    [k \in DOMAIN g.inst |->
        [g.inst[k] EXCEPT !.index = Cardinality({s \in Source : g.used[s] /\ s < @})]]

\* Where instruction k of a sequential source begins: behind the others of
\* its source.
SequentialOffset(cont, k) ==
    FoldLeft(LAMBDA sum, inst : IF inst.index = cont.inst[k].index
                                THEN sum + inst.length ELSE sum,
             0, SubSeq(cont.inst, 1, k - 1))

\* The source a control's instruction refers to.
InfoOf(cont, inst) == cont.source_info[inst.index + 1]
IndicesInRange(cont) ==
    \A k \in DOMAIN cont.inst : cont.inst[k].index < Len(cont.source_info)

\* The offsets of a sequential source are not written.  That they could be
\* told from the order is a g_assert, and xdelta.c disables those.
pack_instructions(cont) ==
    [cont EXCEPT !.inst = [k \in DOMAIN cont.inst |->
        IF InfoOf(cont, cont.inst[k]).sequential
        THEN [cont.inst[k] EXCEPT !.offset = 0] ELSE cont.inst[k]]]

unpack_instructions(cont) ==
    [cont EXCEPT !.inst = [k \in DOMAIN cont.inst |->
        IF InfoOf(cont, cont.inst[k]).sequential
        THEN [cont.inst[k] EXCEPT !.offset = SequentialOffset(cont, k)]
        ELSE cont.inst[k]]]

----------------------------------------------------------------------------
(* xd_handle_copy: what one instruction adds to the output.  The patch data *)
(* is read from the front to the end, whatever the offsets say; the FROM    *)
(* file is mapped at the offset.  A copy beyond the end of either fails.    *)

NothingCopied == [out |-> << >>, read |-> 0, ok |-> TRUE]

xd_handle_copy(done, inst, isdata, from, data) ==
    LET in == IF isdata THEN data ELSE from
        off == IF isdata THEN done.read ELSE inst.offset
    IN  IF done.ok /\ off + inst.length <= Len(in)
        THEN [done EXCEPT !.out = @ \o SubSeq(in, off + 1, off + inst.length),
                          !.read = @ + IF isdata THEN inst.length ELSE 0]
        ELSE [done EXCEPT !.ok = FALSE]

\* xdp_copy_delta_region of the generator's instructions, as they stand.
Rebuild(g, from) ==
    FoldLeft(LAMBDA done, inst :
                 xd_handle_copy(done, inst, inst.index = DataSource, from, g.data),
             NothingCopied, g.inst)
=============================================================================
