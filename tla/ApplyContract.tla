--------------------------- MODULE ApplyContract ---------------------------
(***************************************************************************)
(* What applying one patch promises, with the system calls left out: the   *)
(* operations are taken in the order of the archive, one at a time; while  *)
(* one is being worked on nothing outside its footprint changes; and the   *)
(* next is taken only when every path of that footprint holds what the     *)
(* operation says, or when it was skipped and has changed nothing.         *)
(* OpHandlers implements this (property Contract of its model).            *)
(***************************************************************************)
EXTENDS PatchOps

CONSTANT Patches        \* the operation sequences that may be applied

VARIABLES
    fs,         \* the product
    ops,        \* the operations of the patch being applied
    i,          \* the position of the next operation, or of the one in hand
    phase

cvars == <<fs, ops, i, phase>>

Phase == {"idle", "between", "within", "done", "failed"}

OnlyWithin(S) ==
    /\ fs' \in [Path -> Node]
    /\ \A q \in Path \ S : fs'[q] = fs[q]

Init == /\ fs \in [Path -> Node]
        /\ ops \in Patches
        /\ i = 1
        /\ phase = "idle"

Begin == /\ phase = "idle"
         /\ phase' = "between"
         /\ ops' \in Patches
         /\ i' = 1
         /\ UNCHANGED fs

Take == /\ phase = "between"
        /\ i \in 1..Len(ops)
        /\ phase' = "within"
        /\ UNCHANGED <<fs, ops, i>>

Work == /\ phase = "within"
        /\ OnlyWithin(Footprint(ops[i]))
        /\ UNCHANGED <<ops, i, phase>>

Settle == /\ phase = "within"
          /\ OnlyWithin(Footprint(ops[i]))
          /\ \A q \in Footprint(ops[i]) : fs'[q] = Outcome(ops[i])
          /\ i' = i + 1
          /\ phase' = IF ops[i].op = "DONE" THEN "done" ELSE "between"
          /\ UNCHANGED ops

Skip == /\ phase = "within"
        /\ ops[i].op # "DONE"
        /\ i' = i + 1
        /\ phase' = "between"
        /\ UNCHANGED <<fs, ops>>

Fail == /\ phase \in {"between", "within"}
        /\ phase' = "failed"
        /\ UNCHANGED <<fs, ops, i>>

\* The process ends or is killed.
Stop == /\ phase # "idle"
        /\ phase' = "idle"
        /\ i' = 1
        /\ UNCHANGED <<fs, ops>>

Next == Begin \/ Take \/ Work \/ Settle \/ Skip \/ Fail \/ Stop

Spec == Init /\ [][Next]_cvars
=============================================================================
