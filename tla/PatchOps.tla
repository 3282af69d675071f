------------------------------ MODULE PatchOps ------------------------------
(***************************************************************************)
(* The operations a .mojopatch archive is made of, and what each one says  *)
(* about the product.  One patch of an archive is a sequence of them that  *)
(* ends in DONE; a sequence without DONE is an archive cut short between   *)
(* two operations, and a payload equal to Partial one that is cut short    *)
(* inside the bytes that follow the operation.                             *)
(***************************************************************************)
EXTENDS ProductTree

OperationType ==
    {"DELETE", "DELETEDIRECTORY", "ADD", "ADDDIRECTORY", "PATCH", "REPLACE",
     "DONE"}

(* md5_1 and md5_2 are the md5sums of a PATCH; an ADD or REPLACE has one, in
   md5_2.  data is what the bytes in the archive produce: the added file, or
   the result of applying the delta to a file whose md5sum is md5_1.  It is
   md5_2 unless the archive was damaged or the file changed while the patch
   was made. *)
Operation ==
    [op : OperationType, fname : Path \cup {Root},
     md5_1 : Content \cup {Absent}, md5_2 : Content \cup {Absent},
     data : File \cup {Absent}]

WellFormed(o) ==
    /\ o.op # "DONE" => o.fname \in Path
    /\ o.op \in {"ADD", "REPLACE", "PATCH"} => o.md5_2 \in Content /\ o.data \in File
    /\ o.op = "PATCH" => o.md5_1 \in Content

Delete(p) == [op |-> "DELETE", fname |-> p, md5_1 |-> Absent,
              md5_2 |-> Absent, data |-> Absent]
DeleteDir(p) == [Delete(p) EXCEPT !.op = "DELETEDIRECTORY"]
AddDir(p) == [Delete(p) EXCEPT !.op = "ADDDIRECTORY"]
Add(p, new) == [Delete(p) EXCEPT !.op = "ADD", !.md5_2 = new, !.data = new]
Replace(p, new) == [Add(p, new) EXCEPT !.op = "REPLACE"]
Patch(p, old, new) == [Add(p, new) EXCEPT !.op = "PATCH", !.md5_1 = old]
Done == [Delete(Root) EXCEPT !.op = "DONE"]

----------------------------------------------------------------------------
(* The paths an operation may change, and what each of them must hold once
   the operation has succeeded. *)

Footprint(o) ==
    CASE o.op = "DONE" -> {}
      [] o.op = "DELETEDIRECTORY" -> {o.fname} \cup Under(o.fname)
      [] OTHER -> {o.fname}

Outcome(o) ==
    CASE o.op \in {"DELETE", "DELETEDIRECTORY"} -> Absent
      [] o.op = "ADDDIRECTORY" -> Dir
      [] OTHER -> o.md5_2
=============================================================================
