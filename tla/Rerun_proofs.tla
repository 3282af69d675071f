---------------------------- MODULE Rerun_proofs ----------------------------
(***************************************************************************)
(* An archive applied to the release it was made of, or to what a killed   *)
(* application of it has left, is refused only where the code cannot help  *)
(* it.                                                                     *)
(*                                                                         *)
(* First the order of the archive: compare_directories writes an           *)
(* ADDDIRECTORY before what goes into it and a deletion before what takes  *)
(* the place of the deleted.  Each operation, when it is written, finds    *)
(* what it relies on in the archive, because each call finds it there or   *)
(* among the calls that come first.  Then the run: what an operation has   *)
(* put is never taken away again, so each operation finds the past ones    *)
(* done, or a path as an earlier run has left it.                          *)
(***************************************************************************)
EXTENDS RoundTrip_proofs

(* The order of the archive.  An operation relies on what was written before
   it: a file on its directory, and what takes the place of a thing of the other
   kind on the deletion of that.  A call relies on the same, and finds it in the
   archive or among the calls that come first. *)

(* Operation x was written for p; before the n-th. *)
Written(o, x, p) == \E m \in DOMAIN o : o[m].op = x /\ o[m].fname = p
WrittenBefore(o, n, x, p) == \E m \in DOMAIN o : m < n /\ o[m].op = x /\ o[m].fname = p

(* Call f relies on operation x for p. *)
Relies(f, x, p) ==
    \/ /\ x = "ADDDIRECTORY" /\ old[p] # Dir
       /\ \/ f.call \in {"additions", "wholedir"} /\ f.left # {} /\ p = f.at
          \/ f.call \in {"add", "adddir"} /\ p = Parent(f.at)
    \/ x = "DELETEDIRECTORY" /\ f.call = "add" /\ p = f.at /\ old[p] = Dir
    \/ x = "DELETE" /\ f.call = "adddir" /\ p = f.at /\ old[p] \in Content

(* Call f writes it. *)
Announces(f, x, p) ==
    /\ p = f.at
    /\ \/ x = "ADDDIRECTORY" /\ f.call = "adddir"
       \/ x = "DELETEDIRECTORY" /\ f.call = "deldir"
       \/ x = "DELETE" /\ f.call = "delete"

Prepared(o, s) ==
    \A k \in DOMAIN s : \A x \in OperationType : \A p \in Path :
        Relies(s[k], x, p) => \/ Written(o, x, p)
                              \/ \E j \in DOMAIN s : j < k /\ Announces(s[j], x, p)

(* Where the calls come from. *)
Placed(f) ==
    /\ f.call \in {"deletions", "additions", "wholedir"} => \A r \in f.left : Parent(r) = f.at
    /\ f.call = "wholedir" => \A r \in f.left : old[r] = Absent
    /\ f.call = "delete" => old[f.at] \in Content
    /\ f.call = "add" => old[f.at] \notin Content
    /\ f.call = "adddir" => old[f.at] # Dir

AllPlaced(s) == \A k \in DOMAIN s : Placed(s[k])

(* A file of one release that is a directory of the other is deleted once, and
   before anything else is written of it. *)
KindChanges(q) == {old[q], new[q]} \cap Content # {} /\ Dir \in {old[q], new[q]}

Reaches(f, q) == \/ f.call = "additions" /\ \E r \in f.left : q \in Below(r)
                 \/ f.call \in {"delete", "deldir"} /\ f.at = q

Touched(o, q) == \E m \in DOMAIN o : q \in Footprint(o[m])

AtMostOne(s, q) == \A j, k \in DOMAIN s : Reaches(s[j], q) /\ Reaches(s[k], q) => j = k

Once(o, s) ==
    \A q \in Path : KindChanges(q) =>
        /\ AtMostOne(s, q)
        /\ \A k \in DOMAIN s : Reaches(s[k], q) => ~Touched(o, q)

(* The n-th operation, and those before it. *)
Follows(o, n) ==
    /\ o[n].op \in {"ADD", "REPLACE", "ADDDIRECTORY"} =>
           \A p \in Path : p = Parent(o[n].fname) /\ old[p] # Dir
               => WrittenBefore(o, n, "ADDDIRECTORY", p)
    /\ o[n].op \in {"ADD", "REPLACE"} /\ old[o[n].fname] = Dir
           => WrittenBefore(o, n, "DELETEDIRECTORY", o[n].fname)
    /\ o[n].op = "ADDDIRECTORY" /\ old[o[n].fname] \in Content
           => WrittenBefore(o, n, "DELETE", o[n].fname)
    /\ o[n].op \in {"DELETE", "DELETEDIRECTORY"} /\ new[o[n].fname] # Absent
           => \A m \in DOMAIN o : m < n => o[n].fname \notin Footprint(o[m])

(* What an operation is for. *)
Purpose(x) ==
    /\ x.op = "DELETE" => old[x.fname] \in Content /\ new[x.fname] \in {Absent, Dir}
    /\ x.op = "DELETEDIRECTORY" => old[x.fname] = Dir /\ new[x.fname] # Dir
    /\ x.op = "ADD" => old[x.fname] \notin Content /\ ~making.replace
    /\ x.op = "ADDDIRECTORY" => old[x.fname] # Dir /\ new[x.fname] = Dir
    /\ x.op \in {"ADD", "REPLACE", "PATCH"} =>
           /\ x.md5_2 = new[x.fname]
           /\ making.fails \subseteq {"io"} => x.data = x.md5_2
    /\ x.op = "PATCH" => x.md5_1 = old[x.fname] /\ ~making.alwaysadd

Ordered(o) == \A n \in DOMAIN o : Follows(o, n) /\ Purpose(o[n])

Laid(o, s) == Ordered(o) /\ AllPlaced(s) /\ Prepared(o, s) /\ Once(o, s)

OrderInv == CInv /\ (Whole /\ TrueSums /\ maker # "failed" => Laid(out, todo))

----------------------------------------------------------------------------
(* Entries of one directory have nothing below them in common. *)
LEMMA SiblingsApart ==
    ASSUME NEW r \in Path, NEW q \in Path, Parent(r) = Parent(q),
           NEW t \in Path, t \in Below(r), t \in Below(q)
    PROVE  r = q
  <1>1. /\ r \in Seq(STRING) /\ q \in Seq(STRING)
        /\ Len(r) \in Nat /\ Len(q) \in Nat
    BY PathIsSeq
  <1>2. Len(r) = Len(q)
    <2>1. Len(Parent(r)) = Len(r) - 1 /\ Len(Parent(q)) = Len(q) - 1
      BY ParentIsPath
    <2>2. \A m, n \in Nat : m - 1 = n - 1 => m = n
      OBVIOUS
    <2> QED BY <1>1, <2>1, <2>2
  <1>3. /\ \A k \in 1..Len(r) : t[k] = r[k]
        /\ \A k \in 1..Len(q) : t[k] = q[k]
    BY DEF Below, Under
  <1> QED BY <1>1, <1>2, <1>3, SameElements

(* The directories above whatever is in a release are in it. *)
LEMMA DirsAbove ==
    ASSUME CTypeOK, NEW r \in Path, NEW q \in Under(r)
    PROVE  q \in Path /\ (old[q] # Absent => old[r] = Dir) /\ (new[q] # Absent => new[r] = Dir)
  BY Releases DEF IsTree, Under

LEMMA ParentDirs ==
    ASSUME CTypeOK, NEW q \in Path, NEW p \in Path, p = Parent(q)
    PROVE  /\ q \in Under(p)
           /\ old[q] # Absent => old[p] = Dir
           /\ new[q] # Absent => new[p] = Dir
  <1>1. q \in Under(p)
    BY EntryIsUnder
  <1> QED BY <1>1, DirsAbove

(* Where the kind changes there was something before and is something after, so
   that all directories above are in both releases. *)
LEMMA KindChangeFacts ==
    ASSUME CTypeOK, NEW q \in Path, KindChanges(q)
    PROVE  /\ \/ old[q] \in Content /\ new[q] = Dir
              \/ old[q] = Dir /\ new[q] \in Content
           /\ \A r \in Path : q \in Under(r) => old[r] = Dir /\ new[r] = Dir
  <1>1. old[q] \in Content \cup {Absent, Dir} /\ new[q] \in Content \cup {Absent, Dir}
    BY Releases
  <1>2. \/ old[q] \in Content /\ new[q] = Dir
        \/ old[q] = Dir /\ new[q] \in Content
    BY <1>1, NodeFacts DEF KindChanges
  <1>3. old[q] # Absent /\ new[q] # Absent
    BY <1>2, NodeFacts
  <1> QED BY <1>2, <1>3, DirsAbove

----------------------------------------------------------------------------
(* What was written stays written. *)
LEMMA WrittenMore ==
    ASSUME NEW o \in Seq(Operation), NEW y \in Operation
    PROVE  /\ \A x, p : Written(o, x, p) => Written(Append(o, y), x, p)
           /\ \A x, p : Written(o, x, p) => WrittenBefore(Append(o, y), Len(o) + 1, x, p)
           /\ Written(Append(o, y), y.op, y.fname)
           /\ \A n \in DOMAIN o : \A x, p : WrittenBefore(o, n, x, p)
                                      => WrittenBefore(Append(o, y), n, x, p)
           /\ \A q : Touched(Append(o, y), q) <=> Touched(o, q) \/ q \in Footprint(y)
  <1> DEFINE u == Append(o, y)
  <1>1. /\ u \in Seq(Operation) /\ Len(u) = Len(o) + 1 /\ Len(o) \in Nat
        /\ DOMAIN u = 1..(Len(o) + 1) /\ DOMAIN o = 1..Len(o)
        /\ \A n \in 1..Len(o) : u[n] = o[n]
        /\ u[Len(o) + 1] = y
    OBVIOUS
  <1> HIDE DEF u
  <1>2. /\ \A m \in DOMAIN o : m \in DOMAIN u /\ u[m] = o[m] /\ m < Len(o) + 1
        /\ Len(o) + 1 \in DOMAIN u
        /\ \A m \in DOMAIN u : m \in DOMAIN o \/ m = Len(o) + 1
    BY <1>1
  <1>3. \A x, p : Written(o, x, p) => Written(u, x, p)
    BY <1>2 DEF Written
  <1>4. \A x, p : Written(o, x, p) => WrittenBefore(u, Len(o) + 1, x, p)
    BY <1>2 DEF Written, WrittenBefore
  <1>5. Written(u, y.op, y.fname)
    BY <1>1, <1>2 DEF Written
  <1>6. \A n \in DOMAIN o : \A x, p : WrittenBefore(o, n, x, p) => WrittenBefore(u, n, x, p)
    BY <1>2 DEF WrittenBefore
  <1>7. ASSUME NEW q
        PROVE  Touched(u, q) <=> Touched(o, q) \/ q \in Footprint(y)
    <2>1. ASSUME Touched(u, q)  PROVE Touched(o, q) \/ q \in Footprint(y)
      <3>1. PICK m \in DOMAIN u : q \in Footprint(u[m])
        BY <2>1 DEF Touched
      <3> QED BY <1>1, <1>2, <3>1 DEF Touched
    <2>2. ASSUME Touched(o, q) \/ q \in Footprint(y)  PROVE Touched(u, q)
      <3>1. CASE Touched(o, q)
        <4>1. PICK m \in DOMAIN o : q \in Footprint(o[m])
          BY <3>1 DEF Touched
        <4> QED BY <1>2, <4>1 DEF Touched
      <3>2. CASE q \in Footprint(y)
        BY <1>1, <1>2, <3>2 DEF Touched
      <3> QED BY <2>2, <3>1, <3>2
    <2> QED BY <2>1, <2>2
  <1> QED BY <1>3, <1>4, <1>5, <1>6, <1>7 DEF u

(* The order of what is there is not changed by what comes after. *)
LEMMA OrderedMore ==
    ASSUME NEW o \in Seq(Operation), NEW y \in Operation, Ordered(o), Purpose(y),
           Follows(Append(o, y), Len(o) + 1)
    PROVE  Ordered(Append(o, y))
  <1> DEFINE u == Append(o, y)
  <1>1. /\ u \in Seq(Operation) /\ Len(o) \in Nat
        /\ DOMAIN u = 1..(Len(o) + 1) /\ DOMAIN o = 1..Len(o)
        /\ \A n \in 1..Len(o) : u[n] = o[n]
        /\ u[Len(o) + 1] = y
    OBVIOUS
  <1> HIDE DEF u
  <1>2. /\ \A m \in DOMAIN o : m \in DOMAIN u /\ u[m] = o[m]
        /\ \A m \in DOMAIN u : m \in DOMAIN o \/ m = Len(o) + 1
        /\ \A n \in DOMAIN o : \A m \in DOMAIN u : m < n => m \in DOMAIN o
    BY <1>1
  <1>3. ASSUME NEW n \in DOMAIN o
        PROVE  Follows(u, n) /\ Purpose(u[n])
    <2>1. Follows(o, n) /\ Purpose(o[n])
      BY DEF Ordered
    <2>2. u[n] = o[n]
      BY <1>2
    <2>3. \A x, p : WrittenBefore(o, n, x, p) => WrittenBefore(u, n, x, p)
      BY <1>3, WrittenMore DEF u
    <2>4. ASSUME NEW t, \A m \in DOMAIN o : m < n => t \notin Footprint(o[m])
          PROVE  \A m \in DOMAIN u : m < n => t \notin Footprint(u[m])
      <3> SUFFICES ASSUME NEW m \in DOMAIN u, m < n
                   PROVE  t \notin Footprint(u[m])
        OBVIOUS
      <3>1. m \in DOMAIN o /\ u[m] = o[m]
        BY <1>2
      <3> QED BY <2>4, <3>1
    <2>5. Follows(u, n)
      BY <2>1, <2>2, <2>3, <2>4 DEF Follows
    <2> QED BY <2>1, <2>2, <2>5
  <1>4. Follows(u, Len(o) + 1) /\ Purpose(u[Len(o) + 1])
    BY <1>1 DEF u
  <1>5. Ordered(u)
    <2> SUFFICES ASSUME NEW n \in DOMAIN u
                 PROVE  Follows(u, n) /\ Purpose(u[n])
      BY DEF Ordered
    <2>1. CASE n \in DOMAIN o
      BY <1>3, <2>1
    <2>2. CASE n = Len(o) + 1
      BY <1>4, <2>2
    <2> QED BY <1>2, <2>1, <2>2
  <1> QED BY <1>5 DEF u
----------------------------------------------------------------------------
(* Lists of calls, and what comes before what. *)

LEMMA JoinFacts ==
    ASSUME NEW c \in Seq(CallOf), NEW t \in Seq(CallOf)
    PROVE  /\ c \o t \in Seq(CallOf) /\ Len(c) \in Nat /\ Len(t) \in Nat
           /\ \A k \in DOMAIN c : k \in DOMAIN (c \o t) /\ (c \o t)[k] = c[k] /\ k \in Nat
                                  /\ k <= Len(c)
           /\ \A k \in DOMAIN t : Len(c) + k \in DOMAIN (c \o t) /\ (c \o t)[Len(c) + k] = t[k]
                                  /\ k \in Nat /\ k > 0
           /\ \A k \in DOMAIN (c \o t) :
                  k \in DOMAIN c \/ \E j \in DOMAIN t : k = Len(c) + j
  <1> DEFINE u == c \o t
  <1>1. /\ u \in Seq(CallOf) /\ Len(u) = Len(c) + Len(t) /\ Len(c) \in Nat /\ Len(t) \in Nat
        /\ DOMAIN u = 1..Len(u) /\ DOMAIN c = 1..Len(c) /\ DOMAIN t = 1..Len(t)
        /\ \A k \in 1..Len(c) : u[k] = c[k]
        /\ \A k \in 1..Len(t) : u[Len(c) + k] = t[k]
    OBVIOUS
  <1> HIDE DEF u
  <1>2. \A k \in DOMAIN c : k \in DOMAIN u /\ u[k] = c[k] /\ k \in Nat /\ k <= Len(c)
    BY <1>1
  <1>3. \A k \in DOMAIN t : Len(c) + k \in DOMAIN u /\ u[Len(c) + k] = t[k] /\ k \in Nat /\ k > 0
    BY <1>1
  <1>4. ASSUME NEW k \in DOMAIN u, k \notin DOMAIN c
        PROVE  \E j \in DOMAIN t : k = Len(c) + j
    <2>1. k - Len(c) \in 1..Len(t) /\ k = Len(c) + (k - Len(c))
      BY <1>1, <1>4
    <2> QED BY <1>1, <2>1
  <1> QED BY <1>1, <1>2, <1>3, <1>4 DEF u

LEMMA AllPlacedBoth ==
    ASSUME NEW c \in Seq(CallOf), NEW t \in Seq(CallOf), AllPlaced(c), AllPlaced(t)
    PROVE  AllPlaced(c \o t)
  BY JoinFacts DEF AllPlaced

(* Some call of the list announces it, or reaches it. *)
Announced(s, x, p) == \E j \in DOMAIN s : Announces(s[j], x, p)
Reached(s, q) == \E j \in DOMAIN s : Reaches(s[j], q)

LEMMA PreparedBoth ==
    ASSUME NEW o, NEW c \in Seq(CallOf), NEW t \in Seq(CallOf), Prepared(o, c),
           \A k \in DOMAIN t : \A x \in OperationType : \A p \in Path :
               Relies(t[k], x, p) => \/ Written(o, x, p) \/ Announced(c, x, p)
                                     \/ \E j \in DOMAIN t : j < k /\ Announces(t[j], x, p)
    PROVE  Prepared(o, c \o t)
  <1> DEFINE u == c \o t
             Before(k, x, p) == \E j \in DOMAIN u : j < k /\ Announces(u[j], x, p)
  <1> SUFFICES ASSUME NEW k \in DOMAIN u, NEW x \in OperationType, NEW p \in Path,
                      Relies(u[k], x, p), ~Written(o, x, p)
               PROVE  Before(k, x, p)
    BY DEF Prepared
  <1> HIDE DEF u
  <1>1. /\ Len(c) \in Nat
        /\ \A n \in DOMAIN c : n \in DOMAIN u /\ u[n] = c[n] /\ n \in Nat /\ n <= Len(c)
        /\ \A n \in DOMAIN t : Len(c) + n \in DOMAIN u /\ u[Len(c) + n] = t[n]
                               /\ n \in Nat /\ n > 0
        /\ k \in DOMAIN c \/ \E j \in DOMAIN t : k = Len(c) + j
    BY JoinFacts DEF u
  <1>2. CASE k \in DOMAIN c
    <2>1. PICK j \in DOMAIN c : j < k /\ Announces(c[j], x, p)
      BY <1>1, <1>2 DEF Prepared
    <2> QED BY <1>1, <2>1
  <1>3. ASSUME NEW m \in DOMAIN t, k = Len(c) + m
        PROVE  Before(k, x, p)
    <2>1. Relies(t[m], x, p)
      BY <1>1, <1>3
    <2>2. CASE Announced(c, x, p)
      <3>1. PICK j \in DOMAIN c : Announces(c[j], x, p)
        BY <2>2 DEF Announced
      <3>2. j \in DOMAIN u /\ u[j] = c[j] /\ j < k
        BY <1>1, <1>3, <3>1
      <3> QED BY <3>1, <3>2
    <2>3. CASE \E j \in DOMAIN t : j < m /\ Announces(t[j], x, p)
      <3>1. PICK j \in DOMAIN t : j < m /\ Announces(t[j], x, p)
        BY <2>3
      <3>2. Len(c) + j \in DOMAIN u /\ u[Len(c) + j] = t[j] /\ Len(c) + j < k
        BY <1>1, <1>3, <3>1
      <3> QED BY <3>1, <3>2
    <2> QED BY <2>1, <2>2, <2>3
  <1> QED BY <1>1, <1>2, <1>3

LEMMA PreparedOne ==
    ASSUME NEW o, NEW f,
           \A x \in OperationType : \A p \in Path : Relies(f, x, p) => Written(o, x, p)
    PROVE  Prepared(o, <<f>>)
  BY DEF Prepared

(* The first call relies on what is written, the others on that and on it. *)
LEMMA HeadPrepared ==
    ASSUME NEW o, NEW s \in Seq(CallOf), s # << >>, Prepared(o, s)
    PROVE  /\ \A x \in OperationType : \A p \in Path :
                  Relies(Head(s), x, p) => Written(o, x, p)
           /\ \A k \in DOMAIN Tail(s) : \A x \in OperationType : \A p \in Path :
                  Relies(Tail(s)[k], x, p) =>
                      \/ Written(o, x, p) \/ Announces(Head(s), x, p)
                      \/ \E j \in DOMAIN Tail(s) : j < k /\ Announces(Tail(s)[j], x, p)
  <1> DEFINE t == Tail(s)
  <1>1. /\ 1 \in DOMAIN s /\ Head(s) = s[1] /\ t \in Seq(CallOf)
        /\ DOMAIN s = 1..Len(s) /\ DOMAIN t = 1..Len(t) /\ Len(s) \in Nat
        /\ Len(t) = Len(s) - 1 /\ \A k \in 1..Len(t) : t[k] = s[k + 1]
    OBVIOUS
  <1> HIDE DEF t
  <1>2. ASSUME NEW x \in OperationType, NEW p \in Path, Relies(Head(s), x, p)
        PROVE  Written(o, x, p)
    <2>1. ~\E j \in DOMAIN s : j < 1
      BY <1>1
    <2> QED BY <1>1, <1>2, <2>1 DEF Prepared
  <1>3. ASSUME NEW k \in DOMAIN t, NEW x \in OperationType, NEW p \in Path,
               Relies(t[k], x, p), ~Written(o, x, p), ~Announces(Head(s), x, p)
        PROVE  \E j \in DOMAIN t : j < k /\ Announces(t[j], x, p)
    <2>1. k + 1 \in DOMAIN s /\ t[k] = s[k + 1]
      BY <1>1
    <2>2. PICK m \in DOMAIN s : m < k + 1 /\ Announces(s[m], x, p)
      BY <1>3, <2>1 DEF Prepared
    <2>3. m # 1
      BY <1>1, <1>3, <2>2
    <2>4. m - 1 \in DOMAIN t /\ m - 1 < k /\ t[m - 1] = s[m]
      BY <1>1, <2>2, <2>3
    <2> QED BY <2>2, <2>4
  <1> QED BY <1>2, <1>3 DEF t

LEMMA AtMostOneBoth ==
    ASSUME NEW c \in Seq(CallOf), NEW t \in Seq(CallOf), NEW q,
           AtMostOne(c, q), AtMostOne(t, q), ~(Reached(c, q) /\ Reached(t, q))
    PROVE  AtMostOne(c \o t, q)
  <1> DEFINE u == c \o t
  <1> SUFFICES ASSUME NEW j \in DOMAIN u, NEW k \in DOMAIN u, Reaches(u[j], q), Reaches(u[k], q)
               PROVE  j = k
    BY DEF AtMostOne
  <1> HIDE DEF u
  <1>1. \A n \in DOMAIN u : Reaches(u[n], q) =>
            \/ n \in DOMAIN c /\ Reaches(c[n], q)
            \/ \E m \in DOMAIN t : n = Len(c) + m /\ Reaches(t[m], q)
    <2> SUFFICES ASSUME NEW n \in DOMAIN u, Reaches(u[n], q)
                 PROVE  \/ n \in DOMAIN c /\ Reaches(c[n], q)
                        \/ \E m \in DOMAIN t : n = Len(c) + m /\ Reaches(t[m], q)
      OBVIOUS
    <2>1. CASE n \in DOMAIN c
      BY <2>1, JoinFacts DEF u
    <2>2. ASSUME NEW m \in DOMAIN t, n = Len(c) + m
          PROVE  Reaches(t[m], q)
      BY <2>2, JoinFacts DEF u
    <2>3. n \in DOMAIN c \/ \E m \in DOMAIN t : n = Len(c) + m
      BY JoinFacts DEF u
    <2> QED BY <2>1, <2>2, <2>3
  <1>2. CASE Reached(t, q)
    <2>1. PICK a \in DOMAIN t : j = Len(c) + a /\ Reaches(t[a], q)
      BY <1>1, <1>2 DEF Reached
    <2>2. PICK b \in DOMAIN t : k = Len(c) + b /\ Reaches(t[b], q)
      BY <1>1, <1>2 DEF Reached
    <2> QED BY <2>1, <2>2 DEF AtMostOne
  <1>3. CASE ~Reached(t, q)
    <2>1. j \in DOMAIN c /\ Reaches(c[j], q) /\ k \in DOMAIN c /\ Reaches(c[k], q)
      BY <1>1, <1>3 DEF Reached
    <2> QED BY <2>1 DEF AtMostOne
  <1> QED BY <1>2, <1>3

LEMMA ReachedBoth ==
    ASSUME NEW c \in Seq(CallOf), NEW t \in Seq(CallOf), NEW q
    PROVE  Reached(c \o t, q) => Reached(c, q) \/ Reached(t, q)
  <1> SUFFICES ASSUME Reached(c \o t, q), ~Reached(c, q)
               PROVE  Reached(t, q)
    OBVIOUS
  <1>1. PICK k \in DOMAIN (c \o t) : Reaches((c \o t)[k], q)
    BY DEF Reached
  <1>2. k \notin DOMAIN c
    BY <1>1, JoinFacts DEF Reached
  <1>3. PICK j \in DOMAIN t : k = Len(c) + j
    BY <1>1, <1>2, JoinFacts
  <1> QED BY <1>1, <1>3, JoinFacts DEF Reached

(* If the first call reaches it, no other does. *)
LEMMA HeadAlone ==
    ASSUME NEW s \in Seq(CallOf), s # << >>, NEW q, AtMostOne(s, q)
    PROVE  /\ AtMostOne(Tail(s), q)
           /\ Reaches(Head(s), q) => ~Reached(Tail(s), q)
           /\ Reaches(Head(s), q) \/ Reached(Tail(s), q) => Reached(s, q)
  <1> DEFINE t == Tail(s)
  <1>1. /\ 1 \in DOMAIN s /\ Head(s) = s[1] /\ t \in Seq(CallOf)
        /\ DOMAIN s = 1..Len(s) /\ DOMAIN t = 1..Len(t) /\ Len(s) \in Nat
        /\ Len(t) = Len(s) - 1 /\ \A k \in 1..Len(t) : t[k] = s[k + 1]
    OBVIOUS
  <1>2. \A k \in DOMAIN t : k \in Nat /\ k > 0 /\ k + 1 \in DOMAIN s /\ t[k] = s[k + 1]
    BY <1>1
  <1> HIDE DEF t
  <1>3. AtMostOne(t, q)
    <2> SUFFICES ASSUME NEW j \in DOMAIN t, NEW k \in DOMAIN t, Reaches(t[j], q), Reaches(t[k], q)
                 PROVE  j = k
      BY DEF AtMostOne
    <2>1. j + 1 = k + 1
      BY <1>2 DEF AtMostOne
    <2> QED BY <1>2, <2>1
  <1>4. ASSUME Reaches(Head(s), q), NEW k \in DOMAIN t, Reaches(t[k], q)
        PROVE  FALSE
    <2>1. 1 = k + 1
      BY <1>1, <1>2, <1>4 DEF AtMostOne
    <2> QED BY <1>2, <2>1
  <1>5. Reaches(Head(s), q) \/ Reached(t, q) => Reached(s, q)
    BY <1>1, <1>2 DEF Reached
  <1> QED BY <1>3, <1>4, <1>5 DEF t, Reached

(* The first call is gone, the calls c are made in its place, and o is written
   where the archive was o1. *)
LEMMA LaidStep ==
    ASSUME NEW o1, NEW o, NEW s \in Seq(CallOf), s # << >>, Laid(o1, s), Ordered(o),
           NEW c \in Seq(CallOf), AllPlaced(c), Prepared(o, c),
           \A x \in OperationType : \A p \in Path :
               Written(o1, x, p) \/ Announces(Head(s), x, p)
                   => Written(o, x, p) \/ Announced(c, x, p),
           \A q \in Path : KindChanges(q) =>
               /\ AtMostOne(c, q)
               /\ Reached(c, q) => Reaches(Head(s), q) /\ o = o1
               /\ Touched(o, q) => Touched(o1, q) \/ Reaches(Head(s), q)
    PROVE  Laid(o, c \o Tail(s))
  <1> DEFINE t == Tail(s)
  <1>1. t \in Seq(CallOf) /\ \A k \in DOMAIN t : \E j \in DOMAIN s : t[k] = s[j]
    <2>1. /\ t \in Seq(CallOf) /\ DOMAIN s = 1..Len(s) /\ DOMAIN t = 1..Len(t) /\ Len(s) \in Nat
          /\ Len(t) = Len(s) - 1 /\ \A k \in 1..Len(t) : t[k] = s[k + 1]
      OBVIOUS
    <2> HIDE DEF t
    <2>2. \A k \in DOMAIN t : k + 1 \in DOMAIN s /\ t[k] = s[k + 1]
      BY <2>1
    <2> QED BY <2>1, <2>2
  <1> HIDE DEF t
  <1>2. AllPlaced(c \o t)
    <2>1. AllPlaced(t)
      BY <1>1 DEF Laid, AllPlaced
    <2> QED BY <1>1, <2>1, AllPlacedBoth
  <1>3. Prepared(o, c \o t)
    <2>1. \A k \in DOMAIN t : \A x \in OperationType : \A p \in Path :
              Relies(t[k], x, p) =>
                      \/ Written(o1, x, p) \/ Announces(Head(s), x, p)
                      \/ \E j \in DOMAIN t : j < k /\ Announces(t[j], x, p)
      BY HeadPrepared DEF Laid, t
    <2>2. \A k \in DOMAIN t : \A x \in OperationType : \A p \in Path :
              Relies(t[k], x, p) =>
                      \/ Written(o, x, p) \/ Announced(c, x, p)
                      \/ \E j \in DOMAIN t : j < k /\ Announces(t[j], x, p)
      BY <2>1
    <2> QED BY <1>1, <2>2, PreparedBoth
  <1>4. ASSUME NEW q \in Path, KindChanges(q)
        PROVE  /\ AtMostOne(c \o t, q)
               /\ Reached(c \o t, q) => ~Touched(o, q)
    <2>1. AtMostOne(s, q) /\ (Reached(s, q) => ~Touched(o1, q))
      BY <1>4 DEF Laid, Once, Reached
    <2>2. /\ AtMostOne(t, q)
          /\ Reaches(Head(s), q) => ~Reached(t, q)
          /\ Reaches(Head(s), q) \/ Reached(t, q) => Reached(s, q)
      BY <2>1, HeadAlone DEF t
    <2>3. /\ AtMostOne(c, q)
          /\ Reached(c, q) => Reaches(Head(s), q) /\ o = o1
          /\ Touched(o, q) => Touched(o1, q) \/ Reaches(Head(s), q)
      BY <1>4
    <2>4. AtMostOne(c \o t, q)
      BY <1>1, <2>2, <2>3, AtMostOneBoth
    <2>5. Reached(c \o t, q) => ~Touched(o, q)
      BY <1>1, <2>1, <2>2, <2>3, ReachedBoth
    <2> QED BY <2>4, <2>5
  <1>5. Once(o, c \o t)
    BY <1>4 DEF Once, Reached
  <1> QED BY <1>2, <1>3, <1>5 DEF Laid, t
----------------------------------------------------------------------------
(* The lists of compare_directories. *)

(* Whatever is below an entry of a directory is below the directory. *)
LEMMA BelowEntry ==
    ASSUME NEW d \in Path, NEW r \in Path, Parent(r) = d, NEW q \in Below(r)
    PROVE  q \in Under(d)
  <1>1. r \in Under(d)
    BY EntryIsUnder
  <1> QED BY <1>1, UnderUnder DEF Below

LEMMA CompareLaid ==
    ASSUME CTypeOK, NEW d \in Path \cup {Root}
    PROVE  /\ AllPlaced(compare_directories(d))
           /\ \A q : AtMostOne(compare_directories(d), q)
           /\ \A q : Reached(compare_directories(d), q) =>
                         \E r \in Path : Parent(r) = d /\ new[r] # Absent /\ q \in Below(r)
           /\ \A o : (d \in Path /\ old[d] # Dir /\ new[d] = Dir =>
                            Written(o, "ADDDIRECTORY", d)) => Prepared(o, compare_directories(d))
           /\ \A k \in DOMAIN compare_directories(d) : \A x, p :
                  Relies(compare_directories(d)[k], x, p) =>
                      x = "ADDDIRECTORY" /\ p = d /\ old[d] # Dir
  <1> DEFINE f == [call |-> "deletions", at |-> d, left |-> make_filelist(old, d)]
             g == [call |-> "additions", at |-> d, left |-> make_filelist(new, d)]
             u == compare_directories(d)
  <1>1. u = <<f, g>>
    BY TwoCalls
  <1>2. Placed(f) /\ Placed(g)
    BY DEF Placed, make_filelist
  <1>3. /\ \A x, p : ~Relies(f, x, p)
        /\ \A x, p : Relies(g, x, p) => x = "ADDDIRECTORY" /\ p = d /\ old[d] # Dir
                                        /\ make_filelist(new, d) # {}
    BY DEF Relies
  <1>4. /\ \A q : ~Reaches(f, q)
        /\ \A q : Reaches(g, q) => \E r \in make_filelist(new, d) : q \in Below(r)
    BY DEF Reaches
  <1>5. d \in Path /\ make_filelist(new, d) # {} => new[d] = Dir
    <2> SUFFICES ASSUME d \in Path, NEW r \in make_filelist(new, d)
                 PROVE  new[d] = Dir
      OBVIOUS
    <2>1. r \in Path /\ Parent(r) = d /\ new[r] # Absent
      BY DEF make_filelist
    <2> QED BY <2>1, ParentDirs
  <1> HIDE DEF f, g, u
  <1>6. DOMAIN u = {1, 2} /\ u[1] = f /\ u[2] = g
    BY <1>1
  <1>7. AllPlaced(u)
    BY <1>2, <1>6 DEF AllPlaced
  <1>8. \A q : AtMostOne(u, q)
    BY <1>4, <1>6 DEF AtMostOne
  <1>9. \A q : Reached(u, q) => \E r \in Path : Parent(r) = d /\ new[r] # Absent /\ q \in Below(r)
    BY <1>4, <1>6 DEF Reached, make_filelist
  <1>10. \A k \in DOMAIN u : \A x, p :
             Relies(u[k], x, p) => x = "ADDDIRECTORY" /\ p = d /\ old[d] # Dir
                                   /\ make_filelist(new, d) # {}
    BY <1>3, <1>6
  <1>11. \A o : (d \in Path /\ old[d] # Dir /\ new[d] = Dir => Written(o, "ADDDIRECTORY", d))
                    => Prepared(o, u)
    BY <1>5, <1>10 DEF Prepared
  <1> QED BY <1>7, <1>8, <1>9, <1>10, <1>11 DEF u

(* A call to put_... *)
LEMMA OneCallLaid ==
    ASSUME NEW f \in Call \ {"deletions", "additions", "wholedir"}, NEW r \in Path,
           f = "delete" => old[r] \in Content,
           f = "add" => old[r] \notin Content,
           f = "adddir" => old[r] # Dir
    PROVE  /\ ToCall(f, r) \in Seq(CallOf)
           /\ AllPlaced(ToCall(f, r))
           /\ \A q : AtMostOne(ToCall(f, r), q)
           /\ \A q : Reached(ToCall(f, r), q) => f \in {"delete", "deldir"} /\ q = r
           /\ \A k \in DOMAIN ToCall(f, r) : k = 1
           /\ \A x, p : Relies(ToCall(f, r)[1], x, p) =>
                  \/ /\ f \in {"add", "adddir"} /\ x = "ADDDIRECTORY" /\ p = Parent(r)
                     /\ old[p] # Dir
                  \/ f = "add" /\ x = "DELETEDIRECTORY" /\ p = r /\ old[r] = Dir
                  \/ f = "adddir" /\ x = "DELETE" /\ p = r /\ old[r] \in Content
           /\ f = "adddir" => Announced(ToCall(f, r), "ADDDIRECTORY", r)
           /\ f = "deldir" => Announced(ToCall(f, r), "DELETEDIRECTORY", r)
           /\ f = "delete" => Announced(ToCall(f, r), "DELETE", r)
  <1> DEFINE c == [call |-> f, at |-> r, left |-> {}]
             u == ToCall(f, r)
  <1>1. u = <<c>> /\ u \in Seq(CallOf)
    BY CallFacts
  <1>2. Placed(c)
    BY DEF Placed
  <1>3. \A q : Reaches(c, q) => f \in {"delete", "deldir"} /\ q = r
    BY DEF Reaches
  <1>4. \A x, p : Relies(c, x, p) =>
                  \/ /\ f \in {"add", "adddir"} /\ x = "ADDDIRECTORY" /\ p = Parent(r)
                     /\ old[p] # Dir
                  \/ f = "add" /\ x = "DELETEDIRECTORY" /\ p = r /\ old[r] = Dir
                  \/ f = "adddir" /\ x = "DELETE" /\ p = r /\ old[r] \in Content
    BY DEF Relies
  <1>5. /\ f = "adddir" => Announces(c, "ADDDIRECTORY", r)
        /\ f = "deldir" => Announces(c, "DELETEDIRECTORY", r)
        /\ f = "delete" => Announces(c, "DELETE", r)
    BY DEF Announces
  <1> HIDE DEF c, u
  <1>6. DOMAIN u = {1} /\ u[1] = c
    BY <1>1
  <1>7. AllPlaced(u) /\ \A q : AtMostOne(u, q)
    BY <1>2, <1>6 DEF AllPlaced, AtMostOne
  <1>8. \A q : Reached(u, q) => f \in {"delete", "deldir"} /\ q = r
    BY <1>3, <1>6 DEF Reached
  <1>9. \A x, p : Announces(c, x, p) => Announced(u, x, p)
    BY <1>6 DEF Announced
  <1> QED BY <1>1, <1>4, <1>5, <1>6, <1>7, <1>8, <1>9 DEF u

(* What comes first announces it for what comes later. *)
LEMMA AnnouncedBoth ==
    ASSUME NEW c \in Seq(CallOf), NEW t \in Seq(CallOf), NEW x, NEW p
    PROVE  Announced(c, x, p) \/ Announced(t, x, p) => Announced(c \o t, x, p)
  <1>1. ASSUME NEW j \in DOMAIN c, Announces(c[j], x, p)
        PROVE  Announced(c \o t, x, p)
    <2>1. j \in DOMAIN (c \o t) /\ (c \o t)[j] = c[j]
      BY JoinFacts
    <2> QED BY <1>1, <2>1 DEF Announced
  <1>2. ASSUME NEW j \in DOMAIN t, Announces(t[j], x, p)
        PROVE  Announced(c \o t, x, p)
    <2>1. Len(c) + j \in DOMAIN (c \o t) /\ (c \o t)[Len(c) + j] = t[j]
      BY JoinFacts
    <2> QED BY <1>2, <2>1 DEF Announced
  <1> QED BY <1>1, <1>2 DEF Announced
----------------------------------------------------------------------------
(* The order is kept by every step of create_patchfile. *)

(* It depends on the two releases and on nothing else that changes. *)
LEMMA LaidStill ==
    ASSUME UNCHANGED releases, NEW o, NEW s, Laid(o, s)
    PROVE  Laid(o, s)'
  <1>1. making' = making /\ old' = old /\ new' = new
    BY DEF releases
  <1>2. Ordered(o)'
    <2> SUFFICES ASSUME NEW n \in DOMAIN o
                 PROVE  Follows(o, n)' /\ Purpose(o[n])'
      BY DEF Ordered
    <2>1. Follows(o, n) /\ Purpose(o[n])
      BY DEF Laid, Ordered
    <2>2. Follows(o, n)'
      BY <1>1, <2>1 DEF Follows, WrittenBefore, Footprint, Under
    <2>3. Purpose(o[n])'
      BY <1>1, <2>1 DEF Purpose
    <2> QED BY <2>2, <2>3
  <1>3. AllPlaced(s)'
    <2> SUFFICES ASSUME NEW k \in DOMAIN s
                 PROVE  Placed(s[k])'
      BY DEF AllPlaced
    <2>1. Placed(s[k])
      BY DEF Laid, AllPlaced
    <2> QED BY <1>1, <2>1 DEF Placed
  <1>4. Prepared(o, s)'
    <2> SUFFICES ASSUME NEW k \in DOMAIN s, NEW x \in OperationType, NEW p \in Path,
                        Relies(s[k], x, p)'
                 PROVE  (\/ Written(o, x, p) \/ \E j \in DOMAIN s : j < k /\ Announces(s[j], x, p))'
      BY DEF Prepared
    <2>1. Relies(s[k], x, p)
      BY <1>1 DEF Relies
    <2>2. Written(o, x, p) \/ \E j \in DOMAIN s : j < k /\ Announces(s[j], x, p)
      BY <2>1 DEF Laid, Prepared
    <2> QED BY <1>1, <2>2 DEF Written, Announces
  <1>5. Once(o, s)'
    <2> SUFFICES ASSUME NEW q \in Path, KindChanges(q)'
                 PROVE  AtMostOne(s, q)' /\ \A k \in DOMAIN s : Reaches(s[k], q)' => ~Touched(o, q)'
      BY DEF Once
    <2>1. KindChanges(q)
      BY <1>1 DEF KindChanges
    <2>2. AtMostOne(s, q) /\ \A k \in DOMAIN s : Reaches(s[k], q) => ~Touched(o, q)
      BY <2>1 DEF Laid, Once
    <2>3. /\ \A k : Reaches(s[k], q)' <=> Reaches(s[k], q)
          /\ Touched(o, q)' <=> Touched(o, q)
      BY <1>1 DEF Reaches, Touched, Footprint, Below, Under
    <2> QED BY <2>2, <2>3 DEF AtMostOne
  <1> QED BY <1>2, <1>3, <1>4, <1>5 DEF Laid

(* An entry is taken from the list in hand. *)
LEMMA EntryLaid ==
    ASSUME CInv, Laid(out, todo), maker = "run", todo # << >>, NEW r \in Head(todo).left,
           Head(todo).call \in {"deletions", "additions", "wholedir"},
           NEW calls \in Seq(CallOf), AllPlaced(calls), Prepared(out, calls),
           \A q \in Path : KindChanges(q) =>
               /\ AtMostOne(calls, q)
               /\ Reached(calls, q) => Head(todo).call = "additions" /\ q \in Below(r)
    PROVE  Laid(out, calls \o <<[Head(todo) EXCEPT !.left = @ \ {r}]>> \o Tail(todo))
  <1> DEFINE h == Head(todo)
             g == [h EXCEPT !.left = @ \ {r}]
             c == calls \o <<g>>
  <1>1. h \in CallOf /\ todo \in Seq(CallOf)
    BY InHandFacts DEF CInv, CTypeOK, CallOf
  <1>2. g \in CallOf /\ g.call = h.call /\ g.at = h.at /\ g.left = h.left \ {r} /\ r \in Path
        /\ h.left \subseteq Path
    BY <1>1 DEF CallOf
  <1>3. Placed(h)
    <2>1. 1 \in DOMAIN todo /\ h = todo[1]
      BY <1>1
    <2> QED BY <2>1 DEF Laid, AllPlaced
  <1>4. \A x \in OperationType : \A p \in Path : Relies(h, x, p) => Written(out, x, p)
    BY <1>1, HeadPrepared DEF Laid
  <1> HIDE DEF g
  <1>5. /\ Placed(g)
        /\ \A x, p : Relies(g, x, p) => Relies(h, x, p)
        /\ \A q : Reaches(g, q) =>
              h.call = "additions" /\ Reaches(h, q) /\ \E t \in h.left : t # r /\ q \in Below(t)
        /\ \A x, p : ~Announces(h, x, p)
    <2>1. h.call \in {"deletions", "additions", "wholedir"}
      OBVIOUS
    <2> HIDE DEF h
    <2>2. Placed(g)
      BY <1>2, <1>3, <2>1 DEF Placed
    <2>3. \A x, p : Relies(g, x, p) => Relies(h, x, p)
      BY <1>2, <2>1 DEF Relies
    <2>4. \A q : Reaches(g, q) =>
              h.call = "additions" /\ Reaches(h, q) /\ \E t \in h.left : t # r /\ q \in Below(t)
      BY <1>2, <2>1 DEF Reaches
    <2>5. \A x, p : ~Announces(h, x, p)
      BY <2>1 DEF Announces
    <2> QED BY <2>2, <2>3, <2>4, <2>5
  <1>6. <<g>> \in Seq(CallOf) /\ DOMAIN <<g>> = {1} /\ <<g>>[1] = g
    BY <1>2
  <1>7. AllPlaced(<<g>>) /\ \A q : AtMostOne(<<g>>, q) /\ (Reached(<<g>>, q) => Reaches(g, q))
    BY <1>5, <1>6 DEF AllPlaced, AtMostOne, Reached
  <1>8. \A k \in DOMAIN <<g>> : \A x \in OperationType : \A p \in Path :
               Relies(<<g>>[k], x, p) => Written(out, x, p) \/ Announced(calls, x, p)
    BY <1>4, <1>5, <1>6
  <1>9. c \in Seq(CallOf) /\ AllPlaced(c) /\ Prepared(out, c)
    <2>1. AllPlaced(c)
      BY <1>6, <1>7, AllPlacedBoth
    <2>2. Prepared(out, c)
      BY <1>6, <1>8, PreparedBoth
    <2>3. c \in Seq(CallOf)
      BY <1>6
    <2> QED BY <2>1, <2>2, <2>3
  <1>10. ASSUME NEW q \in Path, KindChanges(q)
         PROVE  AtMostOne(c, q) /\ (Reached(c, q) => Reaches(h, q))
    <2>1. AtMostOne(calls, q) /\ (Reached(calls, q) => h.call = "additions" /\ q \in Below(r))
      BY <1>10
    <2>2. Reached(calls, q) => Reaches(h, q)
      BY <2>1 DEF Reaches
    <2>3. ~(Reached(calls, q) /\ Reached(<<g>>, q))
      <3> SUFFICES ASSUME Reached(calls, q), Reached(<<g>>, q)
                   PROVE  FALSE
        OBVIOUS
      <3>1. PICK t \in h.left : t # r /\ q \in Below(t)
        BY <1>5, <1>7
      <3>2. Parent(t) = h.at /\ Parent(r) = h.at
        BY <1>3, <3>1 DEF Placed
      <3>3. q \in Below(r) /\ t \in Path
        BY <1>2, <2>1, <3>1
      <3> QED BY <1>2, <3>1, <3>2, <3>3, SiblingsApart
    <2>4. AtMostOne(c, q)
      BY <1>6, <1>7, <2>1, <2>3, AtMostOneBoth
    <2>5. Reached(c, q) => Reached(calls, q) \/ Reached(<<g>>, q)
      BY <1>6, ReachedBoth
    <2> QED BY <1>5, <1>7, <2>2, <2>4, <2>5
  <1>11. Ordered(out)
    BY DEF Laid
  <1> HIDE DEF c
  <1>12. Laid(out, c \o Tail(todo))
    BY <1>1, <1>5, <1>9, <1>10, <1>11, LaidStep
  <1> QED BY <1>12 DEF c, g
(* Wherever a file of one release is a directory of the other, what is below it is
   in one of the two releases only. *)
LEMMA KindChangesAbove ==
    ASSUME CTypeOK, NEW r \in Path, NEW q \in Under(r), KindChanges(q)
    PROVE  old[r] = Dir /\ new[r] = Dir
  <1>1. q \in Path
    BY DEF Under
  <1> QED BY <1>1, KindChangeFacts

(* compare_directories(r), for a directory of one release only, reaches nothing whose
   kind changes. *)
LEMMA CompareReachesNothing ==
    ASSUME CTypeOK, NEW r \in Path, NEW q \in Path, KindChanges(q),
           old[r] # Dir \/ new[r] # Dir
    PROVE  ~Reached(compare_directories(r), q)
  <1> SUFFICES ASSUME Reached(compare_directories(r), q)
               PROVE  FALSE
    OBVIOUS
  <1>1. PICK t \in Path : Parent(t) = r /\ q \in Below(t)
    BY CompareLaid
  <1>2. q \in Under(r)
    BY <1>1, BelowEntry
  <1> QED BY <1>2, KindChangesAbove

(* The entry in hand, and what its list relies on. *)
LEMMA EntryOrder ==
    ASSUME CInv, Laid(out, todo), maker = "run", todo # << >>, NEW r \in Head(todo).left,
           Head(todo).call \in {"deletions", "additions", "wholedir"}
    PROVE  /\ r \in Path /\ Parent(r) = Head(todo).at /\ r \in Below(r)
           /\ Head(todo).call = "wholedir" => old[r] = Absent
           /\ Head(todo).call \in {"additions", "wholedir"} =>
                  \A p \in Path : p = Parent(r) /\ old[p] # Dir => Written(out, "ADDDIRECTORY", p)
  <1>1. Head(todo) \in CallOf /\ todo \in Seq(CallOf) /\ r \in Path
    BY EntryFacts, InHandFacts DEF CInv, CTypeOK, CallOf
  <1>2. Placed(Head(todo))
    <2>1. 1 \in DOMAIN todo /\ Head(todo) = todo[1]
      BY <1>1
    <2> QED BY <2>1 DEF Laid, AllPlaced
  <1>3. Parent(r) = Head(todo).at /\ (Head(todo).call = "wholedir" => old[r] = Absent)
    BY <1>2 DEF Placed
  <1>4. \A x \in OperationType : \A p \in Path :
            Relies(Head(todo), x, p) => Written(out, x, p)
    BY <1>1, HeadPrepared DEF Laid
  <1>5. ASSUME Head(todo).call \in {"additions", "wholedir"}, NEW p \in Path, p = Parent(r),
               old[p] # Dir
        PROVE  Written(out, "ADDDIRECTORY", p)
    <2>1. Relies(Head(todo), "ADDDIRECTORY", p)
      BY <1>3, <1>5 DEF Relies
    <2> QED BY <1>4, <2>1 DEF OperationType
  <1> QED BY <1>1, <1>3, <1>5, BelowInPath

(* Calls that find in the archive whatever they rely on. *)
LEMMA PreparedAll ==
    ASSUME NEW o, NEW s, \A k \in DOMAIN s : \A x \in OperationType : \A p \in Path :
               Relies(s[k], x, p) => Written(o, x, p)
    PROVE  Prepared(o, s)
  BY DEF Prepared

LEMMA NoCallsLaid ==
    ASSUME NEW o
    PROVE  /\ << >> \in Seq(CallOf) /\ AllPlaced(<< >>) /\ Prepared(o, << >>)
           /\ \A q : AtMostOne(<< >>, q) /\ ~Reached(<< >>, q)
  BY DEF AllPlaced, Prepared, AtMostOne, Reached

LEMMA DeletionsLaid ==
    ASSUME CInv, Laid(out, todo), NEW r \in Path, OldKept(r) \/ OldFileGone(r) \/ OldDirGone(r)
    PROVE  Laid(out', todo')
  <1>1. /\ maker = "run" /\ todo # << >> /\ Head(todo).call = "deletions"
        /\ r \in Head(todo).left /\ out' = out
    BY DEF OldKept, OldFileGone, OldDirGone, Running, Entry
  <1>2. CTypeOK
    BY DEF CInv
  <1>3. old[r] # Absent /\ old[r] \in Content \cup {Absent, Dir}
    BY <1>1, EntryFacts
  <1>4. ASSUME NEW calls \in Seq(CallOf), Entry(r, calls), AllPlaced(calls), Prepared(out, calls),
               \A q \in Path : KindChanges(q) => AtMostOne(calls, q) /\ ~Reached(calls, q)
        PROVE  Laid(out', todo')
    <2>1. Laid(out, calls \o <<[Head(todo) EXCEPT !.left = @ \ {r}]>> \o Tail(todo))
      BY <1>1, <1>4, EntryLaid
    <2> QED BY <1>1, <1>4, <2>1 DEF Entry
  <1>5. CASE OldKept(r)
    BY <1>4, <1>5, NoCallsLaid DEF OldKept
  <1>6. CASE OldFileGone(r)
    <2>1. new[r] = Absent /\ old[r] \in Content /\ Entry(r, ToCall("delete", r))
      BY <1>3, <1>6 DEF OldFileGone, file_exists, file_is_directory
    <2> DEFINE u == ToCall("delete", r)
    <2>2. /\ u \in Seq(CallOf) /\ AllPlaced(u) /\ \A q : AtMostOne(u, q)
          /\ \A q : Reached(u, q) => q = r
          /\ \A k \in DOMAIN u : k = 1
          /\ \A x, p : ~Relies(u[1], x, p)
      BY <2>1, OneCallLaid DEF Call
    <2> HIDE DEF u
    <2>3. Prepared(out, u)
      BY <2>2, PreparedAll
    <2>4. ~KindChanges(r)
      BY <2>1, NodeFacts DEF KindChanges
    <2> QED BY <1>4, <2>1, <2>2, <2>3, <2>4 DEF u
  <1>7. CASE OldDirGone(r)
    <2> DEFINE cs == compare_directories(r)
               ds == ToCall("deldir", r)
    <2>1. new[r] = Absent /\ old[r] = Dir /\ Entry(r, cs \o ds)
      BY <1>7 DEF OldDirGone, file_exists, file_is_directory
    <2>2. /\ ds \in Seq(CallOf) /\ AllPlaced(ds) /\ \A q : AtMostOne(ds, q)
          /\ \A q : Reached(ds, q) => q = r
          /\ \A k \in DOMAIN ds : k = 1
          /\ \A x, p : ~Relies(ds[1], x, p)
      <3> HIDE DEF cs
      <3>1. "deldir" \in Call \ {"deletions", "additions", "wholedir"}
        BY DEF Call
      <3> QED BY <3>1, OneCallLaid
    <2>3. /\ cs \in Seq(CallOf) /\ AllPlaced(cs) /\ \A q : AtMostOne(cs, q)
          /\ Prepared(out, cs)
      BY <1>2, <2>1, CompareFine, CompareLaid
    <2>4. new[r] # Dir
      BY <2>1, NodeFacts
    <2>5. \A q \in Path : KindChanges(q) => ~Reached(cs, q)
      BY <1>2, <2>4, CompareReachesNothing
    <2>6. ~KindChanges(r)
      BY <2>1, NodeFacts DEF KindChanges
    <2> HIDE DEF cs, ds
    <2>7. \A k \in DOMAIN ds : \A x, p : ~Relies(ds[k], x, p)
      BY <2>2
    <2>8. cs \o ds \in Seq(CallOf) /\ AllPlaced(cs \o ds) /\ Prepared(out, cs \o ds)
      <3>1. AllPlaced(cs \o ds)
        BY <2>2, <2>3, AllPlacedBoth
      <3>2. Prepared(out, cs \o ds)
        BY <2>2, <2>3, <2>7, PreparedBoth
      <3> QED BY <2>2, <2>3, <3>1, <3>2
    <2>9. \A q \in Path : KindChanges(q) => AtMostOne(cs \o ds, q) /\ ~Reached(cs \o ds, q)
      BY <2>2, <2>3, <2>5, <2>6, AtMostOneBoth, ReachedBoth
    <2> QED BY <1>4, <2>1, <2>8, <2>9
  <1> QED BY <1>5, <1>6, <1>7

LEMMA WholeDirLaid ==
    ASSUME CInv, Laid(out, todo), NEW r \in Path, WholeDirEntry(r)
    PROVE  Laid(out', todo')
  <1> DEFINE f == IF file_is_directory(new, r) THEN "adddir" ELSE "add"
             u == ToCall(f, r)
  <1>1. /\ maker = "run" /\ todo # << >> /\ Head(todo).call = "wholedir"
        /\ r \in Head(todo).left /\ out' = out /\ Entry(r, u)
    BY DEF WholeDirEntry, Running, Entry
  <1>2. old[r] = Absent /\ f \in {"add", "adddir"}
    BY <1>1, EntryOrder
  <1> HIDE DEF f
  <1>3. /\ u \in Seq(CallOf) /\ AllPlaced(u) /\ \A q : AtMostOne(u, q) /\ ~Reached(u, q)
        /\ \A k \in DOMAIN u : k = 1
        /\ \A x, p : Relies(u[1], x, p) => x = "ADDDIRECTORY" /\ p = Parent(r) /\ old[p] # Dir
    BY <1>2, OneCallLaid, NodeFacts DEF Call
  <1> HIDE DEF u
  <1>4. \A p \in Path : p = Parent(r) /\ old[p] # Dir => Written(out, "ADDDIRECTORY", p)
    BY <1>1, EntryOrder
  <1>5. Prepared(out, u)
    <2>1. \A k \in DOMAIN u : \A x \in OperationType : \A p \in Path :
              Relies(u[k], x, p) => Written(out, x, p)
      BY <1>3, <1>4
    <2> QED BY <2>1, PreparedAll
  <1>6. Laid(out, u \o <<[Head(todo) EXCEPT !.left = @ \ {r}]>> \o Tail(todo))
    BY <1>1, <1>3, <1>5, EntryLaid
  <1> QED BY <1>1, <1>6 DEF Entry
(* An entry of the newer release that is in the older one as well, or not. *)
LEMMA AdditionLaid ==
    ASSUME CInv, Laid(out, todo), maker = "run", todo # << >>, NEW r \in Path,
           Head(todo).call = "additions", NEW calls \in Seq(CallOf), Entry(r, calls),
           AllPlaced(calls), Prepared(out, calls),
           \A q \in Path : KindChanges(q) =>
               AtMostOne(calls, q) /\ (Reached(calls, q) => q \in Below(r))
    PROVE  Laid(out', todo')
  <1>1. r \in Head(todo).left /\ out' = out
    BY DEF Entry
  <1>2. Laid(out, calls \o <<[Head(todo) EXCEPT !.left = @ \ {r}]>> \o Tail(todo))
    BY <1>1, EntryLaid
  <1> QED BY <1>1, <1>2 DEF Entry

(* One call, for what is new or is a file in both. *)
LEMMA OneAdditionLaid ==
    ASSUME CInv, Laid(out, todo), maker = "run", todo # << >>, NEW r \in Path,
           Head(todo).call = "additions", NEW f \in {"add", "adddir", "patch"},
           f \in {"add", "adddir"} => old[r] = Absent, Entry(r, ToCall(f, r))
    PROVE  Laid(out', todo')
  <1> DEFINE u == ToCall(f, r)
  <1>1. /\ f \in Call \ {"deletions", "additions", "wholedir"} /\ f \notin {"delete", "deldir"}
        /\ f = "add" => old[r] \notin Content
        /\ f = "adddir" => old[r] # Dir
        /\ f \in {"add", "adddir"} => old[r] # Dir /\ old[r] \notin Content
    BY NodeFacts DEF Call
  <1>2. /\ u \in Seq(CallOf) /\ AllPlaced(u) /\ \A q : AtMostOne(u, q) /\ ~Reached(u, q)
        /\ \A k \in DOMAIN u : k = 1
        /\ \A x, p : Relies(u[1], x, p) => x = "ADDDIRECTORY" /\ p = Parent(r) /\ old[p] # Dir
    BY <1>1, OneCallLaid
  <1> HIDE DEF u
  <1>3. r \in Head(todo).left
    BY DEF Entry
  <1>4. \A p \in Path : p = Parent(r) /\ old[p] # Dir => Written(out, "ADDDIRECTORY", p)
    BY <1>3, EntryOrder
  <1>5. \A k \in DOMAIN u : \A x \in OperationType : \A p \in Path :
              Relies(u[k], x, p) => Written(out, x, p)
    BY <1>2, <1>4
  <1>6. Prepared(out, u)
    BY <1>5, PreparedAll
  <1> QED BY <1>2, <1>6, AdditionLaid DEF u

LEMMA FileToDirLaid ==
    ASSUME CInv, Laid(out, todo), NEW r \in Path, FileToDir(r)
    PROVE  Laid(out', todo')
  <1> DEFINE cs == compare_directories(r)
             ds == ToCall("delete", r)
             as == ToCall("adddir", r)
  <1>1. /\ maker = "run" /\ todo # << >> /\ Head(todo).call = "additions"
        /\ r \in Head(todo).left /\ old[r] \in File /\ new[r] = Dir
        /\ Entry(r, (ds \o as) \o cs)
    BY DEF FileToDir, NewEntry, Running, Entry, file_is_directory
  <1>2. CTypeOK
    BY DEF CInv
  <1>3. old[r] \in Content /\ old[r] # Dir
    BY <1>1, <1>2, Releases, NodeFacts
  <1>4. /\ cs \in Seq(CallOf) /\ AllPlaced(cs) /\ \A q : AtMostOne(cs, q)
        /\ \A k \in DOMAIN cs : \A x, p : Relies(cs[k], x, p) => x = "ADDDIRECTORY" /\ p = r
    BY <1>2, CompareFine, CompareLaid
  <1>5. \A q \in Path : KindChanges(q) => ~Reached(cs, q)
    BY <1>2, <1>3, CompareReachesNothing
  <1> HIDE DEF cs
  <1>6. /\ ds \in Seq(CallOf) /\ AllPlaced(ds) /\ \A q : AtMostOne(ds, q)
        /\ \A q : Reached(ds, q) => q = r
        /\ \A k \in DOMAIN ds : k = 1
        /\ \A x, p : ~Relies(ds[1], x, p)
        /\ Announced(ds, "DELETE", r)
    <2>1. "delete" \in Call \ {"deletions", "additions", "wholedir"}
      BY DEF Call
    <2> QED BY <1>3, <2>1, OneCallLaid
  <1>7. /\ as \in Seq(CallOf) /\ AllPlaced(as) /\ \A q : AtMostOne(as, q) /\ ~Reached(as, q)
        /\ \A k \in DOMAIN as : k = 1
        /\ \A x, p : Relies(as[1], x, p) =>
              \/ x = "ADDDIRECTORY" /\ p = Parent(r) /\ old[p] # Dir
              \/ x = "DELETE" /\ p = r
        /\ Announced(as, "ADDDIRECTORY", r)
    <2>1. "adddir" \in Call \ {"deletions", "additions", "wholedir"}
      BY DEF Call
    <2> QED BY <1>3, <2>1, OneCallLaid
  <1> HIDE DEF ds, as
  <1>8. \A p \in Path : p = Parent(r) /\ old[p] # Dir => Written(out, "ADDDIRECTORY", p)
    BY <1>1, EntryOrder
  <1> DEFINE b == ds \o as
  <1>9. /\ b \in Seq(CallOf) /\ AllPlaced(b) /\ Prepared(out, b)
        /\ \A q : AtMostOne(b, q) /\ (Reached(b, q) => q = r)
        /\ Announced(b, "ADDDIRECTORY", r)
    <2>1. \A k \in DOMAIN ds : \A x \in OperationType : \A p \in Path :
              Relies(ds[k], x, p) => Written(out, x, p)
      BY <1>6
    <2>2. \A k \in DOMAIN as : \A x \in OperationType : \A p \in Path :
              Relies(as[k], x, p) => Written(out, x, p) \/ Announced(ds, x, p)
      BY <1>6, <1>7, <1>8
    <2>3. Prepared(out, ds)
      BY <2>1, PreparedAll
    <2>4. Prepared(out, b)
      BY <1>6, <1>7, <2>2, <2>3, PreparedBoth
    <2>5. AllPlaced(b)
      BY <1>6, <1>7, AllPlacedBoth
    <2>6. \A q : AtMostOne(b, q) /\ (Reached(b, q) => q = r)
      BY <1>6, <1>7, AtMostOneBoth, ReachedBoth
    <2>7. Announced(b, "ADDDIRECTORY", r)
      BY <1>6, <1>7, AnnouncedBoth
    <2>8. b \in Seq(CallOf)
      BY <1>6, <1>7, JoinFacts
    <2> QED BY <2>4, <2>5, <2>6, <2>7, <2>8
  <1> HIDE DEF b
  <1>10. b \o cs \in Seq(CallOf) /\ AllPlaced(b \o cs) /\ Prepared(out, b \o cs)
    <2>1. \A k \in DOMAIN cs : \A x \in OperationType : \A p \in Path :
              Relies(cs[k], x, p) => Written(out, x, p) \/ Announced(b, x, p)
      BY <1>4, <1>9
    <2>2. Prepared(out, b \o cs)
      BY <1>4, <1>9, <2>1, PreparedBoth
    <2>3. AllPlaced(b \o cs)
      BY <1>4, <1>9, AllPlacedBoth
    <2>4. b \o cs \in Seq(CallOf)
      BY <1>4, <1>9, JoinFacts
    <2> QED BY <2>2, <2>3, <2>4
  <1>11. ASSUME NEW q \in Path, KindChanges(q)
         PROVE  AtMostOne(b \o cs, q) /\ (Reached(b \o cs, q) => q \in Below(r))
    <2>1. AtMostOne(b, q) /\ AtMostOne(cs, q) /\ ~Reached(cs, q) /\ (Reached(b, q) => q = r)
      BY <1>4, <1>5, <1>9, <1>11
    <2>2. AtMostOne(b \o cs, q)
      BY <1>4, <1>9, <2>1, AtMostOneBoth
    <2>3. Reached(b \o cs, q) => Reached(b, q) \/ Reached(cs, q)
      BY <1>4, <1>9, ReachedBoth
    <2>4. r \in Below(r)
      BY BelowInPath
    <2> QED BY <2>1, <2>2, <2>3, <2>4
  <1>12. Entry(r, b \o cs)
    BY <1>1 DEF b
  <1> QED BY <1>1, <1>10, <1>11, <1>12, AdditionLaid

LEMMA DirToFileLaid ==
    ASSUME CInv, Laid(out, todo), NEW r \in Path, DirToFile(r)
    PROVE  Laid(out', todo')
  <1> DEFINE ds == ToCall("deldir", r)
             as == ToCall("add", r)
  <1>1. /\ maker = "run" /\ todo # << >> /\ Head(todo).call = "additions"
        /\ r \in Head(todo).left /\ old[r] = Dir /\ Entry(r, ds \o as)
    BY DEF DirToFile, NewEntry, Running, Entry, file_is_directory
  <1>2. old[r] \notin Content
    BY <1>1, NodeFacts
  <1>3. /\ ds \in Seq(CallOf) /\ AllPlaced(ds) /\ \A q : AtMostOne(ds, q)
        /\ \A q : Reached(ds, q) => q = r
        /\ \A k \in DOMAIN ds : k = 1
        /\ \A x, p : ~Relies(ds[1], x, p)
        /\ Announced(ds, "DELETEDIRECTORY", r)
    <2>1. "deldir" \in Call \ {"deletions", "additions", "wholedir"}
      BY DEF Call
    <2> QED BY <2>1, OneCallLaid
  <1>4. /\ as \in Seq(CallOf) /\ AllPlaced(as) /\ \A q : AtMostOne(as, q) /\ ~Reached(as, q)
        /\ \A k \in DOMAIN as : k = 1
        /\ \A x, p : Relies(as[1], x, p) =>
              \/ x = "ADDDIRECTORY" /\ p = Parent(r) /\ old[p] # Dir
              \/ x = "DELETEDIRECTORY" /\ p = r
    <2>1. "add" \in Call \ {"deletions", "additions", "wholedir"}
      BY DEF Call
    <2> QED BY <1>2, <2>1, OneCallLaid
  <1> HIDE DEF ds, as
  <1>5. \A p \in Path : p = Parent(r) /\ old[p] # Dir => Written(out, "ADDDIRECTORY", p)
    BY <1>1, EntryOrder
  <1>6. ds \o as \in Seq(CallOf) /\ AllPlaced(ds \o as) /\ Prepared(out, ds \o as)
    <2>1. \A k \in DOMAIN ds : \A x \in OperationType : \A p \in Path :
              Relies(ds[k], x, p) => Written(out, x, p)
      BY <1>3
    <2>2. \A k \in DOMAIN as : \A x \in OperationType : \A p \in Path :
              Relies(as[k], x, p) => Written(out, x, p) \/ Announced(ds, x, p)
      BY <1>3, <1>4, <1>5
    <2>3. Prepared(out, ds)
      BY <2>1, PreparedAll
    <2>4. Prepared(out, ds \o as)
      BY <1>3, <1>4, <2>2, <2>3, PreparedBoth
    <2>5. AllPlaced(ds \o as)
      BY <1>3, <1>4, AllPlacedBoth
    <2>6. ds \o as \in Seq(CallOf)
      BY <1>3, <1>4, JoinFacts
    <2> QED BY <2>4, <2>5, <2>6
  <1>7. ASSUME NEW q \in Path
        PROVE  AtMostOne(ds \o as, q) /\ (Reached(ds \o as, q) => q \in Below(r))
    <2>1. AtMostOne(ds \o as, q)
      BY <1>3, <1>4, AtMostOneBoth
    <2>2. Reached(ds \o as, q) => q = r
      BY <1>3, <1>4, ReachedBoth
    <2> QED BY <2>1, <2>2, BelowInPath
  <1> QED BY <1>1, <1>6, <1>7, AdditionLaid

LEMMA AdditionsLaid ==
    ASSUME CInv, Laid(out, todo), NEW r \in Path,
           \/ SkipDSStore(r) \/ BothDirs(r) \/ FileToDir(r) \/ DirToFile(r)
           \/ BothFiles(r) \/ NewDir(r) \/ NewFile(r)
    PROVE  Laid(out', todo')
  <1>1. /\ maker = "run" /\ todo # << >>
        /\ Head(todo).call = "additions" /\ r \in Head(todo).left
    BY DEF SkipDSStore, BothDirs, FileToDir, DirToFile, BothFiles, NewDir, NewFile,
           NewEntry, Running, Entry
  <1>2. CTypeOK
    BY DEF CInv
  <1>3. CASE SkipDSStore(r)
    <2>1. Entry(r, << >>)
      BY <1>3 DEF SkipDSStore
    <2> QED BY <1>1, <2>1, NoCallsLaid, AdditionLaid
  <1>4. CASE BothDirs(r)
    <2> DEFINE cs == compare_directories(r)
    <2>1. old[r] = Dir /\ Entry(r, cs)
      BY <1>4 DEF BothDirs, file_is_directory
    <2>2. /\ cs \in Seq(CallOf) /\ AllPlaced(cs) /\ \A q : AtMostOne(cs, q)
          /\ Prepared(out, cs)
      BY <1>2, <2>1, CompareFine, CompareLaid
    <2>3. ASSUME NEW q, Reached(cs, q)
          PROVE  q \in Below(r)
      <3>1. PICK t \in Path : Parent(t) = r /\ q \in Below(t)
        BY <1>2, <2>3, CompareLaid
      <3> QED BY <3>1, BelowEntry DEF Below
    <2> HIDE DEF cs
    <2> QED BY <1>1, <2>1, <2>2, <2>3, AdditionLaid
  <1>5. CASE BothFiles(r)
    BY <1>1, <1>5, OneAdditionLaid DEF BothFiles
  <1>6. CASE NewDir(r)
    BY <1>1, <1>6, OneAdditionLaid DEF NewDir, file_exists
  <1>7. CASE NewFile(r)
    BY <1>1, <1>7, OneAdditionLaid DEF NewFile, file_exists
  <1> QED BY <1>3, <1>4, <1>5, <1>6, <1>7, FileToDirLaid, DirToFileLaid
----------------------------------------------------------------------------
(* The put_* functions write what the calls were ordered for. *)

(* The last operation comes after all that it relies on. *)
LEMMA FollowsLast ==
    ASSUME NEW o \in Seq(Operation), NEW x \in Operation,
           x.op \in {"ADD", "REPLACE", "ADDDIRECTORY"} =>
               \A p \in Path : p = Parent(x.fname) /\ old[p] # Dir
                   => Written(o, "ADDDIRECTORY", p),
           x.op \in {"ADD", "REPLACE"} /\ old[x.fname] = Dir
               => Written(o, "DELETEDIRECTORY", x.fname),
           x.op = "ADDDIRECTORY" /\ old[x.fname] \in Content => Written(o, "DELETE", x.fname),
           x.op \in {"DELETE", "DELETEDIRECTORY"} /\ new[x.fname] # Absent
               => ~Touched(o, x.fname)
    PROVE  Follows(Append(o, x), Len(o) + 1)
  <1> DEFINE u == Append(o, x)
             n == Len(o) + 1
  <1>1. /\ u[n] = x /\ n \in Nat
        /\ \A m \in DOMAIN u : m < n => m \in DOMAIN o /\ u[m] = o[m]
    <2>1. /\ u \in Seq(Operation) /\ Len(o) \in Nat
          /\ DOMAIN u = 1..(Len(o) + 1) /\ DOMAIN o = 1..Len(o)
          /\ \A k \in 1..Len(o) : u[k] = o[k]
          /\ u[Len(o) + 1] = x
      OBVIOUS
    <2> HIDE DEF u
    <2> QED BY <2>1
  <1>2. \A y, p : Written(o, y, p) => WrittenBefore(u, n, y, p)
    BY WrittenMore
  <1> HIDE DEF u, n
  <1>3. ~Touched(o, x.fname) => \A m \in DOMAIN u : m < n => x.fname \notin Footprint(u[m])
    BY <1>1 DEF Touched
  <1>4. Follows(u, n)
    BY <1>1, <1>2, <1>3 DEF Follows
  <1> QED BY <1>4 DEF u, n

LEMMA EmitLaid ==
    ASSUME CInv, Laid(out, todo), maker = "run", todo # << >>, NEW x \in Operation, Emit(x),
           NEW calls \in Seq(CallOf), todo' = calls \o Tail(todo), AllPlaced(calls),
           Prepared(Append(out, x), calls), \A q : ~Reached(calls, q),
           Purpose(x), Follows(Append(out, x), Len(out) + 1),
           \A y, p : Announces(Head(todo), y, p) => y = x.op /\ p = x.fname,
           \A q \in Path : KindChanges(q) /\ q \in Footprint(x)
               => Touched(out, q) \/ Reaches(Head(todo), q)
    PROVE  Laid(out', todo')
  <1> DEFINE o == Append(out, x)
  <1>1. out \in Seq(Operation) /\ todo \in Seq(CallOf)
    BY DEF CInv, CTypeOK, CallOf
  <1>2. /\ \A y, p : Written(out, y, p) => Written(o, y, p)
        /\ Written(o, x.op, x.fname)
        /\ \A q : Touched(o, q) <=> Touched(out, q) \/ q \in Footprint(x)
    BY <1>1, WrittenMore
  <1>3. Ordered(o)
    BY <1>1, OrderedMore DEF Laid
  <1> HIDE DEF o
  <1>4. \A q : AtMostOne(calls, q)
    BY DEF AtMostOne, Reached
  <1>5. \A y \in OperationType : \A p \in Path :
            Written(out, y, p) \/ Announces(Head(todo), y, p)
                => Written(o, y, p) \/ Announced(calls, y, p)
    BY <1>2
  <1>6. Prepared(o, calls)
    BY DEF o
  <1>7. \A q \in Path : KindChanges(q) =>
               /\ AtMostOne(calls, q)
               /\ Reached(calls, q) => Reaches(Head(todo), q) /\ o = out
               /\ Touched(o, q) => Touched(out, q) \/ Reaches(Head(todo), q)
    BY <1>2, <1>4
  <1>8. Laid(o, calls \o Tail(todo))
    BY <1>1, <1>3, <1>5, <1>6, <1>7, LaidStep
  <1> QED BY <1>8 DEF o, Emit

(* The call is over. *)
LEMMA LastLaid ==
    ASSUME CInv, Laid(out, todo), maker = "run", todo # << >>, NEW x \in Operation, Emit(x),
           todo' = Tail(todo), Purpose(x), Follows(Append(out, x), Len(out) + 1),
           \A y, p : Announces(Head(todo), y, p) => y = x.op /\ p = x.fname,
           \A q \in Path : KindChanges(q) /\ q \in Footprint(x)
               => Touched(out, q) \/ Reaches(Head(todo), q)
    PROVE  Laid(out', todo')
  <1>1. Tail(todo) \in Seq(CallOf)
    BY InHandFacts
  <1>2. << >> \o Tail(todo) = Tail(todo)
    <2>1. \A s \in Seq(CallOf) : << >> \o s = s
      OBVIOUS
    <2> QED BY <1>1, <2>1
  <1> QED BY <1>2, NoCallsLaid, EmitLaid

(* Without a word in the archive. *)
LEMMA PassLaid ==
    ASSUME CInv, Laid(out, todo), maker = "run", todo # << >>, UNCHANGED out,
           todo' = Tail(todo), \A y, p : ~Announces(Head(todo), y, p)
    PROVE  Laid(out', todo')
  <1>1. Tail(todo) \in Seq(CallOf) /\ todo \in Seq(CallOf)
    BY InHandFacts DEF CInv, CTypeOK, CallOf
  <1>2. << >> \o Tail(todo) = Tail(todo)
    <2>1. \A s \in Seq(CallOf) : << >> \o s = s
      OBVIOUS
    <2> QED BY <1>1, <2>1
  <1>3. Ordered(out)
    BY DEF Laid
  <1>4. Laid(out, << >> \o Tail(todo))
    BY <1>1, <1>3, NoCallsLaid, LaidStep
  <1> QED BY <1>2, <1>4

(* The call in hand. *)
LEMMA HeadOrder ==
    ASSUME CInv, Laid(out, todo), maker = "run", todo # << >>
    PROVE  /\ Placed(Head(todo))
           /\ \A x \in OperationType : \A p \in Path :
                  Relies(Head(todo), x, p) => Written(out, x, p)
           /\ \A q \in Path : KindChanges(q) /\ Reaches(Head(todo), q) => ~Touched(out, q)
  <1>1. todo \in Seq(CallOf)
    BY DEF CInv, CTypeOK, CallOf
  <1>2. 1 \in DOMAIN todo /\ Head(todo) = todo[1]
    BY <1>1
  <1>3. Placed(Head(todo))
    BY <1>2 DEF Laid, AllPlaced
  <1>4. \A q \in Path : KindChanges(q) /\ Reaches(Head(todo), q) => ~Touched(out, q)
    BY <1>2 DEF Laid, Once
  <1>5. \A x \in OperationType : \A p \in Path : Relies(Head(todo), x, p) => Written(out, x, p)
    BY <1>1, HeadPrepared DEF Laid
  <1> QED BY <1>3, <1>4, <1>5

(* What is written has been touched. *)
LEMMA WrittenIsTouched ==
    ASSUME NEW o, NEW p, \/ Written(o, "DELETE", p) \/ Written(o, "DELETEDIRECTORY", p)
                         \/ Written(o, "ADDDIRECTORY", p)
    PROVE  Touched(o, p)
  <1>1. ASSUME NEW m \in DOMAIN o, o[m].fname = p,
               o[m].op \in {"DELETE", "DELETEDIRECTORY", "ADDDIRECTORY"}
        PROVE  Touched(o, p)
    <2>1. p \in Footprint(o[m])
      BY <1>1 DEF Footprint
    <2> QED BY <2>1 DEF Touched
  <1> QED BY <1>1 DEF Written

LEMMA DeleteLaid ==
    ASSUME CInv, Laid(out, todo), put_delete \/ put_delete_dir, ~Declined
    PROVE  Laid(out', todo')
  <1>1. out \in Seq(Operation) /\ CTypeOK
    BY DEF CInv, CTypeOK
  <1>2. CASE put_delete
    <2>1. /\ maker = "run" /\ todo # << >> /\ At \in Path /\ Head(todo).call = "delete"
          /\ new[At] # Absent => new[At] = Dir
      BY <1>2, PutFacts DEF put_delete
    <2>2. Emit(Delete(At)) /\ todo' = Tail(todo)
      BY <1>2 DEF put_delete
    <2>3. old[At] \in Content /\ Reaches(Head(todo), At)
      BY <2>1, HeadOrder DEF Placed, Reaches, At
    <2>4. /\ Delete(At) \in Operation /\ Delete(At).op = "DELETE" /\ Delete(At).fname = At
          /\ Footprint(Delete(At)) = {At}
      BY <2>1, OperationForms DEF Delete
    <2>5. Purpose(Delete(At))
      BY <2>1, <2>3, <2>4 DEF Purpose
    <2>6. new[At] # Absent => ~Touched(out, At)
      BY <2>1, <2>3, HeadOrder DEF KindChanges
    <2>7. Follows(Append(out, Delete(At)), Len(out) + 1)
      BY <1>1, <2>4, <2>6, FollowsLast
    <2>8. \A y, p : Announces(Head(todo), y, p) => y = "DELETE" /\ p = At
      BY <2>1 DEF Announces, At
    <2> QED BY <2>1, <2>2, <2>3, <2>4, <2>5, <2>7, <2>8, LastLaid
  <1>3. CASE put_delete_dir
    <2>1. /\ maker = "run" /\ todo # << >> /\ At \in Path /\ Head(todo).call = "deldir"
          /\ old[At] = Dir /\ (new[At] # Absent => new[At] \in Content)
      BY <1>3, PutFacts DEF put_delete_dir
    <2>2. Emit(DeleteDir(At)) /\ todo' = Tail(todo)
      BY <1>3 DEF put_delete_dir
    <2>3. Reaches(Head(todo), At) /\ new[At] # Dir
      BY <2>1, NodeFacts DEF Reaches, At
    <2>4. /\ DeleteDir(At) \in Operation /\ DeleteDir(At).op = "DELETEDIRECTORY"
          /\ DeleteDir(At).fname = At /\ Footprint(DeleteDir(At)) = Below(At)
      BY <2>1, OperationForms DEF DeleteDir, Delete
    <2>5. Purpose(DeleteDir(At))
      BY <2>1, <2>3, <2>4 DEF Purpose
    <2>6. new[At] # Absent => ~Touched(out, At)
      BY <2>1, <2>3, HeadOrder DEF KindChanges
    <2>7. Follows(Append(out, DeleteDir(At)), Len(out) + 1)
      BY <1>1, <2>4, <2>6, FollowsLast
    <2>8. \A y, p : Announces(Head(todo), y, p) => y = "DELETEDIRECTORY" /\ p = At
      BY <2>1 DEF Announces, At
    <2>9. \A q \in Path : KindChanges(q) /\ q \in Below(At) => q = At
      BY <1>1, <2>1, <2>3, KindChangesAbove DEF Below
    <2> QED BY <2>1, <2>2, <2>3, <2>4, <2>5, <2>7, <2>8, <2>9, LastLaid
  <1> QED BY <1>2, <1>3
LEMMA AddDirLaid ==
    ASSUME CInv, Laid(out, todo), put_add_dir, ~Declined
    PROVE  Laid(out', todo')
  <1> DEFINE c == [call |-> "wholedir", at |-> At, left |-> make_filelist(new, At)]
             x == AddDir(At)
  <1>1. out \in Seq(Operation) /\ CTypeOK
    BY DEF CInv, CTypeOK
  <1>2. /\ maker = "run" /\ todo # << >> /\ At \in Path /\ Head(todo).call = "adddir"
        /\ new[At] = Dir
    BY PutFacts DEF put_add_dir
  <1>3. Emit(x) /\ todo' = <<c>> \o Tail(todo)
    BY DEF put_add_dir, Listing
  <1>4. old[At] # Dir
    BY <1>2, HeadOrder DEF Placed, At
  <1>5. /\ x \in Operation /\ x.op = "ADDDIRECTORY" /\ x.fname = At /\ Footprint(x) = {At}
    BY <1>2, OperationForms DEF AddDir, Delete
  <1>6. /\ \A p \in Path : p = Parent(At) /\ old[p] # Dir => Written(out, "ADDDIRECTORY", p)
        /\ old[At] \in Content => Written(out, "DELETE", At)
    <2>1. /\ \A p \in Path : p = Parent(At) /\ old[p] # Dir => Relies(Head(todo), "ADDDIRECTORY", p)
          /\ old[At] \in Content => Relies(Head(todo), "DELETE", At)
      BY <1>2 DEF Relies, At
    <2>2. "ADDDIRECTORY" \in OperationType /\ "DELETE" \in OperationType
      BY DEF OperationType
    <2> QED BY <1>2, <2>1, <2>2, HeadOrder
  <1>7. \A y, p : Announces(Head(todo), y, p) => y = "ADDDIRECTORY" /\ p = At
    BY <1>2 DEF Announces, At
  <1>8. c \in CallOf
    BY <1>2 DEF CallOf, Call, make_filelist
  <1>9. Placed(c)
    <2>1. ASSUME NEW r \in make_filelist(new, At)
          PROVE  Parent(r) = At /\ old[r] = Absent
      <3>1. r \in Path /\ Parent(r) = At
        BY <2>1 DEF make_filelist
      <3>2. r \in Under(At)
        BY <3>1, EntryIsUnder
      <3> QED BY <1>1, <1>2, <1>4, <3>1, <3>2, DirsAbove
    <2> QED BY <2>1 DEF Placed
  <1>10. \A y, p : Relies(c, y, p) => y = "ADDDIRECTORY" /\ p = At
    BY DEF Relies
  <1>11. \A q : ~Reaches(c, q)
    BY DEF Reaches
  <1> HIDE DEF c, x
  <1>12. <<c>> \in Seq(CallOf) /\ AllPlaced(<<c>>) /\ \A q : ~Reached(<<c>>, q)
    BY <1>8, <1>9, <1>11 DEF AllPlaced, Reached
  <1>13. Prepared(Append(out, x), <<c>>)
    <2>1. Written(Append(out, x), "ADDDIRECTORY", At)
      BY <1>1, <1>5, WrittenMore
    <2> QED BY <1>10, <2>1, PreparedOne
  <1>14. Purpose(x)
    BY <1>2, <1>4, <1>5 DEF Purpose
  <1>15. Follows(Append(out, x), Len(out) + 1)
    BY <1>1, <1>5, <1>6, FollowsLast
  <1>16. \A q \in Path : KindChanges(q) /\ q \in Footprint(x) => Touched(out, q)
    <2>1. KindChanges(At) => old[At] \in Content
      BY <1>2, <1>4, NodeFacts DEF KindChanges
    <2> QED BY <1>5, <1>6, <2>1, WrittenIsTouched
  <1> QED BY <1>2, <1>3, <1>5, <1>7, <1>12, <1>13, <1>14, <1>15, <1>16, EmitLaid

(* The bytes that are copied, and those that are made by xdelta, are those of the
   newer release, if nothing but a refused call goes wrong. *)
LEMMA TrueData ==
    ASSUME making.fails \subseteq {"io"}, NEW v
    PROVE  Copied(v) = {v} /\ Delta(v) = {v}
  BY DEF Copied, Delta

(* ADD and REPLACE. *)
LEMMA FileLaid ==
    ASSUME CInv, Laid(out, todo), maker = "run", todo # << >>, At \in Path,
           new[At] \in Content, Head(todo).call \in {"add", "patch"}, todo' = Tail(todo),
           NEW b \in BOOLEAN, Adding(b), b \/ ~making.replace, b \/ old[At] \notin Content,
           \A p \in Path : p = Parent(At) /\ old[p] # Dir => Written(out, "ADDDIRECTORY", p),
           old[At] = Dir => Written(out, "DELETEDIRECTORY", At)
    PROVE  Laid(out', todo')
  <1>1. out \in Seq(Operation)
    BY DEF CInv, CTypeOK
  <1>2. PICK c \in Copied(new[At]) :
              Emit([(IF b THEN Replace(At, new[At]) ELSE Add(At, new[At])) EXCEPT !.data = c])
    BY DEF Adding
  <1> DEFINE x == [(IF b THEN Replace(At, new[At]) ELSE Add(At, new[At])) EXCEPT !.data = c]
  <1>3. c \in File
    BY <1>2, NodeFacts DEF Copied
  <1>4. Emit(x)
    BY <1>2
  <1>5. x \in Operation /\ Footprint(x) = {At}
    <2>1. x \in {[Add(At, new[At]) EXCEPT !.data = c], [Replace(At, new[At]) EXCEPT !.data = c],
                 [Patch(At, new[At], new[At]) EXCEPT !.data = c]}
      OBVIOUS
    <2> HIDE DEF x
    <2> QED BY <1>3, <2>1, FileForms
  <1>6. /\ x.op = (IF b THEN "REPLACE" ELSE "ADD") /\ x.fname = At
        /\ x.md5_2 = new[At] /\ x.data = c
    BY DEF Replace, Add, Delete
  <1> HIDE DEF x
  <1>7. Purpose(x)
    <2>1. making.fails \subseteq {"io"} => c = new[At]
      BY <1>2, TrueData
    <2>2. x.op = "ADD" => old[At] \notin Content /\ ~making.replace
      BY <1>6
    <2> QED BY <1>6, <2>1, <2>2 DEF Purpose
  <1>8. Follows(Append(out, x), Len(out) + 1)
    BY <1>1, <1>5, <1>6, FollowsLast
  <1>9. \A y, p : ~Announces(Head(todo), y, p)
    BY DEF Announces
  <1>10. \A q \in Path : KindChanges(q) /\ q \in Footprint(x) => Touched(out, q)
    <2>1. KindChanges(At) => old[At] = Dir
      BY NodeFacts DEF KindChanges
    <2> QED BY <1>5, <2>1, WrittenIsTouched
  <1> QED BY <1>4, <1>5, <1>7, <1>8, <1>9, <1>10, LastLaid

LEMMA FilePutLaid ==
    ASSUME CInv, Laid(out, todo), put_add \/ put_patch_same \/ put_patch_add \/ put_patch,
           ~Declined, TrueSums
    PROVE  Laid(out', todo')
  <1>1. out \in Seq(Operation) /\ CTypeOK /\ making.replace \in BOOLEAN
    BY Releases DEF CInv, CTypeOK
  <1>2. CASE put_add
    <2>1. /\ maker = "run" /\ todo # << >> /\ At \in Path /\ Head(todo).call = "add"
          /\ new[At] \in Content
      BY <1>2, PutFacts DEF put_add
    <2>2. Adding(making.replace) /\ todo' = Tail(todo)
      BY <1>2 DEF put_add
    <2>3. old[At] \notin Content
      BY <2>1, HeadOrder DEF Placed, At
    <2>4. /\ \A p \in Path : p = Parent(At) /\ old[p] # Dir => Written(out, "ADDDIRECTORY", p)
          /\ old[At] = Dir => Written(out, "DELETEDIRECTORY", At)
      <3>1. /\ \A p \in Path : p = Parent(At) /\ old[p] # Dir
                   => Relies(Head(todo), "ADDDIRECTORY", p)
            /\ old[At] = Dir => Relies(Head(todo), "DELETEDIRECTORY", At)
        BY <2>1 DEF Relies, At
      <3>2. "ADDDIRECTORY" \in OperationType /\ "DELETEDIRECTORY" \in OperationType
        BY DEF OperationType
      <3> QED BY <2>1, <3>1, <3>2, HeadOrder
    <2> QED BY <1>1, <2>1, <2>2, <2>3, <2>4, FileLaid
  <1>3. CASE put_patch_same
    <2>1. /\ maker = "run" /\ todo # << >> /\ Head(todo).call = "patch"
          /\ UNCHANGED out /\ todo' = Tail(todo)
      BY <1>3 DEF put_patch_same, Running, PassOver
    <2>2. \A y, p : ~Announces(Head(todo), y, p)
      BY <2>1 DEF Announces
    <2> QED BY <2>1, <2>2, PassLaid
  <1>4. ASSUME At \in Path, old[At] \in Content
        PROVE  /\ old[At] # Dir
               /\ \A p \in Path : p = Parent(At) /\ old[p] # Dir
                      => Written(out, "ADDDIRECTORY", p)
    BY <1>1, <1>4, ParentDirs, NodeFacts
  <1>5. CASE put_patch_add
    <2>1. /\ maker = "run" /\ todo # << >> /\ At \in Path /\ Head(todo).call = "patch"
          /\ old[At] \in Content /\ new[At] \in Content
      BY <1>5, PutFacts DEF put_patch_add
    <2>2. Adding(TRUE) /\ todo' = Tail(todo)
      BY <1>5 DEF put_patch_add
    <2> QED BY <1>4, <2>1, <2>2, FileLaid
  <1>6. CASE put_patch
    <2>1. /\ maker = "run" /\ todo # << >> /\ At \in Path /\ Head(todo).call = "patch"
          /\ old[At] \in Content /\ new[At] \in Content
      BY <1>6, PutFacts DEF put_patch
    <2>2. PICK c \in Delta(new[At]) : Emit([Patch(At, old[At], new[At]) EXCEPT !.data = c])
      <3>1. PICK c \in Delta(new[At]), sums \in Sums :
                Emit([Patch(At, sums[1], sums[2]) EXCEPT !.data = c])
        BY <1>6 DEF put_patch
      <3>2. sums = <<old[At], new[At]>>
        BY <3>1 DEF Sums, TrueSums
      <3> QED BY <3>1, <3>2
    <2>3. todo' = Tail(todo) /\ ~making.alwaysadd
      BY <1>6 DEF put_patch
    <2> DEFINE x == [Patch(At, old[At], new[At]) EXCEPT !.data = c]
    <2>4. c \in File /\ Emit(x)
      BY <2>1, <2>2, NodeFacts DEF Delta
    <2>5. x \in Operation /\ Footprint(x) = {At}
      <3>1. x \in {[Add(At, new[At]) EXCEPT !.data = c], [Replace(At, new[At]) EXCEPT !.data = c],
                   [Patch(At, old[At], new[At]) EXCEPT !.data = c]}
        OBVIOUS
      <3> HIDE DEF x
      <3> QED BY <2>1, <2>4, <3>1, FileForms
    <2>6. /\ x.op = "PATCH" /\ x.fname = At /\ x.md5_1 = old[At]
          /\ x.md5_2 = new[At] /\ x.data = c
      BY DEF Patch, Add, Delete
    <2> HIDE DEF x
    <2>7. Purpose(x)
      <3>1. making.fails \subseteq {"io"} => c = new[At]
        BY <2>2, TrueData
      <3> QED BY <2>3, <2>6, <3>1 DEF Purpose
    <2>8. Follows(Append(out, x), Len(out) + 1)
      BY <1>1, <2>5, <2>6, FollowsLast
    <2>9. \A y, p : ~Announces(Head(todo), y, p)
      BY <2>1 DEF Announces
    <2>10. ~KindChanges(At)
      BY <2>1, NodeFacts DEF KindChanges
    <2> QED BY <2>1, <2>3, <2>4, <2>5, <2>7, <2>8, <2>9, <2>10, LastLaid
  <1> QED BY <1>2, <1>3, <1>5, <1>6

LEMMA DoneLaid ==
    ASSUME CInv, Laid(out, todo), put_done
    PROVE  Laid(out', todo')
  <1>1. /\ todo = << >> /\ todo' = << >> /\ out' = Append(out, Done) /\ out \in Seq(Operation)
    BY DEF put_done, Emit, CInv, CTypeOK
  <1>2. Done \in Operation /\ Done.op = "DONE" /\ Footprint(Done) = {}
    BY DEF Done, Delete, Operation, OperationType, Footprint
  <1>3. Purpose(Done)
    BY <1>2 DEF Purpose
  <1>4. Follows(Append(out, Done), Len(out) + 1)
    BY <1>1, <1>2, FollowsLast
  <1>5. Ordered(Append(out, Done))
    BY <1>1, <1>2, <1>3, <1>4, OrderedMore DEF Laid
  <1>6. AllPlaced(<< >>) /\ Prepared(Append(out, Done), << >>) /\ Once(Append(out, Done), << >>)
    BY DEF AllPlaced, Prepared, Once, AtMostOne
  <1> QED BY <1>1, <1>5, <1>6 DEF Laid

LEMMA OrderInvStep ==
    ASSUME OrderInv, [CreateStep]_cvars
    PROVE  OrderInv'
  <1>1. CInv /\ CInv'
    BY CreateStepInv DEF OrderInv
  <1>2. UNCHANGED releases
    BY DEF CreateStep, Compare, EndOfList, PutOp, CreateFail, OldKept, OldFileGone, OldDirGone,
           SkipDSStore, BothDirs, FileToDir, DirToFile, BothFiles, NewDir, NewFile, NewEntry,
           WholeDirEntry, put_delete, put_delete_dir, put_add, put_add_dir, put_patch_same,
           put_patch_add, put_patch, put_done, Running, cvars, releases
  <1>3. ASSUME Whole, TrueSums, maker # "failed", maker' # "failed"
        PROVE  Laid(out', todo')
    <2>1. Laid(out, todo)
      BY <1>3 DEF OrderInv
    <2>2. ~Declined \/ ~PutOp \/ put_done
      BY <1>1, <1>3 DEF Declined, Whole
    <2>3. CASE UNCHANGED cvars
      BY <2>1, <2>3 DEF cvars
    <2>4. CASE Compare
      BY <1>1, <2>1, <2>4, DeletionsLaid, AdditionsLaid, WholeDirLaid DEF Compare
    <2>5. CASE EndOfList
      <3>1. \A y, p : ~Announces(Head(todo), y, p)
        BY <2>5 DEF EndOfList, Announces
      <3> QED BY <1>1, <2>1, <2>5, <3>1, PassLaid DEF EndOfList
    <2>6. CASE PutOp
      BY <1>1, <1>3, <2>1, <2>2, <2>6, DeleteLaid, AddDirLaid, FilePutLaid, DoneLaid DEF PutOp
    <2>7. CASE CreateFail
      BY <1>3, <2>7 DEF CreateFail
    <2> QED BY <2>3, <2>4, <2>5, <2>6, <2>7 DEF CreateStep
  <1>4. maker = "failed" => maker' = "failed"
    BY DEF CreateStep, Compare, EndOfList, PutOp, CreateFail, OldKept, OldFileGone, OldDirGone,
           SkipDSStore, BothDirs, FileToDir, DirToFile, BothFiles, NewDir, NewFile, NewEntry,
           WholeDirEntry, put_delete, put_delete_dir, put_add, put_add_dir, put_patch_same,
           put_patch_add, put_patch, put_done, Running, cvars
  <1>5. ASSUME Whole', TrueSums', maker' # "failed"
        PROVE  Laid(out, todo)'
    <2>1. Whole /\ TrueSums
      BY <1>2, <1>5 DEF Whole, TrueSums, releases
    <2>2. PICK o : o = out'
      OBVIOUS
    <2>3. PICK s : s = todo'
      OBVIOUS
    <2>4. Laid(o, s)'
      BY <1>2, <1>3, <1>4, <1>5, <2>1, <2>2, <2>3, LaidStill
    <2> QED BY <2>2, <2>3, <2>4 DEF Laid, Ordered, AllPlaced, Prepared, Once, Follows,
                WrittenBefore, Written, Touched, AtMostOne
  <1> QED BY <1>1, <1>5 DEF OrderInv

LEMMA OrderInvInit ==
    ASSUME CreateInit
    PROVE  OrderInv
  <1>1. CInv
    BY CreateInitInv
  <1>2. out = << >> /\ todo = compare_directories(Root) /\ CTypeOK
    BY <1>1 DEF CreateInit, CInv
  <1>3. Root \notin Path
    BY PathIsSeq DEF Root
  <1>4. /\ AllPlaced(todo) /\ \A q : AtMostOne(todo, q)
        /\ Prepared(out, todo)
    BY <1>2, <1>3, CompareLaid
  <1>5. Ordered(out) /\ \A q : ~Touched(out, q)
    BY <1>2 DEF Ordered, Touched
  <1> QED BY <1>1, <1>4, <1>5 DEF OrderInv, Laid, Once
----------------------------------------------------------------------------
(* The run of a complete archive that was made to its end. *)

(* The operations before the n-th: some of them are about q, and one of those puts
   something there. *)
PastOf(n, q) == \E m \in 1..(n - 1) : q \in Footprint(ops[m])
MadeOf(n, q) == \E m \in 1..(n - 1) : q \in Footprint(ops[m]) /\ Outcome(ops[m]) # Absent

(* What an operation puts is never taken away again. *)
StateOf(n, q) == /\ MadeOf(n, q) => fs[q] = new[q]
                 /\ PastOf(n, q) /\ ~MadeOf(n, q) => fs[q] = Absent
                 /\ ~PastOf(n, q) => fs[q] = start[q]

\* What the operation in hand may have begun to change.
Beyond == IF pc \in {"error"} \cup (Working \ {"op"}) THEN Footprint(Op) ELSE {}

RunState == pc # "idle" => \A q \in Path \ Beyond : StateOf(i, q)

(* What killed applications may leave of a path. *)
Fits(q) == {old[q], new[q]}
               \cup (IF new[q] \in Content THEN {Absent, Partial} ELSE {})
               \cup (IF KindChanges(q) THEN {Absent} ELSE {})

Fitting == \A q \in Path : fs[q] \in Fits(q) /\ (pc # "idle" => start[q] \in Fits(q))

(* A file torn by an earlier run, or a path that one had changed the kind of. *)
Blocked ==
    /\ i \in DOMAIN ops /\ Target \in Path
    /\ \/ TornFile /\ start[Target] \notin {old[Target], new[Target]}
       \/ Retyped /\ start[Target] # old[Target] /\ KindChanges(Target)

Track ==
    /\ pc = "fetch" => i <= Len(ops)
    /\ pc = "error" => Blocked
    /\ pc = "add.open" => fs[Target] = Absent /\ ParentIsDir(fs, Target)
    /\ pc = "add.verify" => fs[Target] = Op.md5_2
    /\ pc = "patch.xdelta" => tmp2 = Op.md5_2
    /\ pc = "patch.check" => tmp = Op.md5_2

(* Only a refused call stops create_patchfile, and it writes DONE at least. *)
MakerShape == /\ maker \in {"unclosed", "failed"} => "io" \in making.fails
              /\ Finished => out # << >>

RunInv == RTInv /\ OrderInv /\ MakerShape /\ (Sound => RunState /\ Fitting /\ Track)

(* What a step may put in the place of what is there. *)
LEMMA StepValues ==
    ASSUME StepInv, OpStep, NEW q \in Path, fs'[q] # fs[q]
    PROVE  /\ pc \in Working /\ q \in Footprint(Op)
           /\ \/ Op.op \in {"DELETE", "DELETEDIRECTORY"} /\ fs'[q] = Absent
              \/ Op.op = "ADDDIRECTORY" /\ fs'[q] = Dir
              \/ /\ Op.op \in {"ADD", "REPLACE", "PATCH"}
                 /\ fs'[q] \in {Absent, Partial, Op.md5_2, Op.data}
  <1> USE DEF StepInv
  <1>1. pc \in Working /\ q \in Footprint(Op)
    BY StepShape DEF Shaped, FetchShape, WorkShape, SkipShape, ReturnShape, OnlyFootprint, Working
  <1>2. TypeOK /\ (q = Target \/ Op.op = "DELETEDIRECTORY") /\ Op.op # "DONE"
    BY <1>1, FootprintFacts
  <1>3. CASE LoopStep
    BY <1>3 DEF LoopStep, FetchOp, FetchFail, SkipOp, HandleDone, Abort
  <1>4. CASE DeleteStep
    <2>1. Op.op \in {"DELETE", "DELETEDIRECTORY"}
      BY <1>2, <1>4 DEF DeleteStep, HandleDelete, DeleteFail, HandleDelDirGone, HandleDelDir,
                        DelDirFail, DelTreeRemove, DelTreeDescend, DelTreeRmdir, DelTreeFail,
                        Performing, TypeOK
    <2>2. fs'[q] = Absent
      BY <1>2, <1>4 DEF DeleteStep, HandleDelete, DeleteFail, HandleDelDirGone, HandleDelDir,
                        DelDirFail, DelTreeRemove, DelTreeDescend, DelTreeRmdir, DelTreeFail,
                        Put, TypeOK, Abort
    <2> QED BY <1>1, <2>1, <2>2
  <1>5. CASE AddStep
    <2>1. CASE AddOpen \/ AddWrite \/ ReplaceUnlink
      <3>1. Op.op \in {"ADD", "REPLACE"}
        BY <2>1 DEF AddOpen, AddWrite, ReplaceUnlink, Performing, OpShape, AddPc
      <3>2. q = Target /\ Target \in Path
        BY <1>2, <3>1
      <3>3. fs'[q] \in {Absent, Partial, Op.md5_2, Op.data}
        BY <1>2, <2>1, <3>2 DEF AddOpen, AddWrite, ReplaceUnlink, Put, TypeOK, file_is_directory
      <3> QED BY <1>1, <3>1, <3>3
    <2>2. CASE HandleAddDir
      BY <1>1, <1>2, <2>2 DEF HandleAddDir, Put, TypeOK, Performing
    <2> QED
      BY <1>5, <2>1, <2>2
         DEF AddStep, AddAlreadyThere, AddConflict, AddMissing, AddOpenFail,
             AddWriteFail, AddVerify, AddVerifyFail, AddDirAlreadyThere,
             AddDirFail, Abort
  <1>6. CASE PatchStep
    BY <1>6
       DEF PatchStep, PatchVerifyOld, PatchAlreadyDone, PatchUnreadable,
           PatchMismatch, PatchDelta, PatchDeltaFail, PatchXdelta,
           PatchXdeltaFail, PatchCheck, PatchCheckFail, Abort
  <1>7. CASE RenameStep
    <2>1. Op.op = "PATCH" /\ tmp = Op.md5_2
      BY <1>7
         DEF RenameStep, PatchUnlink, PatchRename, PatchRenameRefused,
             PatchCopyOpen, PatchCopyOpenFail, PatchCopyWrite,
             PatchCopyWriteFail, OpShape, DiskShape, RenamePc
    <2>2. fs'[q] \in {Absent, Partial, tmp}
      BY <1>2, <1>7, <2>1
         DEF RenameStep, PatchUnlink, PatchRename, PatchRenameRefused,
             PatchCopyOpen, PatchCopyOpenFail, PatchCopyWrite,
             PatchCopyWriteFail, Put, TypeOK
    <2> QED BY <1>1, <2>1, <2>2
  <1> QED BY <1>3, <1>4, <1>5, <1>6, <1>7 DEF OpStep

----------------------------------------------------------------------------
(* What the archive says, of a complete archive that was made to its end. *)

(* The operations of the archive that is being applied, each with its purpose and
   after what it relies on. *)
LEMMA SoundFacts ==
    ASSUME RunInv, Sound, pc # "idle"
    PROVE  /\ CTypeOK /\ TypeOK /\ StepInv /\ ops = out /\ making.fails \subseteq {"io"}
           /\ \A n \in DOMAIN ops :
                  /\ Follows(ops, n) /\ Purpose(ops[n])
                  /\ ops[n] \in Operation /\ WellFormed(ops[n])
                  /\ ops[n].op = "DONE" <=> n = Len(ops)
  <1>1. CTypeOK /\ StepInv /\ ops = out
    BY DEF RunInv, RTInv, CInv, ApplyShape
  <1>2. Ordered(out)
    BY DEF RunInv, OrderInv, MakerShape, Sound, Complete, Finished, TrueSums, Whole, Laid
  <1>3. \A n \in DOMAIN out : /\ out[n] \in Operation /\ WellFormed(out[n])
                              /\ out[n].op = "DONE" <=> n = Len(out)
    BY <1>1 DEF CTypeOK, Sound
  <1> QED BY <1>1, <1>2, <1>3 DEF Ordered, StepInv, Sound, Complete

(* What puts something at a path makes it as the newer release has it. *)
LEMMA MakingPuts ==
    ASSUME CTypeOK, NEW x \in Operation, WellFormed(x), Purpose(x), NEW q \in Footprint(x),
           Outcome(x) # Absent
    PROVE  q = x.fname /\ Outcome(x) = new[q]
  BY DEF Outcome, Footprint, Purpose, WellFormed, Operation, OperationType

(* What removes something. *)
LEMMA Removing ==
    ASSUME CTypeOK, NEW x \in Operation, WellFormed(x), Purpose(x), NEW q \in Footprint(x),
           x.op \in {"DELETE", "DELETEDIRECTORY"}
    PROVE  /\ q \in Path /\ x.fname \in Path
           /\ q # x.fname => q \in Under(x.fname) /\ new[q] = Absent
           /\ q = x.fname => new[q] = Absent \/ KindChanges(q)
           /\ new[q] # Absent => q = x.fname
           /\ Absent \in Fits(q)
  <1>1. x.fname \in Path /\ q \in Path /\ (q # x.fname => q \in Under(x.fname)
                                                   /\ x.op = "DELETEDIRECTORY")
    BY DEF WellFormed, Footprint, Under
  <1>2. q # x.fname => new[q] = Absent
    BY <1>1, DirsAbove DEF Purpose
  <1>3. q = x.fname => new[q] = Absent \/ KindChanges(q)
    <2>1. new[q] \in Content \cup {Absent, Dir}
      BY <1>1, Releases
    <2> QED BY <1>1, <2>1, NodeFacts DEF Purpose, KindChanges
  <1> QED BY <1>1, <1>2, <1>3 DEF Fits

(* Nothing is removed that an earlier operation has made. *)
LEMMA NeverUnmade ==
    ASSUME RunInv, Sound, pc # "idle", i \in DOMAIN ops, NEW q \in Footprint(Op),
           MadeOf(i, q)
    PROVE  Outcome(Op) # Absent
  <1> SUFFICES ASSUME Outcome(Op) = Absent
               PROVE  FALSE
    OBVIOUS
  <1>1. Op \in Operation /\ WellFormed(Op) /\ Purpose(Op) /\ Follows(ops, i) /\ CTypeOK
    BY SoundFacts DEF Op
  <1>2. Op.op \in {"DELETE", "DELETEDIRECTORY"}
    BY <1>1, NodeFacts DEF Outcome, Footprint, WellFormed, Operation, OperationType
  <1>3. PICK m \in 1..(i - 1) : q \in Footprint(ops[m]) /\ Outcome(ops[m]) # Absent
    BY DEF MadeOf
  <1>4. m \in DOMAIN ops /\ m < i
    BY <1>3, SoundFacts DEF TypeOK, WellMade
  <1>5. new[q] = Outcome(ops[m]) /\ new[q] # Absent
    BY <1>1, <1>3, <1>4, SoundFacts, MakingPuts
  <1>6. q = Op.fname
    BY <1>1, <1>2, <1>5, Removing
  <1>7. \A k \in DOMAIN ops : k < i => q \notin Footprint(ops[k])
    BY <1>1, <1>2, <1>5, <1>6 DEF Follows, Op
  <1> QED BY <1>3, <1>4, <1>7

(* One operation more. *)
LEMMA OneMore ==
    ASSUME i \in Nat, i > 0, NEW q
    PROVE  /\ PastOf(i + 1, q) <=> PastOf(i, q) \/ q \in Footprint(Op)
           /\ MadeOf(i + 1, q) <=> \/ MadeOf(i, q)
                                   \/ q \in Footprint(Op) /\ Outcome(Op) # Absent
  <1>1. 1..((i + 1) - 1) = 1..(i - 1) \cup {i}
    OBVIOUS
  <1> QED BY <1>1 DEF PastOf, MadeOf, Op

LEMMA RunStateStep ==
    ASSUME AsIs, RunInv, Sound, OpStep, UNCHANGED cvars
    PROVE  RunState'
  <1>1. /\ ApplyShape' /\ pc # "idle" /\ pc' # "idle" /\ ops' = ops /\ start' = start
        /\ new' = new /\ StepInv /\ TypeOK /\ declined' = {} /\ declined = {} /\ RunState
    <2>1. ApplyShape' /\ pc # "idle" /\ pc' # "idle" /\ ops' = ops /\ start' = start
      BY ApplyKeepsShape DEF RunInv
    <2> QED BY <2>1, SoundFacts DEF ApplyShape, RunInv, RTInv, cvars
  <1>2. Shaped
    BY <1>1, StepShape
  <1>3. \A m : /\ Footprint(ops[m])' = Footprint(ops[m])
               /\ Outcome(ops[m])' = Outcome(ops[m])
    BY <1>1 DEF Footprint, Outcome
  <1> SUFFICES ASSUME NEW q \in Path \ Beyond'
               PROVE  /\ MadeOf(i', q) => fs'[q] = new[q]
                      /\ PastOf(i', q) /\ ~MadeOf(i', q) => fs'[q] = Absent
                      /\ ~PastOf(i', q) => fs'[q] = start[q]
    <2>1. \A q : PastOf(i, q)' <=> PastOf(i', q)
      BY <1>1, <1>3 DEF PastOf
    <2>2. \A q : MadeOf(i, q)' <=> MadeOf(i', q)
      BY <1>1, <1>3 DEF MadeOf
    <2> QED BY <1>1, <2>1, <2>2 DEF RunState, StateOf
  <1>4. i' = i /\ fs'[q] = fs[q] /\ q \notin Beyond => StateOf(i, q)
    BY <1>1 DEF RunState
  <1>5. CASE FetchShape
    <2>1. q \notin Beyond /\ i' = i /\ fs' = fs
      BY <1>5 DEF FetchShape, Beyond, Working, DeletePc, AddPc, PatchPc, RenamePc
    <2> QED BY <1>4, <2>1 DEF StateOf
  <1>6. CASE WorkShape
    <2>1. q \notin Footprint(Op)
      <3>1. Beyond' = Footprint(Op)'
        BY <1>6 DEF WorkShape, Beyond
      <3>2. Footprint(Op)' = Footprint(Op)
        BY <1>1, <1>6 DEF WorkShape, Footprint, Op
      <3> QED BY <3>1, <3>2
    <2>2. q \notin Beyond /\ i' = i /\ fs'[q] = fs[q]
      BY <1>6, <2>1 DEF WorkShape, OnlyFootprint, Beyond
    <2> QED BY <1>4, <2>2 DEF StateOf
  <1>7. CASE SkipShape
    BY <1>1, <1>7 DEF SkipShape
  <1>8. CASE ReturnShape /\ Settled
    <2>1. /\ i' = i + 1 /\ pc \in Working /\ i \in DOMAIN ops /\ i \in Nat /\ i > 0
      BY <1>1, <1>8 DEF ReturnShape, TypeOK
    <2>2. CASE q \notin Footprint(Op)
      <3>1. q \notin Beyond /\ fs'[q] = fs[q]
        BY <1>8, <2>2 DEF ReturnShape, OnlyFootprint, Beyond
      <3>2. StateOf(i, q)
        BY <1>1, <3>1 DEF RunState
      <3> QED BY <2>1, <2>2, <3>1, <3>2, OneMore DEF StateOf
    <2>3. CASE q \in Footprint(Op)
      <3>1. fs'[q] = Outcome(Op) /\ PastOf(i', q)
        BY <1>8, <2>1, <2>3, OneMore DEF Settled
      <3>2. CASE Outcome(Op) # Absent
        <4>1. Outcome(Op) = new[q]
          BY <1>1, <2>1, <2>3, <3>2, SoundFacts, MakingPuts DEF Op
        <4> QED BY <2>1, <2>3, <3>1, <3>2, <4>1, OneMore
      <3>3. CASE Outcome(Op) = Absent
        <4>1. ~MadeOf(i, q)
          BY <1>1, <2>1, <2>3, <3>3, NeverUnmade
        <4> QED BY <2>1, <3>1, <3>3, <4>1, OneMore
      <3> QED BY <3>2, <3>3
    <2> QED BY <2>2, <2>3
  <1> QED BY <1>2, <1>5, <1>6, <1>7, <1>8 DEF Shaped, AsIs

(* What a step leaves at a path it has had in one of the releases, or is what a
   killed application may leave. *)
LEMMA FittingStep ==
    ASSUME AsIs, RunInv, Sound, OpStep, UNCHANGED cvars
    PROVE  Fitting'
  <1>1. /\ pc # "idle" /\ start' = start /\ old' = old /\ new' = new /\ StepInv /\ TypeOK
        /\ Fitting /\ CTypeOK
    BY ApplyKeepsShape, SoundFacts DEF RunInv, cvars
  <1>2. \A q : Fits(q)' = Fits(q)
    BY <1>1 DEF Fits, KindChanges
  <1> SUFFICES ASSUME NEW q \in Path
               PROVE  fs'[q] \in Fits(q)
    BY <1>1, <1>2 DEF Fitting
  <1>3. CASE fs'[q] = fs[q]
    BY <1>1, <1>3 DEF Fitting
  <1>4. CASE fs'[q] # fs[q]
    <2>1. /\ pc \in Working /\ q \in Footprint(Op)
          /\ \/ Op.op \in {"DELETE", "DELETEDIRECTORY"} /\ fs'[q] = Absent
             \/ Op.op = "ADDDIRECTORY" /\ fs'[q] = Dir
             \/ /\ Op.op \in {"ADD", "REPLACE", "PATCH"}
                /\ fs'[q] \in {Absent, Partial, Op.md5_2, Op.data}
      BY <1>1, <1>4, StepValues
    <2>2. Op \in Operation /\ WellFormed(Op) /\ Purpose(Op) /\ making.fails \subseteq {"io"}
      BY <1>1, <2>1, SoundFacts DEF Op, TypeOK
    <2>3. CASE Op.op \in {"DELETE", "DELETEDIRECTORY"}
      BY <1>1, <2>1, <2>2, <2>3, Removing
    <2>4. CASE Op.op = "ADDDIRECTORY"
      BY <1>1, <2>1, <2>2, <2>4, FootprintFacts DEF Purpose, Fits, Target
    <2>5. CASE Op.op \in {"ADD", "REPLACE", "PATCH"}
      <3>1. q = Op.fname
        BY <1>1, <2>1, <2>5, FootprintFacts DEF Target
      <3>2. new[q] \in Content /\ fs'[q] \in {Absent, Partial, new[q]}
        BY <2>1, <2>2, <2>5, <3>1 DEF Purpose, WellFormed
      <3> QED BY <3>2 DEF Fits
    <2> QED BY <2>1, <2>3, <2>4, <2>5
  <1> QED BY <1>3, <1>4
----------------------------------------------------------------------------
(* What an operation finds when its turn comes. *)

(* A thing of the other kind was removed before, and the directory was made. *)
LEMMA WrittenIsPast ==
    ASSUME RunInv, Sound, pc = "op", NEW p \in Path, NEW x,
           WrittenBefore(ops, i, x, p)
    PROVE  /\ x \in OperationType \ {"DONE"} => PastOf(i, p)
           /\ x = "ADDDIRECTORY" => fs[p] = Dir
  <1>1. PICK m \in DOMAIN ops : m < i /\ ops[m].op = x /\ ops[m].fname = p
    BY DEF WrittenBefore
  <1>2. m \in 1..(i - 1) /\ ops[m] \in Operation /\ WellFormed(ops[m]) /\ Purpose(ops[m])
    BY <1>1, SoundFacts DEF TypeOK, WellMade
  <1>3. x # "DONE" => p \in Footprint(ops[m])
    BY <1>1 DEF Footprint
  <1>4. x \in OperationType \ {"DONE"} => PastOf(i, p)
    BY <1>2, <1>3 DEF PastOf
  <1>5. ASSUME x = "ADDDIRECTORY"
        PROVE  fs[p] = Dir
    <2>1. Outcome(ops[m]) = Dir /\ new[p] = Dir
      BY <1>1, <1>2, <1>5 DEF Outcome, Purpose
    <2>2. MadeOf(i, p)
      BY <1>2, <1>3, <1>5, <2>1, NodeFacts DEF MadeOf
    <2>3. StateOf(i, p)
      BY DEF RunInv, RunState, Beyond, Working, DeletePc, AddPc, PatchPc, RenamePc
    <2> QED BY <2>1, <2>2, <2>3 DEF StateOf
  <1> QED BY <1>4, <1>5

LEMMA DirectoryIsThere ==
    ASSUME RunInv, Sound, pc = "op", Op.op \in {"ADD", "REPLACE", "ADDDIRECTORY"}
    PROVE  ParentIsDir(fs, Target)
  <1>1. /\ i \in DOMAIN ops /\ CTypeOK /\ Follows(ops, i) /\ Purpose(Op) /\ WellFormed(Op)
        /\ Target \in Path /\ Fitting
    BY SoundFacts, OpFacts DEF TypeOK, Working, Op, RunInv
  <1>2. new[Target] # Absent
    BY <1>1, NodeFacts DEF Purpose, WellFormed, Target
  <1> DEFINE p == Parent(Target)
  <1>3. p \in Path \cup {Root}
    BY <1>1, ParentIsPath
  <1>4. CASE p \in Path /\ old[p] # Dir
    <2>1. WrittenBefore(ops, i, "ADDDIRECTORY", p)
      BY <1>1, <1>4 DEF Follows, Op, Target
    <2> QED BY <1>4, <2>1, WrittenIsPast DEF ParentIsDir
  <1>5. CASE p \in Path /\ old[p] = Dir
    <2>1. new[p] = Dir
      BY <1>1, <1>2, <1>5, ParentDirs
    <2>2. Fits(p) = {Dir}
      BY <1>5, <2>1, NodeFacts DEF Fits, KindChanges
    <2> QED BY <1>1, <1>5, <2>2 DEF Fitting, ParentIsDir
  <1> QED BY <1>3, <1>4, <1>5 DEF ParentIsDir

(* The state of the path of the operation in hand, at its turn. *)
LEMMA AtItsTurn ==
    ASSUME RunInv, Sound, pc = "op", Target \in Path
    PROVE  /\ PastOf(i, Target) => fs[Target] \in {Absent, new[Target]}
           /\ ~PastOf(i, Target) => fs[Target] = start[Target]
           /\ fs[Target] \in Fits(Target)
  <1>1. StateOf(i, Target)
    BY DEF RunInv, RunState, Beyond, Working, DeletePc, AddPc, PatchPc, RenamePc
  <1> QED BY <1>1 DEF StateOf, RunInv, Fitting

(* Where the kind changes, the deletion is the first that is said. *)
LEMMA FirstToDelete ==
    ASSUME RunInv, Sound, pc = "op", Op.op \in {"DELETE", "DELETEDIRECTORY"},
           new[Target] # Absent
    PROVE  ~PastOf(i, Target)
  <1>1. i \in DOMAIN ops /\ Follows(ops, i) /\ TypeOK
    BY SoundFacts DEF TypeOK, Working
  <1>2. \A m \in DOMAIN ops : m < i => Target \notin Footprint(ops[m])
    BY <1>1 DEF Follows, Op, Target
  <1>3. \A m \in 1..(i - 1) : m \in DOMAIN ops /\ m < i
    BY <1>1 DEF TypeOK, WellMade
  <1> QED BY <1>2, <1>3 DEF PastOf

LEMMA DeleteIsReady ==
    ASSUME RunInv, Sound, pc = "op"
    PROVE  /\ Op.op = "DELETE" /\ fs[Target] = Dir => Blocked
           /\ Op.op = "DELETEDIRECTORY" /\ fs[Target] \in File => Blocked
  <1>1. /\ i \in DOMAIN ops /\ CTypeOK /\ Purpose(Op)
        /\ Op.op # "DONE" => Target \in Path
    BY SoundFacts, OpFacts DEF TypeOK, Working, Op
  <1>2. ASSUME Op.op = "DELETE", fs[Target] = Dir
        PROVE  Blocked
    <2>1. Target \in Path /\ old[Target] \in Content /\ fs[Target] \in Fits(Target)
      BY <1>1, <1>2, AtItsTurn DEF Purpose, Target
    <2>2. new[Target] = Dir
      BY <1>2, <2>1, NodeFacts DEF Fits
    <2>3. KindChanges(Target) /\ new[Target] # Absent
      BY <2>1, <2>2, NodeFacts DEF KindChanges
    <2>4. start[Target] = fs[Target]
      BY <1>2, <2>1, <2>3, FirstToDelete, AtItsTurn
    <2>5. start[Target] # old[Target]
      BY <1>2, <2>1, <2>4, NodeFacts
    <2> QED BY <1>1, <1>2, <2>1, <2>3, <2>5 DEF Blocked, Retyped
  <1>3. ASSUME Op.op = "DELETEDIRECTORY", fs[Target] \in File
        PROVE  Blocked
    <2>1. Target \in Path /\ old[Target] = Dir /\ new[Target] # Dir /\ fs[Target] \in Fits(Target)
      BY <1>1, <1>3, AtItsTurn DEF Purpose, Target
    <2>2. new[Target] \in Content
      <3>1. new[Target] \in Content \cup {Absent, Dir}
        BY <1>1, <2>1, Releases
      <3> QED BY <1>3, <2>1, <3>1, NodeFacts DEF Fits
    <2>3. KindChanges(Target) /\ new[Target] # Absent
      BY <2>1, <2>2, NodeFacts DEF KindChanges
    <2>4. start[Target] = fs[Target]
      BY <1>3, <2>1, <2>3, FirstToDelete, AtItsTurn
    <2>5. start[Target] # old[Target]
      BY <1>3, <2>1, <2>4, NodeFacts
    <2> QED BY <1>1, <1>3, <2>1, <2>3, <2>5 DEF Blocked, Retyped
  <1> QED BY <1>2, <1>3

LEMMA AddIsReady ==
    ASSUME RunInv, Sound, pc = "op"
    PROVE  /\ Op.op = "ADD" /\ fs[Target] \notin {Absent, Op.md5_2} => Blocked
           /\ Op.op = "REPLACE" => fs[Target] # Dir
           /\ Op.op = "ADDDIRECTORY" => fs[Target] \in {Absent, Dir}
  <1>1. /\ i \in DOMAIN ops /\ CTypeOK /\ Purpose(Op) /\ Follows(ops, i) /\ WellFormed(Op)
        /\ Op.op # "DONE" => Target \in Path
    BY SoundFacts, OpFacts DEF TypeOK, Working, Op
  <1>2. ASSUME Target \in Path
        PROVE  /\ old[Target] \in Content \cup {Absent, Dir}
               /\ new[Target] \in Content \cup {Absent, Dir}
    BY <1>1, <1>2, Releases
  <1>3. "DELETEDIRECTORY" \in OperationType \ {"DONE"} /\ "DELETE" \in OperationType \ {"DONE"}
    BY DEF OperationType
  <1>4. ASSUME Op.op = "ADD", fs[Target] \notin {Absent, Op.md5_2}
        PROVE  Blocked
    <2>1. /\ Target \in Path /\ old[Target] \notin Content /\ Op.md5_2 = new[Target]
          /\ new[Target] \in Content /\ fs[Target] \in Fits(Target)
      BY <1>1, <1>4, AtItsTurn DEF Purpose, Target, WellFormed
    <2>2. ~PastOf(i, Target)
      BY <1>4, <2>1, AtItsTurn
    <2>3. old[Target] # Dir
      <3>1. old[Target] = Dir => WrittenBefore(ops, i, "DELETEDIRECTORY", Target)
        BY <1>1, <1>4 DEF Follows, Op, Target
      <3> QED BY <1>3, <2>1, <2>2, <3>1, WrittenIsPast
    <2>4. fs[Target] = Partial
      BY <1>2, <1>4, <2>1, <2>3, NodeFacts DEF Fits
    <2>5. start[Target] = Partial
      BY <2>1, <2>2, <2>4, AtItsTurn
    <2> QED BY <1>1, <1>2, <1>4, <2>1, <2>4, <2>5, NodeFacts DEF Blocked, TornFile
  <1>5. ASSUME Op.op = "REPLACE", fs[Target] = Dir
        PROVE  FALSE
    <2>1. Target \in Path /\ new[Target] \in Content /\ fs[Target] \in Fits(Target)
      BY <1>1, <1>5, AtItsTurn DEF Purpose, Target, WellFormed
    <2>2. old[Target] = Dir
      BY <1>5, <2>1, NodeFacts DEF Fits
    <2>3. WrittenBefore(ops, i, "DELETEDIRECTORY", Target)
      BY <1>1, <1>5, <2>2 DEF Follows, Op, Target
    <2>4. PastOf(i, Target)
      BY <1>3, <2>1, <2>3, WrittenIsPast
    <2> QED BY <1>5, <2>1, <2>4, AtItsTurn, NodeFacts
  <1>6. ASSUME Op.op = "ADDDIRECTORY", fs[Target] \notin {Absent, Dir}
        PROVE  FALSE
    <2>1. Target \in Path /\ new[Target] = Dir /\ fs[Target] \in Fits(Target)
      BY <1>1, <1>6, AtItsTurn DEF Purpose, Target
    <2>2. old[Target] \in Content
      BY <1>2, <1>6, <2>1, NodeFacts DEF Fits
    <2>3. WrittenBefore(ops, i, "DELETE", Target)
      BY <1>1, <1>6, <2>2 DEF Follows, Op, Target
    <2>4. PastOf(i, Target)
      BY <1>3, <2>1, <2>3, WrittenIsPast
    <2> QED BY <1>6, <2>1, <2>4, AtItsTurn
  <1> QED BY <1>4, <1>5, <1>6

LEMMA PatchIsReady ==
    ASSUME RunInv, Sound, pc = "op"
    PROVE  Op.op = "PATCH" /\ fs[Target] \notin {Op.md5_1, Op.md5_2} => Blocked
  <1> SUFFICES ASSUME Op.op = "PATCH", fs[Target] \notin {Op.md5_1, Op.md5_2}
               PROVE  Blocked
    OBVIOUS
  <1>1. /\ i \in DOMAIN ops /\ CTypeOK /\ Purpose(Op) /\ WellFormed(Op) /\ Target \in Path
    BY SoundFacts, OpFacts DEF TypeOK, Working, Op
  <1>2. /\ Op.md5_1 = old[Target] /\ Op.md5_2 = new[Target] /\ fs[Target] \in Fits(Target)
        /\ old[Target] \in Content /\ new[Target] \in Content
    BY <1>1, AtItsTurn DEF Purpose, Target, WellFormed
  <1>3. fs[Target] \in {Absent, Partial}
    BY <1>2, NodeFacts DEF Fits
  <1>4. ~PastOf(i, Target)
    <2> SUFFICES ASSUME PastOf(i, Target)
                 PROVE  FALSE
      OBVIOUS
    <2>1. PICK m \in 1..(i - 1) : Target \in Footprint(ops[m])
      BY DEF PastOf
    <2>2. m \in DOMAIN ops /\ ops[m] \in Operation /\ WellFormed(ops[m]) /\ Purpose(ops[m])
      BY <2>1, SoundFacts DEF TypeOK, WellMade
    <2>3. Outcome(ops[m]) # Absent
      <3> SUFFICES ASSUME Outcome(ops[m]) = Absent
                   PROVE  FALSE
        OBVIOUS
      <3>1. ops[m].op \in {"DELETE", "DELETEDIRECTORY"}
        BY <2>1, <2>2, NodeFacts DEF Outcome, Footprint, WellFormed, Operation, OperationType
      <3>2. new[Target] = Absent \/ KindChanges(Target)
        BY <1>1, <2>1, <2>2, <3>1, Removing
      <3> QED BY <1>2, <3>2, NodeFacts DEF KindChanges
    <2>4. MadeOf(i, Target)
      BY <2>1, <2>3 DEF MadeOf
    <2>5. StateOf(i, Target)
      BY <1>1 DEF RunInv, RunState, Beyond, Working, DeletePc, AddPc, PatchPc, RenamePc
    <2> QED BY <1>2, <2>4, <2>5 DEF StateOf
  <1>5. start[Target] = fs[Target]
    BY <1>1, <1>4, AtItsTurn
  <1> QED BY <1>1, <1>2, <1>3, <1>5, NodeFacts DEF Blocked, TornFile

----------------------------------------------------------------------------
(* The steps of a handler, when nothing fails but rename(). *)

(* The machine does what it is asked; /tmp may be another file system, and a
   temporary file be left of a killed process. *)
Smooth == ~Interactive /\ Ignored = {} /\ Fails \subseteq {"exdev", "stale"}

LEMMA SmoothFacts ==
    ASSUME Smooth
    PROVE  AsIs /\ {"io", "xdelta", "copy", "uninit"} \cap Fails = {}
  BY DEF Smooth, AsIs, Honest

(* The bytes behind the operation are what it says they are. *)
LEMMA WholeData ==
    ASSUME RunInv, Sound, pc \in Working, Op.op \in {"ADD", "REPLACE", "PATCH"}
    PROVE  Op.data = Op.md5_2 /\ Op.md5_2 \in Content /\ Target \in Path
  <1>1. pc # "idle"
    BY DEF Working, DeletePc, AddPc, PatchPc, RenamePc
  <1>2. Purpose(Op) /\ WellFormed(Op) /\ making.fails \subseteq {"io"}
    BY <1>1, SoundFacts DEF TypeOK, Op
  <1> QED BY <1>2 DEF Purpose, WellFormed, Target

LEMMA StopsOnlyBlocked ==
    ASSUME Smooth, RunInv, Sound, OpStep, pc' = "error"
    PROVE  Blocked
  <1> USE DEF Goto, Advance, Working, DeletePc, AddPc, PatchPc, RenamePc
  <1>1. /\ Track /\ StepInv /\ TypeOK /\ OpShape /\ DiskShape
        /\ {"io", "xdelta", "copy", "uninit"} \cap Fails = {}
    BY SmoothFacts DEF RunInv, RTInv, StepInv
  <1>2. pc = "op" => fs[Target] \in Node \/ Op.op = "DONE"
    BY <1>1, OpFacts DEF TypeOK
  <1>3. CASE LoopStep
    <2>1. FetchFail
      BY <1>3 DEF LoopStep, FetchOp, SkipOp, HandleDone
    <2>2. pc = "fetch" /\ i > Len(ops) /\ i <= Len(ops)
      BY <1>1, <2>1 DEF FetchFail, Track
    <2>3. i \in Nat /\ Len(ops) \in Nat
      BY <1>1 DEF TypeOK, WellMade
    <2> QED BY <2>2, <2>3
  <1>4. CASE DeleteStep
    <2>1. DeleteFail \/ DelDirFail
      BY <1>1, <1>4 DEF DeleteStep, HandleDelete, HandleDelDirGone, HandleDelDir, DelTreeRemove,
                        DelTreeDescend, DelTreeRmdir, DelTreeFail
    <2>2. pc = "op" /\ \/ Op.op = "DELETE" /\ fs[Target] = Dir
                       \/ Op.op = "DELETEDIRECTORY" /\ fs[Target] \in File
      BY <1>1, <2>1 DEF DeleteFail, DelDirFail, Performing, file_is_directory
    <2> QED BY <2>2, DeleteIsReady
  <1>5. CASE AddStep
    <2>1. AddConflict \/ AddOpenFail \/ AddWriteFail \/ AddVerifyFail \/ AddDirFail
      BY <1>5 DEF AddStep, AddAlreadyThere, AddMissing, ReplaceUnlink, AddOpen, AddWrite, AddVerify,
                  AddDirAlreadyThere, HandleAddDir
    <2>2. CASE AddConflict
      <3>1. pc = "op" /\ Op.op = "ADD" /\ fs[Target] \notin {Absent, Op.md5_2}
        BY <1>1, <2>2 DEF AddConflict, Performing, file_exists
      <3> QED BY <3>1, AddIsReady
    <2>3. CASE AddOpenFail
      BY <1>1, <2>3, NodeFacts DEF AddOpenFail, Track, file_is_directory
    <2>4. CASE AddWriteFail
      <3>1. pc = "add.write" /\ Op.data = Partial /\ pc \in Working /\ Op.op \in {"ADD", "REPLACE"}
        BY <1>1, <2>4 DEF AddWriteFail, OpShape
      <3> QED BY <3>1, WholeData, NodeFacts
    <2>5. CASE AddVerifyFail
      BY <1>1, <2>5 DEF AddVerifyFail, Track
    <2>6. CASE AddDirFail
      <3>1. pc = "op" /\ Op.op = "ADDDIRECTORY"
        BY <2>6 DEF AddDirFail, Performing
      <3>2. fs[Target] \in {Absent, Dir} /\ ParentIsDir(fs, Target)
        BY <3>1, AddIsReady, DirectoryIsThere
      <3> QED BY <1>1, <2>6, <3>2, NodeFacts DEF AddDirFail
    <2> QED BY <2>1, <2>2, <2>3, <2>4, <2>5, <2>6
  <1>6. CASE PatchStep
    <2>1. PatchMismatch \/ PatchDeltaFail \/ PatchXdeltaFail \/ PatchCheckFail
      BY <1>6 DEF PatchStep, PatchVerifyOld, PatchAlreadyDone, PatchUnreadable, PatchDelta,
                  PatchXdelta, PatchCheck
    <2>2. CASE PatchMismatch
      <3>1. pc = "op" /\ Op.op = "PATCH" /\ fs[Target] \notin {Op.md5_1, Op.md5_2}
        BY <1>1, <2>2 DEF PatchMismatch, Performing
      <3> QED BY <3>1, PatchIsReady
    <2>3. CASE PatchDeltaFail
      <3>1. Op.data = Partial /\ pc \in Working /\ Op.op = "PATCH"
        BY <1>1, <2>3 DEF PatchDeltaFail, OpShape
      <3> QED BY <3>1, WholeData, NodeFacts
    <2>4. CASE PatchXdeltaFail
      BY <1>1, <2>4 DEF PatchXdeltaFail
    <2>5. CASE PatchCheckFail
      BY <1>1, <2>5 DEF PatchCheckFail, Track
    <2> QED BY <2>1, <2>2, <2>3, <2>4, <2>5
  <1>7. CASE RenameStep
    BY <1>7 DEF RenameStep, PatchUnlink, PatchRename, PatchRenameRefused, PatchCopyOpen,
                PatchCopyOpenFail, PatchCopyWrite, PatchCopyWriteFail
  <1> QED BY <1>3, <1>4, <1>5, <1>6, <1>7 DEF OpStep

(* Where the handler of ADD or REPLACE stands next. *)
LEMMA AddTrack ==
    ASSUME Smooth, RunInv, Sound, OpStep
    PROVE  /\ pc' = "add.open" => fs'[Target] = Absent /\ ParentIsDir(fs', Target)
           /\ pc' = "add.verify" => fs'[Target] = Op.md5_2
  <1> USE DEF Goto, Advance, Abort, Working, DeletePc, AddPc, PatchPc, RenamePc
  <1>1. TypeOK /\ OpShape
    BY DEF RunInv, RTInv, StepInv
  <1>2. ASSUME pc' \in {"add.open", "add.verify"}
        PROVE  AddMissing \/ ReplaceUnlink \/ AddWrite
    BY <1>1, <1>2 DEF OpStep, LoopStep, FetchOp, FetchFail, SkipOp, HandleDone, DeleteStep,
           HandleDelete, DeleteFail, HandleDelDirGone, HandleDelDir, DelDirFail, DelTreeRemove,
           DelTreeDescend, DelTreeRmdir, DelTreeFail, AddStep, AddAlreadyThere, AddConflict,
           AddOpen, AddOpenFail, AddWriteFail, AddVerify, AddVerifyFail, AddDirAlreadyThere,
           HandleAddDir, AddDirFail, PatchStep, PatchVerifyOld, PatchAlreadyDone,
           PatchUnreadable, PatchMismatch, PatchDelta, PatchDeltaFail, PatchXdelta,
           PatchXdeltaFail, PatchCheck, PatchCheckFail, RenameStep, PatchUnlink, PatchRename,
           PatchRenameRefused, PatchCopyOpen, PatchCopyOpenFail, PatchCopyWrite,
           PatchCopyWriteFail
  <1>3. CASE AddMissing
    <2>1. pc = "op" /\ Op.op \in {"ADD", "REPLACE"} /\ fs' = fs /\ fs[Target] = Absent
          /\ pc' = "add.open"
      BY <1>3 DEF AddMissing, Performing, file_exists
    <2> QED BY <2>1, DirectoryIsThere
  <1>4. CASE ReplaceUnlink
    <2>1. pc = "op" /\ Op.op = "REPLACE" /\ pc' = "add.open" /\ pc \in Working
      BY <1>4 DEF ReplaceUnlink, Performing
    <2>2. Target \in Path /\ fs[Target] # Dir /\ ParentIsDir(fs, Target)
      BY <2>1, WholeData, AddIsReady, DirectoryIsThere
    <2>3. fs' = [fs EXCEPT ![Target] = Absent]
      BY <1>4, <2>2 DEF ReplaceUnlink, Put, file_is_directory
    <2>4. Parent(Target) # Target
      BY <2>2, ParentIsPath, PathIsSeq
    <2>5. fs'[Target] = Absent /\ ParentIsDir(fs', Target)
      BY <1>1, <2>2, <2>3, <2>4, ParentIsPath DEF TypeOK, ParentIsDir
    <2> QED BY <2>1, <2>5
  <1>5. CASE AddWrite
    <2>1. pc = "add.write" /\ Op.op \in {"ADD", "REPLACE"} /\ pc' = "add.verify"
      BY <1>1, <1>5 DEF AddWrite, OpShape
    <2>2. Target \in Path /\ Op.data = Op.md5_2
      BY <2>1, WholeData
    <2> QED BY <1>1, <1>5, <2>1, <2>2 DEF AddWrite, Put, TypeOK
  <1> QED BY <1>2, <1>3, <1>4, <1>5

LEMMA PatchTrack ==
    ASSUME Smooth, RunInv, Sound, OpStep
    PROVE  /\ pc' = "patch.xdelta" => tmp2' = Op.md5_2
           /\ pc' = "patch.check" => tmp' = Op.md5_2
  <1> USE DEF Goto, Advance, Abort, Working, DeletePc, AddPc, PatchPc, RenamePc
  <1>1. TypeOK /\ OpShape /\ Track
    BY DEF RunInv, RTInv, StepInv
  <1>2. ASSUME pc' \in {"patch.xdelta", "patch.check"}
        PROVE  PatchDelta \/ PatchXdelta
    BY <1>1, <1>2 DEF OpStep, LoopStep, FetchOp, FetchFail, SkipOp, HandleDone, DeleteStep,
           HandleDelete, DeleteFail, HandleDelDirGone, HandleDelDir, DelDirFail, DelTreeRemove,
           DelTreeDescend, DelTreeRmdir, DelTreeFail, AddStep, AddAlreadyThere, AddConflict,
           AddMissing, ReplaceUnlink, AddWrite,
           AddOpen, AddOpenFail, AddWriteFail, AddVerify, AddVerifyFail, AddDirAlreadyThere,
           HandleAddDir, AddDirFail, PatchStep, PatchVerifyOld, PatchAlreadyDone,
           PatchUnreadable, PatchMismatch, PatchDeltaFail,
           PatchXdeltaFail, PatchCheck, PatchCheckFail, RenameStep, PatchUnlink, PatchRename,
           PatchRenameRefused, PatchCopyOpen, PatchCopyOpenFail, PatchCopyWrite,
           PatchCopyWriteFail
  <1>3. CASE PatchDelta
    <2>1. pc \in Working /\ Op.op = "PATCH" /\ pc' = "patch.xdelta" /\ tmp2' = Op.data
      BY <1>1, <1>3 DEF PatchDelta, OpShape
    <2> QED BY <2>1, WholeData
  <1>4. CASE PatchXdelta
    <2>1. pc = "patch.xdelta" /\ pc' = "patch.check" /\ tmp' = tmp2
      BY <1>4, SmoothFacts DEF PatchXdelta
    <2> QED BY <1>1, <2>1 DEF Track
  <1> QED BY <1>2, <1>3, <1>4

LEMMA TrackStep ==
    ASSUME Smooth, RunInv, Sound, OpStep, UNCHANGED cvars
    PROVE  Track'
  <1>1. AsIs
    BY SmoothFacts
  <1>2. /\ ApplyShape' /\ pc # "idle" /\ ops' = ops /\ start' = start /\ StepInv /\ TypeOK
        /\ old' = old /\ new' = new /\ declined' = {} /\ declined = {}
    BY <1>1, ApplyKeepsShape, SoundFacts DEF ApplyShape, RunInv, RTInv, cvars
  <1>3. Shaped
    BY <1>2, StepShape
  <1>4. ASSUME pc' \in Working \/ pc' = "error"
        PROVE  i' = i /\ Op' = Op /\ Target' = Target
    <2>1. i' = i
      BY <1>2, <1>3, <1>4 DEF Shaped, FetchShape, WorkShape, SkipShape, ReturnShape, Working,
                              DeletePc, AddPc, PatchPc, RenamePc
    <2> QED BY <1>2, <2>1 DEF Op, Target
  <1>5. pc' = "fetch" => i' <= Len(ops)
    <2> SUFFICES ASSUME pc' = "fetch"
                 PROVE  i' <= Len(ops)
      OBVIOUS
    <2>1. ReturnShape /\ Op.op # "DONE"
      BY <1>2, <1>3 DEF Shaped, FetchShape, WorkShape, SkipShape, ReturnShape, Working, DeletePc,
                        AddPc, PatchPc, RenamePc
    <2>2. i' = i + 1 /\ i \in DOMAIN ops
      BY <1>2, <2>1 DEF ReturnShape, TypeOK
    <2>3. i # Len(ops)
      BY <1>2, <2>1, <2>2, SoundFacts DEF Op
    <2>4. i \in 1..Len(ops) /\ Len(ops) \in Nat
      BY <1>2, <2>2 DEF TypeOK, WellMade
    <2> QED BY <2>2, <2>3, <2>4
  <1>6. pc' = "error" => Blocked'
    <2> SUFFICES ASSUME pc' = "error"
                 PROVE  Blocked'
      OBVIOUS
    <2>1. Blocked
      BY StopsOnlyBlocked
    <2>2. fs' = fs
      BY <1>2, <1>3 DEF Shaped, FetchShape, WorkShape, SkipShape, ReturnShape
    <2> QED BY <1>2, <1>4, <2>1, <2>2 DEF Blocked, TornFile, Retyped, KindChanges
  <1>7. /\ pc' = "add.open" => fs'[Target'] = Absent /\ ParentIsDir(fs', Target')
        /\ pc' = "add.verify" => fs'[Target'] = Op'.md5_2
    BY <1>4, AddTrack DEF Working, AddPc
  <1>8. /\ pc' = "patch.xdelta" => tmp2' = Op'.md5_2
        /\ pc' = "patch.check" => tmp' = Op'.md5_2
    BY <1>4, PatchTrack DEF Working, PatchPc
  <1>9. ParentIsDir(fs, Target)' <=> ParentIsDir(fs', Target')
    BY DEF ParentIsDir, Parent
  <1> QED BY <1>2, <1>5, <1>6, <1>7, <1>8, <1>9 DEF Track

----------------------------------------------------------------------------
(* The invariant of the round trip. *)

LEMMA CreatorRuns ==
    ASSUME CreateStep
    PROVE  maker = "run" /\ UNCHANGED releases
  BY DEF CreateStep, Compare, EndOfList, PutOp, CreateFail, OldKept, OldFileGone, OldDirGone,
         SkipDSStore, BothDirs, FileToDir, DirToFile, BothFiles, NewDir, NewFile, NewEntry,
         WholeDirEntry, put_delete, put_delete_dir, put_add, put_add_dir, put_patch_same,
         put_patch_add, put_patch, put_done, Running

LEMMA MakerShapeStep ==
    ASSUME CTypeOK, MakerShape, [CreateStep]_cvars
    PROVE  MakerShape'
  <1>1. CASE UNCHANGED cvars
    BY <1>1 DEF cvars, MakerShape, Finished
  <1>2. CASE CreateFail
    BY <1>2 DEF CreateFail, MakerShape, Finished, releases
  <1>3. CASE put_done
    <2>1. maker' \in {"done"} \cup (IF "io" \in making.fails THEN {"unclosed"} ELSE {})
      BY <1>3 DEF put_done
    <2>2. making' = making
      BY <1>3 DEF put_done, releases
    <2>3. out' = Append(out, Done) /\ out \in Seq(Operation)
      BY <1>3 DEF put_done, Emit, CTypeOK
    <2>4. out' # << >>
      BY <2>3
    <2> QED BY <2>1, <2>2, <2>4 DEF MakerShape
  <1>4. CASE CreateStep /\ ~CreateFail /\ ~put_done
    <2>1. maker' = "run"
      BY <1>4, CreatorRuns
         DEF CreateStep, Compare, EndOfList, PutOp, OldKept, OldFileGone, OldDirGone,
         SkipDSStore, BothDirs, FileToDir, DirToFile, BothFiles, NewDir, NewFile, NewEntry,
         WholeDirEntry, put_delete, put_delete_dir, put_add, put_add_dir, put_patch_same,
         put_patch_add, put_patch, Running
    <2> QED BY <2>1 DEF MakerShape, Finished
  <1> QED BY <1>1, <1>2, <1>3, <1>4

LEMMA RunInvInit ==
    ASSUME RTInit
    PROVE  RunInv
  <1>1. RTInv /\ OrderInv /\ maker = "run"
    BY RTInitInv, OrderInvInit DEF RTInit, CreateInit
  <1> QED BY <1>1 DEF RunInv, MakerShape, Sound, Finished

LEMMA RunInvStep ==
    ASSUME Smooth, RunInv, [RTNext \/ Killed]_rvars
    PROVE  RunInv'
  <1>1. AsIs /\ [CreateStep]_cvars
    BY SmoothFacts DEF RTNext, Create, ApplyIt, Apply, Killed, rvars
  <1>2. RTInv' /\ OrderInv' /\ MakerShape'
    BY <1>1, RTStepInv, OrderInvStep, MakerShapeStep DEF RunInv, RTInv, CInv
  <1> SUFFICES ASSUME Sound'
               PROVE  RunState' /\ Fitting' /\ Track'
    BY <1>2 DEF RunInv
  <1>3. CASE Create
    <2>1. maker = "run" /\ UNCHANGED releases /\ UNCHANGED vars
      BY <1>3, CreatorRuns DEF Create
    <2>2. pc' = "idle" /\ fs' = old'
      BY <2>1 DEF RunInv, RTInv, ApplyShape, vars, releases
    <2> QED BY <2>2 DEF RunState, Fitting, Fits, Track
  <1>4. ASSUME UNCHANGED cvars
        PROVE  Sound /\ RunState /\ Fitting /\ Track /\ \A q : Fits(q)' = Fits(q)
    BY <1>4 DEF Sound, Complete, Finished, cvars, RunInv, Fits, KindChanges
  <1>5. CASE ApplyIt
    <2>1. /\ pc' = "fetch" /\ i' = 1 /\ start' = fs /\ fs' = fs /\ ops' = out /\ out' = out
          /\ UNCHANGED cvars
      BY <1>5 DEF ApplyIt, Enter, cvars
    <2>2. \A q : ~PastOf(i, q)' /\ ~MadeOf(i, q)'
      <3>1. 1..(1 - 1) = {}
        OBVIOUS
      <3> QED BY <2>1, <3>1 DEF PastOf, MadeOf
    <2>3. RunState'
      BY <2>1, <2>2 DEF RunState, StateOf
    <2>4. Fitting'
      BY <1>4, <2>1 DEF Fitting
    <2>5. 1 <= Len(out)
      <3>1. out # << >> /\ out \in Seq(Operation)
        BY <1>4, <2>1 DEF RunInv, MakerShape, Sound, RTInv, CInv, CTypeOK
      <3> QED BY <3>1
    <2>6. Track'
      BY <2>1, <2>5 DEF Track
    <2> QED BY <2>3, <2>4, <2>6
  <1>6. CASE (Exit \/ Crash) /\ UNCHANGED cvars
    <2>1. pc' = "idle" /\ fs' = fs
      BY <1>6 DEF Exit, Crash
    <2> QED BY <1>4, <1>6, <2>1 DEF RunState, Fitting, Track
  <1>7. CASE OpStep /\ UNCHANGED cvars
    BY <1>1, <1>4, <1>7, RunStateStep, FittingStep, TrackStep
  <1>8. CASE UNCHANGED rvars
    <2>1. UNCHANGED cvars /\ UNCHANGED vars
      BY <1>8 DEF rvars
    <2>2. Sound /\ RunState /\ Fitting /\ Track
      BY <1>4, <2>1
    <2>3. RunState'
      BY <2>1, <2>2 DEF RunState, StateOf, PastOf, MadeOf, Beyond, Footprint, Outcome, Op, cvars, vars
    <2>4. Fitting'
      BY <1>4, <2>1, <2>2 DEF Fitting, vars
    <2>5. Track'
      BY <2>1, <2>2 DEF Track, Blocked, TornFile, Retyped, KindChanges, Target, Op, ParentIsDir, cvars, vars
    <2> QED BY <2>3, <2>4, <2>5
  <1> QED BY <1>3, <1>5, <1>6, <1>7, <1>8 DEF RTNext, Apply, Killed, ApplyIt

LEMMA AlwaysRunInv ==
    ASSUME Smooth
    PROVE  RTSpec => []RunInv
  <1>1. RunInv /\ [RTNext \/ Killed]_rvars => RunInv'
    BY RunInvStep
  <1> QED BY <1>1, RunInvInit, PTL DEF RTSpec

----------------------------------------------------------------------------
(* The run that nothing disturbs: every path is as one of the releases has it
   whenever the archive is not being applied. *)

Clean ==
    Undisturbed /\ SameKinds =>
        /\ pc # "error"
        /\ pc = "idle" => \A q \in Path : fs[q] \in {old[q], new[q]}
        /\ pc # "idle" => \A q \in Path : start[q] \in {old[q], new[q]}

LEMMA SameKindsChangesNone ==
    ASSUME SameKinds, NEW q \in Path
    PROVE  ~KindChanges(q)
  BY NodeFacts DEF SameKinds, KindChanges

(* While nothing is applied, or create_patchfile is still at it. *)
LEMMA UndisturbedIsSound ==
    ASSUME RunInv, Undisturbed, pc # "idle"
    PROVE  Sound
  <1>1. maker # "run" /\ maker \in {"run", "done", "unclosed", "failed"}
    BY DEF RunInv, RTInv, ApplyShape, CInv, CTypeOK
  <1>2. maker # "failed"
    BY DEF RunInv, MakerShape, Undisturbed
  <1> QED BY <1>1, <1>2 DEF Sound, Undisturbed, Finished

LEMMA CleanStep ==
    ASSUME Smooth, RunInv, RunInv', Clean, [RTNext \/ Killed]_rvars
    PROVE  Clean'
  <1> SUFFICES ASSUME Undisturbed', SameKinds'
               PROVE  /\ pc' # "error"
                      /\ pc' = "idle" => \A q \in Path : fs'[q] \in {old'[q], new'[q]}
                      /\ pc' # "idle" => \A q \in Path : start'[q] \in {old'[q], new'[q]}
    BY DEF Clean
  <1>1. CASE Create
    <2>1. maker = "run" /\ UNCHANGED releases /\ UNCHANGED vars
      BY <1>1, CreatorRuns DEF Create
    <2>2. pc' = "idle" /\ fs' = old'
      BY <2>1 DEF RunInv, RTInv, ApplyShape, vars, releases
    <2> QED BY <2>2
  <1>2. CASE ~Create
    <2>1. UNCHANGED cvars
      BY <1>2 DEF RTNext, ApplyIt, Apply, Killed, rvars
    <2>2. Undisturbed /\ SameKinds /\ old' = old /\ new' = new
      BY <2>1 DEF Undisturbed, Complete, SameKinds, cvars
    <2>3. /\ pc # "error"
          /\ pc = "idle" => \A q \in Path : fs[q] \in {old[q], new[q]}
          /\ pc # "idle" => \A q \in Path : start[q] \in {old[q], new[q]}
      BY <2>2 DEF Clean
    <2>4. CASE ApplyIt
      BY <2>2, <2>3, <2>4 DEF ApplyIt, Enter
    <2>5. CASE Exit
      <3>1. pc = "success" /\ pc' = "idle" /\ fs' = fs
        BY <2>3, <2>5 DEF Exit
      <3>2. ASSUME NEW q \in Path
            PROVE  fs[q] \in {old[q], new[q]}
        BY <2>2, <3>1, AppliedToTheEnd DEF Owed, RunInv, Undisturbed, TrueSums
      <3> QED BY <2>2, <3>1, <3>2
    <2>6. CASE Killed
      BY <2>2, <2>6 DEF Killed, Undisturbed
    <2>7. CASE OpStep
      <3>1. pc # "idle" /\ pc' # "idle" /\ start' = start
        BY <2>1, <2>7, SmoothFacts, ApplyKeepsShape DEF RunInv
      <3>2. Sound
        BY <2>2, <3>1, UndisturbedIsSound
      <3>3. pc' # "error"
        <4> SUFFICES ASSUME Blocked
                     PROVE  FALSE
          BY <2>7, <3>2, StopsOnlyBlocked
        <4>1. Target \in Path
          BY DEF Blocked
        <4> QED BY <2>2, <2>3, <3>1, <4>1, SameKindsChangesNone DEF Blocked
      <3> QED BY <2>2, <2>3, <3>1, <3>3
    <2>8. CASE UNCHANGED rvars
      BY <2>2, <2>3, <2>8 DEF rvars, vars
    <2> QED BY <1>2, <2>4, <2>5, <2>6, <2>7, <2>8 DEF RTNext, Apply
  <1> QED BY <1>1, <1>2

(* An archive made without incident, and applied to a copy of the release it was
   made from, is never refused; nor is it by a product it has been applied to any
   number of times, unless a file of one release is a directory of the other.  For
   all pairs of releases. *)
THEOREM NeverRefused ==
    ASSUME Smooth
    PROVE  RTSpec => []AppliesToItsRelease
  <1>1. RTInit => RunInv /\ Clean
    <2> SUFFICES ASSUME RTInit
                 PROVE  RunInv /\ Clean
      OBVIOUS
    <2> QED BY RunInvInit DEF RTInit, Clean
  <1>2. RunInv /\ Clean /\ [RTNext \/ Killed]_rvars => (RunInv /\ Clean)'
    BY RunInvStep, CleanStep
  <1>3. RunInv /\ Clean => AppliesToItsRelease
    <2> SUFFICES ASSUME RunInv, Clean, Undisturbed, pc = "error"
                 PROVE  start # old /\ ~SameKinds
      BY DEF AppliesToItsRelease
    <2>1. Blocked
      BY UndisturbedIsSound DEF RunInv, Track
    <2>2. start # old
      BY <2>1 DEF Blocked
    <2> QED BY <2>2 DEF Clean
  <1> QED BY <1>1, <1>2, <1>3, PTL DEF RTSpec

(* "must ADDORREPLACE, as file will definitely exist": a complete archive made with
   --alwaysadd and --replace is applied to the end wherever an earlier application
   was killed, as long as no file of one release is a directory of the other. *)
THEOREM Heals ==
    ASSUME Smooth
    PROVE  RTSpec => []ReplaceHeals
  <1>1. RunInv => ReplaceHeals
    <2> SUFFICES ASSUME RunInv, Complete, making.replace, making.alwaysadd, pc = "error",
                        maker # "failed", SameKinds
                 PROVE  FALSE
      BY DEF ReplaceHeals
    <2>1. Sound
      BY DEF RunInv, RTInv, ApplyShape, CInv, CTypeOK, Sound, Finished
    <2>2. Blocked
      BY <2>1 DEF RunInv, Track
    <2>3. Purpose(Op)
      BY <2>1, <2>2, SoundFacts DEF Blocked, Op
    <2>4. ~KindChanges(Target)
      BY <2>2, SameKindsChangesNone DEF Blocked
    <2> QED BY <2>2, <2>3, <2>4 DEF Blocked, TornFile, Purpose
  <1> QED BY <1>1, AlwaysRunInv, PTL

(* Running again after a kill: an application of a complete archive stops only at a
   file that ADD or PATCH had left torn, or at a path that had already got its new
   kind; whatever the releases, and wherever and however often it was killed. *)
THEOREM RerunStopsOnlyThere ==
    ASSUME Smooth
    PROVE  RTSpec => []RerunBlockedOnlyByTornFile
  <1>1. RunInv => RerunBlockedOnlyByTornFile
    BY DEF RunInv, Track, Blocked, RerunBlockedOnlyByTornFile
  <1> QED BY <1>1, AlwaysRunInv, PTL
=============================================================================
