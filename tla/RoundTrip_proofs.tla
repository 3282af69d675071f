--------------------------- MODULE RoundTrip_proofs ---------------------------
(***************************************************************************)
(* The archive made of any two releases turns the one into the other.      *)
(*                                                                         *)
(* compare_directories is a recursion whose order matters: DELETEs come    *)
(* before what takes their place, a directory before what is in it.  The   *)
(* invariant needs no induction over the trees: at every instant each path *)
(* is as the archive leaves it, or one of the calls still to come reaches  *)
(* it.                                                                     *)
(***************************************************************************)
EXTENDS RoundTrip, OpHandlers_proofs, TLAPS

CallOf == [call : Call, at : Path \cup {Root}, left : SUBSET Path]

Below(r) == {r} \cup Under(r)

(* What put_... and compare_directories rely on when they are called: f is the
   call, g the one that follows it.  A file or directory that is in the way of
   one of the other kind is deleted just before that is added. *)
Fine(f, g) ==
    /\ f.call \in {"deletions", "additions", "wholedir"} \/ f.at \in Path
    /\ f.call = "deletions" => \A r \in f.left : old[r] # Absent
    /\ f.call \in {"additions", "wholedir"} => \A r \in f.left : new[r] # Absent
    /\ f.call = "delete" => \/ new[f.at] = Absent
                            \/ /\ old[f.at] \in Content /\ new[f.at] = Dir
                               /\ g.call = "adddir" /\ g.at = f.at
    /\ f.call = "deldir" => /\ old[f.at] = Dir
                            /\ \/ new[f.at] = Absent
                               \/ /\ new[f.at] \in Content
                                  /\ g.call = "add" /\ g.at = f.at
    /\ f.call = "add" => new[f.at] \in Content
    /\ f.call = "adddir" => new[f.at] = Dir
    /\ f.call = "patch" => old[f.at] \in Content /\ new[f.at] \in Content

Nobody == [call |-> "none", at |-> Root, left |-> {}]

AllFine(s) == \A k \in DOMAIN s : Fine(s[k], IF k < Len(s) THEN s[k + 1] ELSE Nobody)

(* The call f, with what it calls, leaves path q as it is in the newer release;
   .DS_Store files left aside. *)
Covers(f, q) ==
    \/ f.call \in {"add", "patch"} /\ q = f.at
    \/ f.call = "delete" /\ new[q] = Absent /\ q = f.at
    \/ f.call = "deldir" /\ new[q] = Absent /\ q \in Below(f.at)
    \/ f.call = "adddir" /\ new[q] # Absent /\ q \in Below(f.at)
    \/ f.call = "wholedir" /\ new[q] # Absent /\ \E r \in f.left : q \in Below(r)
    \/ f.call = "deletions" /\ new[q] = Absent
         /\ \E r \in f.left : new[r] = Absent /\ q \in Below(r)
    \/ f.call = "additions" /\ \E r \in f.left \ DSStore : q \in Below(r)

CoveredBy(s, q) == \E k \in DOMAIN s : Covers(s[k], q)

(* The operations o, performed on the older release, leave v at q. *)
Leaves(o, q, v) ==
    \/ v = old[q] /\ \A m \in DOMAIN o : q \notin Footprint(o[m])
    \/ \E m \in DOMAIN o : /\ q \in Footprint(o[m]) /\ v = Outcome(o[m])
                           /\ \A n \in DOMAIN o : n > m => q \notin Footprint(o[n])

(* Nothing was left out. *)
Whole == ~making.confirm /\ making.ignored = {}

(* Path q, the archive so far and what is still to come; about md5sums of nothing
   there is nothing to say. *)
Owed(o, s, q) == TrueSums =>
    /\ old[q] = new[q] => Leaves(o, q, new[q])
    /\ Whole /\ q \notin DSStore => Leaves(o, q, new[q]) \/ CoveredBy(s, q)
    /\ SameKinds => Leaves(o, q, old[q]) \/ Leaves(o, q, new[q])

Progress == maker # "failed" => \A q \in Path : Owed(out, todo, q)

CInv ==
    /\ CTypeOK
    /\ maker # "run" => todo = << >>
    /\ AllFine(todo)
    /\ Progress
-----------------------------------------------------------------------------
(* Paths and trees.                                                        *)

LEMMA RootThroughEntry ==
    ASSUME NEW q \in Path
    PROVE  \E c \in Path : Parent(c) = Root /\ q \in Below(c)
  <1> DEFINE c == SubSeq(q, 1, 1)
  <1>1. /\ q \in Seq(STRING) /\ Len(q) \in Nat /\ Len(q) > 0
        /\ \A n \in 1..Len(q) : SubSeq(q, 1, n) \in Path
    BY PathIsSeq
  <1>2. c \in Path
    BY <1>1
  <1>3. 1 \in 0..Len(q)
    BY <1>1
  <1>4. Len(c) = 1 /\ c[1] = q[1] /\ c \in Seq(STRING)
    BY <1>1, <1>3, PrefixFacts
  <1>5. Parent(c) = Root
    <2>1. Parent(c) = SubSeq(c, 1, 0)
      BY <1>4 DEF Parent
    <2>2. Len(SubSeq(c, 1, 0)) = 0 /\ SubSeq(c, 1, 0) \in Seq(STRING)
      BY <1>4, PrefixFacts
    <2>3. << >> \in Seq(STRING) /\ Len(<< >>) = 0
      OBVIOUS
    <2> QED BY <2>1, <2>2, <2>3, SameElements DEF Root
  <1>6. CASE Len(q) = 1
    <2>1. q = c
      BY <1>1, <1>4, <1>6, SameElements
    <2> QED BY <1>2, <1>5, <2>1 DEF Below
  <1>7. CASE Len(q) > 1
    <2>1. q \in Under(c)
      <3> HIDE DEF c
      <3> QED BY <1>2, <1>4, <1>7 DEF Under
    <2> QED BY <1>2, <1>5, <2>1 DEF Below
  <1> HIDE DEF c
  <1>8. Len(q) = 1 \/ Len(q) > 1
    <2>1. Len(q) \in Nat /\ Len(q) > 0
      BY PathIsSeq
    <2>2. \A n \in Nat : n > 0 => n = 1 \/ n > 1
      OBVIOUS
    <2> QED BY <2>1, <2>2, Zenon
  <1> QED BY <1>2, <1>6, <1>7, <1>8

(* The way from a directory to what is below it leads through an entry of it. *)
LEMMA ThroughEntry ==
    ASSUME NEW d \in Path \cup {Root}, NEW q \in Path, d = Root \/ q \in Under(d)
    PROVE  \E c \in Path : Parent(c) = d /\ q \in Below(c)
  <1>1. CASE d = Root
    BY <1>1, RootThroughEntry
  <1>2. CASE d \in Path /\ q \in Under(d)
    BY <1>2, UnderThroughEntry DEF Below
  <1> QED BY <1>1, <1>2

LEMMA BelowInPath ==
    ASSUME NEW r \in Path
    PROVE  Below(r) \subseteq Path /\ r \in Below(r)
  BY DEF Below, Under

----------------------------------------------------------------------------
(* Lists of calls.                                                         *)

(* A call that is fine before nothing is fine before any other. *)
LEMMA FineAnywhere ==
    ASSUME NEW f, NEW g, Fine(f, Nobody)
    PROVE  Fine(f, g)
  BY DEF Fine, Nobody

LEMMA JoinFine ==
    ASSUME NEW s \in Seq(CallOf), NEW t \in Seq(CallOf), AllFine(s), AllFine(t)
    PROVE  AllFine(s \o t)
  <1> DEFINE u == s \o t
  <1>1. /\ u \in Seq(CallOf) /\ Len(u) = Len(s) + Len(t)
        /\ \A k \in 1..Len(s) : u[k] = s[k]
        /\ \A k \in 1..Len(t) : u[Len(s) + k] = t[k]
    OBVIOUS
  <1>2. Len(s) \in Nat /\ Len(t) \in Nat
    OBVIOUS
  <1> HIDE DEF u
  <1> SUFFICES ASSUME NEW k \in 1..Len(u)
               PROVE  Fine(u[k], IF k < Len(u) THEN u[k + 1] ELSE Nobody)
    BY <1>1 DEF AllFine, u
  <1>3. CASE k < Len(s)
    <2>1. k \in 1..Len(s) /\ k + 1 \in 1..Len(s) /\ k < Len(u)
      BY <1>1, <1>2, <1>3
    <2>2. Fine(s[k], s[k + 1])
      BY <1>3, <2>1 DEF AllFine
    <2> QED BY <1>1, <2>1, <2>2
  <1>4. CASE k = Len(s)
    <2>1. k \in 1..Len(s) /\ ~(k < Len(s))
      BY <1>2, <1>4
    <2>2. Fine(s[k], Nobody)
      BY <2>1 DEF AllFine
    <2> QED BY <1>1, <2>1, <2>2, FineAnywhere
  <1>5. CASE k > Len(s)
    <2> DEFINE j == k - Len(s)
    <2>1. j \in 1..Len(t) /\ k = Len(s) + j /\ k + 1 = Len(s) + (j + 1)
      BY <1>1, <1>2, <1>5
    <2>2. Fine(t[j], IF j < Len(t) THEN t[j + 1] ELSE Nobody)
      BY <2>1 DEF AllFine
    <2>3. j < Len(t) <=> k < Len(u)
      BY <1>1, <1>2, <2>1
    <2>4. j < Len(t) => j + 1 \in 1..Len(t)
      BY <1>2, <2>1
    <2> HIDE DEF j
    <2> QED BY <1>1, <2>1, <2>2, <2>3, <2>4
  <1> QED BY <1>2, <1>3, <1>4, <1>5

LEMMA OneFine ==
    ASSUME NEW f, Fine(f, Nobody)
    PROVE  AllFine(<<f>>)
  BY DEF AllFine

LEMMA PairFine ==
    ASSUME NEW f, NEW g, Fine(f, g), Fine(g, Nobody)
    PROVE  AllFine(<<f, g>>)
  BY DEF AllFine

LEMMA TailFine ==
    ASSUME NEW s \in Seq(CallOf), s # << >>, AllFine(s)
    PROVE  AllFine(Tail(s)) /\ Tail(s) \in Seq(CallOf)
  <1> DEFINE t == Tail(s)
  <1>1. /\ t \in Seq(CallOf) /\ Len(t) = Len(s) - 1 /\ Len(s) \in Nat /\ Len(s) > 0
        /\ \A k \in 1..Len(t) : t[k] = s[k + 1]
    OBVIOUS
  <1> HIDE DEF t
  <1>2. ASSUME NEW k \in 1..Len(t)
        PROVE  Fine(t[k], IF k < Len(t) THEN t[k + 1] ELSE Nobody)
    <2>1. k + 1 \in 1..Len(s) /\ (k < Len(t) <=> k + 1 < Len(s))
      BY <1>1
    <2>2. Fine(s[k + 1], IF k + 1 < Len(s) THEN s[(k + 1) + 1] ELSE Nobody)
      BY <2>1 DEF AllFine
    <2>3. k < Len(t) => k + 1 \in 1..Len(t)
      BY <1>1
    <2> QED BY <1>1, <2>1, <2>2, <2>3
  <1>3. AllFine(t)
    BY <1>1, <1>2 DEF AllFine
  <1> QED BY <1>1, <1>3 DEF t

(* The innermost call, and the one that follows it. *)
LEMMA HeadFine ==
    ASSUME NEW s \in Seq(CallOf), s # << >>, AllFine(s)
    PROVE  Fine(Head(s), IF Tail(s) = << >> THEN Nobody ELSE Head(Tail(s)))
  <1>1. 1 \in 1..Len(s) /\ Head(s) = s[1] /\ Tail(s) \in Seq(CallOf)
        /\ Len(Tail(s)) = Len(s) - 1 /\ Len(s) \in Nat
    OBVIOUS
  <1>2. Fine(s[1], IF 1 < Len(s) THEN s[2] ELSE Nobody)
    BY <1>1 DEF AllFine
  <1>3. Tail(s) = << >> <=> ~(1 < Len(s))
    <2>1. Tail(s) = << >> <=> Len(Tail(s)) = 0
      <3>1. \A t \in Seq(CallOf) : t = << >> <=> Len(t) = 0
        OBVIOUS
      <3> QED BY <1>1, <3>1, Zenon
    <2>2. \A n \in Nat : \A l : n > 0 /\ l = n - 1 => (l = 0 <=> ~(1 < n))
      OBVIOUS
    <2>3. Len(s) > 0
      BY <1>1
    <2> QED BY <1>1, <2>1, <2>2, <2>3
  <1>4. 1 < Len(s) => Head(Tail(s)) = s[2]
    OBVIOUS
  <1> QED BY <1>1, <1>2, <1>3, <1>4

LEMMA CoveredByBoth ==
    ASSUME NEW s \in Seq(CallOf), NEW t \in Seq(CallOf), NEW q
    PROVE  CoveredBy(s \o t, q) <=> CoveredBy(s, q) \/ CoveredBy(t, q)
  <1> DEFINE u == s \o t
  <1>1. /\ u \in Seq(CallOf) /\ Len(u) = Len(s) + Len(t)
        /\ Len(s) \in Nat /\ Len(t) \in Nat
        /\ \A k \in 1..Len(s) : u[k] = s[k]
        /\ \A k \in 1..Len(t) : u[Len(s) + k] = t[k]
    OBVIOUS
  <1> HIDE DEF u
  <1>2. ASSUME CoveredBy(s, q)  PROVE CoveredBy(u, q)
    <2>1. PICK k \in 1..Len(s) : Covers(s[k], q)
      BY <1>2 DEF CoveredBy
    <2>2. k \in 1..Len(u)
      BY <1>1
    <2> QED BY <1>1, <2>1, <2>2 DEF CoveredBy
  <1>3. ASSUME CoveredBy(t, q)  PROVE CoveredBy(u, q)
    <2>1. PICK k \in 1..Len(t) : Covers(t[k], q)
      BY <1>3 DEF CoveredBy
    <2>2. Len(s) + k \in 1..Len(u)
      BY <1>1
    <2>3. u[Len(s) + k] = t[k]
      BY <1>1, <2>1
    <2>4. Len(s) + k \in DOMAIN u
      BY <1>1, <2>2
    <2>5. Covers(u[Len(s) + k], q)
      BY <2>1, <2>3
    <2> QED BY <2>4, <2>5, Zenon DEF CoveredBy
  <1>4. ASSUME CoveredBy(u, q)  PROVE CoveredBy(s, q) \/ CoveredBy(t, q)
    <2>1. PICK k \in 1..Len(u) : Covers(u[k], q)
      BY <1>1, <1>4 DEF CoveredBy
    <2>2. CASE k \in 1..Len(s)
      BY <1>1, <2>1, <2>2 DEF CoveredBy
    <2>3. CASE k \notin 1..Len(s)
      <3>1. PICK j \in 1..Len(t) : k = Len(s) + j
        <4>1. k - Len(s) \in 1..Len(t) /\ k = Len(s) + (k - Len(s))
          BY <1>1, <2>3
        <4> QED BY <4>1
      <3> QED BY <1>1, <2>1, <3>1 DEF CoveredBy
    <2> QED BY <2>2, <2>3
  <1> QED BY <1>2, <1>3, <1>4 DEF u

LEMMA CoveredByOne ==
    ASSUME NEW f, NEW q
    PROVE  CoveredBy(<<f>>, q) <=> Covers(f, q)
  BY DEF CoveredBy

LEMMA CoveredByHeadOrTail ==
    ASSUME NEW s \in Seq(CallOf), s # << >>, NEW q
    PROVE  CoveredBy(s, q) <=> Covers(Head(s), q) \/ CoveredBy(Tail(s), q)
  <1>1. s = <<Head(s)>> \o Tail(s) /\ <<Head(s)>> \in Seq(CallOf) /\ Tail(s) \in Seq(CallOf)
    OBVIOUS
  <1>2. CoveredBy(<<Head(s)>> \o Tail(s), q) <=>
            CoveredBy(<<Head(s)>>, q) \/ CoveredBy(Tail(s), q)
    BY <1>1, CoveredByBoth
  <1> QED BY <1>1, <1>2, CoveredByOne
----------------------------------------------------------------------------
(* What the archive so far leaves, and what the calls still owe. *)

LEMMA LeavesMore ==
    ASSUME NEW o \in Seq(Operation), NEW x \in Operation, NEW q, NEW v
    PROVE  /\ q \notin Footprint(x) /\ Leaves(o, q, v) => Leaves(Append(o, x), q, v)
           /\ q \in Footprint(x) => Leaves(Append(o, x), q, Outcome(x))
  <1> DEFINE u == Append(o, x)
  <1>1. /\ u \in Seq(Operation) /\ Len(u) = Len(o) + 1 /\ Len(o) \in Nat
        /\ \A n \in 1..Len(o) : u[n] = o[n]
        /\ u[Len(o) + 1] = x
    OBVIOUS
  <1> HIDE DEF u
  <1>2. DOMAIN u = 1..Len(u) /\ DOMAIN o = 1..Len(o)
    BY <1>1
  <1>3. \A n \in 1..Len(u) : n \in 1..Len(o) \/ n = Len(o) + 1
    BY <1>1
  <1>4. ASSUME q \notin Footprint(x), Leaves(o, q, v)
        PROVE  Leaves(u, q, v)
    <2>1. CASE v = old[q] /\ \A m \in DOMAIN o : q \notin Footprint(o[m])
      <3>1. \A m \in DOMAIN u : q \notin Footprint(u[m])
        BY <1>1, <1>2, <1>3, <1>4, <2>1
      <3> QED BY <2>1, <3>1 DEF Leaves
    <2>2. CASE \E m \in DOMAIN o : /\ q \in Footprint(o[m]) /\ v = Outcome(o[m])
                                   /\ \A n \in DOMAIN o : n > m => q \notin Footprint(o[n])
      <3>1. PICK m \in DOMAIN o : /\ q \in Footprint(o[m]) /\ v = Outcome(o[m])
                                  /\ \A n \in DOMAIN o : n > m => q \notin Footprint(o[n])
        BY <2>2
      <3>2. m \in DOMAIN u /\ u[m] = o[m]
        BY <1>1, <1>2, <3>1
      <3>3. \A n \in DOMAIN u : n > m => q \notin Footprint(u[n])
        BY <1>1, <1>2, <1>3, <1>4, <3>1
      <3> QED BY <3>1, <3>2, <3>3 DEF Leaves
    <2> QED BY <1>4, <2>1, <2>2 DEF Leaves
  <1>5. ASSUME q \in Footprint(x)
        PROVE  Leaves(u, q, Outcome(x))
    <2> DEFINE m == Len(o) + 1
    <2>1. m \in DOMAIN u /\ u[m] = x /\ \A n \in DOMAIN u : ~(n > m)
      BY <1>1, <1>2, <1>3
    <2> HIDE DEF m
    <2> QED BY <1>5, <2>1 DEF Leaves
  <1> QED BY <1>4, <1>5 DEF u

(* A path nothing was written of. *)
LEMMA OwedStill ==
    ASSUME NEW o, NEW s, NEW t, NEW q, Owed(o, s, q),
           Whole /\ q \notin DSStore /\ old[q] # new[q] /\ CoveredBy(s, q) => CoveredBy(t, q)
    PROVE  Owed(o, t, q)
  BY DEF Owed

LEMMA OwedAfter ==
    ASSUME NEW o \in Seq(Operation), NEW x \in Operation, NEW s, NEW t, NEW q, Owed(o, s, q),
           q \notin Footprint(x) /\ Whole /\ q \notin DSStore /\ old[q] # new[q]
               /\ CoveredBy(s, q) => CoveredBy(t, q),
           q \in Footprint(x) => \/ Outcome(x) = new[q]
                                 \/ CoveredBy(t, q) /\ old[q] # new[q] /\ ~SameKinds
    PROVE  Owed(Append(o, x), t, q)
  <1>1. CASE q \notin Footprint(x)
    <2>1. \A v : Leaves(o, q, v) => Leaves(Append(o, x), q, v)
      BY <1>1, LeavesMore
    <2> QED BY <1>1, <2>1 DEF Owed
  <1>2. CASE q \in Footprint(x)
    <2>1. Leaves(Append(o, x), q, Outcome(x))
      BY <1>2, LeavesMore
    <2> QED BY <1>2, <2>1 DEF Owed
  <1> QED BY <1>1, <1>2

----------------------------------------------------------------------------
(* The releases. *)

LEMMA Releases ==
    ASSUME CTypeOK
    PROVE  /\ old \in [Path -> Content \cup {Absent, Dir}]
           /\ new \in [Path -> Content \cup {Absent, Dir}]
           /\ IsTree(old) /\ IsTree(new)
           /\ \A q \in DSStore : old[q] # Dir /\ new[q] # Dir
           /\ making.confirm \in BOOLEAN /\ making.replace \in BOOLEAN
  <1>1. Making(making) /\ <<old, new>> \in making.releases
    BY MakingsAssumption DEF CTypeOK
  <1>2. Release(old) /\ Release(new)
    BY <1>1 DEF Making
  <1> QED BY <1>1, <1>2 DEF Release, Making

(* What is below a path that is no directory is not there. *)
LEMMA NothingBelow ==
    ASSUME CTypeOK, NEW r \in Path, NEW q \in Below(r)
    PROVE  /\ q \in Path
           /\ q = r \/ q \in Under(r)
           /\ new[r] # Dir /\ q # r => new[q] = Absent
           /\ old[r] # Dir /\ q # r => old[q] = Absent
           /\ new[q] # Absent => new[r] # Absent
           /\ old[q] # Absent => old[r] # Absent
  <1>1. q \in Path /\ (q = r \/ q \in Under(r))
    BY DEF Below, Under
  <1>2. IsTree(old) /\ IsTree(new)
    BY Releases
  <1> QED BY <1>1, <1>2, NodeFacts DEF IsTree

LEMMA TwoCalls ==
    ASSUME NEW d \in Path \cup {Root}
    PROVE  LET f == [call |-> "deletions", at |-> d, left |-> make_filelist(old, d)]
               g == [call |-> "additions", at |-> d, left |-> make_filelist(new, d)]
           IN  /\ compare_directories(d) = <<f, g>> /\ f \in CallOf /\ g \in CallOf
               /\ compare_directories(d) \in Seq(CallOf)
  <1> DEFINE f == [call |-> "deletions", at |-> d, left |-> make_filelist(old, d)]
             g == [call |-> "additions", at |-> d, left |-> make_filelist(new, d)]
  <1>1. f \in CallOf /\ g \in CallOf
    BY DEF CallOf, Call, make_filelist
  <1>2. compare_directories(d) = <<f>> \o <<g>>
    BY DEF compare_directories, Listing
  <1> HIDE DEF f, g
  <1>3. <<f>> \o <<g>> = <<f, g>>
    <2>1. <<f>> \in Seq(CallOf) /\ <<g>> \in Seq(CallOf) /\ <<f, g>> \in Seq(CallOf)
      BY <1>1
    <2>2. /\ <<f>> \o <<g>> \in Seq(CallOf) /\ Len(<<f>> \o <<g>>) = 2
          /\ (<<f>> \o <<g>>)[1] = f /\ (<<f>> \o <<g>>)[2] = g
      BY <2>1
    <2>3. \A s, t \in Seq(CallOf) :
              Len(s) = 2 /\ Len(t) = 2 /\ s[1] = t[1] /\ s[2] = t[2] => s = t
      OBVIOUS
    <2>4. Len(<<f, g>>) = 2 /\ <<f, g>>[1] = f /\ <<f, g>>[2] = g
      OBVIOUS
    <2> QED BY <2>1, <2>2, <2>3, <2>4
  <1>4. <<f, g>> \in Seq(CallOf)
    BY <1>1
  <1> QED BY <1>1, <1>2, <1>3, <1>4 DEF f, g

(* compare_directories(d) reaches whatever differs below d. *)
LEMMA CompareCovers ==
    ASSUME CTypeOK, NEW d \in Path \cup {Root}, NEW q \in Path \ DSStore,
           d = Root \/ q \in Under(d), old[q] # new[q]
    PROVE  CoveredBy(compare_directories(d), q)
  <1> DEFINE f == [call |-> "deletions", at |-> d, left |-> make_filelist(old, d)]
             g == [call |-> "additions", at |-> d, left |-> make_filelist(new, d)]
  <1>1. PICK c \in Path : Parent(c) = d /\ q \in Below(c)
    BY ThroughEntry
  <1>2. /\ q = c \/ q \in Under(c)
        /\ new[c] # Dir /\ q # c => new[q] = Absent
        /\ old[c] # Dir /\ q # c => old[q] = Absent
        /\ new[q] # Absent => new[c] # Absent
        /\ old[q] # Absent => old[c] # Absent
    BY <1>1, NothingBelow
  <1>3. old[c] # Absent => c \in f.left
    BY <1>1 DEF make_filelist
  <1>4. new[c] # Absent => c \in g.left
    BY <1>1 DEF make_filelist
  <1>5. c \in DSStore => old[c] # Dir /\ new[c] # Dir
    BY Releases
  <1>6. Covers(f, q) \/ Covers(g, q)
    <2>1. CASE new[c] # Absent /\ c \notin DSStore
      BY <1>1, <1>4, <2>1 DEF Covers
    <2>2. CASE new[c] # Absent /\ c \in DSStore
      BY <1>2, <1>5, <2>2
    <2>3. CASE new[c] = Absent
      <3>1. new[q] = Absent /\ old[q] # Absent
        BY <1>2, <2>3
      <3>2. c \in f.left
        BY <1>2, <1>3, <3>1
      <3> QED BY <1>1, <2>3, <3>1, <3>2 DEF Covers
    <2> QED BY <2>1, <2>2, <2>3
  <1>7. compare_directories(d) = <<f, g>>
    BY TwoCalls
  <1> HIDE DEF f, g
  <1> QED BY <1>6, <1>7 DEF CoveredBy

(* It is made of calls, and they are fine. *)
LEMMA CompareFine ==
    ASSUME CTypeOK, NEW d \in Path \cup {Root}
    PROVE  AllFine(compare_directories(d)) /\ compare_directories(d) \in Seq(CallOf)
  <1> DEFINE f == [call |-> "deletions", at |-> d, left |-> make_filelist(old, d)]
             g == [call |-> "additions", at |-> d, left |-> make_filelist(new, d)]
  <1>1. compare_directories(d) = <<f, g>> /\ f \in CallOf /\ g \in CallOf
    BY TwoCalls
  <1>3. Fine(f, g) /\ Fine(g, Nobody)
    BY DEF Fine, make_filelist
  <1> HIDE DEF f, g
  <1> QED BY <1>1, <1>3, PairFine
----------------------------------------------------------------------------
(* CInv is inductive.  A step takes the innermost call and puts others in its *)
(* place; what it owed is written, or owed by them.                          *)

LEMMA Onward ==
    ASSUME CInv, maker = "run", UNCHANGED <<releases, maker>>,
           out' \in Seq(Operation),
           \A n \in DOMAIN out' : WellFormed(out'[n]) /\ out'[n].op # "DONE",
           NEW s \in Seq(CallOf), todo' = s, AllFine(s),
           \A q \in Path : Owed(out', s, q)
    PROVE  CInv'
  <1>1. making' = making /\ old' = old /\ new' = new /\ maker' = "run"
    BY DEF releases
  <1>2. CTypeOK'
    BY <1>1 DEF CInv, CTypeOK, CallOf, Finished
  <1>3. AllFine(s)' /\ s' = s
    BY <1>1 DEF AllFine, Fine, Nobody
  <1>4. \A q \in Path : Owed(out, s, q)'
    <2> TAKE q \in Path
    <2>1. Owed(out', s, q)
      OBVIOUS
    <2>2. CoveredBy(s, q)' <=> CoveredBy(s, q)
      BY <1>1 DEF CoveredBy, Covers, Below, Under
    <2>3. Whole' <=> Whole
      BY <1>1 DEF Whole
    <2>4. (SameKinds' <=> SameKinds) /\ (TrueSums' <=> TrueSums)
      BY <1>1 DEF SameKinds, TrueSums
    <2>5. /\ Leaves(out, q, old[q])' <=> Leaves(out', q, old[q])
          /\ Leaves(out, q, new[q])' <=> Leaves(out', q, new[q])
      BY <1>1 DEF Leaves, Footprint, Outcome, Below, Under
    <2> QED BY <1>1, <2>1, <2>2, <2>3, <2>4, <2>5 DEF Owed
  <1> QED BY <1>1, <1>2, <1>3, <1>4 DEF CInv, Progress

(* The first call and the rest. *)
LEMMA InHandFacts ==
    ASSUME CInv, maker = "run", todo # << >>
    PROVE  /\ Head(todo) \in CallOf
           /\ Tail(todo) \in Seq(CallOf) /\ AllFine(Tail(todo))
           /\ Fine(Head(todo), IF Tail(todo) = << >> THEN Nobody ELSE Head(Tail(todo)))
           /\ \A q \in Path : Owed(out, todo, q)
           /\ \A q : CoveredBy(todo, q) <=> Covers(Head(todo), q) \/ CoveredBy(Tail(todo), q)
           /\ out \in Seq(Operation)
           /\ \A n \in DOMAIN out : WellFormed(out[n]) /\ out[n].op # "DONE"
  <1>1. todo \in Seq(CallOf) /\ AllFine(todo)
    BY DEF CInv, CTypeOK, CallOf, Finished
  <1>2. Head(todo) \in CallOf
    BY <1>1
  <1> QED BY <1>1, <1>2, TailFine, HeadFine, CoveredByHeadOrTail DEF CInv, CTypeOK, Progress, Finished

(* A call that is over, without a word in the archive. *)
LEMMA PassStep ==
    ASSUME CInv, maker = "run", todo # << >>, UNCHANGED <<releases, out, maker>>,
           todo' = Tail(todo),
           \A q \in Path : Whole /\ old[q] # new[q] => ~Covers(Head(todo), q)
    PROVE  CInv'
  <1>1. \A q \in Path : Owed(out, Tail(todo), q)
    BY InHandFacts, OwedStill
  <1> QED BY <1>1, InHandFacts, Onward

(* What a list owes because of its entry r alone. *)
OwedFor(f, r, q) ==
    /\ q \in Below(r)
    /\ f.call = "wholedir" => new[q] # Absent
    /\ f.call = "deletions" => new[q] = Absent /\ new[r] = Absent
    /\ f.call = "additions" => r \notin DSStore

LEMMA EntryStep ==
    ASSUME CInv, NEW r \in Path, NEW calls \in Seq(CallOf), AllFine(calls),
           maker = "run", todo # << >>, UNCHANGED <<releases, maker>>, Entry(r, calls),
           Head(todo).call \in {"deletions", "additions", "wholedir"},
           \A q \in Path \ DSStore :
               old[q] # new[q] /\ OwedFor(Head(todo), r, q) => CoveredBy(calls, q)
    PROVE  CInv'
  <1> DEFINE h == Head(todo)
             g == [h EXCEPT !.left = @ \ {r}]
             t == Tail(todo)
  <1>1. h \in CallOf /\ t \in Seq(CallOf) /\ AllFine(t)
    BY InHandFacts
  <1>2. g \in CallOf /\ g.call = h.call /\ g.left = h.left \ {r}
    BY <1>1 DEF CallOf
  <1>3. Fine(g, Nobody)
    <2>1. Fine(h, IF Tail(todo) = << >> THEN Nobody ELSE Head(Tail(todo)))
      BY InHandFacts
    <2> HIDE DEF g
    <2> QED BY <1>2, <2>1 DEF Fine
  <1>4. \A q : Covers(h, q) => Covers(g, q) \/ OwedFor(h, r, q)
    <2> HIDE DEF g, h
    <2> QED BY <1>2 DEF Covers, OwedFor, h
  <1>5. todo' = (calls \o <<g>>) \o t /\ out' = out /\ r \in h.left
    BY DEF Entry
  <1> HIDE DEF g, t
  <1>6. <<g>> \in Seq(CallOf) /\ calls \o <<g>> \in Seq(CallOf)
        /\ (calls \o <<g>>) \o t \in Seq(CallOf)
    BY <1>1, <1>2
  <1>7. AllFine((calls \o <<g>>) \o t)
    BY <1>1, <1>3, <1>6, OneFine, JoinFine
  <1>8. ASSUME NEW q \in Path
        PROVE  Owed(out, (calls \o <<g>>) \o t, q)
    <2>1. CoveredBy((calls \o <<g>>) \o t, q) <=>
              CoveredBy(calls, q) \/ Covers(g, q) \/ CoveredBy(t, q)
      BY <1>1, <1>6, CoveredByBoth, CoveredByOne
    <2>2. q \notin DSStore /\ old[q] # new[q] /\ CoveredBy(todo, q)
              => CoveredBy(calls, q) \/ Covers(g, q) \/ CoveredBy(t, q)
      BY <1>4, InHandFacts DEF t
    <2>3. Owed(out, todo, q)
      BY InHandFacts
    <2> QED BY <2>1, <2>2, <2>3, OwedStill
  <1> QED BY <1>5, <1>6, <1>7, <1>8, InHandFacts, Onward

(* An operation is written. *)
LEMMA EmitStep ==
    ASSUME CInv, maker = "run", todo # << >>, UNCHANGED <<releases, maker>>,
           NEW x \in Operation, WellFormed(x), x.op # "DONE", out' = Append(out, x),
           NEW calls \in Seq(CallOf), AllFine(calls), todo' = calls \o Tail(todo),
           \A q \in Path \ Footprint(x) :
               old[q] # new[q] /\ Covers(Head(todo), q) => CoveredBy(calls, q),
           \A q \in Path \cap Footprint(x) :
               \/ Outcome(x) = new[q] \/ ~TrueSums
               \/ CoveredBy(Tail(todo), q) /\ old[q] # new[q] /\ ~SameKinds
    PROVE  CInv'
  <1> DEFINE s == calls \o Tail(todo)
  <1>1. s \in Seq(CallOf) /\ AllFine(s)
    <2>1. Tail(todo) \in Seq(CallOf) /\ AllFine(Tail(todo))
      BY InHandFacts
    <2>2. AllFine(s)
      BY <2>1, JoinFine
    <2>3. s \in Seq(CallOf)
      BY <2>1
    <2> QED BY <2>2, <2>3
  <1>2. out \in Seq(Operation) /\ \A n \in DOMAIN out : WellFormed(out[n]) /\ out[n].op # "DONE"
    BY InHandFacts
  <1>3. out' \in Seq(Operation) /\ \A n \in DOMAIN out' : WellFormed(out'[n]) /\ out'[n].op # "DONE"
    <2>1. /\ out' \in Seq(Operation) /\ Len(out) \in Nat /\ DOMAIN out = 1..Len(out)
          /\ DOMAIN out' = 1..(Len(out) + 1)
          /\ \A n \in 1..Len(out) : out'[n] = out[n]
          /\ out'[Len(out) + 1] = x
      BY <1>2
    <2>2. \A n \in 1..(Len(out) + 1) : n \in 1..Len(out) \/ n = Len(out) + 1
      BY <2>1
    <2> QED BY <1>2, <2>1, <2>2
  <1>4. ASSUME NEW q \in Path
        PROVE  Owed(Append(out, x), s, q)
    <2>1. CoveredBy(s, q) <=> CoveredBy(calls, q) \/ CoveredBy(Tail(todo), q)
      BY InHandFacts, CoveredByBoth
    <2>2. CoveredBy(todo, q) <=> Covers(Head(todo), q) \/ CoveredBy(Tail(todo), q)
      BY InHandFacts
    <2>3. Owed(out, todo, q)
      BY InHandFacts
    <2> HIDE DEF s
    <2>4. q \notin Footprint(x) /\ Whole /\ q \notin DSStore /\ old[q] # new[q]
               /\ CoveredBy(todo, q) => CoveredBy(s, q)
      BY <2>1, <2>2
    <2>5. CASE ~TrueSums
      BY <2>5 DEF Owed
    <2>6. CASE TrueSums
      <3>1. q \in Footprint(x) => \/ Outcome(x) = new[q]
                                  \/ CoveredBy(s, q) /\ old[q] # new[q] /\ ~SameKinds
        BY <2>1, <2>6
      <3> QED BY <1>2, <2>3, <2>4, <3>1, OwedAfter
    <2> QED BY <2>5, <2>6
  <1> HIDE DEF s
  <1>5. todo' = s
    BY DEF s
  <1>6. \A q \in Path : Owed(out', s, q)
    BY <1>4
  <1> QED BY <1>1, <1>3, <1>5, <1>6, Onward
----------------------------------------------------------------------------
(* One lemma per kind of step. *)

LEMMA NoCalls == << >> \in Seq(CallOf) /\ AllFine(<< >>)
  BY DEF AllFine

LEMMA CallFacts ==
    ASSUME NEW f \in Call, NEW r \in Path
    PROVE  /\ ToCall(f, r) \in Seq(CallOf)
           /\ ToCall(f, r) = <<[call |-> f, at |-> r, left |-> {}]>>
           /\ \A q : CoveredBy(ToCall(f, r), q)
                         <=> Covers([call |-> f, at |-> r, left |-> {}], q)
           /\ Fine([call |-> f, at |-> r, left |-> {}], Nobody) => AllFine(ToCall(f, r))
  <1> DEFINE c == [call |-> f, at |-> r, left |-> {}]
  <1>1. c \in CallOf
    BY DEF CallOf
  <1>2. ToCall(f, r) = <<c>>
    BY DEF ToCall
  <1> HIDE DEF c
  <1>3. <<c>> \in Seq(CallOf)
    BY <1>1
  <1> QED BY <1>2, <1>3, CoveredByOne, OneFine DEF c

(* Two calls, of which the first relies on the second. *)
LEMMA TwoInARow ==
    ASSUME NEW f \in Call, NEW g \in Call, NEW r \in Path,
           Fine([call |-> f, at |-> r, left |-> {}], [call |-> g, at |-> r, left |-> {}]),
           Fine([call |-> g, at |-> r, left |-> {}], Nobody)
    PROVE  /\ ToCall(f, r) \o ToCall(g, r) \in Seq(CallOf)
           /\ AllFine(ToCall(f, r) \o ToCall(g, r))
           /\ \A q : CoveredBy(ToCall(f, r) \o ToCall(g, r), q)
                         <=> CoveredBy(ToCall(f, r), q) \/ CoveredBy(ToCall(g, r), q)
  <1> DEFINE c == [call |-> f, at |-> r, left |-> {}]
             d == [call |-> g, at |-> r, left |-> {}]
  <1>1. c \in CallOf /\ d \in CallOf /\ Fine(c, d) /\ Fine(d, Nobody)
    BY DEF CallOf
  <1>2. ToCall(f, r) = <<c>> /\ ToCall(g, r) = <<d>>
    BY DEF ToCall
  <1> HIDE DEF c, d
  <1>3. <<c>> \in Seq(CallOf) /\ <<d>> \in Seq(CallOf) /\ <<c, d>> \in Seq(CallOf)
    BY <1>1
  <1>4. <<c>> \o <<d>> = <<c, d>>
    <2>1. /\ <<c>> \o <<d>> \in Seq(CallOf) /\ Len(<<c>> \o <<d>>) = 2
          /\ (<<c>> \o <<d>>)[1] = c /\ (<<c>> \o <<d>>)[2] = d
      BY <1>3
    <2>2. \A s, t \in Seq(CallOf) :
              Len(s) = 2 /\ Len(t) = 2 /\ s[1] = t[1] /\ s[2] = t[2] => s = t
      OBVIOUS
    <2>3. Len(<<c, d>>) = 2 /\ <<c, d>>[1] = c /\ <<c, d>>[2] = d
      OBVIOUS
    <2> QED BY <1>3, <2>1, <2>2, <2>3
  <1>5. AllFine(<<c, d>>)
    BY <1>1, PairFine
  <1>6. \A q : CoveredBy(<<c>> \o <<d>>, q) <=> CoveredBy(<<c>>, q) \/ CoveredBy(<<d>>, q)
    BY <1>3, CoveredByBoth
  <1> QED BY <1>2, <1>3, <1>4, <1>5, <1>6

(* What the entries of a list are, and what is below them. *)
LEMMA EntryFacts ==
    ASSUME CInv, maker = "run", todo # << >>, NEW r \in Head(todo).left
    PROVE  /\ r \in Path
           /\ Head(todo).call = "deletions" => old[r] # Absent
           /\ Head(todo).call \in {"additions", "wholedir"} => new[r] # Absent
           /\ old[r] \in Content \cup {Absent, Dir}
           /\ new[r] \in Content \cup {Absent, Dir}
           /\ \A q : OwedFor(Head(todo), r, q) =>
                 /\ q \in Path /\ (q = r \/ q \in Under(r)) /\ q \in Below(r)
                 /\ new[r] # Dir /\ q # r => new[q] = Absent
                 /\ old[r] # Dir /\ q # r => old[q] = Absent
  <1>1. Head(todo) \in CallOf
    BY InHandFacts
  <1>2. r \in Path
    BY <1>1 DEF CallOf
  <1>3. Fine(Head(todo), IF Tail(todo) = << >> THEN Nobody ELSE Head(Tail(todo)))
    BY InHandFacts
  <1>4. CTypeOK
    BY DEF CInv
  <1>5. \A q \in Below(r) :
                 /\ q \in Path /\ (q = r \/ q \in Under(r))
                 /\ new[r] # Dir /\ q # r => new[q] = Absent
                 /\ old[r] # Dir /\ q # r => old[q] = Absent
    BY <1>2, <1>4, NothingBelow
  <1>6. old[r] \in Content \cup {Absent, Dir} /\ new[r] \in Content \cup {Absent, Dir}
    BY <1>2, <1>4, Releases
  <1> QED BY <1>2, <1>3, <1>5, <1>6 DEF OwedFor, Fine

LEMMA DeletionsKeep ==
    ASSUME CInv, NEW r \in Path, OldKept(r) \/ OldFileGone(r) \/ OldDirGone(r)
    PROVE  CInv'
  <1>1. /\ maker = "run" /\ todo # << >> /\ UNCHANGED <<releases, maker>>
        /\ Head(todo).call = "deletions" /\ r \in Head(todo).left
    BY DEF OldKept, OldFileGone, OldDirGone, Running, Entry
  <1>2. CTypeOK
    BY DEF CInv
  <1>3. CASE OldKept(r)
    <2>1. \A q : ~OwedFor(Head(todo), r, q)
      BY <1>1, <1>3 DEF OldKept, file_exists, OwedFor
    <2>2. Entry(r, << >>)
      BY <1>3 DEF OldKept
    <2> QED BY <1>1, <2>1, <2>2, NoCalls, EntryStep
  <1>4. CASE OldFileGone(r)
    <2>1. new[r] = Absent /\ old[r] # Dir /\ Entry(r, ToCall("delete", r))
      BY <1>4 DEF OldFileGone, file_exists, file_is_directory
    <2> DEFINE c == [call |-> "delete", at |-> r, left |-> {}]
    <2>2. Fine(c, Nobody) /\ \A q : new[q] = Absent /\ q = r => Covers(c, q)
      BY <2>1 DEF Fine, Covers
    <2> HIDE DEF c
    <2>3. /\ ToCall("delete", r) \in Seq(CallOf) /\ AllFine(ToCall("delete", r))
          /\ \A q : CoveredBy(ToCall("delete", r), q) <=> Covers(c, q)
      BY <2>2, CallFacts DEF c, Call
    <2>4. \A q \in Path \ DSStore :
              old[q] # new[q] /\ OwedFor(Head(todo), r, q) => CoveredBy(ToCall("delete", r), q)
      BY <1>1, <2>1, <2>2, <2>3, EntryFacts DEF OwedFor
    <2> QED BY <1>1, <2>1, <2>3, <2>4, EntryStep
  <1>5. CASE OldDirGone(r)
    <2> DEFINE cs == compare_directories(r)
               ds == ToCall("deldir", r)
               c == [call |-> "deldir", at |-> r, left |-> {}]
    <2>1. new[r] = Absent /\ old[r] = Dir /\ Entry(r, cs \o ds)
      BY <1>5 DEF OldDirGone, file_exists, file_is_directory
    <2>2. Fine(c, Nobody) /\ \A q : new[q] = Absent /\ q \in Below(r) => Covers(c, q)
      BY <2>1 DEF Fine, Covers
    <2> HIDE DEF c
    <2>3. /\ ds \in Seq(CallOf) /\ AllFine(ds)
          /\ \A q : CoveredBy(ds, q) <=> Covers(c, q)
      BY <2>2, CallFacts DEF c, Call
    <2>4. cs \in Seq(CallOf) /\ AllFine(cs)
      BY <1>2, CompareFine
    <2> HIDE DEF cs, ds
    <2>5. cs \o ds \in Seq(CallOf) /\ AllFine(cs \o ds)
      BY <2>3, <2>4, JoinFine
    <2>6. \A q : CoveredBy(cs \o ds, q) <=> CoveredBy(cs, q) \/ CoveredBy(ds, q)
      BY <2>3, <2>4, CoveredByBoth
    <2>7. \A q \in Path \ DSStore :
              old[q] # new[q] /\ OwedFor(Head(todo), r, q) => CoveredBy(cs \o ds, q)
      BY <1>1, <2>2, <2>3, <2>6 DEF OwedFor
    <2> QED BY <1>1, <2>1, <2>5, <2>7, EntryStep
  <1> QED BY <1>3, <1>4, <1>5
(* An entry that makes one call. *)
LEMMA OneCallStep ==
    ASSUME CInv, NEW r \in Path, NEW f \in Call, maker = "run", todo # << >>,
           UNCHANGED <<releases, maker>>, Entry(r, ToCall(f, r)),
           Head(todo).call \in {"deletions", "additions", "wholedir"},
           Fine([call |-> f, at |-> r, left |-> {}], Nobody),
           \A q \in Path \ DSStore :
               old[q] # new[q] /\ OwedFor(Head(todo), r, q)
                   => Covers([call |-> f, at |-> r, left |-> {}], q)
    PROVE  CInv'
  <1> DEFINE c == [call |-> f, at |-> r, left |-> {}]
  <1>1. /\ ToCall(f, r) \in Seq(CallOf) /\ AllFine(ToCall(f, r))
        /\ \A q : CoveredBy(ToCall(f, r), q) <=> Covers(c, q)
    BY CallFacts
  <1>2. \A q \in Path \ DSStore :
              old[q] # new[q] /\ OwedFor(Head(todo), r, q) => Covers(c, q)
    OBVIOUS
  <1> HIDE DEF c
  <1> QED BY <1>1, <1>2, EntryStep

(* What a new entry is below: if it is no directory, nothing. *)
LEMMA AdditionsKeep ==
    ASSUME CInv, NEW r \in Path,
           \/ SkipDSStore(r) \/ BothDirs(r) \/ FileToDir(r) \/ DirToFile(r)
           \/ BothFiles(r) \/ NewDir(r) \/ NewFile(r)
    PROVE  CInv'
  <1>1. /\ maker = "run" /\ todo # << >> /\ UNCHANGED <<releases, maker>>
        /\ Head(todo).call = "additions" /\ r \in Head(todo).left
    BY DEF SkipDSStore, BothDirs, FileToDir, DirToFile, BothFiles, NewDir, NewFile,
           NewEntry, Running, Entry
  <1>2. CTypeOK
    BY DEF CInv
  <1>3. /\ new[r] # Absent
        /\ old[r] \in Content \cup {Absent, Dir} /\ new[r] \in Content \cup {Absent, Dir}
    BY <1>1, EntryFacts
  <1>4. \A q : OwedFor(Head(todo), r, q) =>
                 /\ q \in Path /\ (q = r \/ q \in Under(r)) /\ q \in Below(r)
                 /\ new[r] # Dir /\ q # r => new[q] = Absent
                 /\ old[r] # Dir /\ q # r => old[q] = Absent
    BY <1>1, EntryFacts
  <1>5. Dir \notin File /\ Absent \notin File /\ Partial \notin Content /\ Absent # Dir
        /\ Dir \notin Content /\ Absent \notin Content
    BY NodeFacts
  <1>6. CASE SkipDSStore(r)
    <2>1. \A q : ~OwedFor(Head(todo), r, q)
      BY <1>1, <1>6 DEF SkipDSStore, OwedFor
    <2>2. Entry(r, << >>)
      BY <1>6 DEF SkipDSStore
    <2> QED BY <1>1, <2>1, <2>2, NoCalls, EntryStep
  <1>7. CASE BothDirs(r)
    <2>1. old[r] = Dir /\ new[r] = Dir /\ Entry(r, compare_directories(r))
      BY <1>7 DEF BothDirs, file_is_directory
    <2>2. AllFine(compare_directories(r)) /\ compare_directories(r) \in Seq(CallOf)
      BY <1>2, CompareFine
    <2>3. \A q \in Path \ DSStore :
              old[q] # new[q] /\ OwedFor(Head(todo), r, q)
                  => CoveredBy(compare_directories(r), q)
      <3> SUFFICES ASSUME NEW q \in Path \ DSStore, old[q] # new[q],
                          OwedFor(Head(todo), r, q)
                   PROVE  CoveredBy(compare_directories(r), q)
        OBVIOUS
      <3>1. q \in Under(r)
        BY <1>4, <2>1
      <3> QED BY <1>2, <3>1, CompareCovers
    <2> QED BY <1>1, <2>1, <2>2, <2>3, EntryStep
  <1>8. CASE FileToDir(r)
    <2> DEFINE cs == compare_directories(r)
               ds == ToCall("delete", r)
               as == ToCall("adddir", r)
               c == [call |-> "delete", at |-> r, left |-> {}]
               d == [call |-> "adddir", at |-> r, left |-> {}]
    <2>1. old[r] \in File /\ new[r] = Dir /\ Entry(r, (ds \o as) \o cs)
      BY <1>8 DEF FileToDir, file_is_directory
    <2>2. old[r] \in Content
      BY <1>3, <1>5, <2>1
    <2>3. Fine(c, d) /\ Fine(d, Nobody)
      BY <2>1, <2>2 DEF Fine
    <2>4. \A q : new[q] # Absent /\ q \in Below(r) => Covers(d, q)
      BY DEF Covers
    <2>5. /\ ds \o as \in Seq(CallOf) /\ AllFine(ds \o as)
          /\ \A q : CoveredBy(ds \o as, q) <=> CoveredBy(ds, q) \/ CoveredBy(as, q)
      BY <2>3, TwoInARow DEF Call
    <2>6. \A q : CoveredBy(as, q) <=> Covers(d, q)
      BY CallFacts DEF Call
    <2>7. AllFine(cs) /\ cs \in Seq(CallOf)
      BY <1>2, CompareFine
    <2> HIDE DEF cs, ds, as, c, d
    <2>8. (ds \o as) \o cs \in Seq(CallOf) /\ AllFine((ds \o as) \o cs)
      <3>1. AllFine((ds \o as) \o cs)
        BY <2>5, <2>7, JoinFine
      <3>2. \A s, t \in Seq(CallOf) : s \o t \in Seq(CallOf)
        OBVIOUS
      <3> QED BY <2>5, <2>7, <3>1, <3>2, Zenon
    <2>9. \A q : CoveredBy((ds \o as) \o cs, q) <=> CoveredBy(ds \o as, q) \/ CoveredBy(cs, q)
      BY <2>5, <2>7, CoveredByBoth
    <2>10. \A q \in Path \ DSStore :
              old[q] # new[q] /\ OwedFor(Head(todo), r, q) => CoveredBy((ds \o as) \o cs, q)
      <3> SUFFICES ASSUME NEW q \in Path \ DSStore, old[q] # new[q],
                          OwedFor(Head(todo), r, q)
                   PROVE  CoveredBy((ds \o as) \o cs, q)
        OBVIOUS
      <3>1. new[q] # Absent /\ q \in Below(r)
        BY <1>3, <1>4, <1>5, <2>1
      <3> QED BY <2>4, <2>5, <2>6, <2>9, <3>1
    <2> QED BY <1>1, <2>1, <2>8, <2>10, EntryStep
  <1>9. CASE DirToFile(r)
    <2> DEFINE ds == ToCall("deldir", r)
               as == ToCall("add", r)
               c == [call |-> "deldir", at |-> r, left |-> {}]
               d == [call |-> "add", at |-> r, left |-> {}]
    <2>1. old[r] = Dir /\ new[r] \in Content /\ Entry(r, ds \o as)
      BY <1>3, <1>9 DEF DirToFile, file_is_directory
    <2>2. Fine(c, d) /\ Fine(d, Nobody)
      BY <2>1 DEF Fine
    <2>3. /\ \A q : new[q] = Absent /\ q \in Below(r) => Covers(c, q)
          /\ \A q : q = r => Covers(d, q)
      BY DEF Covers
    <2>4. /\ ds \o as \in Seq(CallOf) /\ AllFine(ds \o as)
          /\ \A q : CoveredBy(ds \o as, q) <=> CoveredBy(ds, q) \/ CoveredBy(as, q)
      BY <2>2, TwoInARow DEF Call
    <2>5. /\ \A q : CoveredBy(as, q) <=> Covers(d, q)
          /\ \A q : CoveredBy(ds, q) <=> Covers(c, q)
      BY CallFacts DEF Call
    <2> HIDE DEF ds, as, c, d
    <2>6. \A q \in Path \ DSStore :
              old[q] # new[q] /\ OwedFor(Head(todo), r, q) => CoveredBy(ds \o as, q)
      BY <1>4, <1>5, <2>1, <2>3, <2>4, <2>5
    <2> QED BY <1>1, <2>1, <2>4, <2>6, EntryStep
  <1>10. CASE BothFiles(r)
    <2>1. old[r] \in Content /\ new[r] \in Content /\ Entry(r, ToCall("patch", r))
      BY <1>3, <1>5, <1>10 DEF BothFiles, file_is_directory, File
    <2>2. /\ Fine([call |-> "patch", at |-> r, left |-> {}], Nobody)
          /\ \A q : q = r => Covers([call |-> "patch", at |-> r, left |-> {}], q)
      BY <2>1 DEF Fine, Covers
    <2>3. \A q : old[q] # new[q] /\ OwedFor(Head(todo), r, q) => q = r
      BY <1>4, <1>5, <2>1
    <2> QED BY <1>1, <2>1, <2>2, <2>3, OneCallStep DEF Call
  <1>11. CASE NewDir(r)
    <2>1. old[r] = Absent /\ new[r] = Dir /\ Entry(r, ToCall("adddir", r))
      BY <1>11 DEF NewDir, file_is_directory, file_exists
    <2>2. /\ Fine([call |-> "adddir", at |-> r, left |-> {}], Nobody)
          /\ \A q : new[q] # Absent /\ q \in Below(r)
                      => Covers([call |-> "adddir", at |-> r, left |-> {}], q)
      BY <2>1 DEF Fine, Covers
    <2>3. \A q : old[q] # new[q] /\ OwedFor(Head(todo), r, q)
                    => new[q] # Absent /\ q \in Below(r)
      BY <1>3, <1>4, <1>5, <2>1
    <2> QED BY <1>1, <2>1, <2>2, <2>3, OneCallStep DEF Call
  <1>12. CASE NewFile(r)
    <2>1. old[r] = Absent /\ new[r] \in Content /\ Entry(r, ToCall("add", r))
      BY <1>3, <1>12 DEF NewFile, file_is_directory, file_exists
    <2>2. /\ Fine([call |-> "add", at |-> r, left |-> {}], Nobody)
          /\ \A q : q = r => Covers([call |-> "add", at |-> r, left |-> {}], q)
      BY <2>1 DEF Fine, Covers
    <2>3. \A q : old[q] # new[q] /\ OwedFor(Head(todo), r, q) => q = r
      BY <1>4, <1>5, <2>1
    <2> QED BY <1>1, <2>1, <2>2, <2>3, OneCallStep DEF Call
  <1> QED BY <1>6, <1>7, <1>8, <1>9, <1>10, <1>11, <1>12

LEMMA WholeDirKeeps ==
    ASSUME CInv, NEW r \in Path, WholeDirEntry(r)
    PROVE  CInv'
  <1>1. /\ maker = "run" /\ todo # << >> /\ UNCHANGED <<releases, maker>>
        /\ Head(todo).call = "wholedir" /\ r \in Head(todo).left
    BY DEF WholeDirEntry, Running, Entry
  <1>2. new[r] # Absent /\ new[r] \in Content \cup {Absent, Dir}
    BY <1>1, EntryFacts
  <1>3. \A q : OwedFor(Head(todo), r, q) =>
                 /\ new[q] # Absent /\ q \in Below(r)
                 /\ new[r] # Dir => q = r
    BY <1>1, EntryFacts DEF OwedFor
  <1>4. CASE new[r] = Dir
    <2>1. Entry(r, ToCall("adddir", r))
      BY <1>4 DEF WholeDirEntry, file_is_directory
    <2>2. /\ Fine([call |-> "adddir", at |-> r, left |-> {}], Nobody)
          /\ \A q : new[q] # Absent /\ q \in Below(r)
                      => Covers([call |-> "adddir", at |-> r, left |-> {}], q)
      BY <1>4 DEF Fine, Covers
    <2> QED BY <1>1, <1>3, <2>1, <2>2, OneCallStep DEF Call
  <1>5. CASE new[r] # Dir
    <2>1. Entry(r, ToCall("add", r))
      BY <1>5 DEF WholeDirEntry, file_is_directory
    <2>2. /\ Fine([call |-> "add", at |-> r, left |-> {}], Nobody)
          /\ \A q : q = r => Covers([call |-> "add", at |-> r, left |-> {}], q)
      BY <1>2, <1>5 DEF Fine, Covers
    <2> QED BY <1>1, <1>3, <1>5, <2>1, <2>2, OneCallStep DEF Call
  <1> QED BY <1>4, <1>5

LEMMA EndOfListKeeps ==
    ASSUME CInv, EndOfList
    PROVE  CInv'
  <1>1. /\ maker = "run" /\ todo # << >> /\ UNCHANGED <<releases, out, maker>>
        /\ todo' = Tail(todo)
    BY DEF EndOfList
  <1>2. \A q : ~Covers(Head(todo), q)
    BY DEF EndOfList, Covers
  <1> QED BY <1>1, <1>2, PassStep
(* The put_* functions are called for paths of the product. *)
LEMMA PutFacts ==
    ASSUME CInv, NEW f \in {"delete", "deldir", "add", "adddir", "patch"}, Running(f)
    PROVE  /\ maker = "run" /\ todo # << >> /\ UNCHANGED <<releases, maker>>
           /\ At \in Path /\ Head(todo).call = f
           /\ f = "add" => new[At] \in Content
           /\ f = "adddir" => new[At] = Dir
           /\ f = "patch" => old[At] \in Content /\ new[At] \in Content
           /\ f = "delete" /\ new[At] # Absent =>
                 /\ old[At] \in Content /\ new[At] = Dir
                 /\ CoveredBy(Tail(todo), At)
           /\ f = "deldir" => old[At] = Dir
           /\ f = "deldir" /\ new[At] # Absent =>
                 /\ old[At] = Dir /\ new[At] \in Content
                 /\ CoveredBy(Tail(todo), At)
  <1> DEFINE h == Head(todo)
             g == IF Tail(todo) = << >> THEN Nobody ELSE Head(Tail(todo))
  <1>1. maker = "run" /\ todo # << >> /\ h.call = f /\ UNCHANGED <<releases, maker>>
    BY DEF Running
  <1>2. Fine(h, g) /\ Tail(todo) \in Seq(CallOf)
    BY <1>1, InHandFacts
  <1>3. At = h.at
    BY DEF At
  <1>4. g.call \in {"add", "adddir"} => Tail(todo) # << >> /\ g = Head(Tail(todo))
    BY DEF Nobody
  <1>5. \A q : g.call \in {"add", "adddir"} /\ Covers(g, q) => CoveredBy(Tail(todo), q)
    BY <1>2, <1>4, CoveredByHeadOrTail
  <1> HIDE DEF h, g
  <1>6. At \in Path
    BY <1>1, <1>2, <1>3 DEF Fine
  <1>7. /\ g.call = "add" /\ g.at = At => Covers(g, At)
        /\ g.call = "adddir" /\ g.at = At /\ new[At] # Absent => Covers(g, At)
    BY DEF Covers, Below
  <1>8. /\ f = "add" => new[At] \in Content
        /\ f = "adddir" => new[At] = Dir
        /\ f = "patch" => old[At] \in Content /\ new[At] \in Content
    BY <1>1, <1>2, <1>3 DEF Fine
  <1>9. /\ f = "delete" /\ new[At] # Absent =>
                 /\ old[At] \in Content /\ new[At] = Dir
                 /\ g.call = "adddir" /\ g.at = At
        /\ f = "deldir" => old[At] = Dir
        /\ f = "deldir" /\ new[At] # Absent =>
                 /\ old[At] = Dir /\ new[At] \in Content
                 /\ g.call = "add" /\ g.at = At
    BY <1>1, <1>2, <1>3 DEF Fine
  <1> QED BY <1>1, <1>5, <1>6, <1>7, <1>8, <1>9 DEF h

(* What the ignore list and the prompt keep from the archive makes it less than
   whole. *)
LEMMA DeclinedKeeps ==
    ASSUME CInv, maker = "run", todo # << >>, UNCHANGED <<releases, maker>>,
           Declined, PassOver
    PROVE  CInv'
  <1>1. ~Whole
    BY DEF Whole, Declined
  <1> QED BY <1>1, PassStep DEF PassOver

(* The operations as they are written. *)
LEMMA OperationForms ==
    ASSUME NEW p \in Path
    PROVE  /\ Delete(p) \in Operation /\ WellFormed(Delete(p)) /\ Delete(p).op = "DELETE"
           /\ Footprint(Delete(p)) = {p} /\ Outcome(Delete(p)) = Absent
           /\ DeleteDir(p) \in Operation /\ WellFormed(DeleteDir(p))
           /\ DeleteDir(p).op = "DELETEDIRECTORY"
           /\ Footprint(DeleteDir(p)) = Below(p) /\ Outcome(DeleteDir(p)) = Absent
           /\ AddDir(p) \in Operation /\ WellFormed(AddDir(p))
           /\ AddDir(p).op = "ADDDIRECTORY"
           /\ Footprint(AddDir(p)) = {p} /\ Outcome(AddDir(p)) = Dir
  BY DEF Delete, DeleteDir, AddDir, Operation, OperationType, WellFormed, Footprint,
         Outcome, Below

LEMMA FileForms ==
    ASSUME NEW p \in Path, NEW v \in Content, NEW u \in Content, NEW c \in File, NEW x,
           x \in {[Add(p, v) EXCEPT !.data = c], [Replace(p, v) EXCEPT !.data = c],
                  [Patch(p, u, v) EXCEPT !.data = c]}
    PROVE  /\ x \in Operation /\ WellFormed(x) /\ x.op # "DONE"
           /\ Footprint(x) = {p} /\ Outcome(x) = v
  BY DEF Add, Replace, Patch, Delete, Operation, OperationType, WellFormed, Footprint, Outcome

(* A put_* that makes no further calls. *)
LEMMA LastWordStep ==
    ASSUME CInv, maker = "run", todo # << >>, UNCHANGED <<releases, maker>>,
           NEW x \in Operation, WellFormed(x), x.op # "DONE", Emit(x), todo' = Tail(todo),
           \A q \in Path \ Footprint(x) : old[q] # new[q] => ~Covers(Head(todo), q),
           \A q \in Path \cap Footprint(x) :
               \/ Outcome(x) = new[q] \/ ~TrueSums
               \/ CoveredBy(Tail(todo), q) /\ old[q] # new[q] /\ ~SameKinds
    PROVE  CInv'
  <1>1. Tail(todo) \in Seq(CallOf)
    BY InHandFacts
  <1>2. << >> \o Tail(todo) = Tail(todo)
    <2>1. \A s \in Seq(CallOf) : << >> \o s = s
      OBVIOUS
    <2> QED BY <1>1, <2>1
  <1> QED BY <1>2, NoCalls, EmitStep DEF Emit

LEMMA NotTheSameKinds ==
    ASSUME CTypeOK, NEW r \in Path, {old[r], new[r]} \cap Content # {},
           Dir \in {old[r], new[r]}
    PROVE  ~SameKinds
  BY NodeFacts DEF SameKinds

LEMMA PutKeeps ==
    ASSUME CInv, put_delete \/ put_delete_dir \/ put_add_dir
    PROVE  CInv'
  <1>1. CTypeOK /\ Dir \notin Content
    BY NodeFacts DEF CInv
  <1>2. CASE put_delete
    <2>1. /\ maker = "run" /\ todo # << >> /\ UNCHANGED <<releases, maker>>
          /\ At \in Path /\ Head(todo).call = "delete"
          /\ new[At] # Absent => /\ old[At] \in Content /\ new[At] = Dir
                                 /\ CoveredBy(Tail(todo), At)
      BY <1>2, PutFacts DEF put_delete
    <2>2. CASE Declined /\ PassOver
      BY <2>1, <2>2, DeclinedKeeps
    <2>3. CASE Emit(Delete(At)) /\ todo' = Tail(todo)
      <3>1. \A q : Covers(Head(todo), q) => q = At
        BY <2>1 DEF Covers, At
      <3>2. /\ Delete(At) \in Operation /\ WellFormed(Delete(At)) /\ Delete(At).op # "DONE"
            /\ Footprint(Delete(At)) = {At} /\ Outcome(Delete(At)) = Absent
        BY <2>1, OperationForms
      <3>3. new[At] # Absent => CoveredBy(Tail(todo), At) /\ old[At] # new[At] /\ ~SameKinds
        BY <1>1, <2>1, NotTheSameKinds
      <3> QED BY <2>1, <2>3, <3>1, <3>2, <3>3, LastWordStep
    <2> QED BY <1>2, <2>2, <2>3 DEF put_delete
  <1>3. CASE put_delete_dir
    <2>1. /\ maker = "run" /\ todo # << >> /\ UNCHANGED <<releases, maker>>
          /\ At \in Path /\ Head(todo).call = "deldir"
          /\ new[At] # Absent => /\ old[At] = Dir /\ new[At] \in Content
                                 /\ CoveredBy(Tail(todo), At)
      BY <1>3, PutFacts DEF put_delete_dir
    <2>2. CASE Declined /\ PassOver
      BY <2>1, <2>2, DeclinedKeeps
    <2>3. CASE Emit(DeleteDir(At)) /\ todo' = Tail(todo)
      <3>1. \A q : Covers(Head(todo), q) => q \in Below(At)
        BY <2>1 DEF Covers, At
      <3>2. /\ DeleteDir(At) \in Operation /\ WellFormed(DeleteDir(At))
            /\ DeleteDir(At).op # "DONE"
            /\ Footprint(DeleteDir(At)) = Below(At) /\ Outcome(DeleteDir(At)) = Absent
        BY <2>1, OperationForms
      <3>3. new[At] # Absent => CoveredBy(Tail(todo), At) /\ old[At] # new[At] /\ ~SameKinds
        BY <1>1, <2>1, NotTheSameKinds
      <3>4. new[At] # Dir
        BY <1>1, <2>1, NodeFacts
      <3>5. \A q \in Below(At) : q # At => new[q] = Absent
        BY <1>1, <2>1, <3>4, NothingBelow
      <3> QED BY <2>1, <2>3, <3>1, <3>2, <3>3, <3>5, LastWordStep
    <2> QED BY <1>3, <2>2, <2>3 DEF put_delete_dir
  <1>4. CASE put_add_dir
    <2>1. /\ maker = "run" /\ todo # << >> /\ UNCHANGED <<releases, maker>>
          /\ At \in Path /\ Head(todo).call = "adddir" /\ new[At] = Dir
      BY <1>4, PutFacts DEF put_add_dir
    <2>2. CASE Declined /\ PassOver
      BY <2>1, <2>2, DeclinedKeeps
    <2>3. CASE Emit(AddDir(At)) /\ todo' = Listing("wholedir", At, new) \o Tail(todo)
      <3> DEFINE c == [call |-> "wholedir", at |-> At, left |-> make_filelist(new, At)]
      <3>1. c \in CallOf /\ Fine(c, Nobody)
        BY <2>1 DEF CallOf, Call, make_filelist, Fine
      <3>2. Listing("wholedir", At, new) = <<c>>
        BY DEF Listing
      <3>3. ASSUME NEW q \in Path, q # At, Covers(Head(todo), q)
            PROVE  Covers(c, q)
        <4>1. new[q] # Absent /\ q \in Below(At)
          BY <2>1, <3>3 DEF Covers, At
        <4>2. q \in Under(At)
          BY <3>3, <4>1 DEF Below
        <4>3. PICK r \in Path : Parent(r) = At /\ q \in Below(r)
          BY <2>1, <4>2, ThroughEntry
        <4>4. new[r] # Absent
          BY <1>1, <4>1, <4>3, NothingBelow
        <4>5. r \in make_filelist(new, At)
          BY <4>3, <4>4 DEF make_filelist
        <4> QED BY <4>1, <4>3, <4>5 DEF Covers
      <3> HIDE DEF c
      <3>4. <<c>> \in Seq(CallOf) /\ AllFine(<<c>>) /\ \A q : CoveredBy(<<c>>, q) <=> Covers(c, q)
        BY <3>1, OneFine, CoveredByOne
      <3>5. /\ AddDir(At) \in Operation /\ WellFormed(AddDir(At)) /\ AddDir(At).op # "DONE"
            /\ Footprint(AddDir(At)) = {At} /\ Outcome(AddDir(At)) = Dir
        BY <2>1, OperationForms
      <3> QED BY <2>1, <2>3, <3>2, <3>3, <3>4, <3>5, EmitStep DEF Emit
    <2> QED BY <1>4, <2>2, <2>3 DEF put_add_dir
  <1> QED BY <1>2, <1>3, <1>4

(* What md5sums_match leaves in the operation. *)
LEMMA SumsFacts ==
    ASSUME old[At] \in Content, new[At] \in Content, NEW sums \in Sums
    PROVE  /\ sums[1] \in Content /\ sums[2] \in Content
           /\ sums = <<old[At], new[At]>> \/ ~TrueSums
           /\ sums[2] = new[At] \/ ~TrueSums
  BY DEF Sums, TrueSums

LEMMA FilePutKeeps ==
    ASSUME CInv, put_add \/ put_patch_same \/ put_patch_add \/ put_patch
    PROVE  CInv'
  <1>1. \A c \in Content : Copied(c) \subseteq File /\ Delta(c) \subseteq File
    BY NodeFacts DEF Copied, Delta
  <1>2. ASSUME maker = "run", todo # << >>, UNCHANGED <<releases, maker>>,
               At \in Path, Head(todo).call \in {"add", "patch"},
               NEW x \in Operation, WellFormed(x), x.op # "DONE", Footprint(x) = {At},
               Outcome(x) = new[At] \/ ~TrueSums, Emit(x), todo' = Tail(todo)
        PROVE  CInv'
    <2>1. \A q : Covers(Head(todo), q) => q = At
      BY <1>2 DEF Covers, At
    <2> QED BY <1>2, <2>1, LastWordStep
  <1>3. ASSUME maker = "run", todo # << >>, UNCHANGED <<releases, maker>>,
               At \in Path, Head(todo).call \in {"add", "patch"}, new[At] \in Content,
               NEW b \in BOOLEAN, Adding(b), todo' = Tail(todo)
        PROVE  CInv'
    <2>1. PICK c \in Copied(new[At]) :
              Emit([(IF b THEN Replace(At, new[At]) ELSE Add(At, new[At])) EXCEPT !.data = c])
      BY <1>3 DEF Adding
    <2> DEFINE x == [(IF b THEN Replace(At, new[At]) ELSE Add(At, new[At])) EXCEPT !.data = c]
    <2>2. x \in {[Add(At, new[At]) EXCEPT !.data = c], [Replace(At, new[At]) EXCEPT !.data = c],
                 [Patch(At, new[At], new[At]) EXCEPT !.data = c]}
      OBVIOUS
    <2>3. c \in File
      BY <1>1, <1>3, <2>1
    <2>4. Emit(x)
      BY <2>1
    <2> HIDE DEF x
    <2>5. /\ x \in Operation /\ WellFormed(x) /\ x.op # "DONE"
          /\ Footprint(x) = {At} /\ Outcome(x) = new[At]
      BY <1>3, <2>2, <2>3, FileForms
    <2> QED BY <1>2, <1>3, <2>4, <2>5
  <1>4. making.replace \in BOOLEAN
    BY Releases DEF CInv
  <1>5. CASE put_add
    <2>1. /\ maker = "run" /\ todo # << >> /\ UNCHANGED <<releases, maker>>
          /\ At \in Path /\ Head(todo).call = "add" /\ new[At] \in Content
      BY <1>5, PutFacts DEF put_add
    <2>2. CASE Declined /\ PassOver
      BY <2>1, <2>2, DeclinedKeeps
    <2>3. CASE Adding(making.replace) /\ todo' = Tail(todo)
      BY <1>3, <1>4, <2>1, <2>3
    <2> QED BY <1>5, <2>2, <2>3 DEF put_add
  <1>6. CASE put_patch_same
    <2>1. /\ maker = "run" /\ todo # << >> /\ UNCHANGED <<releases, maker>>
          /\ Head(todo).call = "patch" /\ old[At] = new[At] /\ PassOver
      BY <1>6, PutFacts DEF put_patch_same
    <2>2. \A q : Covers(Head(todo), q) => old[q] = new[q]
      BY <2>1 DEF Covers, At
    <2> QED BY <2>1, <2>2, PassStep DEF PassOver
  <1>7. CASE put_patch_add
    <2>1. /\ maker = "run" /\ todo # << >> /\ UNCHANGED <<releases, maker>>
          /\ At \in Path /\ Head(todo).call = "patch" /\ new[At] \in Content
      BY <1>7, PutFacts DEF put_patch_add
    <2>2. CASE Declined /\ PassOver
      BY <2>1, <2>2, DeclinedKeeps
    <2>3. CASE Adding(TRUE) /\ todo' = Tail(todo)
      BY <1>3, <2>1, <2>3
    <2> QED BY <1>7, <2>2, <2>3 DEF put_patch_add
  <1>8. CASE put_patch
    <2>1. /\ maker = "run" /\ todo # << >> /\ UNCHANGED <<releases, maker>>
          /\ At \in Path /\ Head(todo).call = "patch"
          /\ old[At] \in Content /\ new[At] \in Content
      BY <1>8, PutFacts DEF put_patch
    <2>2. CASE Declined /\ PassOver
      BY <2>1, <2>2, DeclinedKeeps
    <2>3. CASE /\ todo' = Tail(todo)
               /\ \E c \in Delta(new[At]), sums \in Sums :
                     Emit([Patch(At, sums[1], sums[2]) EXCEPT !.data = c])
      <3>1. PICK c \in Delta(new[At]), sums \in Sums :
                     Emit([Patch(At, sums[1], sums[2]) EXCEPT !.data = c])
        BY <2>3
      <3>5. /\ sums[1] \in Content /\ sums[2] \in Content
            /\ sums[2] = new[At] \/ ~TrueSums
        BY <2>1, <3>1, SumsFacts
      <3> DEFINE x == [Patch(At, sums[1], sums[2]) EXCEPT !.data = c]
      <3>2. c \in File /\ Emit(x)
        BY <1>1, <2>1, <3>1
      <3>4. x \in {[Add(At, sums[2]) EXCEPT !.data = c], [Replace(At, sums[2]) EXCEPT !.data = c],
                   [Patch(At, sums[1], sums[2]) EXCEPT !.data = c]}
        OBVIOUS
      <3> HIDE DEF x
      <3>3. /\ x \in Operation /\ WellFormed(x) /\ x.op # "DONE"
            /\ Footprint(x) = {At} /\ (Outcome(x) = new[At] \/ ~TrueSums)
        BY <2>1, <3>2, <3>4, <3>5, FileForms
      <3> QED BY <1>2, <2>1, <2>3, <3>2, <3>3
    <2> QED BY <1>8, <2>2, <2>3 DEF put_patch
  <1> QED BY <1>5, <1>6, <1>7, <1>8

(* DONE is written last, and whatever was owed has been written before. *)
LEMMA DoneKeeps ==
    ASSUME CInv, put_done
    PROVE  CInv'
  <1>1. /\ maker = "run" /\ maker' \in {"done", "unclosed"} /\ todo = << >> /\ todo' = << >>
        /\ making' = making /\ old' = old /\ new' = new
        /\ out' = Append(out, Done)
    BY DEF put_done, releases, Emit
  <1>2. /\ Done \in Operation /\ WellFormed(Done) /\ Done.op = "DONE" /\ Footprint(Done) = {}
    BY DEF Done, Delete, Operation, OperationType, WellFormed, Footprint
  <1>3. out \in Seq(Operation) /\ \A n \in DOMAIN out : WellFormed(out[n]) /\ out[n].op # "DONE"
    BY <1>1 DEF CInv, CTypeOK, Finished
  <1>4. /\ out' \in Seq(Operation) /\ Len(out) \in Nat /\ DOMAIN out = 1..Len(out)
        /\ DOMAIN out' = 1..(Len(out) + 1) /\ Len(out') = Len(out) + 1
        /\ \A n \in 1..Len(out) : out'[n] = out[n]
        /\ out'[Len(out) + 1] = Done
    BY <1>1, <1>2, <1>3
  <1>5. \A n \in 1..(Len(out) + 1) : n = Len(out) + 1 \/ (n \in 1..Len(out) /\ n # Len(out) + 1)
    BY <1>4
  <1>6. CTypeOK'
    <2>1. \A n \in DOMAIN out' : WellFormed(out'[n])
      BY <1>2, <1>3, <1>4, <1>5
    <2>2. \A n \in DOMAIN out' : out'[n].op = "DONE" <=> (Finished' /\ n = Len(out'))
      BY <1>1, <1>2, <1>3, <1>4, <1>5 DEF Finished
    <2> QED BY <1>1, <1>4, <2>1, <2>2 DEF CInv, CTypeOK, Finished
  <1>7. \A q \in Path : Owed(Append(out, Done), << >>, q)
    BY <1>1, <1>2, <1>3, OwedAfter DEF CInv, Progress
  <1>8. \A q \in Path : Owed(out, todo, q)'
    <2>1. PICK s : s = todo'
      OBVIOUS
    <2>2. \A q \in Path : Owed(out', s, q)
      BY <1>1, <1>7, <2>1
    <2>3. PICK o : o = out'
      OBVIOUS
    <2>4. \A q \in Path : Owed(o, s, q)'
      <3> SUFFICES ASSUME NEW q \in Path
                   PROVE  Owed(o, s, q)'
        OBVIOUS
      <3>1. Owed(o, s, q)
        BY <2>2, <2>3
      <3> QED BY <1>1, <3>1 DEF Owed, Leaves, CoveredBy, Covers, Whole, SameKinds, TrueSums, Footprint,
                                Outcome, Below, Under
    <2>5. \A q \in Path : Owed(out, s, q)'
      BY <2>3, <2>4 DEF Owed, Leaves, CoveredBy, Covers, Whole, SameKinds, TrueSums, Footprint,
                        Outcome, Below, Under
    <2> QED BY <2>1, <2>5
  <1>9. AllFine(todo)'
    BY <1>1 DEF AllFine
  <1> QED BY <1>1, <1>6, <1>8, <1>9 DEF CInv, Progress

(* The bytes behind the last operation may be cut short. *)
LEMMA FailKeeps ==
    ASSUME CInv, CreateFail
    PROVE  CInv'
  <1>1. /\ maker = "run" /\ maker' = "failed" /\ todo' = << >>
        /\ making' = making /\ old' = old /\ new' = new
    BY DEF CreateFail, releases
  <1>2. out \in Seq(Operation) /\ \A n \in DOMAIN out : WellFormed(out[n]) /\ out[n].op # "DONE"
    BY <1>1 DEF CInv, CTypeOK, Finished
  <1>3. /\ out' \in Seq(Operation)
        /\ \A n \in DOMAIN out' : WellFormed(out'[n]) /\ out'[n].op # "DONE"
    <2>1. CASE out' = out
      BY <1>2, <2>1
    <2>2. CASE /\ out # << >>
               /\ out[Len(out)].op \in {"ADD", "REPLACE", "PATCH"}
               /\ out' = [out EXCEPT ![Len(out)].data = Partial]
      <3> DEFINE m == Len(out)
                 x == [out[m] EXCEPT !.data = Partial]
      <3>1. m \in DOMAIN out /\ DOMAIN out = 1..m
        BY <1>2, <2>2
      <3>2. out[m] \in Operation /\ WellFormed(out[m])
        BY <1>2, <3>1
      <3>3. x \in Operation /\ WellFormed(x) /\ x.op # "DONE"
        <4> HIDE DEF m
        <4> QED BY <2>2, <3>2, NodeFacts DEF Operation, WellFormed, m
      <3>4. out' = [out EXCEPT ![m] = x]
        BY <2>2
      <3> HIDE DEF x, m
      <3> QED BY <1>2, <3>1, <3>3, <3>4
    <2> QED BY <2>1, <2>2 DEF CreateFail
  <1>4. CTypeOK'
    BY <1>1, <1>3 DEF CInv, CTypeOK, Finished
  <1> QED BY <1>1, <1>4 DEF CInv, AllFine, Progress

LEMMA CreateStepInv ==
    ASSUME CInv, [CreateStep]_cvars
    PROVE  CInv'
  <1>1. CASE UNCHANGED cvars
    <2>1. /\ making' = making /\ old' = old /\ new' = new
          /\ out' = out /\ todo' = todo /\ maker' = maker
      BY <1>1 DEF cvars
    <2>2. CTypeOK'
      BY <2>1 DEF CInv, CTypeOK, WellFormed, Finished
    <2>3. PICK s : s = todo
      OBVIOUS
    <2>4. AllFine(s)'
      BY <2>1, <2>3 DEF CInv, AllFine, Fine, Nobody
    <2>5. ASSUME maker # "failed", NEW q \in Path
          PROVE  Owed(out, s, q)'
      <3>1. Owed(out', s, q)
        BY <2>1, <2>3, <2>5 DEF CInv, Progress
      <3> QED BY <2>1, <3>1 DEF Owed, Leaves, CoveredBy, Covers, Whole, SameKinds, TrueSums, Footprint,
                                Outcome, Below, Under
    <2> QED BY <2>1, <2>2, <2>3, <2>4, <2>5 DEF CInv, Progress
  <1> QED BY <1>1, DeletionsKeep, AdditionsKeep, WholeDirKeeps, EndOfListKeeps, PutKeeps,
             FilePutKeeps, DoneKeeps, FailKeeps DEF CreateStep, Compare, PutOp

LEMMA CreateInitInv == CreateInit => CInv
  <1> SUFFICES ASSUME CreateInit
               PROVE  CInv
    OBVIOUS
  <1>1. /\ making \in Makings /\ out = << >> /\ maker = "run"
        /\ todo = compare_directories(Root)
        /\ \E r \in making.releases : old = r[1] /\ new = r[2]
    BY DEF CreateInit
  <1>2. <<old, new>> \in making.releases
    <2>1. making.releases \subseteq Tree \X Tree
      BY <1>1, MakingsAssumption DEF Making
    <2>2. PICK r \in making.releases : old = r[1] /\ new = r[2]
      BY <1>1
    <2>3. r = <<r[1], r[2]>>
      BY <2>1
    <2> QED BY <2>2, <2>3
  <1>3. compare_directories(Root) \in Seq(CallOf)
    BY TwoCalls
  <1>4. CTypeOK
    BY <1>1, <1>2, <1>3 DEF CTypeOK, CallOf
  <1>5. AllFine(todo)
    BY <1>1, <1>4, CompareFine
  <1>6. ASSUME NEW q \in Path
        PROVE  Owed(out, todo, q)
    <2>1. \A v : v = old[q] => Leaves(out, q, v)
      BY <1>1 DEF Leaves
    <2>2. q \notin DSStore /\ old[q] # new[q] => CoveredBy(todo, q)
      BY <1>1, <1>4, CompareCovers
    <2> QED BY <2>1, <2>2 DEF Owed
  <1> QED BY <1>1, <1>4, <1>5, <1>6 DEF CInv, Progress
----------------------------------------------------------------------------
(* The application of the archive, to the product and again.                 *)

(* The archive is applied without --confirm and --ignore, and the handlers tell
   of what goes wrong. *)
AsIs == ~Interactive /\ Ignored = {} /\ Honest

(* What is applied is the archive, and to its end. *)
ApplyShape ==
    /\ maker = "run" => pc = "idle" /\ fs = old
    /\ pc # "idle" => ops = out /\ ~infoOnly
    /\ declined = {}
    /\ pc = "success" => /\ Len(ops) > 0 /\ ops[Len(ops)].op = "DONE"
                         /\ i = Len(ops) + 1

(* Nothing ever happens to a path of which the archive says nothing. *)
Untouched ==
    \A q \in Path : (\A m \in DOMAIN out : q \notin Footprint(out[m]))
                        => fs[q] = old[q] /\ (pc # "idle" => start[q] = old[q])

RTInv == CInv /\ StepInv /\ NothingElse /\ OpsSettled /\ ApplyShape /\ Untouched

LEMMA RTInitInv ==
    ASSUME RTInit
    PROVE  RTInv
  <1>1. CInv
    BY CreateInitInv DEF RTInit
  <1>2. old \in [Path -> Node] /\ IsTree(old)
    BY <1>1, Releases, NodeFacts DEF CInv, Node
  <1>3. /\ fs = old /\ ops = << >> /\ tmp = Absent /\ tmp2 = Absent /\ i = 1 /\ pc = "idle"
        /\ wd = Root /\ infoOnly = FALSE /\ declined = {} /\ start = fs /\ maker = "run"
    BY DEF RTInit, CreateInit
  <1>4. pc \notin Working /\ pc # "deltree" /\ pc # "success"
    BY <1>3 DEF Working, DeletePc, AddPc, PatchPc, RenamePc
  <1>5. WellMade(ops) /\ i \in 1..(Len(ops) + 1) /\ declined \subseteq 1..(i - 1)
    BY <1>3 DEF WellMade
  <1>6. infoOnly \in BOOLEAN /\ wd \in Path \cup {Root}
    BY <1>3, Zenon
  <1>7. TypeOK
    BY <1>2, <1>3, <1>4, <1>5, <1>6 DEF TypeOK
  <1>8. OpShape /\ DiskShape
    BY <1>3, <1>4 DEF OpShape, DiskShape, AddPc, PatchPc, RenamePc
  <1>9. NothingElse /\ OpsSettled /\ ApplyShape /\ Untouched
    BY <1>3, <1>4 DEF NothingElse, OpsSettled, ApplyShape, Untouched
  <1> QED BY <1>1, <1>7, <1>8, <1>9 DEF RTInv, StepInv

(* A step of create_patchfile, while nothing is applied. *)
LEMMA CreateKeeps ==
    ASSUME AsIs, RTInv, CreateStep, UNCHANGED vars
    PROVE  RTInv'
  <1>1. CInv'
    BY CreateStepInv DEF RTInv
  <1>2. StepInv' /\ NothingElse' /\ OpsSettled'
    BY NextStepInv, NothingElseStep, OpsSettledStep DEF RTInv, AsIs
  <1>3. maker = "run" /\ UNCHANGED releases
    BY DEF CreateStep, Compare, EndOfList, PutOp, CreateFail, OldKept, OldFileGone, OldDirGone,
           SkipDSStore, BothDirs, FileToDir, DirToFile, BothFiles, NewDir, NewFile, NewEntry,
           WholeDirEntry, put_delete, put_delete_dir, put_add, put_add_dir, put_patch_same,
           put_patch_add, put_patch, put_done, Running
  <1>4. pc = "idle" /\ fs = old /\ declined = {}
    BY <1>3 DEF RTInv, ApplyShape
  <1>5. pc' = "idle" /\ fs' = old' /\ declined' = {}
    BY <1>3, <1>4 DEF vars, releases
  <1>6. ApplyShape' /\ Untouched'
    BY <1>5 DEF ApplyShape, Untouched
  <1> QED BY <1>1, <1>2, <1>6 DEF RTInv

(* An archive is as do_patch_operations expects one. *)
LEMMA OutIsWellMade ==
    ASSUME CTypeOK
    PROVE  WellMade(out)
  BY DEF CTypeOK, WellMade

(* No operation is passed over, and success is told of DONE only. *)
LEMMA ApplyKeepsShape ==
    ASSUME AsIs, RTInv, OpStep, UNCHANGED cvars
    PROVE  ApplyShape' /\ pc # "idle" /\ pc' # "idle" /\ ops' = ops /\ start' = start
  <1>1. /\ Shaped
        /\ pc # "idle" /\ pc' # "idle" /\ ops' = ops /\ start' = start
    BY StepShape DEF RTInv, Shaped, FetchShape, WorkShape, SkipShape, ReturnShape, Working,
                     DeletePc, AddPc, PatchPc, RenamePc
  <1>2. ~infoOnly /\ ~infoOnly'
    BY <1>1, InfoOnlyIsKept DEF RTInv, ApplyShape
  <1>3. declined' = {}
    <2>1. ~SkipOp
      BY <1>2 DEF AsIs, SkipOp
    <2> QED BY <2>1, OnlySkipDeclines DEF RTInv, ApplyShape
  <1>4. ASSUME pc' = "success"
        PROVE  Len(ops) > 0 /\ ops[Len(ops)].op = "DONE" /\ i' = Len(ops) + 1
    <2>1. pc \in Working /\ Op.op = "DONE" /\ i' = i + 1
      BY <1>1, <1>4 DEF Shaped, FetchShape, WorkShape, SkipShape, ReturnShape, Working, DeletePc,
                        AddPc, PatchPc, RenamePc
    <2>2. i \in 1..Len(ops) /\ WellMade(ops)
      BY <2>1 DEF RTInv, StepInv, TypeOK
    <2>3. i = Len(ops) /\ Len(ops) > 0
      BY <2>1, <2>2 DEF WellMade, Op
    <2> QED BY <2>1, <2>3 DEF Op
  <1>5. maker # "run" /\ ops = out /\ maker' = maker /\ out' = out
    BY <1>1 DEF RTInv, ApplyShape, cvars
  <1> QED BY <1>1, <1>2, <1>3, <1>4, <1>5 DEF ApplyShape

LEMMA ApplyKeeps ==
    ASSUME AsIs, RTInv, ApplyIt \/ Apply \/ Killed
    PROVE  RTInv'
  <1>1. CInv' /\ making' = making /\ old' = old /\ new' = new /\ out' = out /\ maker' = maker
    BY CreateStepInv DEF RTInv, ApplyIt, Apply, Killed, cvars
  <1>2. AnyStep
    BY OutIsWellMade DEF AnyStep, Entered, ApplyIt, Apply, Killed, RTInv, CInv
  <1>3. StepInv' /\ NothingElse' /\ OpsSettled'
    BY <1>2, NextStepInv, NothingElseStep, OpsSettledStep DEF RTInv, AsIs
  <1>4. \A m : Footprint(out[m])' = Footprint(out[m])
    BY <1>1 DEF Footprint
  <1>5. CASE ApplyIt
    <2>1. /\ pc = "idle" /\ pc' = "fetch" /\ ops' = out /\ infoOnly' = FALSE /\ start' = fs
          /\ fs' = fs /\ declined' = {} /\ maker # "run"
      BY <1>5 DEF ApplyIt, Enter, RTInv, ApplyShape
    <2>2. ApplyShape'
      BY <1>1, <2>1 DEF ApplyShape
    <2>3. Untouched'
      BY <1>1, <1>4, <2>1 DEF RTInv, Untouched
    <2> QED BY <1>1, <1>3, <2>2, <2>3 DEF RTInv
  <1>6. CASE (Exit \/ Crash) /\ UNCHANGED cvars
    <2>1. pc # "idle" /\ pc' = "idle" /\ fs' = fs /\ declined' = {}
      BY <1>6 DEF Exit, Crash, Program, Working, DeletePc, AddPc, PatchPc, RenamePc
    <2>2. ApplyShape'
      BY <1>1, <2>1 DEF RTInv, ApplyShape
    <2>3. Untouched'
      BY <1>1, <1>4, <2>1 DEF RTInv, Untouched
    <2> QED BY <1>1, <1>3, <2>2, <2>3 DEF RTInv
  <1>7. CASE OpStep /\ UNCHANGED cvars
    <2>1. ApplyShape' /\ pc # "idle" /\ pc' # "idle" /\ ops' = ops /\ start' = start
      BY <1>7, ApplyKeepsShape
    <2>2. ops' = out /\ Performed' \cup InHand' \subseteq DOMAIN out
      <3>1. ops' = out
        BY <2>1 DEF RTInv, ApplyShape
      <3>2. i' \in 1..(Len(ops') + 1) /\ DOMAIN ops' = 1..Len(ops') /\ Len(ops') \in Nat
        BY <1>3 DEF StepInv, TypeOK, WellMade
      <3>3. Performed' \subseteq 1..Len(ops')
        BY <3>2 DEF Performed
      <3>4. InHand' \subseteq DOMAIN ops'
        BY DEF InHand
      <3> QED BY <3>1, <3>2, <3>3, <3>4
    <2>3. ASSUME NEW q \in Path, \A m \in DOMAIN out : q \notin Footprint(out[m])
          PROVE  fs'[q] = old[q] /\ start'[q] = old[q]
      <3>1. start'[q] = old[q]
        BY <2>1, <2>3 DEF RTInv, Untouched
      <3>2. \A m \in Performed' \cup InHand' : q \notin Footprint(ops[m])'
        BY <1>1, <1>4, <2>1, <2>2, <2>3
      <3>3. fs'[q] = start'[q]
        BY <1>3, <2>1, <2>3, <3>2 DEF NothingElse
      <3> QED BY <3>1, <3>3
    <2>4. Untouched'
      BY <1>1, <1>4, <2>3 DEF Untouched
    <2> QED BY <1>1, <1>3, <2>1, <2>4 DEF RTInv
  <1> QED BY <1>5, <1>6, <1>7 DEF Apply, ApplyIt, Killed

LEMMA RTStepInv ==
    ASSUME AsIs, RTInv, [RTNext \/ Killed]_rvars
    PROVE  RTInv'
  <1>1. CASE UNCHANGED rvars
    <2>1. UNCHANGED cvars /\ UNCHANGED vars
      BY <1>1 DEF rvars
    <2>2. CInv'
      BY <2>1, CreateStepInv DEF RTInv
    <2>3. StepInv' /\ NothingElse' /\ OpsSettled'
      BY <2>1, NextStepInv, NothingElseStep, OpsSettledStep DEF RTInv, AsIs
    <2>4. ApplyShape' /\ Untouched'
      BY <2>1 DEF RTInv, ApplyShape, Untouched, cvars, vars, Footprint
    <2> QED BY <2>2, <2>3, <2>4 DEF RTInv
  <1> QED BY <1>1, CreateKeeps, ApplyKeeps DEF RTNext, Create

LEMMA AlwaysRTInv ==
    ASSUME AsIs
    PROVE  RTSpec => []RTInv
  <1>1. RTInv /\ [RTNext \/ Killed]_rvars => RTInv'
    BY RTStepInv
  <1> QED BY <1>1, RTInitInv, PTL DEF RTSpec

----------------------------------------------------------------------------
(* The theorems. *)

(* An archive applied to the end leaves in the product what it says. *)
LEMMA AppliedToTheEnd ==
    ASSUME RTInv, pc = "success", NEW q \in Path
    PROVE  /\ Finished /\ todo = << >>
           /\ \A v : Leaves(out, q, v) => fs[q] = v
           /\ Owed(out, << >>, q)
  <1>1. /\ ops = out /\ declined = {} /\ Len(ops) > 0 /\ ops[Len(ops)].op = "DONE"
        /\ i = Len(ops) + 1
    BY DEF RTInv, ApplyShape
  <1>2. out \in Seq(Operation) /\ Len(out) \in DOMAIN out
    BY <1>1 DEF RTInv, CInv, CTypeOK, Finished
  <1>3. Finished /\ todo = << >>
    BY <1>1, <1>2 DEF RTInv, CInv, CTypeOK, Finished
  <1>4. Performed = DOMAIN out /\ InHand = {}
    <2>1. DOMAIN out = 1..Len(out) /\ Len(out) \in Nat
      BY <1>2
    <2>2. Performed = 1..Len(out)
      BY <1>1, <2>1 DEF Performed
    <2>3. InHand = {}
      BY DEF InHand, Working, DeletePc, AddPc, PatchPc, RenamePc
    <2> QED BY <2>1, <2>2, <2>3
  <1>5. ASSUME NEW v, Leaves(out, q, v)
        PROVE  fs[q] = v
    <2>1. CASE v = old[q] /\ \A m \in DOMAIN out : q \notin Footprint(out[m])
      BY <2>1 DEF RTInv, Untouched
    <2>2. CASE \E m \in DOMAIN out : /\ q \in Footprint(out[m]) /\ v = Outcome(out[m])
                                     /\ \A n \in DOMAIN out : n > m => q \notin Footprint(out[n])
      <3>1. PICK m \in DOMAIN out : /\ q \in Footprint(out[m]) /\ v = Outcome(out[m])
                                    /\ \A n \in DOMAIN out : n > m => q \notin Footprint(out[n])
        BY <2>2
      <3>2. LastWord(Performed \cup InHand, m, q)
        BY <1>1, <1>4, <3>1 DEF LastWord
      <3> QED BY <1>1, <1>4, <3>1, <3>2 DEF RTInv, OpsSettled
    <2> QED BY <1>5, <2>1, <2>2 DEF Leaves
  <1>6. Owed(out, << >>, q)
    BY <1>3 DEF RTInv, CInv, Progress, Finished
  <1> QED BY <1>3, <1>5, <1>6

(* compare_directories and the put_* functions write well-formed operations, and
   DONE at the end of a finished archive only; whatever the options, and whatever
   fails. *)
THEOREM CreatesTypeCorrect == RTSpec => []CTypeOK
  <1>1. RTInit => CInv
    BY CreateInitInv DEF RTInit
  <1>2. CInv /\ [RTNext \/ Killed]_rvars => CInv'
    <2>1. [RTNext \/ Killed]_rvars => [CreateStep]_cvars
      BY DEF RTNext, Create, ApplyIt, Apply, Killed, rvars
    <2> QED BY <2>1, CreateStepInv
  <1>3. CInv => CTypeOK
    BY DEF CInv
  <1> QED BY <1>1, <1>2, <1>3, PTL DEF RTSpec

(* What the patch is for: whichever the two releases are, an archive made without
   leaving anything out, and applied to the end, makes of the one the other. *)
THEOREM MakesIt ==
    ASSUME AsIs
    PROVE  RTSpec => []MakesTheNewRelease
  <1>1. RTInv => MakesTheNewRelease
    <2> SUFFICES ASSUME RTInv, Complete, pc = "success", NEW q \in Path \ DSStore
                 PROVE  fs[q] = new[q]
      BY DEF MakesTheNewRelease
    <2>1. Whole /\ TrueSums
      BY DEF Complete, Whole, TrueSums
    <2>2. ~CoveredBy(<< >>, q)
      BY DEF CoveredBy
    <2>3. Leaves(out, q, new[q])
      BY <2>1, <2>2, AppliedToTheEnd DEF Owed
    <2> QED BY <2>3, AppliedToTheEnd
  <1> QED BY <1>1, AlwaysRTInv, PTL

(* Whatever was left out and whatever went wrong, an archive that is applied to the
   end is a whole one, and each path is as one of the two releases has it. *)
THEOREM OneOfTheTwo ==
    ASSUME AsIs
    PROVE  RTSpec => []OldOrNew
  <1>1. RTInv => OldOrNew
    <2> SUFFICES ASSUME RTInv, pc = "success"
                 PROVE  /\ Finished
                        /\ SameKinds /\ TrueSums => \A q \in Path \ DSStore : fs[q] \in {old[q], new[q]}
      BY DEF OldOrNew
    <2>1. Len(ops) > 0 /\ ops[Len(ops)].op = "DONE" /\ ops = out
      BY DEF RTInv, ApplyShape
    <2>2. out \in Seq(Operation) /\ Len(out) \in DOMAIN out
      BY <2>1 DEF RTInv, CInv, CTypeOK, Finished
    <2>3. Finished
      BY <2>1, <2>2 DEF RTInv, CInv, CTypeOK, Finished
    <2>4. ASSUME SameKinds, TrueSums, NEW q \in Path
          PROVE  fs[q] \in {old[q], new[q]}
      <3>1. Leaves(out, q, old[q]) \/ Leaves(out, q, new[q])
        BY <2>4, AppliedToTheEnd DEF Owed
      <3> QED BY <3>1, AppliedToTheEnd
    <2> QED BY <2>3, <2>4
  <1> QED BY <1>1, AlwaysRTInv, PTL
----------------------------------------------------------------------------
(* What each operation of the archive means, in terms of the two releases, and  *)
(* why none of them has anything to do in a product that is the newer one.     *)

Means(o) ==
    /\ o.op \in {"DELETE", "DELETEDIRECTORY"} => new[o.fname] = Absent \/ ~SameKinds
    /\ o.op = "DELETEDIRECTORY" => old[o.fname] = Dir
    /\ o.op = "ADDDIRECTORY" => new[o.fname] = Dir
    /\ o.op \in {"ADD", "REPLACE", "PATCH"} /\ TrueSums => o.md5_2 = new[o.fname]
    /\ o.op = "PATCH" /\ TrueSums => o.md5_1 # o.md5_2
    /\ o.op = "REPLACE" => making.replace \/ making.alwaysadd

Meant == \A n \in DOMAIN out : Means(out[n])

LEMMA MeansStill ==
    ASSUME UNCHANGED releases, NEW o, Means(o)
    PROVE  Means(o)'
  <1>1. making' = making /\ old' = old /\ new' = new
    BY DEF releases
  <1> QED BY <1>1 DEF Means, SameKinds, TrueSums

LEMMA MeantGrows ==
    ASSUME Meant, UNCHANGED releases, out \in Seq(Operation), NEW x \in Operation, Means(x),
           out' = Append(out, x)
    PROVE  Meant'
  <1>1. /\ Len(out) \in Nat /\ DOMAIN out = 1..Len(out)
        /\ DOMAIN out' = 1..(Len(out) + 1)
        /\ \A n \in 1..Len(out) : out'[n] = out[n]
        /\ out'[Len(out) + 1] = x
    OBVIOUS
  <1>2. PICK u : u = out'
    OBVIOUS
  <1>3. \A n \in DOMAIN u : Means(u[n])
    <2>1. \A n \in 1..(Len(out) + 1) : n \in 1..Len(out) \/ n = Len(out) + 1
      BY <1>1
    <2> QED BY <1>1, <1>2, <2>1 DEF Meant
  <1>4. \A n \in DOMAIN u : Means(u[n])'
    BY <1>3, MeansStill
  <1> QED BY <1>2, <1>4 DEF Meant

(* What the put_* functions write. *)
LEMMA PutMeans ==
    ASSUME CInv, Meant, PutOp
    PROVE  Meant'
  <1>1. UNCHANGED releases /\ out \in Seq(Operation) /\ CTypeOK
    BY DEF CInv, CTypeOK, PutOp, put_delete, put_delete_dir, put_add, put_add_dir, put_patch_same,
           put_patch_add, put_patch, put_done, Running
  <1>2. CASE out' = out
    <2>1. PICK u : u = out
      OBVIOUS
    <2>2. \A n \in DOMAIN u : Means(u[n])'
      BY <1>1, <2>1, MeansStill DEF Meant
    <2> QED BY <1>2, <2>1, <2>2 DEF Meant
  <1>3. CASE put_delete
    <2>1. At \in Path /\ (new[At] # Absent => old[At] \in Content /\ new[At] = Dir)
      BY <1>3, PutFacts DEF put_delete
    <2>2. new[At] # Absent => ~SameKinds
      BY <1>1, <2>1, NotTheSameKinds
    <2>3. Means(Delete(At)) /\ Delete(At) \in Operation
      BY <2>1, <2>2, OperationForms DEF Means, Delete
    <2> QED BY <1>1, <1>2, <1>3, <2>3, MeantGrows DEF put_delete, PassOver, Emit
  <1>4. CASE put_delete_dir
    <2>1. At \in Path /\ old[At] = Dir /\ (new[At] # Absent => new[At] \in Content)
      BY <1>4, PutFacts DEF put_delete_dir
    <2>2. new[At] # Absent => ~SameKinds
      BY <1>1, <2>1, NotTheSameKinds
    <2>3. Means(DeleteDir(At)) /\ DeleteDir(At) \in Operation
      BY <2>1, <2>2, OperationForms DEF Means, DeleteDir, Delete
    <2> QED BY <1>1, <1>2, <1>4, <2>3, MeantGrows DEF put_delete_dir, PassOver, Emit
  <1>5. CASE put_add_dir
    <2>1. At \in Path /\ new[At] = Dir
      BY <1>5, PutFacts DEF put_add_dir
    <2>2. Means(AddDir(At)) /\ AddDir(At) \in Operation
      BY <2>1, OperationForms DEF Means, AddDir, Delete
    <2> QED BY <1>1, <1>2, <1>5, <2>2, MeantGrows DEF put_add_dir, PassOver, Emit
  <1>6. \A c \in Content : Copied(c) \subseteq File /\ Delta(c) \subseteq File
    BY NodeFacts DEF Copied, Delta
  <1>7. ASSUME At \in Path, new[At] \in Content, NEW b \in BOOLEAN,
               b => making.replace \/ making.alwaysadd, Adding(b)
        PROVE  Meant'
    <2>1. PICK c \in Copied(new[At]) :
              Emit([(IF b THEN Replace(At, new[At]) ELSE Add(At, new[At])) EXCEPT !.data = c])
      BY <1>7 DEF Adding
    <2>2. c \in File
      BY <1>6, <1>7, <2>1
    <2> DEFINE r == [Replace(At, new[At]) EXCEPT !.data = c]
               a == [Add(At, new[At]) EXCEPT !.data = c]
    <2>3. r \in Operation /\ a \in Operation
      BY <1>7, <2>2, FileForms
    <2>4. Means(a) /\ (b => Means(r))
      BY <1>7 DEF Means, Add, Replace, Delete
    <2>5. Emit(IF b THEN r ELSE a)
      BY <2>1
    <2> HIDE DEF r, a
    <2> QED BY <1>1, <2>3, <2>4, <2>5, MeantGrows DEF Emit
  <1>8. making.replace \in BOOLEAN
    BY <1>1, Releases
  <1>9. CASE put_add
    <2>1. At \in Path /\ new[At] \in Content
      BY <1>9, PutFacts DEF put_add
    <2>2. out' = out \/ Adding(making.replace)
      BY <1>9 DEF put_add, PassOver
    <2> QED BY <1>2, <1>7, <1>8, <2>1, <2>2
  <1>10. CASE put_patch_add
    <2>1. At \in Path /\ new[At] \in Content
      BY <1>10, PutFacts DEF put_patch_add
    <2>2. (out' = out \/ Adding(TRUE)) /\ making.alwaysadd
      BY <1>10 DEF put_patch_add, PassOver
    <2> QED BY <1>2, <1>7, <2>1, <2>2
  <1>11. CASE put_patch
    <2>1. At \in Path /\ new[At] \in Content /\ old[At] \in Content
      BY <1>11, PutFacts DEF put_patch
    <2>2. CASE \E c \in Delta(new[At]), sums \in Sums :
                   Emit([Patch(At, sums[1], sums[2]) EXCEPT !.data = c])
      <3>1. PICK c \in Delta(new[At]), sums \in Sums :
                   Emit([Patch(At, sums[1], sums[2]) EXCEPT !.data = c])
        BY <2>2
      <3>6. /\ sums[1] \in Content /\ sums[2] \in Content
            /\ sums = <<old[At], new[At]>> \/ ~TrueSums
        BY <2>1, <3>1, SumsFacts
      <3>7. TrueSums => old[At] # new[At]
        BY <1>11 DEF put_patch, Differ, TrueSums
      <3>2. c \in File
        BY <1>6, <2>1, <3>1
      <3> DEFINE x == [Patch(At, sums[1], sums[2]) EXCEPT !.data = c]
      <3>3. x \in Operation
        BY <2>1, <3>2, <3>6, FileForms
      <3>8. /\ x.op = "PATCH" /\ x.fname = At /\ x.md5_1 = sums[1] /\ x.md5_2 = sums[2]
        BY DEF Patch, Add, Delete
      <3>4. Means(x)
        <4> HIDE DEF x
        <4> QED BY <3>6, <3>7, <3>8 DEF Means
      <3>5. Emit(x)
        BY <3>1
      <3> HIDE DEF x
      <3> QED BY <1>1, <3>3, <3>4, <3>5, MeantGrows DEF Emit
    <2> QED BY <1>2, <1>11, <2>2 DEF put_patch, PassOver
  <1>12. CASE put_done
    <2>1. Means(Done) /\ Done \in Operation
      BY DEF Means, Done, Delete, Operation, OperationType
    <2> QED BY <1>1, <1>12, <2>1, MeantGrows DEF put_done, Emit
  <1> QED BY <1>2, <1>3, <1>4, <1>5, <1>9, <1>10, <1>11, <1>12 DEF PutOp, put_patch_same, PassOver

LEMMA MeantStep ==
    ASSUME CInv, Meant, [CreateStep]_cvars
    PROVE  Meant'
  <1>1. UNCHANGED releases
    BY DEF CreateStep, Compare, EndOfList, PutOp, CreateFail, OldKept, OldFileGone, OldDirGone,
           SkipDSStore, BothDirs, FileToDir, DirToFile, BothFiles, NewDir, NewFile, NewEntry,
           WholeDirEntry, put_delete, put_delete_dir, put_add, put_add_dir, put_patch_same,
           put_patch_add, put_patch, put_done, Running, cvars, releases
  <1>2. CASE UNCHANGED cvars \/ Compare \/ EndOfList
    <2>1. out' = out
      BY <1>2 DEF Compare, EndOfList, OldKept, OldFileGone, OldDirGone, SkipDSStore, BothDirs,
                  FileToDir, DirToFile, BothFiles, NewDir, NewFile, WholeDirEntry, Entry, cvars
    <2>2. PICK u : u = out
      OBVIOUS
    <2>3. \A n \in DOMAIN u : Means(u[n])'
      BY <1>1, <2>2, MeansStill DEF Meant
    <2> QED BY <2>1, <2>2, <2>3 DEF Meant
  <1>3. CASE CreateFail
    <2>1. out \in Seq(Operation)
      BY DEF CInv, CTypeOK, Finished
    <2>2. DOMAIN out' = DOMAIN out /\ \A n \in DOMAIN out :
              /\ out'[n].op = out[n].op /\ out'[n].fname = out[n].fname
              /\ out'[n].md5_1 = out[n].md5_1 /\ out'[n].md5_2 = out[n].md5_2
      <3>1. CASE out' = out
        BY <3>1
      <3>2. CASE out # << >> /\ out' = [out EXCEPT ![Len(out)].data = Partial]
        <4>1. PICK m : m = Len(out)
          OBVIOUS
        <4>2. m \in DOMAIN out /\ out[m] \in Operation
          BY <2>1, <3>2, <4>1
        <4>3. out' = [out EXCEPT ![m] = [out[m] EXCEPT !.data = Partial]]
          BY <3>2, <4>1
        <4>4. PICK x : x = [out[m] EXCEPT !.data = Partial]
          OBVIOUS
        <4>5. /\ x.op = out[m].op /\ x.fname = out[m].fname
              /\ x.md5_1 = out[m].md5_1 /\ x.md5_2 = out[m].md5_2
          BY <4>2, <4>4 DEF Operation
        <4>6. DOMAIN out' = DOMAIN out /\ \A n \in DOMAIN out : out'[n] = IF n = m THEN x ELSE out[n]
          BY <2>1, <4>2, <4>3, <4>4
        <4> QED BY <4>5, <4>6
      <3> QED BY <1>3, <3>1, <3>2 DEF CreateFail
    <2>3. PICK u : u = out'
      OBVIOUS
    <2>4. \A n \in DOMAIN u : Means(u[n])
      BY <2>2, <2>3 DEF Meant, Means
    <2>5. \A n \in DOMAIN u : Means(u[n])'
      BY <1>1, <2>4, MeansStill
    <2> QED BY <2>3, <2>5 DEF Meant
  <1> QED BY <1>2, <1>3, PutMeans DEF CreateStep
\* The operation in hand has been carried out already.
AlreadySo ==
    /\ Op.op # "REPLACE"
    /\ Op.op \in {"DELETE", "DELETEDIRECTORY"} => fs[Target] = Absent
    /\ Op.op = "ADDDIRECTORY" => fs[Target] = Dir
    /\ Op.op \in {"ADD", "PATCH"} => fs[Target] = Op.md5_2
    /\ Op.op = "PATCH" => Op.md5_1 # Op.md5_2

LEMMA AlreadySoIsQuick ==
    ASSUME StepInv, OpStep, pc = "op", AlreadySo
    PROVE  fs' = fs /\ pc' \notin Working \ {"op"}
  <1> USE DEF Performing, Goto, Advance, Abort, Working, DeletePc, AddPc, PatchPc, RenamePc,
              file_exists, file_is_directory, AlreadySo
  <1>1. /\ Op \in Operation /\ WellFormed(Op) /\ (Op.op # "DONE" => Target \in Path)
        /\ fs \in [Path -> Node]
    BY OpFacts DEF StepInv, TypeOK
  <1>2. CASE LoopStep
    BY <1>2 DEF LoopStep, FetchOp, FetchFail, SkipOp, HandleDone
  <1>3. CASE DeleteStep
    <2>1. CASE HandleDelete
      BY <1>1, <2>1 DEF HandleDelete, Put
    <2>2. CASE ~HandleDelete
      BY <1>1, <1>3, <2>2, NodeFacts
         DEF DeleteStep, DeleteFail, HandleDelDirGone, HandleDelDir, DelDirFail, DelTreeRemove,
             DelTreeDescend, DelTreeRmdir, DelTreeFail
    <2> QED BY <2>1, <2>2
  <1>4. CASE AddStep
    BY <1>1, <1>4, NodeFacts
       DEF AddStep, AddAlreadyThere, AddConflict, AddMissing, ReplaceUnlink, AddOpen, AddOpenFail,
           AddWrite, AddWriteFail, AddVerify, AddVerifyFail, AddDirAlreadyThere, HandleAddDir,
           AddDirFail, WellFormed
  <1>5. CASE PatchStep
    BY <1>1, <1>5, NodeFacts
       DEF PatchStep, PatchVerifyOld, PatchAlreadyDone, PatchUnreadable, PatchMismatch, PatchDelta,
           PatchDeltaFail, PatchXdelta, PatchXdeltaFail, PatchCheck, PatchCheckFail
  <1>6. CASE RenameStep
    BY <1>6 DEF RenameStep, PatchUnlink, PatchRename, PatchRenameRefused, PatchCopyOpen,
                PatchCopyOpenFail, PatchCopyWrite, PatchCopyWriteFail
  <1> QED BY <1>2, <1>3, <1>4, <1>5, <1>6 DEF OpStep

(* A run that found the newer release. *)
Again == /\ ~making.replace /\ ~making.alwaysadd /\ SameKinds /\ TrueSums
         /\ pc # "idle" /\ \A p \in Path \ DSStore : start[p] = new[p]

(* It leaves the newer release alone; what it works on is a .DS_Store file, and
   that is never a directory. *)
Calm == Again => /\ \A p \in Path \ DSStore : fs[p] = new[p]
                 /\ pc \in Working \ {"op"} =>
                        Op.op # "DELETEDIRECTORY" /\ Target \in DSStore

CalmInv == /\ CInv /\ StepInv /\ Meant /\ Calm
           /\ maker = "run" => pc = "idle"
           /\ pc # "idle" => ops = out

LEMMA CalmStep ==
    ASSUME CalmInv, OpStep, Again
    PROVE  /\ \A p \in Path \ DSStore : fs'[p] = fs[p]
           /\ pc' \in Working \ {"op"} =>
                  Op.op # "DELETEDIRECTORY" /\ Target \in DSStore /\ Op' = Op
  <1>1. Shaped /\ TypeOK
    BY StepShape DEF CalmInv, StepInv
  <1>2. /\ \A p \in Path \ DSStore : fs[p] = new[p]
        /\ ops = out /\ Meant /\ CTypeOK
    BY DEF CalmInv, Calm, Again, CInv
  <1>3. CASE pc \notin Working
    BY <1>1, <1>3 DEF Shaped, FetchShape, WorkShape, SkipShape, ReturnShape, Working, DeletePc,
                      AddPc, PatchPc, RenamePc
  <1>4. ASSUME pc \in Working, Op.op # "DELETEDIRECTORY", Target \in DSStore
        PROVE  /\ \A p \in Path \ DSStore : fs'[p] = fs[p]
               /\ pc' \in Working \ {"op"} => Op' = Op
    <2>1. Footprint(Op) \subseteq DSStore
      BY <1>4 DEF Footprint, Target
    <2>2. fs' = fs \/ OnlyFootprint
      BY <1>1, <1>4 DEF Shaped, FetchShape, WorkShape, SkipShape, ReturnShape
    <2>3. pc' \in Working \ {"op"} => Op' = Op
      BY <1>1, <1>4 DEF Shaped, FetchShape, WorkShape, SkipShape, ReturnShape, Working, DeletePc,
                        AddPc, PatchPc, RenamePc, Op
    <2> QED BY <2>1, <2>2, <2>3 DEF OnlyFootprint
  <1>5. CASE pc \in Working \ {"op"}
    BY <1>4, <1>5 DEF CalmInv, Calm
  <1>6. CASE pc = "op"
    <2>1. pc \in Working
      BY <1>6 DEF Working
    <2>2. Op \in Operation /\ WellFormed(Op) /\ (Op.op # "DONE" => Target \in Path) /\ Means(Op)
      <3>1. i \in DOMAIN out
        BY <1>1, <1>2, <2>1 DEF TypeOK
      <3> QED BY <1>1, <1>2, <2>1, <3>1, OpFacts DEF Meant, Op
    <2>3. Op.op = "DELETEDIRECTORY" => Target \notin DSStore
      BY <1>2, <2>2, Releases, NodeFacts DEF Means, Target
    <2>4. CASE Op.op = "DONE"
      BY <2>4, <2>1, <2>2, <1>6, AlreadySoIsQuick DEF AlreadySo, CalmInv, StepInv
    <2>5. CASE Op.op # "DONE" /\ Target \in DSStore
      BY <1>4, <2>1, <2>3, <2>5
    <2>6. CASE Op.op # "DONE" /\ Target \notin DSStore
      <3>1. fs[Target] = new[Target]
        BY <1>2, <2>2, <2>6
      <3>2. AlreadySo
        BY <2>2, <2>6, <3>1 DEF Means, AlreadySo, Target, Again
      <3> QED BY <1>6, <3>2, AlreadySoIsQuick DEF CalmInv
    <2> QED BY <2>4, <2>5, <2>6
  <1> QED BY <1>3, <1>5, <1>6

LEMMA CalmInvStep ==
    ASSUME CalmInv, [RTNext \/ Killed]_rvars
    PROVE  CalmInv'
  <1>1. [CreateStep]_cvars /\ [AnyStep]_vars
    BY OutIsWellMade DEF RTNext, Create, ApplyIt, Apply, Killed, rvars, AnyStep, Entered, CalmInv,
                         CInv
  <1>2. CInv' /\ StepInv' /\ Meant'
    BY <1>1, CreateStepInv, MeantStep, NextStepInv DEF CalmInv
  <1>3. CASE UNCHANGED rvars
    BY <1>2, <1>3 DEF CalmInv, Calm, Again, SameKinds, TrueSums, Op, Target, rvars, cvars, vars
  <1>4. CASE Create
    <2>1. maker = "run"
      BY <1>4 DEF Create, CreateStep, Compare, EndOfList, PutOp, CreateFail, OldKept, OldFileGone,
             OldDirGone, SkipDSStore, BothDirs, FileToDir, DirToFile, BothFiles, NewDir, NewFile,
             NewEntry, WholeDirEntry, put_delete, put_delete_dir, put_add, put_add_dir,
             put_patch_same, put_patch_add, put_patch, put_done, Running
    <2>2. pc' = "idle"
      BY <1>4, <2>1 DEF CalmInv, Create, vars
    <2> QED BY <1>2, <2>2 DEF CalmInv, Calm, Again
  <1>5. CASE ApplyIt
    <2>1. /\ pc' = "fetch" /\ ops' = out /\ start' = fs /\ fs' = fs /\ maker # "run"
          /\ making' = making /\ old' = old /\ new' = new /\ out' = out /\ maker' = maker
      BY <1>5 DEF ApplyIt, Enter, cvars
    <2>2. Calm'
      BY <2>1 DEF Calm, Again, Working, DeletePc, AddPc, PatchPc, RenamePc
    <2> QED BY <1>2, <2>1, <2>2 DEF CalmInv
  <1>6. CASE (Exit \/ Crash) /\ UNCHANGED cvars
    <2>1. pc' = "idle"
      BY <1>6 DEF Exit, Crash
    <2> QED BY <1>2, <2>1 DEF CalmInv, Calm, Again
  <1>7. CASE OpStep /\ UNCHANGED cvars
    <2>1. making' = making /\ old' = old /\ new' = new /\ out' = out /\ maker' = maker
      BY <1>7 DEF cvars
    <2>2. pc # "idle" /\ ops' = ops /\ start' = start
      BY <1>7, StepShape DEF CalmInv, Shaped, FetchShape, WorkShape, SkipShape, ReturnShape,
                             Working, DeletePc, AddPc, PatchPc, RenamePc
    <2>3. ASSUME Again'
          PROVE  /\ \A p \in Path \ DSStore : fs'[p] = new'[p]
                 /\ pc' \in Working \ {"op"} =>
                        Op'.op # "DELETEDIRECTORY" /\ Target' \in DSStore
      <3>1. Again
        BY <2>1, <2>2, <2>3 DEF Again, SameKinds, TrueSums
      <3>2. \A p \in Path \ DSStore : fs[p] = new[p]
        BY <3>1 DEF CalmInv, Calm
      <3> QED BY <1>7, <2>1, <3>1, <3>2, CalmStep DEF Target
    <2>4. Calm'
      BY <2>3 DEF Calm
    <2> QED BY <1>2, <2>1, <2>2, <2>4 DEF CalmInv
  <1> QED BY <1>3, <1>4, <1>5, <1>6, <1>7 DEF RTNext, Apply, Killed

(* Once the product is the newer release, an application of the archive removes or
   changes none of its files, not even for a moment: with any options at its
   making but --replace and --alwaysadd, any faults, then and now, as long as the
   md5sums are of the files, and however often it is killed. *)
THEOREM AgainChangesNothing == RTSpec => AgainIsHarmless
  <1> DEFINE A == \A q \in Path \ DSStore :
                    /\ ~making.replace /\ ~making.alwaysadd /\ SameKinds /\ TrueSums
                    /\ pc # "idle" /\ \A p \in Path \ DSStore : start[p] = new[p]
                    => fs'[q] = fs[q]
  <1>1. RTInit => CalmInv
    <2> SUFFICES ASSUME RTInit
                 PROVE  CalmInv
      OBVIOUS
    <2>1. RTInv
      BY RTInitInv
    <2>2. out = << >> /\ pc = "idle"
      BY DEF RTInit, CreateInit
    <2> QED BY <2>1, <2>2 DEF RTInv, CalmInv, Meant, Calm, Again
  <1>2. CalmInv /\ [RTNext \/ Killed]_rvars => CalmInv'
    BY CalmInvStep
  <1>3. CalmInv /\ [RTNext \/ Killed]_rvars => [A]_rvars
    <2> SUFFICES ASSUME CalmInv, RTNext \/ Killed, NEW q \in Path \ DSStore, Again
                 PROVE  fs'[q] = fs[q]
      BY DEF Again
    <2>1. CASE OpStep
      BY <2>1, CalmStep
    <2>2. CASE ~OpStep
      BY <2>2 DEF RTNext, Create, ApplyIt, Apply, Killed, Enter, Exit, Crash, vars
    <2> QED BY <2>1, <2>2
  <1> HIDE DEF A
  <1>4. RTSpec => [][A]_rvars
    BY <1>1, <1>2, <1>3, PTL DEF RTSpec
  <1> QED BY <1>4 DEF A, AgainIsHarmless

=============================================================================
