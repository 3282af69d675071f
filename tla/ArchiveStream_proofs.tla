------------------------ MODULE ArchiveStream_proofs ------------------------
(***************************************************************************)
(* Proofs that a reader of the archive that nothing has happened to knows  *)
(* where it is, that a creation leaves exactly what it says, and that what *)
(* an application says of the archive is so: for every set of patches and  *)
(* of builds, every size of a stdio buffer and of iobuf and any number of  *)
(* runs of the program.                                                    *)
(*                                                                         *)
(* The inductive invariant is IndInv.  WriteInv relates the file and what  *)
(* a creation still has to write to the image of the patches.  ReadInv     *)
(* says of a reader that has suffered none of the four events that what is *)
(* behind it in the image is the rest of what it reads (Standing), and     *)
(* that its buffer and the shared offset agree with the file (Coherent).   *)
(***************************************************************************)
EXTENDS ArchiveStream, SequenceTheorems, WellFoundedInduction, TLAPS

-----------------------------------------------------------------------------
(* Sequences. *)

(* A set of numbers has a least. *)
LEMMA HasLeast ==
    ASSUME NEW T, T \subseteq Nat, T # {}
    PROVE  \E n \in T : \A m \in Nat : m < n => m \notin T
<1> DEFINE R == OpToRel(<, Nat)
<1>1. IsWellFoundedOn(R, Nat)
  BY NatLessThanWellFounded
<1> HIDE DEF R
<1>2. PICK n \in T : \A m \in Nat : <<m, n>> \in R => m \notin T
  BY <1>1, WFMin, Zenon
<1>3. \A m \in Nat : m < n => m \notin T
  BY <1>2 DEF R, OpToRel
<1> QED BY <1>3

(* What flatten computes in FlattenSeq, of the first n sequences. *)
Flattens(f, s, n) == f = [i \in 1..n |-> IF i = 1 THEN s[i] ELSE f[i - 1] \o s[i]]

LEMMA FlattenIsDefined ==
    ASSUME NEW s, NEW n \in Nat
    PROVE  \E f : Flattens(f, s, n)
<1> DEFINE T == {m \in Nat : ~\E f : Flattens(f, s, m)}
<1>1. SUFFICES T = {}
  OBVIOUS
<1>2. SUFFICES ASSUME T # {}
               PROVE  FALSE
  OBVIOUS
<1>3. PICK m \in T : \A j \in Nat : j < m => j \notin T
  <2>1. T \subseteq Nat
    OBVIOUS
  <2> HIDE DEF T
  <2> QED BY <1>2, <2>1, HasLeast
<1>4. m # 0
  <2>1. Flattens([i \in 1..0 |-> 0], s, 0)
    BY DEF Flattens
  <2> QED BY <1>3, <2>1
<1>5. m \in Nat /\ m - 1 \in Nat /\ m - 1 < m
  BY <1>3, <1>4
<1>6. PICK g : Flattens(g, s, m - 1)
  BY <1>3, <1>5
<1> DEFINE h == [i \in 1..m |-> IF i = 1 THEN s[i] ELSE g[i - 1] \o s[i]]
<1>7. ASSUME NEW i \in 1..m, i # 1
      PROVE  h[i - 1] = g[i - 1]
  <2>1. i - 1 \in 1..m /\ i - 1 \in 1..(m - 1)
    BY <1>5, <1>7
  <2>2. h[i - 1] = IF i - 1 = 1 THEN s[i - 1] ELSE g[(i - 1) - 1] \o s[i - 1]
    BY <2>1
  <2>3. g[i - 1] = IF i - 1 = 1 THEN s[i - 1] ELSE g[(i - 1) - 1] \o s[i - 1]
    <3> DEFINE B(j) == IF j = 1 THEN s[j] ELSE g[j - 1] \o s[j]
    <3>1. g = [j \in 1..(m - 1) |-> B(j)]
      BY <1>6 DEF Flattens
    <3>2. g[i - 1] = B(i - 1)
      <4> HIDE DEF B
      <4> QED BY <2>1, <3>1
    <3> QED BY <3>2
  <2> QED BY <2>2, <2>3
<1>8. Flattens(h, s, m)
  <2>1. \A i \in 1..m : (IF i = 1 THEN s[i] ELSE g[i - 1] \o s[i])
                        = (IF i = 1 THEN s[i] ELSE h[i - 1] \o s[i])
    BY <1>7
  <2> DEFINE P(i) == IF i = 1 THEN s[i] ELSE g[i - 1] \o s[i]
             Q(i) == IF i = 1 THEN s[i] ELSE h[i - 1] \o s[i]
  <2>2. h = [i \in 1..m |-> P(i)]
    OBVIOUS
  <2>3. \A i \in 1..m : P(i) = Q(i)
    BY <2>1
  <2>4. h = [i \in 1..m |-> Q(i)]
    <3> HIDE DEF h, P, Q
    <3> QED BY <2>2, <2>3
  <2> HIDE DEF h
  <2> QED BY <2>4 DEF Flattens
<1> QED BY <1>3, <1>8

LEMMA FlattensAgree ==
    ASSUME NEW s, NEW t, NEW n \in Nat, NEW m \in Nat, n <= m,
           \A i \in 1..n : s[i] = t[i],
           NEW f, Flattens(f, s, n), NEW g, Flattens(g, t, m)
    PROVE  \A i \in 1..n : f[i] = g[i]
<1> DEFINE T == {i \in 1..n : f[i] # g[i]}
<1>1. SUFFICES ASSUME T # {}
               PROVE  FALSE
  OBVIOUS
<1>2. PICK i \in T : \A j \in Nat : j < i => j \notin T
  <2>1. T \subseteq Nat
    OBVIOUS
  <2> HIDE DEF T
  <2> QED BY <1>1, <2>1, HasLeast
<1>3. i \in 1..n /\ i \in 1..m /\ f[i] # g[i]
  BY <1>2
<1>4. f[i] = IF i = 1 THEN s[i] ELSE f[i - 1] \o s[i]
  <2> DEFINE B(j) == IF j = 1 THEN s[j] ELSE f[j - 1] \o s[j]
  <2>1. f = [j \in 1..n |-> B(j)]
    BY DEF Flattens
  <2>2. f[i] = B(i)
    <3> HIDE DEF B
    <3> QED BY <1>3, <2>1
  <2> QED BY <2>2
<1>5. g[i] = IF i = 1 THEN t[i] ELSE g[i - 1] \o t[i]
  <2> DEFINE B(j) == IF j = 1 THEN t[j] ELSE g[j - 1] \o t[j]
  <2>1. g = [j \in 1..m |-> B(j)]
    BY DEF Flattens
  <2>2. g[i] = B(i)
    <3> HIDE DEF B
    <3> QED BY <1>3, <2>1
  <2> QED BY <2>2
<1>6. i # 1 => f[i - 1] = g[i - 1]
  <2> SUFFICES ASSUME i # 1
               PROVE  f[i - 1] = g[i - 1]
    OBVIOUS
  <2>1. i - 1 \in Nat /\ i - 1 < i /\ i - 1 \in 1..n
    BY <1>3
  <2> QED BY <1>2, <2>1
<1> QED BY <1>3, <1>4, <1>5, <1>6

LEMMA FlattensOneMore ==
    ASSUME NEW f, NEW s, NEW k \in Nat, Flattens(f, s, k),
           NEW g, NEW u, NEW m, Flattens(g, u, m), m = k + 1, \A i \in 1..k : s[i] = u[i]
    PROVE  \A i \in 1..k : f[i] = g[i]
<1>1. m \in Nat /\ k <= m
  OBVIOUS
<1> QED BY <1>1, FlattensAgree

(* FlattenSeq ends with one of the functions it chooses among. *)
LEMMA FlattenSeqIs ==
    ASSUME NEW S, NEW s \in Seq(S), s # << >>
    PROVE  \E f : Flattens(f, s, Len(s)) /\ FlattenSeq(s) = f[Len(s)]
<1> DEFINE F == CHOOSE f : f = [i \in 1..Len(s) |-> IF i = 1 THEN s[i] ELSE f[i - 1] \o s[i]]
<1>1. Len(s) \in Nat /\ Len(s) # 0
  OBVIOUS
<1>2. FlattenSeq(s) = F[Len(s)]
  BY <1>1, Zenon DEF FlattenSeq
<1>3. Flattens(F, s, Len(s))
  <2>1. \E f : Flattens(f, s, Len(s))
    BY <1>1, FlattenIsDefined
  <2> QED BY <2>1, Zenon DEF Flattens
<1> QED BY <1>2, <1>3

LEMMA FlattenEmpty == FlattenSeq(<< >>) = << >>
  BY DEF FlattenSeq

LEMMA FlattenAppend ==
    ASSUME NEW S, NEW s \in Seq(Seq(S)), NEW x \in Seq(S)
    PROVE  FlattenSeq(Append(s, x)) = FlattenSeq(s) \o x
<1>0. PICK k \in Nat : k = Len(s)
  OBVIOUS
<1>1. PICK u : /\ u = Append(s, x) /\ u \in Seq(Seq(S)) /\ u # << >> /\ Len(u) = k + 1
               /\ u[k + 1] = x /\ \A i \in 1..k : u[i] = s[i]
  <2>1. /\ Append(s, x) \in Seq(Seq(S)) /\ Append(s, x) # << >>
        /\ Len(Append(s, x)) = Len(s) + 1 /\ Append(s, x)[Len(s) + 1] = x
        /\ \A i \in 1..Len(s) : Append(s, x)[i] = s[i]
    BY AppendProperties
  <2> QED BY <1>0, <2>1
<1>2. PICK g : Flattens(g, u, k + 1) /\ FlattenSeq(u) = g[k + 1]
  BY <1>0, <1>1, FlattenSeqIs
<1>3. g[k + 1] = IF k + 1 = 1 THEN u[k + 1] ELSE g[k] \o u[k + 1]
  <2> DEFINE B(j) == IF j = 1 THEN u[j] ELSE g[j - 1] \o u[j]
  <2>1. g = [j \in 1..(k + 1) |-> B(j)]
    BY <1>2 DEF Flattens
  <2>2. k + 1 \in 1..(k + 1) /\ (k + 1) - 1 = k
    BY <1>1
  <2>3. g[k + 1] = B(k + 1)
    <3> HIDE DEF B
    <3> QED BY <2>1, <2>2
  <2> QED BY <2>2, <2>3
<1>4. CASE s = << >>
  <2>1. FlattenSeq(u) = x
    BY <1>0, <1>1, <1>2, <1>3, <1>4
  <2>2. FlattenSeq(s) = << >>
    BY <1>4, FlattenEmpty
  <2>3. << >> \o x = x
    BY ConcatEmptySeq
  <2> QED BY <1>1, <2>1, <2>2, <2>3
<1>5. CASE s # << >>
  <2>1. PICK f : Flattens(f, s, k) /\ FlattenSeq(s) = f[k]
    BY <1>0, <1>5, FlattenSeqIs
  <2>2. k # 0 /\ k \in 1..k
    BY <1>0, <1>5
  <2>4. \A i \in 1..k : f[i] = g[i]
    <3>1. \A i \in 1..k : s[i] = u[i]
      BY <1>1
    <3>2. Flattens(f, s, k)
      BY <2>1
    <3>3. Flattens(g, u, k + 1)
      BY <1>2
    <3> QED BY <3>1, <3>2, <3>3, FlattensOneMore
  <2>5. f[k] = g[k]
    BY <2>2, <2>4
  <2> QED BY <1>0, <1>1, <1>2, <1>3, <2>1, <2>2, <2>5, SMTT(30)
<1> QED BY <1>4, <1>5

LEMMA Assoc ==
    ASSUME NEW S, NEW a \in Seq(S), NEW b \in Seq(S), NEW c \in Seq(S)
    PROVE  (a \o b) \o c = a \o (b \o c)
  BY ConcatAssociative

(* A sequence that is not empty is another one with something appended. *)
LEMMA LastOf ==
    ASSUME NEW S, NEW s \in Seq(S), s # << >>
    PROVE  \E t \in Seq(S) : \E x \in S : s = Append(t, x) /\ Len(t) \in Nat /\ Len(s) = Len(t) + 1
<1>1. PICK t \in Seq(S), x \in S : s = Append(t, x)
  BY SequenceEmptyOrAppend
<1>2. Len(t) \in Nat /\ Len(s) = Len(t) + 1
  BY <1>1, AppendProperties, LenProperties
<1> QED BY <1>1, <1>2

LEMMA FlattenType ==
    ASSUME NEW S
    PROVE  \A s \in Seq(Seq(S)) : FlattenSeq(s) \in Seq(S)
<1> DEFINE T == {n \in Nat : \E s \in Seq(Seq(S)) : Len(s) = n /\ FlattenSeq(s) \notin Seq(S)}
<1>1. SUFFICES ASSUME T # {}
               PROVE  FALSE
  <2> SUFFICES ASSUME NEW s \in Seq(Seq(S)), FlattenSeq(s) \notin Seq(S)
               PROVE  T # {}
    OBVIOUS
  <2> Len(s) \in Nat
    OBVIOUS
  <2> QED OBVIOUS
<1>2. PICK n \in T : \A j \in Nat : j < n => j \notin T
  <2>1. T \subseteq Nat
    OBVIOUS
  <2> HIDE DEF T
  <2> QED BY <1>1, <2>1, HasLeast
<1>3. PICK s \in Seq(Seq(S)) : Len(s) = n /\ FlattenSeq(s) \notin Seq(S)
  BY <1>2
<1>4. s # << >>
  BY <1>3, FlattenEmpty, EmptySeq
<1>5. PICK t \in Seq(Seq(S)), x \in Seq(S) : s = Append(t, x) /\ Len(t) \in Nat /\ Len(s) = Len(t) + 1
  BY <1>4, LastOf
<1>6. FlattenSeq(t) \in Seq(S)
  BY <1>2, <1>3, <1>5
<1>7. FlattenSeq(s) = FlattenSeq(t) \o x
  BY <1>5, FlattenAppend
<1>8. FlattenSeq(t) \o x \in Seq(S)
  BY <1>6, ConcatProperties
<1> QED BY <1>3, <1>7, <1>8

LEMMA ConcatAppend ==
    ASSUME NEW S, NEW s \in Seq(S), NEW r \in Seq(S), NEW x \in S
    PROVE  s \o Append(r, x) = Append(s \o r, x) /\ s \o r \in Seq(S)
<1>1. Append(r, x) = r \o <<x>> /\ <<x>> \in Seq(S)
  BY AppendIsConcat
<1>2. s \o r \in Seq(S)
  BY ConcatProperties
<1>3. (s \o r) \o <<x>> = s \o (r \o <<x>>)
  BY <1>1, Assoc
<1>4. Append(s \o r, x) = (s \o r) \o <<x>>
  BY <1>2, AppendIsConcat
<1> QED BY <1>1, <1>2, <1>3, <1>4

LEMMA FlattenConcatAppend ==
    ASSUME NEW S, NEW s \in Seq(Seq(S)), NEW r \in Seq(Seq(S)), NEW x \in Seq(S),
           FlattenSeq(s \o r) = FlattenSeq(s) \o FlattenSeq(r)
    PROVE  FlattenSeq(s \o Append(r, x)) = FlattenSeq(s) \o FlattenSeq(Append(r, x))
<1>1. FlattenSeq(s) \in Seq(S) /\ FlattenSeq(r) \in Seq(S)
  BY FlattenType
<1>2. s \o Append(r, x) = Append(s \o r, x) /\ s \o r \in Seq(Seq(S))
  BY ConcatAppend
<1>3. /\ FlattenSeq(Append(s \o r, x)) = FlattenSeq(s \o r) \o x
      /\ FlattenSeq(Append(r, x)) = FlattenSeq(r) \o x
  BY <1>2, FlattenAppend
<1>4. (FlattenSeq(s) \o FlattenSeq(r)) \o x = FlattenSeq(s) \o (FlattenSeq(r) \o x)
  BY <1>1, Assoc, SMTT(30)
<1> QED BY <1>2, <1>3, <1>4

LEMMA FlattenConcat ==
    ASSUME NEW S, NEW s \in Seq(Seq(S))
    PROVE  \A t \in Seq(Seq(S)) : FlattenSeq(s \o t) = FlattenSeq(s) \o FlattenSeq(t)
<1> DEFINE T == {n \in Nat : \E t \in Seq(Seq(S)) :
                    Len(t) = n /\ FlattenSeq(s \o t) # FlattenSeq(s) \o FlattenSeq(t)}
<1>1. SUFFICES ASSUME T # {}
               PROVE  FALSE
  <2> SUFFICES ASSUME NEW t \in Seq(Seq(S)), FlattenSeq(s \o t) # FlattenSeq(s) \o FlattenSeq(t)
               PROVE  T # {}
    OBVIOUS
  <2> Len(t) \in Nat
    OBVIOUS
  <2> QED OBVIOUS
<1>2. PICK n \in T : \A j \in Nat : j < n => j \notin T
  <2>1. T \subseteq Nat
    OBVIOUS
  <2> HIDE DEF T
  <2> QED BY <1>1, <2>1, HasLeast
<1>3. PICK t \in Seq(Seq(S)) :
         Len(t) = n /\ FlattenSeq(s \o t) # FlattenSeq(s) \o FlattenSeq(t)
  BY <1>2
<1>4. t # << >>
  <2>1. FlattenSeq(s) \in Seq(S)
    BY FlattenType
  <2>2. s \o << >> = s /\ FlattenSeq(s) \o << >> = FlattenSeq(s)
    BY <2>1, ConcatEmptySeq
  <2> QED BY <1>3, <2>2, FlattenEmpty
<1>5. PICK r \in Seq(Seq(S)), x \in Seq(S) : t = Append(r, x) /\ Len(r) \in Nat /\ Len(t) = Len(r) + 1
  BY <1>4, LastOf
<1>6. FlattenSeq(s \o r) = FlattenSeq(s) \o FlattenSeq(r)
  <2>1. Len(r) \notin T
    BY <1>2, <1>3, <1>5
  <2> QED BY <1>5, <2>1
<1> HIDE DEF T
<1> QED BY <1>3, <1>5, <1>6, FlattenConcatAppend

LEMMA FlattenOne ==
    ASSUME NEW S, NEW x \in Seq(S)
    PROVE  FlattenSeq(<<x>>) = x
<1>1. <<x>> = Append(<< >>, x) /\ << >> \in Seq(Seq(S))
  OBVIOUS
<1>2. FlattenSeq(Append(<< >>, x)) = FlattenSeq(<< >>) \o x
  BY <1>1, FlattenAppend
<1>3. << >> \o x = x
  BY ConcatEmptySeq
<1> QED BY <1>1, <1>2, <1>3, FlattenEmpty

LEMMA FlattenFirst ==
    ASSUME NEW S, NEW s \in Seq(Seq(S)), s # << >>
    PROVE  /\ s[1] \in Seq(S) /\ Tail(s) \in Seq(Seq(S))
           /\ FlattenSeq(s) = s[1] \o FlattenSeq(Tail(s))
<1>1. /\ Head(s) \in Seq(S) /\ Tail(s) \in Seq(Seq(S)) /\ Head(s) = s[1]
      /\ s = <<Head(s)>> \o Tail(s) /\ <<Head(s)>> \in Seq(Seq(S))
  <2>1. Head(s) \in Seq(S) /\ Tail(s) \in Seq(Seq(S)) /\ Head(s) = s[1] /\ Len(Tail(s)) = Len(s) - 1
        /\ \A i \in 1..Len(Tail(s)) : Tail(s)[i] = s[i + 1]
    BY HeadTailProperties
  <2>2. <<Head(s)>> \in Seq(Seq(S))
    BY <2>1
  <2>3. s = <<Head(s)>> \o Tail(s)
    <3> DEFINE u == <<Head(s)>> \o Tail(s)
    <3>1. /\ u \in Seq(Seq(S)) /\ Len(u) = 1 + Len(Tail(s))
          /\ \A i \in 1..(1 + Len(Tail(s))) : u[i] = IF i <= 1 THEN Head(s) ELSE Tail(s)[i - 1]
      <4>1. Len(<<Head(s)>>) = 1 /\ <<Head(s)>>[1] = Head(s)
        OBVIOUS
      <4>2. /\ u \in Seq(Seq(S)) /\ Len(u) = Len(<<Head(s)>>) + Len(Tail(s))
            /\ \A i \in 1..(Len(<<Head(s)>>) + Len(Tail(s))) :
                  u[i] = IF i <= Len(<<Head(s)>>) THEN <<Head(s)>>[i]
                                                  ELSE Tail(s)[i - Len(<<Head(s)>>)]
        BY <2>1, <2>2, ConcatProperties
      <4>3. Len(Tail(s)) \in Nat
        BY <2>1, LenProperties
      <4> HIDE DEF u
      <4> QED BY <4>1, <4>2, <4>3
    <3>2. Len(s) \in Nat /\ Len(s) # 0
      OBVIOUS
    <3>3. Len(u) = Len(s)
      BY <2>1, <3>1, <3>2
    <3>4. ASSUME NEW i \in 1..Len(s)
          PROVE  s[i] = u[i]
      <4>1. CASE i = 1
        BY <2>1, <3>1, <3>2, <4>1
      <4>2. CASE i # 1
        <5>1. i - 1 \in 1..Len(Tail(s)) /\ i \in 1..(1 + Len(Tail(s))) /\ ~(i <= 1) /\ (i - 1) + 1 = i
          BY <2>1, <3>2, <4>2
        <5> QED BY <2>1, <3>1, <5>1
      <4> QED BY <4>1, <4>2
    <3> HIDE DEF u
    <3>5. s = u
      BY <3>1, <3>3, <3>4, SeqEqual
    <3> QED BY <3>5 DEF u
  <2> QED BY <2>1, <2>2, <2>3
<1>2. FlattenSeq(s) = FlattenSeq(<<Head(s)>>) \o FlattenSeq(Tail(s))
  BY <1>1, FlattenConcat
<1>3. FlattenSeq(<<Head(s)>>) = Head(s)
  BY <1>1, FlattenOne
<1> QED BY <1>1, <1>2, <1>3

(* What each element of a sequence stands for, one behind the other. *)
Maps(h, S, T) == h \in [S -> T]
Map(h, s) == [i \in DOMAIN s |-> h[s[i]]]
Spread(h, s) == FlattenSeq(Map(h, s))

LEMMA MapFacts ==
    ASSUME NEW S, NEW T, NEW h, Maps(h, S, T), NEW s \in Seq(S)
    PROVE  /\ Map(h, s) \in Seq(T) /\ Len(Map(h, s)) = Len(s)
           /\ \A i \in 1..Len(s) : Map(h, s)[i] = h[s[i]]
<1>1. DOMAIN s = 1..Len(s) /\ Len(s) \in Nat
  BY LenProperties
<1>2. \A i \in 1..Len(s) : s[i] \in S /\ h[s[i]] \in T
  BY ElementOfSeq DEF Maps
<1>3. Map(h, s) = [i \in 1..Len(s) |-> h[s[i]]]
  BY <1>1 DEF Map
<1>4. Map(h, s) \in [1..Len(s) -> T]
  BY <1>2, <1>3
<1>5. Map(h, s) \in Seq(T)
  <2>1. \E n \in Nat : Map(h, s) \in [1..n -> T]
    BY <1>1, <1>4
  <2>2. Map(h, s) \in UNION {[1..n -> T] : n \in Nat}
    BY <2>1
  <2> QED BY <2>2, SeqDef
<1> QED BY <1>1, <1>3, <1>4, <1>5

LEMMA MapAppend ==
    ASSUME NEW S, NEW T, NEW h, Maps(h, S, T), NEW s \in Seq(S), NEW x \in S
    PROVE  Map(h, Append(s, x)) = Append(Map(h, s), h[x])
<1>1. PICK u \in Seq(S) : /\ u = Append(s, x) /\ Len(u) = Len(s) + 1 /\ u[Len(s) + 1] = x
                          /\ \A i \in 1..Len(s) : u[i] = s[i]
  <2>1. /\ Append(s, x) \in Seq(S)
        /\ Len(Append(s, x)) = Len(s) + 1 /\ Append(s, x)[Len(s) + 1] = x
        /\ \A i \in 1..Len(s) : Append(s, x)[i] = s[i]
    BY AppendProperties
  <2> QED BY <2>1
<1>2. PICK a \in Seq(T) : /\ a = Map(h, u) /\ Len(a) = Len(u)
                          /\ \A i \in 1..Len(u) : a[i] = h[u[i]]
  <2>1. /\ Map(h, u) \in Seq(T) /\ Len(Map(h, u)) = Len(u)
        /\ \A i \in 1..Len(u) : Map(h, u)[i] = h[u[i]]
    BY MapFacts
  <2> QED BY <2>1
<1>3. PICK c \in Seq(T) : /\ c = Map(h, s) /\ Len(c) = Len(s)
                          /\ \A i \in 1..Len(s) : c[i] = h[s[i]]
  BY MapFacts
<1>4. h[x] \in T
  BY DEF Maps
<1>5. PICK d \in Seq(T) : /\ d = Append(c, h[x]) /\ Len(d) = Len(c) + 1 /\ d[Len(c) + 1] = h[x]
                          /\ \A i \in 1..Len(c) : d[i] = c[i]
  <2>1. PICK y \in T : y = h[x]
    BY <1>4
  <2>2. /\ Append(c, y) \in Seq(T)
        /\ Len(Append(c, y)) = Len(c) + 1 /\ Append(c, y)[Len(c) + 1] = y
        /\ \A i \in 1..Len(c) : Append(c, y)[i] = c[i]
    BY AppendProperties
  <2> QED BY <2>1, <2>2
<1>6. Len(s) \in Nat
  BY LenProperties
<1>7. ASSUME NEW i \in 1..Len(a)
      PROVE  a[i] = d[i]
  <2>1. CASE i = Len(s) + 1
    BY <1>1, <1>2, <1>3, <1>5, <1>6, <2>1
  <2>2. CASE i # Len(s) + 1
    <3>1. i \in 1..Len(s) /\ i \in 1..Len(u) /\ i \in 1..Len(c)
      BY <1>1, <1>2, <1>3, <1>6, <2>2
    <3> QED BY <1>1, <1>2, <1>3, <1>5, <3>1
  <2> QED BY <2>1, <2>2
<1>8. Len(a) = Len(d)
  BY <1>1, <1>2, <1>3, <1>5
<1>9. a = d
  BY <1>7, <1>8, SeqEqual
<1> QED BY <1>1, <1>2, <1>3, <1>5, <1>9

LEMMA MapFirst ==
    ASSUME NEW S, NEW T, NEW h, Maps(h, S, T), NEW s \in Seq(S), s # << >>
    PROVE  /\ Map(h, s) # << >> /\ Map(h, s)[1] = h[s[1]] /\ s[1] \in S
           /\ Tail(s) \in Seq(S) /\ Tail(Map(h, s)) = Map(h, Tail(s))
<1>1. PICK u \in Seq(S) : /\ u = Tail(s) /\ Len(u) = Len(s) - 1
                          /\ \A i \in 1..Len(u) : u[i] = s[i + 1]
  BY HeadTailProperties
<1>2. PICK a \in Seq(T) : /\ a = Map(h, s) /\ Len(a) = Len(s)
                          /\ \A i \in 1..Len(s) : a[i] = h[s[i]]
  <2>1. /\ Map(h, s) \in Seq(T) /\ Len(Map(h, s)) = Len(s)
        /\ \A i \in 1..Len(s) : Map(h, s)[i] = h[s[i]]
    BY MapFacts
  <2> QED BY <2>1
<1>3. PICK c \in Seq(T) : /\ c = Map(h, u) /\ Len(c) = Len(u)
                          /\ \A i \in 1..Len(u) : c[i] = h[u[i]]
  BY MapFacts
<1>4. Len(s) \in Nat \ {0} /\ s[1] \in S
  BY EmptySeq, LenProperties, ElementOfSeq
<1>5. a # << >>
  BY <1>2, <1>4, EmptySeq
<1>6. PICK d \in Seq(T) : /\ d = Tail(a) /\ Len(d) = Len(a) - 1
                          /\ \A i \in 1..Len(d) : d[i] = a[i + 1]
  BY <1>5, HeadTailProperties
<1>7. ASSUME NEW i \in 1..Len(d)
      PROVE  d[i] = c[i]
  <2>1. i \in 1..Len(u) /\ i \in 1..Len(c) /\ i + 1 \in 1..Len(s)
    BY <1>1, <1>2, <1>3, <1>4, <1>6
  <2> QED BY <1>1, <1>2, <1>3, <1>6, <2>1, SMTT(30)
<1>8. d = c
  BY <1>1, <1>2, <1>3, <1>6, <1>7, SeqEqual, SMTT(30)
<1> QED BY <1>1, <1>2, <1>3, <1>4, <1>5, <1>6, <1>8

LEMMA SpreadType ==
    ASSUME NEW S, NEW T, NEW h, Maps(h, S, Seq(T)), NEW s \in Seq(S)
    PROVE  Spread(h, s) \in Seq(T)
  BY MapFacts, FlattenType DEF Spread

LEMMA SpreadEmpty ==
    ASSUME NEW h
    PROVE  Spread(h, << >>) = << >>
<1>1. Map(h, << >>) = << >>
  BY DEF Map
<1> QED BY <1>1, FlattenEmpty DEF Spread

LEMMA SpreadAppend ==
    ASSUME NEW S, NEW T, NEW h, Maps(h, S, Seq(T)), NEW s \in Seq(S), NEW x \in S
    PROVE  Spread(h, Append(s, x)) = Spread(h, s) \o h[x]
<1>1. Map(h, Append(s, x)) = Append(Map(h, s), h[x])
  BY MapAppend
<1>2. Map(h, s) \in Seq(Seq(T)) /\ h[x] \in Seq(T)
  BY MapFacts DEF Maps
<1>3. FlattenSeq(Append(Map(h, s), h[x])) = FlattenSeq(Map(h, s)) \o h[x]
  BY <1>2, FlattenAppend
<1> QED BY <1>1, <1>3 DEF Spread

LEMMA SpreadFirst ==
    ASSUME NEW S, NEW T, NEW h, Maps(h, S, Seq(T)), NEW s \in Seq(S), s # << >>
    PROVE  /\ s[1] \in S /\ Tail(s) \in Seq(S) /\ h[s[1]] \in Seq(T)
           /\ Spread(h, s) = h[s[1]] \o Spread(h, Tail(s))
<1>1. /\ Map(h, s) # << >> /\ Map(h, s)[1] = h[s[1]] /\ s[1] \in S
      /\ Tail(s) \in Seq(S) /\ Tail(Map(h, s)) = Map(h, Tail(s))
  BY MapFirst
<1>2. Map(h, s) \in Seq(Seq(T))
  BY MapFacts
<1>3. FlattenSeq(Map(h, s)) = Map(h, s)[1] \o FlattenSeq(Tail(Map(h, s)))
  BY <1>1, <1>2, FlattenFirst
<1>4. h[s[1]] \in Seq(T)
  BY <1>1 DEF Maps
<1> QED BY <1>1, <1>3, <1>4 DEF Spread
-----------------------------------------------------------------------------
(* What is written. *)

Name == STRING \cup {"done"}
AnyOp == Op \cup {Done}
Cell == [k : {"sig1", "sig2", "strings"}] \cup [k : {"code", "fields"}, o : AnyOp]
          \cup [k : {"data"}, id : Name] \cup [k : {"sizes"}, u : Nat, c : Nat]
Task == [w : {"spawn"}] \cup [w : {"put"}, cells : Seq(Cell)]

CellsOfOp == [o \in Op |-> OpCells(o) \o Payload(o)]
CellsOfPatch == [p \in Seq(Op) |-> PatchImage(p)]
TasksOfOp == [o \in Op |-> PutOp(o)]
CellsOfTask == [t \in Task |-> IF t.w = "put" THEN t.cells ELSE << >>]
ChunkOf(o) == [u \in Nat |-> << [k |-> "sizes", u |-> u, c |-> CompSize(u)] >>
                                \o DataCells(o, CompSize(u))]
WithDone == [p \in Seq(Op) |-> Append(p, Done)]

(* What the tasks write. *)
CellsOfTasks(t) == Spread(CellsOfTask, t)

LEMMA OpFacts ==
    ASSUME NEW o \in AnyOp
    PROVE  /\ o.size \in Nat /\ o.id \in Name /\ o.z \in BOOLEAN
           /\ o \in Op <=> o # Done
           /\ o \in Op => o.op \in {"ADD", "PATCH"}
           /\ OpCells(o) \in Seq(Cell) /\ Len(OpCells(o)) = 2
           /\ OpCells(o)[1] = [k |-> "code", o |-> o] /\ OpCells(o)[2] = [k |-> "fields", o |-> o]
<1>1. Done.size \in Nat /\ Done.id \in Name /\ Done.z \in BOOLEAN /\ Done.op = "DONE"
  <2>1. Done.size = 0 /\ Done.id = "done" /\ Done.op = "DONE"
    BY DEF Done
  <2>2. Done.z = FALSE
    BY DEF Done
  <2>3. Done.z \in BOOLEAN
    BY <2>2, Zenon
  <2>4. Done.size \in Nat
    BY <2>1
  <2>5. Done.id \in Name
    BY <2>1 DEF Name
  <2> QED BY <2>1, <2>3, <2>4, <2>5, Zenon
<1>2. o \in Op => o.op \in {"ADD", "PATCH"} /\ o.size \in Nat /\ o.id \in Name /\ o.z \in BOOLEAN
  BY DEF Op, Name
<1>3. o \in Op <=> o # Done
  BY <1>1, <1>2 DEF AnyOp
<1>4. [k |-> "code", o |-> o] \in Cell /\ [k |-> "fields", o |-> o] \in Cell
  BY DEF Cell
<1>5. OpCells(o) \in Seq(Cell) /\ Len(OpCells(o)) = 2
      /\ OpCells(o)[1] = [k |-> "code", o |-> o] /\ OpCells(o)[2] = [k |-> "fields", o |-> o]
  BY <1>4 DEF OpCells
<1>6. o \in Op \/ o = Done
  BY DEF AnyOp
<1>7. o.size \in Nat /\ o.id \in Name /\ o.z \in BOOLEAN
  <2>1. CASE o \in Op
    BY <1>2, <2>1
  <2>2. CASE o = Done
    BY <1>1, <2>2, Zenon
  <2> QED BY <1>6, <2>1, <2>2
<1> QED BY <1>2, <1>3, <1>5, <1>7

LEMMA HeaderFacts ==
    /\ Signature \in Seq(Cell) /\ Len(Signature) = 2
    /\ Signature[1] = [k |-> "sig1"] /\ Signature[2] = [k |-> "sig2"]
    /\ << [k |-> "strings"] >> \in Seq(Cell) /\ Len(<< [k |-> "strings"] >>) = 1
    /\ HeaderCells = Signature \o << [k |-> "strings"] >> /\ HeaderCells \in Seq(Cell)
<1>1. [k |-> "sig1"] \in Cell /\ [k |-> "sig2"] \in Cell /\ [k |-> "strings"] \in Cell
  BY DEF Cell
<1>2. Signature \in Seq(Cell) /\ << [k |-> "strings"] >> \in Seq(Cell)
  BY <1>1 DEF Signature
<1>3. HeaderCells \in Seq(Cell)
  BY <1>2, ConcatProperties DEF HeaderCells
<1> QED BY <1>2, <1>3 DEF Signature, HeaderCells

LEMMA DataFacts ==
    ASSUME NEW o \in Op, NEW n \in Nat
    PROVE  DataCells(o, n) \in Seq(Cell) /\ Len(DataCells(o, n)) = n
<1>1. [k |-> "data", id |-> o.id] \in Cell
  BY DEF Cell, Op, Name
<1>2. DataCells(o, n) \in [1..n -> Cell]
  BY <1>1 DEF DataCells
<1>3. DataCells(o, n) \in UNION {[1..m -> Cell] : m \in Nat}
  BY <1>2
<1>4. DataCells(o, n) \in Seq(Cell)
  BY <1>3, SeqDef
<1> QED BY <1>2, <1>4

LEMMA CompFacts ==
    ASSUME NEW u \in Nat
    PROVE  CompSize(u) \in Nat
  BY DEF CompSize

LEMMA ChunkFacts ==
    ASSUME NEW o \in Op
    PROVE  /\ Maps(ChunkOf(o), Nat, Seq(Cell))
           /\ \A u \in Nat : ChunkOf(o)[u] = << [k |-> "sizes", u |-> u, c |-> CompSize(u)] >>
                                                \o DataCells(o, CompSize(u))
           /\ \A u \in Nat : << [k |-> "sizes", u |-> u, c |-> CompSize(u)] >> \in Seq(Cell)
<1>1. ASSUME NEW u \in Nat
      PROVE  /\ << [k |-> "sizes", u |-> u, c |-> CompSize(u)] >> \in Seq(Cell)
             /\ << [k |-> "sizes", u |-> u, c |-> CompSize(u)] >> \o DataCells(o, CompSize(u)) \in Seq(Cell)
  <2>1. [k |-> "sizes", u |-> u, c |-> CompSize(u)] \in Cell
    BY CompFacts DEF Cell
  <2>2. << [k |-> "sizes", u |-> u, c |-> CompSize(u)] >> \in Seq(Cell)
    BY <2>1
  <2>3. DataCells(o, CompSize(u)) \in Seq(Cell)
    BY CompFacts, DataFacts
  <2> QED BY <2>2, <2>3, ConcatProperties
<1> QED BY <1>1 DEF ChunkOf, Maps

LEMMA DivFacts ==
    ASSUME NEW m \in Nat, NEW b \in Nat \ {0}
    PROVE  m \div b \in Nat /\ m % b \in 0..(b - 1) /\ m = (m \div b) * b + (m % b)
  OBVIOUS

LEMMA DivUnique ==
    ASSUME NEW m \in Nat, NEW b \in Nat \ {0}, NEW q \in Nat, NEW r \in 0..(b - 1), m = q * b + r
    PROVE  m \div b = q /\ m % b = r
  OBVIOUS

LEMMA PieceCount ==
    ASSUME NEW m \in Nat, NEW b \in Nat \ {0}
    PROVE  /\ (m + b - 1) \div b \in Nat /\ m % b \in Nat
           /\ m = 0 => (m + b - 1) \div b = 0
           /\ 0 < m /\ m < b => (m + b - 1) \div b = 1 /\ m % b = m
           /\ b <= m => /\ ((m - b) + b - 1) \div b = (m + b - 1) \div b - 1
                        /\ (m - b) % b = m % b /\ m - b \in Nat /\ (m + b - 1) \div b >= 1
<1>1. (m + b - 1) \div b \in Nat /\ m % b \in Nat
  OBVIOUS
<1>2. m = 0 => (m + b - 1) \div b = 0
  OBVIOUS
<1>3. ASSUME 0 < m, m < b
      PROVE  (m + b - 1) \div b = 1 /\ m % b = m
  <2>1. m + b - 1 \in Nat /\ m - 1 \in 0..(b - 1) /\ m + b - 1 = 1 * b + (m - 1)
    BY <1>3
  <2>2. m \in 0..(b - 1) /\ m = 0 * b + m
    BY <1>3
  <2>3. (m + b - 1) \div b = 1
    BY <2>1, DivUnique
  <2>4. m % b = m
    BY <2>2, DivUnique
  <2> QED BY <2>3, <2>4
<1>4. ASSUME b <= m
      PROVE  /\ ((m - b) + b - 1) \div b = (m + b - 1) \div b - 1
             /\ (m - b) % b = m % b /\ m - b \in Nat /\ (m + b - 1) \div b >= 1
  <2>1. PICK x \in Nat : x = m - b
    BY <1>4
  <2>2. PICK q \in Nat, r \in 0..(b - 1) : x = q * b + r /\ x % b = r
    BY <2>1, DivFacts
  <2>3. m = (q + 1) * b + r
    BY <2>1, <2>2
  <2>4. m % b = r
    BY <2>2, <2>3, DivUnique
  <2>5. PICK y \in Nat : y = x + b - 1
    BY <2>1
  <2>6. PICK p \in Nat, t \in 0..(b - 1) : y = p * b + t /\ y \div b = p
    BY <2>5, DivFacts
  <2>7. m + b - 1 = (p + 1) * b + t
    BY <2>1, <2>5, <2>6
  <2>8. (m + b - 1) \div b = p + 1
    <3>1. m + b - 1 \in Nat /\ p + 1 \in Nat
      BY <2>6
    <3> QED BY <2>6, <2>7, <3>1, DivUnique
  <2> QED BY <2>1, <2>2, <2>4, <2>5, <2>6, <2>8
<1> QED BY <1>1, <1>2, <1>3, <1>4

(* The pieces of n units: a full one, or all of them, and the pieces of the rest. *)
LEMMA PiecesFacts ==
    ASSUME NEW n \in Nat
    PROVE  /\ Pieces(n) \in Seq(Nat)
           /\ n = 0 => Pieces(n) = << >>
           /\ n > 0 => \E u \in Nat : /\ u > 0 /\ u <= n /\ Pieces(n) # << >> /\ Pieces(n)[1] = u
                                      /\ Tail(Pieces(n)) = Pieces(n - u)
<1> DEFINE K(m) == (m + IoBuf - 1) \div IoBuf
<1>1. PICK b \in Nat \ {0} : b = IoBuf
  BY SizesAssumption
<1>2. \A m \in Nat : /\ (m + b - 1) \div b \in Nat /\ m % b \in Nat
                     /\ m = 0 => (m + b - 1) \div b = 0
                     /\ 0 < m /\ m < b => (m + b - 1) \div b = 1 /\ m % b = m
                     /\ b <= m => /\ ((m - b) + b - 1) \div b = (m + b - 1) \div b - 1
                                  /\ (m - b) % b = m % b /\ m - b \in Nat
                                  /\ (m + b - 1) \div b >= 1
  BY PieceCount
<1>3. ASSUME NEW m \in Nat
      PROVE  /\ Pieces(m) \in Seq(Nat) /\ Len(Pieces(m)) = K(m) /\ K(m) \in Nat
             /\ \A i \in 1..K(m) : Pieces(m)[i] = IF i * b <= m THEN b ELSE m % b
  <2>1. K(m) \in Nat /\ \A i \in 1..K(m) : (IF i * b <= m THEN b ELSE m % b) \in Nat
    BY <1>1, <1>2
  <2>2. Pieces(m) = [i \in 1..K(m) |-> IF i * b <= m THEN b ELSE m % b]
    BY <1>1 DEF Pieces
  <2> HIDE DEF K
  <2>3. Pieces(m) \in [1..K(m) -> Nat]
    BY <2>1, <2>2
  <2>4. Pieces(m) \in UNION {[1..j -> Nat] : j \in Nat}
    BY <2>1, <2>3
  <2>5. Pieces(m) \in Seq(Nat)
    BY <2>4, SeqDef
  <2> QED BY <2>1, <2>2, <2>3, <2>5
<1>4. ASSUME n > 0
      PROVE  \E u \in Nat : /\ u > 0 /\ u <= n /\ Pieces(n) # << >> /\ Pieces(n)[1] = u
                            /\ Tail(Pieces(n)) = Pieces(n - u)
  <2> DEFINE u == IF b <= n THEN b ELSE n
  <2>1. u \in Nat /\ u > 0 /\ u <= n /\ n - u \in Nat
    BY <1>4
  <2>2. K(n) >= 1 /\ K(n - u) = K(n) - 1
    <3>1. K(n) = (n + b - 1) \div b /\ K(n - u) = ((n - u) + b - 1) \div b
      BY <1>1
    <3>2. CASE b <= n
      BY <1>2, <3>1, <3>2
    <3>3. CASE n < b
      <4>1. n - u = 0 /\ (n + b - 1) \div b = 1 /\ (0 + b - 1) \div b = 0
        BY <1>2, <1>4, <3>3
      <4> QED BY <3>1, <4>1
    <3> QED BY <3>2, <3>3
  <2>3. Pieces(n)[1] = u
    <3>1. 1 \in 1..K(n) /\ 1 * b = b
      BY <1>3, <2>2
    <3>2. Pieces(n)[1] = IF b <= n THEN b ELSE n % b
      <4> HIDE DEF K
      <4> QED BY <1>3, <3>1
    <3> QED BY <1>2, <1>4, <3>2
  <2>4. Pieces(n) # << >>
    BY <1>3, <2>2
  <2>5. /\ Tail(Pieces(n)) \in Seq(Nat) /\ Len(Tail(Pieces(n))) = K(n) - 1
        /\ \A i \in 1..(K(n) - 1) : Tail(Pieces(n))[i] = Pieces(n)[i + 1]
    <3> HIDE DEF K
    <3> QED BY <1>3, <2>4, HeadTailProperties
  <2>6. \A i \in 1..(K(n) - 1) : Pieces(n)[i + 1] = Pieces(n - u)[i]
    <3> SUFFICES ASSUME NEW i \in 1..(K(n) - 1)
                 PROVE  Pieces(n)[i + 1] = Pieces(n - u)[i]
      OBVIOUS
    <3>1. i \in Nat /\ i > 0 /\ i + 1 \in 1..K(n) /\ i \in 1..K(n - u)
      BY <1>3, <2>2
    <3>2. /\ Pieces(n)[i + 1] = IF (i + 1) * b <= n THEN b ELSE n % b
          /\ Pieces(n - u)[i] = IF i * b <= n - u THEN b ELSE (n - u) % b
      <4> HIDE DEF K, u
      <4> QED BY <1>3, <2>1, <3>1
    <3>3. b <= n
      BY <1>1, <1>2, <1>4, <3>1
    <3>4. u = b /\ (n - u) % b = n % b
      BY <1>2, <3>3
    <3>5. (i + 1) * b <= n <=> i * b <= n - b
      BY <3>1
    <3> QED BY <3>2, <3>4, <3>5
  <2>7. Tail(Pieces(n)) = Pieces(n - u)
    <3>1. Pieces(n - u) \in Seq(Nat) /\ Len(Pieces(n - u)) = K(n) - 1
      <4> HIDE DEF K, u
      <4> QED BY <1>3, <2>1, <2>2
    <3> HIDE DEF K, u
    <3> QED BY <2>5, <2>6, <3>1, SeqEqual
  <2> HIDE DEF u
  <2> QED BY <2>1, <2>3, <2>4, <2>7
<1>5. n = 0 => Pieces(n) = << >>
  <2> SUFFICES ASSUME n = 0
               PROVE  Pieces(n) = << >>
    OBVIOUS
  <2>1. K(n) = 0
    BY <1>1, <1>2
  <2> QED BY <1>3, <2>1, EmptySeq
<1> QED BY <1>3, <1>4, <1>5

LEMMA MapConcat ==
    ASSUME NEW S, NEW T, NEW h, Maps(h, S, T), NEW s \in Seq(S), NEW t \in Seq(S)
    PROVE  Map(h, s \o t) = Map(h, s) \o Map(h, t)
<1>1. PICK u \in Seq(S) : /\ u = s \o t /\ Len(u) = Len(s) + Len(t)
                          /\ \A i \in 1..Len(u) : u[i] = IF i <= Len(s) THEN s[i] ELSE t[i - Len(s)]
  <2>1. /\ s \o t \in Seq(S) /\ Len(s \o t) = Len(s) + Len(t)
        /\ \A i \in 1..(Len(s) + Len(t)) : (s \o t)[i] = IF i <= Len(s) THEN s[i] ELSE t[i - Len(s)]
    BY ConcatProperties
  <2> QED BY <2>1
<1>2. PICK a \in Seq(T) : /\ a = Map(h, u) /\ Len(a) = Len(u)
                          /\ \A i \in 1..Len(u) : a[i] = h[u[i]]
  <2>1. /\ Map(h, u) \in Seq(T) /\ Len(Map(h, u)) = Len(u)
        /\ \A i \in 1..Len(u) : Map(h, u)[i] = h[u[i]]
    BY MapFacts
  <2> QED BY <2>1
<1>3. PICK c \in Seq(T) : /\ c = Map(h, s) /\ Len(c) = Len(s)
                          /\ \A i \in 1..Len(s) : c[i] = h[s[i]]
  <2>1. /\ Map(h, s) \in Seq(T) /\ Len(Map(h, s)) = Len(s)
        /\ \A i \in 1..Len(s) : Map(h, s)[i] = h[s[i]]
    BY MapFacts
  <2> QED BY <2>1
<1>4. PICK d \in Seq(T) : /\ d = Map(h, t) /\ Len(d) = Len(t)
                          /\ \A i \in 1..Len(t) : d[i] = h[t[i]]
  <2>1. \A w \in Seq(S) : /\ Map(h, w) \in Seq(T) /\ Len(Map(h, w)) = Len(w)
                          /\ \A i \in 1..Len(w) : Map(h, w)[i] = h[w[i]]
    BY MapFacts
  <2>2. PICK y : y = Map(h, t)
    OBVIOUS
  <2>3. y \in Seq(T) /\ Len(y) = Len(t) /\ \A i \in 1..Len(t) : y[i] = h[t[i]]
    BY <2>1, <2>2
  <2> QED BY <2>2, <2>3
<1>5. PICK e \in Seq(T) : /\ e = c \o d /\ Len(e) = Len(c) + Len(d)
                          /\ \A i \in 1..Len(e) : e[i] = IF i <= Len(c) THEN c[i] ELSE d[i - Len(c)]
  <2>1. /\ c \o d \in Seq(T) /\ Len(c \o d) = Len(c) + Len(d)
        /\ \A i \in 1..(Len(c) + Len(d)) : (c \o d)[i] = IF i <= Len(c) THEN c[i] ELSE d[i - Len(c)]
    BY ConcatProperties
  <2> QED BY <2>1
<1>6. Len(s) \in Nat /\ Len(t) \in Nat
  BY LenProperties
<1>7. ASSUME NEW i \in 1..Len(a)
      PROVE  a[i] = e[i]
  <2>1. i \in 1..Len(u) /\ i \in 1..Len(e) /\ i \in Nat
    BY <1>1, <1>2, <1>3, <1>4, <1>5, <1>6
  <2>2. CASE i <= Len(s)
    <3>1. i \in 1..Len(s)
      BY <1>6, <2>1, <2>2
    <3>2. a[i] = h[u[i]] /\ u[i] = s[i]
      BY <1>1, <1>2, <2>1, <2>2
    <3>3. c[i] = h[s[i]]
      BY <1>3, <3>1
    <3>4. e[i] = c[i]
      BY <1>3, <1>5, <2>1, <2>2
    <3> QED BY <3>2, <3>3, <3>4
  <2>3. CASE ~(i <= Len(s))
    <3>1. i - Len(s) \in 1..Len(t)
      BY <1>1, <1>2, <1>6, <2>3
    <3>2. a[i] = h[u[i]] /\ u[i] = t[i - Len(s)]
      BY <1>1, <1>2, <2>1, <2>3
    <3>3. d[i - Len(s)] = h[t[i - Len(s)]]
      BY <1>4, <3>1
    <3>4. e[i] = d[i - Len(s)]
      BY <1>3, <1>5, <2>1, <2>3
    <3> QED BY <3>2, <3>3, <3>4
  <2> QED BY <2>2, <2>3
<1>8. Len(a) = Len(e)
  BY <1>1, <1>2, <1>3, <1>4, <1>5
<1>9. a = e
  BY <1>7, <1>8, SeqEqual
<1> QED BY <1>1, <1>2, <1>3, <1>4, <1>5, <1>9

LEMMA SpreadConcat ==
    ASSUME NEW S, NEW T, NEW h, Maps(h, S, Seq(T)), NEW s \in Seq(S), NEW t \in Seq(S)
    PROVE  Spread(h, s \o t) = Spread(h, s) \o Spread(h, t)
<1>1. Map(h, s \o t) = Map(h, s) \o Map(h, t)
  BY MapConcat
<1>2. Map(h, s) \in Seq(Seq(T)) /\ Map(h, t) \in Seq(Seq(T))
  BY MapFacts
<1>3. FlattenSeq(Map(h, s) \o Map(h, t)) = FlattenSeq(Map(h, s)) \o FlattenSeq(Map(h, t))
  BY <1>2, FlattenConcat
<1> QED BY <1>1, <1>3 DEF Spread

(* One sequence behind another.  The same as \o, and kept apart from it because
   the provers expand \o everywhere and then see no sequence that a lemma is about. *)
s ++ t == s \o t

LEMMA CatType ==
    ASSUME NEW S, NEW s \in Seq(S), NEW t \in Seq(S)
    PROVE  s ++ t \in Seq(S) /\ Len(s ++ t) = Len(s) + Len(t)
  BY ConcatProperties DEF ++

LEMMA CatAssoc ==
    ASSUME NEW S, NEW a \in Seq(S), NEW b \in Seq(S), NEW c \in Seq(S)
    PROVE  (a ++ b) ++ c = a ++ (b ++ c)
  BY Assoc DEF ++

LEMMA CatFour ==
    ASSUME NEW S, NEW a \in Seq(S), NEW b \in Seq(S), NEW c \in Seq(S), NEW d \in Seq(S)
    PROVE  ((a ++ b) ++ c) ++ d = a ++ (b ++ (c ++ d))
  BY CatType, CatAssoc, SMTT(30)

LEMMA CatEmpty ==
    ASSUME NEW S, NEW a \in Seq(S)
    PROVE  a ++ << >> = a /\ << >> ++ a = a
  BY ConcatEmptySeq DEF ++

LEMMA CatIs ==
    ASSUME NEW S, NEW a \in Seq(S), NEW b \in Seq(S)
    PROVE  \E d \in Seq(S) : /\ d = a ++ b /\ Len(d) = Len(a) + Len(b)
                             /\ \A i \in 1..Len(d) : d[i] = IF i <= Len(a) THEN a[i] ELSE b[i - Len(a)]
<1>1. /\ a \o b \in Seq(S) /\ Len(a \o b) = Len(a) + Len(b)
      /\ \A i \in 1..(Len(a) + Len(b)) : (a \o b)[i] = IF i <= Len(a) THEN a[i] ELSE b[i - Len(a)]
  BY ConcatProperties
<1> QED BY <1>1 DEF ++

LEMMA CatCells ==
    ASSUME NEW a \in Seq(Cell), NEW b \in Seq(Cell)
    PROVE  \E d \in Seq(Cell) : /\ d = a ++ b /\ Len(d) = Len(a) + Len(b)
                                /\ \A i \in 1..Len(d) : d[i] = IF i <= Len(a) THEN a[i] ELSE b[i - Len(a)]
  BY CatIs

LEMMA CatTwo ==
    ASSUME NEW S, NEW a \in Seq(S), NEW b \in Seq(S), NEW c \in Seq(S),
           Len(a) = 1, Len(b) = 1, Len(c) = 2, c[1] = a[1], c[2] = b[1]
    PROVE  c = a ++ b
<1>1. PICK d \in Seq(S) : /\ d = a ++ b /\ Len(d) = Len(a) + Len(b)
                          /\ \A i \in 1..Len(d) : d[i] = IF i <= Len(a) THEN a[i] ELSE b[i - Len(a)]
  BY CatIs
<1>2. Len(d) = 2 /\ 1 \in 1..Len(d) /\ 2 \in 1..Len(d) /\ 1 <= Len(a) /\ ~(2 <= Len(a)) /\ 2 - Len(a) = 1
  BY <1>1
<1>3. d[1] = a[1] /\ d[2] = b[1]
  <2>1. d[1] = a[1]
    BY <1>1, <1>2
  <2>2. d[2] = b[2 - Len(a)]
    BY <1>1, <1>2
  <2> QED BY <1>2, <2>1, <2>2
<1>4. \A i \in 1..Len(c) : c[i] = d[i]
  BY <1>3
<1> QED BY <1>1, <1>2, <1>4, SeqEqual

LEMMA Singleton ==
    ASSUME NEW S, NEW x \in S
    PROVE  <<x>> \in Seq(S) /\ Len(<<x>>) = 1 /\ <<x>>[1] = x
  OBVIOUS

LEMMA Pair ==
    ASSUME NEW S, NEW x \in S, NEW y \in S
    PROVE  <<x, y>> \in Seq(S) /\ Len(<<x, y>>) = 2 /\ <<x, y>>[1] = x /\ <<x, y>>[2] = y
  OBVIOUS

LEMMA CatPair ==
    ASSUME NEW S, NEW x \in S, NEW y \in S
    PROVE  <<x, y>> = <<x>> ++ <<y>>
<1>1. PICK a : a = <<x>>
  OBVIOUS
<1>2. PICK b : b = <<y>>
  OBVIOUS
<1>3. PICK c : c = <<x, y>>
  OBVIOUS
<1>4. a \in Seq(S) /\ Len(a) = 1 /\ a[1] = x
  BY <1>1, Singleton
<1>5. b \in Seq(S) /\ Len(b) = 1 /\ b[1] = y
  BY <1>2, Singleton
<1>6. c \in Seq(S) /\ Len(c) = 2 /\ c[1] = x /\ c[2] = y
  BY <1>3, Pair
<1>7. c = a ++ b
  BY <1>4, <1>5, <1>6, CatTwo
<1> QED BY <1>1, <1>2, <1>3, <1>7

LEMMA SpreadCat ==
    ASSUME NEW S, NEW T, NEW h, Maps(h, S, Seq(T))
    PROVE  /\ \A s, t \in Seq(S) : Spread(h, s ++ t) = Spread(h, s) ++ Spread(h, t)
           /\ \A s \in Seq(S), x \in S : Spread(h, Append(s, x)) = Spread(h, s) ++ h[x]
           /\ \A s \in Seq(S) : Spread(h, s) \in Seq(T)
           /\ \A s \in Seq(S) : s # << >> =>
                /\ s[1] \in S /\ Tail(s) \in Seq(S) /\ h[s[1]] \in Seq(T)
                /\ Spread(h, s) = h[s[1]] ++ Spread(h, Tail(s))
  BY SpreadConcat, SpreadAppend, SpreadType, SpreadFirst DEF ++

LEMMA SpreadOne ==
    ASSUME NEW S, NEW T, NEW h, Maps(h, S, Seq(T)), NEW x \in S
    PROVE  Spread(h, <<x>>) = h[x]
<1>1. <<x>> = Append(<< >>, x) /\ << >> \in Seq(S) /\ h[x] \in Seq(T)
  BY DEF Maps
<1>4. \A s \in Seq(S) : Spread(h, Append(s, x)) = Spread(h, s) \o h[x]
  BY SpreadAppend
<1>2. Spread(h, Append(<< >>, x)) = Spread(h, << >>) \o h[x]
  BY <1>1, <1>4
<1>3. << >> \o h[x] = h[x]
  BY <1>1, ConcatEmptySeq
<1> QED BY <1>1, <1>2, <1>3, SpreadEmpty

LEMMA PayloadFacts ==
    ASSUME NEW o \in Op
    PROVE  /\ Payload(o) \in Seq(Cell)
           /\ o.op = "ADD" /\ o.z => Payload(o) = Spread(ChunkOf(o), Pieces(o.size))
           /\ ~(o.op = "ADD" /\ o.z) => Len(Payload(o)) = o.size
<1>1. o.size \in Nat
  BY DEF Op
<1>2. Pieces(o.size) \in Seq(Nat)
  BY <1>1, PiecesFacts
<1>3. ChunkCells(o) = Spread(ChunkOf(o), Pieces(o.size))
  <2>1. PICK p \in Seq(Nat) : p = Pieces(o.size)
    BY <1>2
  <2> DEFINE A(i) == LET u == p[i] IN
                     << [k |-> "sizes", u |-> u, c |-> CompSize(u)] >> \o DataCells(o, CompSize(u))
             B(i) == ChunkOf(o)[p[i]]
  <2>2. \A i \in DOMAIN p : A(i) = B(i)
    <3> SUFFICES ASSUME NEW i \in DOMAIN p
                 PROVE  A(i) = B(i)
      OBVIOUS
    <3>1. p[i] \in Nat
      BY LenProperties, ElementOfSeq
    <3> QED BY <3>1, ChunkFacts
  <2>3. ChunkCells(o) = FlattenSeq([i \in DOMAIN p |-> A(i)])
    BY <2>1 DEF ChunkCells
  <2>4. Spread(ChunkOf(o), p) = FlattenSeq([i \in DOMAIN p |-> B(i)])
    BY DEF Spread, Map
  <2>5. [i \in DOMAIN p |-> A(i)] = [i \in DOMAIN p |-> B(i)]
    <3> HIDE DEF A, B
    <3> QED BY <2>2
  <2> HIDE DEF A, B
  <2> QED BY <2>1, <2>3, <2>4, <2>5
<1>4. Spread(ChunkOf(o), Pieces(o.size)) \in Seq(Cell)
  BY <1>2, ChunkFacts, SpreadType
<1>5. DataCells(o, o.size) \in Seq(Cell) /\ Len(DataCells(o, o.size)) = o.size
  BY <1>1, DataFacts
<1>6. CASE o.op = "ADD" /\ o.z
  BY <1>3, <1>4, <1>6 DEF Payload
<1>7. CASE ~(o.op = "ADD" /\ o.z)
  BY <1>5, <1>7 DEF Payload
<1> QED BY <1>6, <1>7


(* What is still to come in a patch of which the operations s are left. *)
Remain(s) == Spread(CellsOfOp, s) ++ OpCells(Done)

LEMMA CellsOfOpMaps ==
    /\ Maps(CellsOfOp, Op, Seq(Cell))
    /\ \A o \in Op : CellsOfOp[o] = OpCells(o) ++ Payload(o)
<1>1. ASSUME NEW o \in Op
      PROVE  OpCells(o) \o Payload(o) \in Seq(Cell)
  <2>1. OpCells(o) \in Seq(Cell)
    BY OpFacts DEF AnyOp
  <2> QED BY <2>1, PayloadFacts, ConcatProperties
<1> QED BY <1>1 DEF CellsOfOp, Maps, ++

LEMMA DoneFacts == OpCells(Done) \in Seq(Cell) /\ Len(OpCells(Done)) = 2
  BY OpFacts DEF AnyOp

LEMMA OpsFacts ==
    ASSUME NEW s \in Seq(Op)
    PROVE  /\ Spread(CellsOfOp, s) \in Seq(Cell)
           /\ s # << >> => /\ s[1] \in Op /\ Tail(s) \in Seq(Op)
                           /\ Spread(CellsOfOp, s) = CellsOfOp[s[1]] ++ Spread(CellsOfOp, Tail(s))
  BY CellsOfOpMaps, SpreadCat

LEMMA RemainFacts ==
    /\ Remain(<< >>) = OpCells(Done)
    /\ \A s \in Seq(Op) :
         /\ Remain(s) \in Seq(Cell)
         /\ s # << >> => /\ s[1] \in Op /\ Tail(s) \in Seq(Op) /\ Len(Tail(s)) = Len(s) - 1
                         /\ Remain(s) = OpCells(s[1]) ++ (Payload(s[1]) ++ Remain(Tail(s)))
<1>1. Remain(<< >>) = OpCells(Done)
  BY SpreadEmpty, DoneFacts, CatEmpty DEF Remain
<1>2. ASSUME NEW s \in Seq(Op)
      PROVE  Remain(s) \in Seq(Cell)
  BY OpsFacts, DoneFacts, CatType DEF Remain
<1>3. ASSUME NEW s \in Seq(Op), s # << >>
      PROVE  /\ s[1] \in Op /\ Tail(s) \in Seq(Op) /\ Len(Tail(s)) = Len(s) - 1
             /\ Remain(s) = OpCells(s[1]) ++ (Payload(s[1]) ++ Remain(Tail(s)))
  <2>1. PICK o \in Op, t \in Seq(Op) :
           /\ o = s[1] /\ t = Tail(s)
           /\ Spread(CellsOfOp, s) = CellsOfOp[o] ++ Spread(CellsOfOp, t)
    BY <1>3, OpsFacts
  <2>2. CellsOfOp[o] = OpCells(o) ++ Payload(o)
    BY CellsOfOpMaps
  <2>3. /\ OpCells(o) \in Seq(Cell) /\ Payload(o) \in Seq(Cell)
        /\ Spread(CellsOfOp, t) \in Seq(Cell) /\ OpCells(Done) \in Seq(Cell)
    BY OpFacts, PayloadFacts, OpsFacts, DoneFacts DEF AnyOp
  <2>4. /\ ((OpCells(o) ++ Payload(o)) ++ Spread(CellsOfOp, t)) ++ OpCells(Done)
             = OpCells(o) ++ (Payload(o) ++ (Spread(CellsOfOp, t) ++ OpCells(Done)))
    BY <2>3, CatFour
  <2>5. Len(Tail(s)) = Len(s) - 1
    BY <1>3, HeadTailProperties
  <2> QED BY <2>1, <2>2, <2>4, <2>5 DEF Remain
<1> QED BY <1>1, <1>2, <1>3

LEMMA PatchFacts ==
    ASSUME NEW p \in Seq(Op)
    PROVE  /\ PatchImage(p) \in Seq(Cell)
           /\ PatchImage(p) = HeaderCells ++ Remain(p)
<1>1. [i \in DOMAIN p |-> OpCells(p[i]) \o Payload(p[i])] = Map(CellsOfOp, p)
  <2> DEFINE A(i) == OpCells(p[i]) \o Payload(p[i])
             B(i) == CellsOfOp[p[i]]
  <2>1. \A i \in DOMAIN p : A(i) = B(i)
    <3> SUFFICES ASSUME NEW i \in DOMAIN p
                 PROVE  A(i) = B(i)
      OBVIOUS
    <3>1. p[i] \in Op
      BY LenProperties, ElementOfSeq
    <3> QED BY <3>1, CellsOfOpMaps DEF ++
  <2>2. [i \in DOMAIN p |-> A(i)] = [i \in DOMAIN p |-> B(i)]
    <3> HIDE DEF A, B
    <3> QED BY <2>1
  <2> QED BY <2>2 DEF Map
<1>2. PatchImage(p) = (HeaderCells ++ Spread(CellsOfOp, p)) ++ OpCells(Done)
  BY <1>1 DEF PatchImage, Spread, ++
<1>3. Spread(CellsOfOp, p) \in Seq(Cell) /\ HeaderCells \in Seq(Cell) /\ OpCells(Done) \in Seq(Cell)
  BY OpsFacts, HeaderFacts, DoneFacts
<1>4. PatchImage(p) = HeaderCells ++ Remain(p)
  BY <1>2, <1>3, CatAssoc DEF Remain
<1>5. HeaderCells ++ Remain(p) \in Seq(Cell)
  BY <1>3, RemainFacts, CatType
<1> QED BY <1>4, <1>5

LEMMA ImageIsSpread ==
    ASSUME NEW ps \in Seq(Seq(Op))
    PROVE  Image(ps) = Spread(CellsOfPatch, ps)
<1>1. [i \in DOMAIN ps |-> PatchImage(ps[i])] = Map(CellsOfPatch, ps)
  <2> DEFINE A(i) == PatchImage(ps[i])
             B(i) == CellsOfPatch[ps[i]]
  <2>1. \A i \in DOMAIN ps : A(i) = B(i)
    <3> SUFFICES ASSUME NEW i \in DOMAIN ps
                 PROVE  A(i) = B(i)
      OBVIOUS
    <3>1. ps[i] \in Seq(Op)
      BY LenProperties, ElementOfSeq
    <3> QED BY <3>1 DEF CellsOfPatch
  <2>2. [i \in DOMAIN ps |-> A(i)] = [i \in DOMAIN ps |-> B(i)]
    <3> HIDE DEF A, B
    <3> QED BY <2>1
  <2> QED BY <2>2 DEF Map
<1> QED BY <1>1 DEF Image, Spread

LEMMA CellsOfPatchMaps ==
    /\ Maps(CellsOfPatch, Seq(Op), Seq(Cell))
    /\ \A p \in Seq(Op) : CellsOfPatch[p] = PatchImage(p)
  BY PatchFacts DEF CellsOfPatch, Maps

LEMMA ImageFacts ==
    /\ Image(<< >>) = << >>
    /\ \A ps \in Seq(Seq(Op)) :
         /\ Image(ps) \in Seq(Cell)
         /\ ps # << >> => /\ ps[1] \in Seq(Op) /\ Tail(ps) \in Seq(Seq(Op))
                          /\ Image(ps) = PatchImage(ps[1]) ++ Image(Tail(ps))
         /\ \A p \in Seq(Op) : Image(Append(ps, p)) = Image(ps) ++ PatchImage(p)
    /\ \A ps, qs \in Seq(Seq(Op)) : Image(ps ++ qs) = Image(ps) ++ Image(qs)
<1>0. /\ \A s, t \in Seq(Seq(Op)) :
           Spread(CellsOfPatch, s ++ t) = Spread(CellsOfPatch, s) ++ Spread(CellsOfPatch, t)
      /\ \A s \in Seq(Seq(Op)), x \in Seq(Op) :
           Spread(CellsOfPatch, Append(s, x)) = Spread(CellsOfPatch, s) ++ CellsOfPatch[x]
      /\ \A s \in Seq(Seq(Op)) : Spread(CellsOfPatch, s) \in Seq(Cell)
      /\ \A s \in Seq(Seq(Op)) : s # << >> =>
           /\ s[1] \in Seq(Op) /\ Tail(s) \in Seq(Seq(Op))
           /\ Spread(CellsOfPatch, s) = CellsOfPatch[s[1]] ++ Spread(CellsOfPatch, Tail(s))
  BY CellsOfPatchMaps, SpreadCat
<1>1. Image(<< >>) = << >>
  <2>1. << >> \in Seq(Seq(Op))
    OBVIOUS
  <2> QED BY <2>1, SpreadEmpty, ImageIsSpread
<1>2. ASSUME NEW ps \in Seq(Seq(Op))
      PROVE  /\ Image(ps) \in Seq(Cell)
             /\ ps # << >> => /\ ps[1] \in Seq(Op) /\ Tail(ps) \in Seq(Seq(Op))
                              /\ Image(ps) = PatchImage(ps[1]) ++ Image(Tail(ps))
  BY <1>0, CellsOfPatchMaps, ImageIsSpread
<1>3. ASSUME NEW ps \in Seq(Seq(Op)), NEW p \in Seq(Op)
      PROVE  Image(Append(ps, p)) = Image(ps) ++ PatchImage(p)
  <2>1. PICK qs \in Seq(Seq(Op)) : qs = Append(ps, p)
    BY AppendProperties
  <2>2. Spread(CellsOfPatch, qs) = Spread(CellsOfPatch, ps) ++ CellsOfPatch[p]
    BY <1>0, <2>1
  <2>3. Image(qs) = Spread(CellsOfPatch, qs) /\ Image(ps) = Spread(CellsOfPatch, ps)
    BY ImageIsSpread
  <2> QED BY <2>1, <2>2, <2>3, CellsOfPatchMaps
<1>4. ASSUME NEW ps \in Seq(Seq(Op)), NEW qs \in Seq(Seq(Op))
      PROVE  Image(ps ++ qs) = Image(ps) ++ Image(qs)
  <2>1. ps ++ qs \in Seq(Seq(Op))
    BY CatType
  <2> QED BY <1>0, <2>1, ImageIsSpread
<1> QED BY <1>1, <1>2, <1>3, <1>4

(* To spread what each element is spread to is to spread once. *)
LEMMA SpreadTwiceAppend ==
    ASSUME NEW S, NEW T, NEW U, NEW g, NEW h, NEW k,
           Maps(g, S, Seq(T)), Maps(h, T, Seq(U)), Maps(k, S, Seq(U)),
           \A x \in S : k[x] = Spread(h, g[x]),
           NEW s \in Seq(S), NEW x \in S, Spread(h, Spread(g, s)) = Spread(k, s)
    PROVE  Spread(h, Spread(g, Append(s, x))) = Spread(k, Append(s, x))
<1>1. Spread(g, Append(s, x)) = Spread(g, s) ++ g[x]
  BY SpreadCat
<1>2. Spread(k, Append(s, x)) = Spread(k, s) ++ k[x]
  BY SpreadCat
<1>3. PICK a \in Seq(T), b \in Seq(T) : a = Spread(g, s) /\ b = g[x]
  BY SpreadType DEF Maps
<1>4. Spread(h, a ++ b) = Spread(h, a) ++ Spread(h, b)
  BY SpreadCat
<1> QED BY <1>1, <1>2, <1>3, <1>4

LEMMA SpreadTwice ==
    ASSUME NEW S, NEW T, NEW U, NEW g, NEW h, NEW k,
           Maps(g, S, Seq(T)), Maps(h, T, Seq(U)), Maps(k, S, Seq(U)),
           \A x \in S : k[x] = Spread(h, g[x])
    PROVE  \A s \in Seq(S) : Spread(h, Spread(g, s)) = Spread(k, s)
<1> DEFINE M == {n \in Nat : \E s \in Seq(S) :
                    Len(s) = n /\ Spread(h, Spread(g, s)) # Spread(k, s)}
<1>1. SUFFICES ASSUME M # {}
               PROVE  FALSE
  <2> SUFFICES ASSUME NEW s \in Seq(S), Spread(h, Spread(g, s)) # Spread(k, s)
               PROVE  M # {}
    OBVIOUS
  <2> Len(s) \in Nat
    OBVIOUS
  <2> QED OBVIOUS
<1>2. PICK n \in M : \A j \in Nat : j < n => j \notin M
  <2>1. M \subseteq Nat
    OBVIOUS
  <2> HIDE DEF M
  <2> QED BY <1>1, <2>1, HasLeast
<1>3. PICK s \in Seq(S) : Len(s) = n /\ Spread(h, Spread(g, s)) # Spread(k, s)
  BY <1>2
<1>4. s # << >>
  BY <1>3, SpreadEmpty
<1>5. PICK t \in Seq(S), x \in S : s = Append(t, x) /\ Len(t) \in Nat /\ Len(s) = Len(t) + 1
  BY <1>4, LastOf
<1>6. Spread(h, Spread(g, t)) = Spread(k, t)
  <2>1. Len(t) \notin M
    BY <1>2, <1>3, <1>5
  <2> QED BY <1>5, <2>1
<1> HIDE DEF M
<1> QED BY <1>3, <1>5, <1>6, SpreadTwiceAppend

LEMMA CellsOfTaskMaps ==
    /\ Maps(CellsOfTask, Task, Seq(Cell))
    /\ \A t \in Task : t.w \in {"put", "spawn"}
    /\ \A t \in Task : t.w = "put" => t.cells \in Seq(Cell) /\ CellsOfTask[t] = t.cells
    /\ \A t \in Task : t.w = "spawn" => CellsOfTask[t] = << >>
    /\ \A c \in Seq(Cell) : [w |-> "put", cells |-> c] \in Task
    /\ [w |-> "spawn"] \in Task
<1>1. \A t \in Task : t.w \in {"put", "spawn"}
  BY DEF Task
<1>2. \A t \in Task : t.w = "put" => t.cells \in Seq(Cell)
  BY DEF Task
<1>3. << >> \in Seq(Cell)
  OBVIOUS
<1>4. \A t \in Task : (IF t.w = "put" THEN t.cells ELSE << >>) \in Seq(Cell)
  BY <1>2, <1>3
<1>5. Maps(CellsOfTask, Task, Seq(Cell))
  BY <1>4 DEF CellsOfTask, Maps
<1>6. \A c \in Seq(Cell) : [w |-> "put", cells |-> c] \in Task
  BY DEF Task
<1>7. [w |-> "spawn"] \in Task
  BY DEF Task
<1>8. \A t \in Task : CellsOfTask[t] = IF t.w = "put" THEN t.cells ELSE << >>
  BY DEF CellsOfTask
<1> QED BY <1>1, <1>2, <1>5, <1>6, <1>7, <1>8

LEMMA TasksCat ==
    ASSUME NEW s \in Seq(Task), NEW t \in Seq(Task)
    PROVE  CellsOfTasks(s ++ t) = CellsOfTasks(s) ++ CellsOfTasks(t)
  BY CellsOfTaskMaps, SpreadCat DEF CellsOfTasks

LEMMA TasksOne ==
    ASSUME NEW t \in Task
    PROVE  <<t>> \in Seq(Task) /\ CellsOfTasks(<<t>>) = CellsOfTask[t]
  BY CellsOfTaskMaps, SpreadOne, Singleton DEF CellsOfTasks

LEMMA PutOpFacts ==
    ASSUME NEW o \in Op
    PROVE  PutOp(o) \in Seq(Task) /\ CellsOfTasks(PutOp(o)) = OpCells(o) ++ Payload(o)
<1>1. PICK a \in Seq(Cell), b \in Seq(Cell) : a = OpCells(o) /\ b = Payload(o)
  BY OpFacts, PayloadFacts DEF AnyOp
<1>2. PICK p \in Task, q \in Task, r \in Task :
         /\ p = [w |-> "put", cells |-> a] /\ q = [w |-> "put", cells |-> b]
         /\ r = [w |-> "spawn"]
  BY CellsOfTaskMaps
<1>3. CellsOfTask[p] = a /\ CellsOfTask[q] = b /\ CellsOfTask[r] = << >>
  <2>1. p.w = "put" /\ p.cells = a /\ q.w = "put" /\ q.cells = b /\ r.w = "spawn"
    BY <1>2
  <2> QED BY <2>1, CellsOfTaskMaps
<1>4. PICK P \in Seq(Task), Q \in Seq(Task), R \in Seq(Task) :
         /\ P = <<p>> /\ Q = <<q>> /\ R = <<r>>
         /\ CellsOfTasks(P) = a /\ CellsOfTasks(Q) = b /\ CellsOfTasks(R) = << >>
  BY <1>3, TasksOne
<1>5. <<p, q>> = P ++ Q
  BY <1>4, CatPair
<1>6. P ++ Q \in Seq(Task) /\ CellsOfTasks(P ++ Q) = a ++ b
  BY <1>4, TasksCat, CatType
<1>7. << >> ++ (P ++ Q) = P ++ Q /\ R ++ (P ++ Q) \in Seq(Task)
  BY <1>6, CatType, CatEmpty
<1>8. CellsOfTasks(R ++ (P ++ Q)) = << >> ++ (a ++ b)
  BY <1>4, <1>6, TasksCat
<1>9. << >> ++ (a ++ b) = a ++ b
  BY CatType, CatEmpty
<1>10. PutOp(o) = (IF o.op = "PATCH" THEN R ELSE << >>) ++ (P ++ Q)
  BY <1>1, <1>2, <1>4, <1>5 DEF PutOp, ++
<1> QED BY <1>1, <1>6, <1>7, <1>8, <1>9, <1>10

(* The calls that put a patch write its image. *)
LEMMA PutPatchFacts ==
    ASSUME NEW p \in Seq(Op)
    PROVE  PutPatch(p) \in Seq(Task) /\ CellsOfTasks(PutPatch(p)) = PatchImage(p)
<1>1. /\ Maps(TasksOfOp, Op, Seq(Task))
      /\ \A o \in Op : TasksOfOp[o] = PutOp(o)
  BY PutOpFacts DEF TasksOfOp, Maps
<1>2. \A o \in Op : CellsOfOp[o] = Spread(CellsOfTask, TasksOfOp[o])
  BY <1>1, PutOpFacts, CellsOfOpMaps DEF CellsOfTasks
<1>3. Spread(CellsOfTask, Spread(TasksOfOp, p)) = Spread(CellsOfOp, p)
  <2>1. \A s \in Seq(Op) : Spread(CellsOfTask, Spread(TasksOfOp, s)) = Spread(CellsOfOp, s)
    BY <1>1, <1>2, CellsOfOpMaps, CellsOfTaskMaps, SpreadTwice
  <2> QED BY <2>1
<1>4. [i \in DOMAIN p |-> PutOp(p[i])] = Map(TasksOfOp, p)
  <2> DEFINE A(i) == PutOp(p[i])
             B(i) == TasksOfOp[p[i]]
  <2>1. \A i \in DOMAIN p : A(i) = B(i)
    <3> SUFFICES ASSUME NEW i \in DOMAIN p
                 PROVE  A(i) = B(i)
      OBVIOUS
    <3>1. p[i] \in Op
      BY LenProperties, ElementOfSeq
    <3> QED BY <3>1, <1>1
  <2>2. [i \in DOMAIN p |-> A(i)] = [i \in DOMAIN p |-> B(i)]
    <3> HIDE DEF A, B
    <3> QED BY <2>1
  <2> QED BY <2>2 DEF Map
<1>5. PICK h \in Task, d \in Task :
         h = [w |-> "put", cells |-> HeaderCells] /\ d = [w |-> "put", cells |-> OpCells(Done)]
  BY CellsOfTaskMaps, HeaderFacts, DoneFacts
<1>6. CellsOfTask[h] = HeaderCells /\ CellsOfTask[d] = OpCells(Done)
  <2>1. h.w = "put" /\ h.cells = HeaderCells /\ d.w = "put" /\ d.cells = OpCells(Done)
    BY <1>5
  <2> QED BY <2>1, CellsOfTaskMaps
<1>7. PICK H \in Seq(Task), D \in Seq(Task) :
         /\ H = <<h>> /\ D = <<d>>
         /\ CellsOfTasks(H) = HeaderCells /\ CellsOfTasks(D) = OpCells(Done)
  BY <1>6, TasksOne
<1>8. PICK m \in Seq(Task) : m = Spread(TasksOfOp, p)
  BY <1>1, SpreadType
<1>9. CellsOfTasks(m) = Spread(CellsOfOp, p)
  BY <1>3, <1>8 DEF CellsOfTasks
<1>10. PutPatch(p) = (H ++ m) ++ D
  BY <1>4, <1>5, <1>7, <1>8 DEF PutPatch, Spread, ++
<1>11. /\ (H ++ m) ++ D \in Seq(Task)
       /\ CellsOfTasks((H ++ m) ++ D) = (HeaderCells ++ Spread(CellsOfOp, p)) ++ OpCells(Done)
  <2>1. H ++ m \in Seq(Task) /\ CellsOfTasks(H ++ m) = HeaderCells ++ Spread(CellsOfOp, p)
    BY <1>7, <1>9, TasksCat, CatType
  <2> QED BY <1>7, <2>1, TasksCat, CatType
<1>12. HeaderCells \in Seq(Cell) /\ Spread(CellsOfOp, p) \in Seq(Cell) /\ OpCells(Done) \in Seq(Cell)
  BY OpsFacts, HeaderFacts, DoneFacts
<1>13. (HeaderCells ++ Spread(CellsOfOp, p)) ++ OpCells(Done) = PatchImage(p)
  BY <1>12, CatAssoc, PatchFacts DEF Remain
<1> QED BY <1>10, <1>11, <1>13

(* The head of the tasks and what it writes. *)
LEMMA TasksFacts ==
    ASSUME NEW t \in Seq(Task)
    PROVE  /\ CellsOfTasks(t) \in Seq(Cell)
           /\ t = << >> => CellsOfTasks(t) = << >>
           /\ t # << >> => /\ Head(t) \in Task /\ Tail(t) \in Seq(Task)
                           /\ CellsOfTask[Head(t)] \in Seq(Cell)
                           /\ CellsOfTasks(t) = CellsOfTask[Head(t)] ++ CellsOfTasks(Tail(t))
<1>1. CellsOfTasks(t) \in Seq(Cell)
  BY CellsOfTaskMaps, SpreadType DEF CellsOfTasks
<1>2. t = << >> => CellsOfTasks(t) = << >>
  BY SpreadEmpty DEF CellsOfTasks
<1>3. ASSUME t # << >>
      PROVE  /\ Head(t) \in Task /\ Tail(t) \in Seq(Task)
             /\ CellsOfTask[Head(t)] \in Seq(Cell)
             /\ CellsOfTasks(t) = CellsOfTask[Head(t)] ++ CellsOfTasks(Tail(t))
  <2>1. /\ t[1] \in Task /\ Tail(t) \in Seq(Task) /\ CellsOfTask[t[1]] \in Seq(Cell)
        /\ Spread(CellsOfTask, t) = CellsOfTask[t[1]] ++ Spread(CellsOfTask, Tail(t))
    BY <1>3, CellsOfTaskMaps, SpreadCat
  <2>2. Head(t) = t[1]
    BY <1>3
  <2> QED BY <2>1, <2>2 DEF CellsOfTasks
<1> QED BY <1>1, <1>2, <1>3

LEMMA WithDoneMaps ==
    /\ Maps(WithDone, Seq(Op), Seq(AnyOp))
    /\ \A p \in Seq(Op) : Len(WithDone[p]) = Len(p) + 1 /\ Len(WithDone[p]) \in Nat
<1>1. ASSUME NEW p \in Seq(Op)
      PROVE  /\ Append(p, Done) \in Seq(AnyOp)
             /\ Len(Append(p, Done)) = Len(p) + 1 /\ Len(Append(p, Done)) \in Nat
  <2>1. p \in Seq(AnyOp) /\ Done \in AnyOp
    BY DEF AnyOp
  <2> QED BY <2>1, AppendProperties, LenProperties
<1> QED BY <1>1 DEF WithDone, Maps

LEMMA OperationsFacts ==
    /\ Operations(<< >>) = 0
    /\ \A ps \in Seq(Seq(Op)) :
         /\ Operations(ps) \in Nat
         /\ \A p \in Seq(Op) : Operations(Append(ps, p)) = Operations(ps) + Len(p) + 1
    /\ \A ps, qs \in Seq(Seq(Op)) : Operations(ps ++ qs) = Operations(ps) + Operations(qs)
<1>1. /\ \A s, t \in Seq(Seq(Op)) : Spread(WithDone, s ++ t) = Spread(WithDone, s) ++ Spread(WithDone, t)
      /\ \A s \in Seq(Seq(Op)), x \in Seq(Op) :
           Spread(WithDone, Append(s, x)) = Spread(WithDone, s) ++ WithDone[x]
      /\ \A s \in Seq(Seq(Op)) : Spread(WithDone, s) \in Seq(AnyOp)
  BY WithDoneMaps, SpreadCat
<1>2. \A ps \in Seq(Seq(Op)) : Operations(ps) = Len(Spread(WithDone, ps))
  <2> SUFFICES ASSUME NEW ps \in Seq(Seq(Op))
               PROVE  Operations(ps) = Len(Spread(WithDone, ps))
    OBVIOUS
  <2> DEFINE A(i) == Append(ps[i], Done)
             B(i) == WithDone[ps[i]]
  <2>1. \A i \in DOMAIN ps : A(i) = B(i)
    <3> SUFFICES ASSUME NEW i \in DOMAIN ps
                 PROVE  A(i) = B(i)
      OBVIOUS
    <3>1. ps[i] \in Seq(Op)
      BY LenProperties, ElementOfSeq
    <3> QED BY <3>1 DEF WithDone
  <2>2. [i \in DOMAIN ps |-> A(i)] = [i \in DOMAIN ps |-> B(i)]
    <3> HIDE DEF A, B
    <3> QED BY <2>1
  <2> QED BY <2>2 DEF Operations, Spread, Map
<1>3. Operations(<< >>) = 0
  <2>1. << >> \in Seq(Seq(Op)) /\ Len(<< >>) = 0
    OBVIOUS
  <2> QED BY <1>2, <2>1, SpreadEmpty
<1>4. ASSUME NEW ps \in Seq(Seq(Op))
      PROVE  Operations(ps) \in Nat
  BY <1>1, <1>2, LenProperties
<1>5. ASSUME NEW ps \in Seq(Seq(Op)), NEW p \in Seq(Op)
      PROVE  Operations(Append(ps, p)) = Operations(ps) + Len(p) + 1
  <2>1. PICK qs \in Seq(Seq(Op)) : qs = Append(ps, p)
    BY AppendProperties
  <2>2. PICK a \in Seq(AnyOp), b \in Seq(AnyOp) : a = Spread(WithDone, ps) /\ b = WithDone[p]
    BY <1>1, WithDoneMaps DEF Maps
  <2>3. Len(a ++ b) = Len(a) + Len(b) /\ Len(a) \in Nat
    BY CatType
  <2>4. Spread(WithDone, qs) = a ++ b
    BY <1>1, <2>1, <2>2
  <2>5. Operations(qs) = Len(a ++ b) /\ Operations(ps) = Len(a)
    BY <1>2, <2>2, <2>4
  <2>6. Len(b) = Len(p) + 1 /\ Len(p) \in Nat
    BY <2>2, WithDoneMaps
  <2>7. Operations(qs) = Operations(ps) + Len(p) + 1
    BY <2>3, <2>5, <2>6
  <2> QED BY <2>1, <2>7
<1>6. ASSUME NEW ps \in Seq(Seq(Op)), NEW qs \in Seq(Seq(Op))
      PROVE  Operations(ps ++ qs) = Operations(ps) + Operations(qs)
  <2>1. ps ++ qs \in Seq(Seq(Op))
    BY CatType
  <2>2. PICK a \in Seq(AnyOp), b \in Seq(AnyOp) : a = Spread(WithDone, ps) /\ b = Spread(WithDone, qs)
    BY <1>1
  <2>3. Spread(WithDone, ps ++ qs) = a ++ b
    BY <1>1, <2>2
  <2>4. Len(a ++ b) = Len(a) + Len(b)
    BY CatType
  <2> QED BY <1>2, <2>1, <2>2, <2>3, <2>4
<1> QED BY <1>3, <1>4, <1>5, <1>6

-----------------------------------------------------------------------------
(* stdio. *)

(* What FRead is made of, each under a name of its own. *)
Least(a, b) == Min({a, b})
First(s, n) == SubSeq(s, 1, n)
After(s, m) == SubSeq(s, m + 1, Len(s))
Fill(k) == BufSize * ((k + BufSize - 1) \div BufSize)

LEMMA LeastIs ==
    ASSUME NEW a \in Nat, NEW b \in Nat
    PROVE  Least(a, b) \in Nat /\ Least(a, b) = IF a <= b THEN a ELSE b
<1> DEFINE m == IF a <= b THEN a ELSE b
<1>1. m \in {a, b} /\ \A y \in {a, b} : m =< y
  OBVIOUS
<1>2. \A x \in {a, b} : (\A y \in {a, b} : x =< y) => x = m
  OBVIOUS
<1> HIDE DEF m
<1>3. Least(a, b) \in {a, b} /\ \A y \in {a, b} : Least(a, b) =< y
  BY <1>1, Zenon DEF Min, Least
<1>4. Least(a, b) = m
  BY <1>2, <1>3, Zenon
<1> QED BY <1>4 DEF m

LEMMA FirstIs ==
    ASSUME NEW S, NEW s \in Seq(S), NEW n \in Nat, n <= Len(s)
    PROVE  /\ First(s, n) \in Seq(S) /\ Len(First(s, n)) = n
           /\ \A i \in 1..n : First(s, n)[i] = s[i]
<1>1. \A i \in 1..n : s[i] \in S
  BY ElementOfSeq
<1>2. /\ SubSeq(s, 1, n) \in Seq(S)
      /\ Len(SubSeq(s, 1, n)) = IF 1 <= n THEN n - 1 + 1 ELSE 0
      /\ \A i \in 1..(n - 1 + 1) : SubSeq(s, 1, n)[i] = s[1 + i - 1]
  BY <1>1, SubSeqProperties
<1>3. PICK t \in Seq(S) : t = SubSeq(s, 1, n)
  BY <1>2
<1>4. Len(t) = n
  BY <1>2, <1>3
<1>5. \A i \in 1..n : t[i] = s[i]
  BY <1>2, <1>3
<1> QED BY <1>3, <1>4, <1>5 DEF First

LEMMA AfterIs ==
    ASSUME NEW S, NEW s \in Seq(S), NEW m \in Nat
    PROVE  /\ After(s, m) \in Seq(S)
           /\ Len(After(s, m)) = IF m <= Len(s) THEN Len(s) - m ELSE 0
           /\ \A i \in 1..Len(After(s, m)) : After(s, m)[i] = s[m + i]
<1>1. PICK n \in Nat : n = Len(s)
  BY LenProperties
<1>2. \A i \in (m + 1)..n : s[i] \in S
  BY <1>1, ElementOfSeq
<1>3. /\ SubSeq(s, m + 1, n) \in Seq(S)
      /\ Len(SubSeq(s, m + 1, n)) = IF m + 1 <= n THEN n - (m + 1) + 1 ELSE 0
      /\ \A i \in 1..(n - (m + 1) + 1) : SubSeq(s, m + 1, n)[i] = s[(m + 1) + i - 1]
  BY <1>2, SubSeqProperties
<1>4. PICK t \in Seq(S) : t = SubSeq(s, m + 1, n)
  BY <1>3
<1>5. Len(t) = IF m <= n THEN n - m ELSE 0
  BY <1>3, <1>4
<1>6. ASSUME NEW i \in 1..Len(t)
      PROVE  t[i] = s[m + i]
  <2>1. i \in 1..(n - (m + 1) + 1) /\ (m + 1) + i - 1 = m + i
    BY <1>5
  <2> QED BY <1>3, <1>4, <2>1
<1> QED BY <1>1, <1>4, <1>5, <1>6 DEF After

LEMMA FillIs ==
    ASSUME NEW k \in Nat, k > 0
    PROVE  Fill(k) \in Nat /\ Fill(k) >= k /\ Fill(k) < k + BufSize
<1>1. PICK b \in Nat \ {0} : b = BufSize
  BY SizesAssumption
<1>2. PICK m \in Nat : m = k + b - 1
  BY <1>1
<1>3. PICK q \in Nat, r \in 0..(b - 1) : m = q * b + r /\ m \div b = q
  BY DivFacts
<1>4. PICK f \in Nat : f = b * q
  OBVIOUS
<1>5. f = m - r
  BY <1>3, <1>4
<1>6. f >= k /\ f < k + b
  BY <1>2, <1>5
<1> QED BY <1>1, <1>2, <1>3, <1>4, <1>6 DEF Fill

LEMMA FReadIs ==
    ASSUME NEW f, NEW n
    PROVE  LET fresh == After(disk, f.off)
               fill  == Least(Len(fresh), Fill(n - Len(f.rbuf)))
               held  == IF n - Len(f.rbuf) <= 0 THEN f.rbuf ELSE f.rbuf ++ First(fresh, fill)
               taken == Least(n, Len(held))
           IN FRead(f, n) =
                [cells |-> First(held, taken),
                 f     |-> [pos |-> f.pos + taken, rbuf |-> After(held, taken),
                            off |-> IF n - Len(f.rbuf) <= 0 THEN f.off ELSE f.off + fill]]
  BY DEF FRead, After, First, Least, Fill, ++

IsFile(f) ==
  f.pos \in Nat /\ f.off \in Nat /\ f.rbuf \in Seq(Cell) /\ Len(f.rbuf) <= BufSize

(* The n cells b are those the file d has behind p, and the offset o is behind
   them; m is how many the file has. *)
Agrees(d, m, p, o, b, n) ==
  /\ o = p + n
  /\ n > 0 => o <= m
  /\ \A i \in 1..n : b[i] = d[p + i]
Coherent(d, f) == Agrees(d, Len(d), f.pos, f.off, f.rbuf, Len(f.rbuf))

LEMMA FirstOf ==
    ASSUME NEW S
    PROVE  \A s \in Seq(S) : \A n \in 0..Len(s) :
              /\ First(s, n) \in Seq(S) /\ Len(First(s, n)) = n
              /\ \A i \in 1..n : First(s, n)[i] = s[i]
  BY FirstIs

LEMMA AfterOf ==
    ASSUME NEW S
    PROVE  \A s \in Seq(S) : \A n \in Nat :
              /\ After(s, n) \in Seq(S) /\ Len(After(s, n)) \in Nat
              /\ Len(After(s, n)) = IF n <= Len(s) THEN Len(s) - n ELSE 0
              /\ \A i \in 1..Len(After(s, n)) : After(s, n)[i] = s[n + i]
  BY AfterIs, LenProperties

(* How FRead's buffer h comes about: fill cells of a, what the file has behind o,
   are read behind the lb cells of b.  What it gives, c, and leaves of it, l. *)
HeldIs(d, ld, o, b, lb, n, z, a, la, k, fill, e, h, lh) ==
  /\ lb <= z /\ n > lb /\ k >= n - lb /\ k < (n - lb) + z
  /\ la = IF o <= ld THEN ld - o ELSE 0
  /\ fill = IF la <= k THEN la ELSE k
  /\ lh = lb + fill
  /\ \A i \in 1..la : a[i] = d[o + i]
  /\ \A i \in 1..fill : e[i] = a[i]
  /\ \A i \in 1..lh : h[i] = IF i <= lb THEN b[i] ELSE e[i - lb]
TakenIs(h, lh, taken, c, l, ll) ==
  /\ taken <= lh /\ ll = lh - taken
  /\ \A i \in 1..taken : c[i] = h[i]
  /\ \A i \in 1..ll : l[i] = h[taken + i]

LEMMA HeldAgrees ==
    ASSUME NEW d, NEW ld \in Nat, NEW p \in Nat, NEW o \in Nat, NEW b, NEW lb \in Nat,
           NEW n \in Nat, NEW z \in Nat, NEW a, NEW la \in Nat, NEW k \in Nat, NEW fill \in Nat,
           NEW e, NEW h, NEW lh \in Nat, HeldIs(d, ld, o, b, lb, n, z, a, la, k, fill, e, h, lh)
    PROVE  /\ lh <= n + z
           /\ lh < n => ld <= o + fill
           /\ Agrees(d, ld, p, o, b, lb) => Agrees(d, ld, p, o + fill, h, lh)
<1> USE DEF HeldIs
<1>1. lh <= n + z /\ (lh < n => ld <= o + fill)
  OBVIOUS
<1>2. ASSUME Agrees(d, ld, p, o, b, lb)
      PROVE  Agrees(d, ld, p, o + fill, h, lh)
  <2>1. o = p + lb /\ o + fill = p + lh /\ (lb > 0 => o <= ld)
    BY <1>2 DEF Agrees
  <2>2. lh > 0 => o + fill <= ld
    BY <2>1
  <2>3. ASSUME NEW i \in 1..lh
        PROVE  h[i] = d[p + i]
    <3>1. CASE i <= lb
      BY <1>2, <3>1 DEF Agrees
    <3>2. CASE ~(i <= lb)
      <4>1. PICK j \in Nat : j = i - lb
        BY <3>2
      <4>2. j \in 1..fill /\ j \in 1..la /\ o + j = p + i
        BY <2>1, <3>2, <4>1
      <4>3. h[i] = e[j]
        BY <3>2, <4>1
      <4>4. e[j] = a[j] /\ a[j] = d[o + j]
        BY <4>2
      <4> QED BY <4>2, <4>3, <4>4
    <3> QED BY <3>1, <3>2
  <2> QED BY <2>1, <2>2, <2>3 DEF Agrees
<1> QED BY <1>1, <1>2

LEMMA TakenAgrees ==
    ASSUME NEW d, NEW ld \in Nat, NEW p \in Nat, NEW o \in Nat, NEW h, NEW lh \in Nat,
           NEW taken \in Nat, NEW c, NEW l, NEW ll \in Nat,
           TakenIs(h, lh, taken, c, l, ll), Agrees(d, ld, p, o, h, lh)
    PROVE  /\ Agrees(d, ld, p + taken, o, l, ll)
           /\ \A i \in 1..taken : c[i] = d[p + i]
           /\ taken > 0 => p + taken <= ld
<1> USE DEF TakenIs
<1>1. o = p + lh /\ (lh > 0 => o <= ld) /\ \A i \in 1..lh : h[i] = d[p + i]
  BY DEF Agrees
<1>2. o = (p + taken) + ll /\ (ll > 0 => o <= ld) /\ (taken > 0 => p + taken <= ld)
  BY <1>1
<1>3. ASSUME NEW i \in 1..ll
      PROVE  l[i] = d[(p + taken) + i]
  <2>1. PICK j \in Nat : j = taken + i
    OBVIOUS
  <2>2. j \in 1..lh /\ p + j = (p + taken) + i
    BY <2>1
  <2> QED BY <1>1, <2>1, <2>2
<1>4. \A i \in 1..taken : c[i] = d[p + i]
  BY <1>1
<1> QED BY <1>2, <1>3, <1>4 DEF Agrees

(* What fread returns and leaves. *)
LEMMA FReadFacts ==
    ASSUME disk \in Seq(Cell), NEW f, IsFile(f), NEW n \in Nat
    PROVE  LET c == FRead(f, n).cells
               g == FRead(f, n).f
           IN /\ c \in Seq(Cell) /\ Len(c) <= n /\ IsFile(g) /\ g.pos = f.pos + Len(c)
              /\ Coherent(disk, f) =>
                   /\ Coherent(disk, g)
                   /\ \A i \in 1..Len(c) : c[i] = disk[f.pos + i]
                   /\ Len(c) > 0 => g.pos <= Len(disk)
                   /\ Len(c) < n => Len(disk) <= g.pos
<1>1. PICK p \in Nat, o \in Nat, b \in Seq(Cell) : p = f.pos /\ o = f.off /\ b = f.rbuf /\ Len(b) <= BufSize
  BY DEF IsFile
<1>2. PICK z \in Nat, ld \in Nat, lb \in Nat : z = BufSize /\ ld = Len(disk) /\ lb = Len(b) /\ lb <= z
  BY <1>1, SizesAssumption, LenProperties
<1>3. PICK a \in Seq(Cell) :
         /\ a = After(disk, o) /\ Len(a) \in Nat
         /\ Len(a) = IF o <= Len(disk) THEN Len(disk) - o ELSE 0
         /\ \A i \in 1..Len(a) : a[i] = disk[o + i]
  BY AfterOf
<1>4. PICK la \in Nat : /\ la = Len(a) /\ la = IF o <= ld THEN ld - o ELSE 0
                        /\ \A i \in 1..la : a[i] = disk[o + i]
  BY <1>2, <1>3
<1>5. PICK more \in Int : more = n - lb
  OBVIOUS
<1>6. PICK h \in Seq(Cell), q \in Nat, lh \in Nat :
         /\ h = IF more <= 0 THEN b ELSE b ++ First(a, Least(la, Fill(more)))
         /\ q = IF more <= 0 THEN o ELSE o + Least(la, Fill(more))
         /\ lh = Len(h) /\ lh <= n + z
         /\ lh < n => ld <= q
         /\ Agrees(disk, ld, p, o, b, lb) => Agrees(disk, ld, p, q, h, lh)
  <2>1. CASE more <= 0
    <3>1. lb <= n + z /\ ~(lb < n)
      BY <1>2, <1>5, <2>1
    <3> QED BY <1>2, <2>1, <3>1
  <2>2. CASE ~(more <= 0)
    <3>1. n > lb /\ more \in Nat /\ more > 0
      BY <1>5, <2>2
    <3>2. PICK k \in Nat : k = Fill(more) /\ k >= more /\ k < more + z
      BY <1>2, <3>1, FillIs
    <3>3. k >= n - lb /\ k < (n - lb) + z
      BY <1>5, <3>2
    <3>4. PICK fill \in Nat : fill = Least(la, k) /\ fill = IF la <= k THEN la ELSE k
      BY LeastIs
    <3>5. fill \in 0..Len(a)
      BY <1>4, <3>4
    <3>6. PICK e \in Seq(Cell) : e = First(a, fill) /\ Len(e) = fill /\ \A i \in 1..fill : e[i] = a[i]
      BY <3>5, FirstOf
    <3>7. PICK h \in Seq(Cell) : /\ h = b ++ e /\ Len(h) = Len(b) + Len(e)
                                 /\ \A i \in 1..Len(h) : h[i] = IF i <= Len(b) THEN b[i] ELSE e[i - Len(b)]
      BY CatCells, SMTT(30)
    <3>8. PICK lh \in Nat : /\ lh = Len(h) /\ lh = lb + fill
                            /\ \A i \in 1..lh : h[i] = IF i <= lb THEN b[i] ELSE e[i - lb]
      BY <1>2, <3>6, <3>7, LenProperties
    <3>9. HeldIs(disk, ld, o, b, lb, n, z, a, la, k, fill, e, h, lh)
      BY <1>2, <1>4, <3>1, <3>3, <3>4, <3>6, <3>8 DEF HeldIs
    <3>10. /\ lh <= n + z
           /\ lh < n => ld <= o + fill
           /\ Agrees(disk, ld, p, o, b, lb) => Agrees(disk, ld, p, o + fill, h, lh)
      BY <3>9, HeldAgrees
    <3>11. PICK q \in Nat : q = o + fill
      OBVIOUS
    <3> QED BY <2>2, <3>2, <3>4, <3>6, <3>7, <3>8, <3>10, <3>11
  <2> QED BY <2>1, <2>2
<1>7. PICK taken \in Nat : taken = Least(n, lh) /\ taken = IF n <= lh THEN n ELSE lh
  BY LeastIs
<1>8. taken <= lh /\ taken \in 0..Len(h)
  BY <1>6, <1>7
<1>9. PICK c \in Seq(Cell) : c = First(h, taken) /\ Len(c) = taken /\ \A i \in 1..taken : c[i] = h[i]
  BY <1>8, FirstOf
<1>17. PICK l \in Seq(Cell) :
          /\ l = After(h, taken) /\ Len(l) \in Nat
          /\ Len(l) = IF taken <= Len(h) THEN Len(h) - taken ELSE 0
          /\ \A i \in 1..Len(l) : l[i] = h[taken + i]
  BY AfterOf
<1>10. PICK ll \in Nat : /\ l = After(h, taken) /\ ll = Len(l) /\ ll = lh - taken
                         /\ \A i \in 1..ll : l[i] = h[taken + i]
  BY <1>6, <1>8, <1>17
<1>11. TakenIs(h, lh, taken, c, l, ll)
  BY <1>8, <1>9, <1>10 DEF TakenIs
<1>12. taken <= n /\ ll <= z /\ (taken < n => taken = lh /\ lh < n)
  <2>1. lh <= n + z /\ ll = lh - taken
    BY <1>6, <1>8, <1>10
  <2> QED BY <1>7, <2>1
<1>13. FRead(f, n) = [cells |-> c, f |-> [pos |-> p + taken, rbuf |-> l, off |-> q]]
  BY <1>1, <1>2, <1>3, <1>4, <1>5, <1>6, <1>7, <1>9, <1>10, FReadIs
<1>14. PICK g : /\ g = FRead(f, n).f /\ c = FRead(f, n).cells
                /\ g.pos = p + taken /\ g.rbuf = l /\ g.off = q
  BY <1>13
<1>15. c \in Seq(Cell) /\ Len(c) <= n /\ IsFile(g) /\ g.pos = f.pos + Len(c)
  <2>1. p + taken \in Nat
    OBVIOUS
  <2> QED BY <1>1, <1>2, <1>9, <1>10, <1>12, <1>14, <2>1 DEF IsFile
<1>16. ASSUME Coherent(disk, f)
       PROVE  /\ Coherent(disk, g)
              /\ \A i \in 1..Len(c) : c[i] = disk[f.pos + i]
              /\ Len(c) > 0 => g.pos <= Len(disk)
              /\ Len(c) < n => Len(disk) <= g.pos
  <2>1. Agrees(disk, ld, p, o, b, lb)
    BY <1>1, <1>2, <1>16 DEF Coherent
  <2>2. Agrees(disk, ld, p, q, h, lh)
    BY <1>6, <2>1
  <2>3. /\ Agrees(disk, ld, p + taken, q, l, ll)
        /\ \A i \in 1..taken : c[i] = disk[p + i]
        /\ taken > 0 => p + taken <= ld
    BY <1>11, <2>2, TakenAgrees
  <2>4. taken < n => ld <= p + taken
    <3>1. q = p + lh
      BY <2>2 DEF Agrees
    <3> QED BY <1>6, <1>12, <3>1
  <2>5. Coherent(disk, g)
    BY <1>2, <1>10, <1>14, <2>3 DEF Coherent
  <2> QED BY <1>1, <1>2, <1>9, <1>14, <2>3, <2>4, <2>5
<1> QED BY <1>14, <1>15, <1>16

LEMMA FSeekFacts ==
    ASSUME disk \in Seq(Cell), NEW f, IsFile(f), NEW n \in Nat
    PROVE  LET g == FSeek(f, n)
           IN /\ IsFile(g) /\ g.pos = f.pos + n
              /\ Coherent(disk, f) => Coherent(disk, g)
<1>1. PICK p \in Nat, o \in Nat, b \in Seq(Cell) : p = f.pos /\ o = f.off /\ b = f.rbuf /\ Len(b) <= BufSize
  BY DEF IsFile
<1>2. PICK z \in Nat, ld \in Nat, lb \in Nat : z = BufSize /\ ld = Len(disk) /\ lb = Len(b) /\ lb <= z
  BY <1>1, SizesAssumption, LenProperties
<1>3. Coherent(disk, f) => Agrees(disk, ld, p, o, b, lb)
  BY <1>1, <1>2 DEF Coherent
<1>4. PICK g : g = FSeek(f, n)
  OBVIOUS
<1>5. CASE n <= lb
  <2>1. PICK l \in Seq(Cell) :
           /\ l = After(b, n) /\ Len(l) \in Nat
           /\ Len(l) = IF n <= Len(b) THEN Len(b) - n ELSE 0
           /\ \A i \in 1..Len(l) : l[i] = b[n + i]
    BY AfterOf
  <2>2. PICK ll \in Nat : ll = Len(l) /\ ll = lb - n /\ \A i \in 1..ll : l[i] = b[n + i]
    BY <1>2, <1>5, <2>1
  <2>3. n \in 0..Len(b)
    BY <1>2, <1>5
  <2>4. PICK c \in Seq(Cell) : c = First(b, n) /\ \A i \in 1..n : c[i] = b[i]
    BY <2>3, FirstOf
  <2>5. TakenIs(b, lb, n, c, l, ll)
    BY <1>5, <2>2, <2>4 DEF TakenIs
  <2>6. g.pos = p + n /\ g.rbuf = l /\ g.off = p + lb
    BY <1>1, <1>2, <1>4, <1>5, <2>1 DEF FSeek, After
  <2>7. p + n \in Nat /\ p + lb \in Nat /\ ll <= z
    BY <1>2, <2>2
  <2>8. IsFile(g) /\ g.pos = f.pos + n
    BY <1>1, <1>2, <2>2, <2>6, <2>7 DEF IsFile
  <2>9. ASSUME Coherent(disk, f)
        PROVE  Coherent(disk, g)
    <3>1. Agrees(disk, ld, p, o, b, lb)
      BY <1>3, <2>9
    <3>2. Agrees(disk, ld, p + n, o, l, ll)
      BY <2>5, <3>1, TakenAgrees
    <3>3. o = p + lb
      BY <3>1 DEF Agrees
    <3> QED BY <1>2, <2>2, <2>6, <3>2, <3>3 DEF Coherent
  <2> QED BY <1>4, <2>8, <2>9
<1>6. CASE ~(n <= lb)
  <2>1. g.pos = p + n /\ g.rbuf = << >> /\ g.off = p + n
    BY <1>1, <1>2, <1>4, <1>6 DEF FSeek
  <2>2. p + n \in Nat /\ Len(<< >>) = 0 /\ << >> \in Seq(Cell) /\ 0 <= z
    OBVIOUS
  <2>3. IsFile(g) /\ g.pos = f.pos + n
    BY <1>1, <1>2, <2>1, <2>2 DEF IsFile
  <2>4. Coherent(disk, g)
    <3>1. p + n = (p + n) + 0
      OBVIOUS
    <3> QED BY <2>1, <2>2, <3>1 DEF Coherent, Agrees
  <2> QED BY <1>4, <2>3, <2>4
<1> QED BY <1>5, <1>6

-----------------------------------------------------------------------------
(* Where the reader is. *)

(* A file d holds the beginning of w, or all of it. *)
Begins(d, w) == Len(d) <= Len(w) /\ \A i \in 1..Len(d) : d[i] = w[i]

(* The reader of d is where what is left of w is e. *)
Lies(d, w, f, e) == Coherent(d, f) /\ \E b \in Seq(Cell) : w = b ++ e /\ Len(b) = f.pos

LEMMA ReadOnlyWhatIsThere ==
    ASSUME disk \in Seq(Cell), NEW f, IsFile(f), NEW n \in Nat, Coherent(disk, f), Len(disk) <= f.pos
    PROVE  FRead(f, n).cells = << >>
<1>1. PICK c, g : c = FRead(f, n).cells /\ g = FRead(f, n).f
  OBVIOUS
<1>2. /\ c \in Seq(Cell) /\ IsFile(g) /\ g.pos = f.pos + Len(c)
      /\ Len(c) > 0 => g.pos <= Len(disk)
  BY <1>1, FReadFacts
<1>3. PICK p \in Nat, ld \in Nat, lc \in Nat : p = f.pos /\ ld = Len(disk) /\ lc = Len(c)
  BY <1>2, LenProperties DEF IsFile
<1>4. lc = 0
  <2>1. ld <= p /\ g.pos = p + lc /\ (lc > 0 => p + lc <= ld)
    BY <1>2, <1>3
  <2> QED BY <2>1
<1> QED BY <1>1, <1>2, <1>3, <1>4, EmptySeq

LEMMA ReadWhatLies ==
    ASSUME disk \in Seq(Cell), NEW w \in Seq(Cell), Begins(disk, w), NEW f, IsFile(f),
           NEW x \in Seq(Cell), NEW e \in Seq(Cell), Lies(disk, w, f, x ++ e), NEW n, n = Len(x)
    PROVE  LET c == FRead(f, n).cells
               g == FRead(f, n).f
           IN /\ IsFile(g) /\ Coherent(disk, g)
              /\ \/ c = x /\ Lies(disk, w, g, e) /\ (n > 0 => g.pos <= Len(disk))
                 \/ c \in Seq(Cell) /\ Len(c) < n /\ Len(disk) < Len(w) /\ Len(disk) <= g.pos
<1>1. n \in Nat
  BY LenProperties
<1>0. PICK g : g = FRead(f, n).f
  OBVIOUS
<1>11. Coherent(disk, f)
  BY DEF Lies
<1>2. PICK c \in Seq(Cell) :
         /\ c = FRead(f, n).cells
         /\ Len(c) <= n /\ IsFile(g) /\ g.pos = f.pos + Len(c)
         /\ Coherent(disk, g)
         /\ \A i \in 1..Len(c) : c[i] = disk[f.pos + i]
         /\ Len(c) > 0 => g.pos <= Len(disk)
         /\ Len(c) < n => Len(disk) <= g.pos
  BY <1>0, <1>1, <1>11, FReadFacts
<1>3. PICK b \in Seq(Cell) : w = b ++ (x ++ e) /\ Len(b) = f.pos
  BY DEF Lies
<1>4. PICK p \in Nat, ld \in Nat, lc \in Nat, lw \in Nat, le \in Nat :
         p = f.pos /\ ld = Len(disk) /\ lc = Len(c) /\ lw = Len(w) /\ le = Len(e)
  BY LenProperties DEF IsFile
<1>5. PICK r \in Seq(Cell) : /\ r = x ++ e /\ Len(r) = Len(x) + Len(e)
                             /\ \A i \in 1..Len(r) : r[i] = IF i <= Len(x) THEN x[i] ELSE e[i - Len(x)]
  BY CatCells, SMTT(30)
<1>6. PICK v \in Seq(Cell) : /\ v = b ++ r /\ Len(v) = Len(b) + Len(r)
                             /\ \A i \in 1..Len(v) : v[i] = IF i <= Len(b) THEN b[i] ELSE r[i - Len(b)]
  BY CatCells, SMTT(30)
<1>7. v = w /\ lw = p + n + le
  BY <1>1, <1>3, <1>4, <1>5, <1>6, SMTT(30)
<1>8. \A i \in 1..n : w[p + i] = x[i]
  <2> SUFFICES ASSUME NEW i \in 1..n
               PROVE  w[p + i] = x[i]
    OBVIOUS
  <2>1. PICK j \in Nat : j = p + i
    BY <1>1
  <2>2. Len(b) = p /\ Len(x) = n /\ Len(r) = n + le /\ Len(v) = p + (n + le)
    BY <1>1, <1>3, <1>4, <1>5, <1>6
  <2>5. j \in 1..Len(v) /\ ~(j <= Len(b)) /\ j - Len(b) = i /\ i \in 1..Len(r) /\ i <= Len(x)
    BY <1>1, <2>1, <2>2
  <2>3. v[j] = r[i]
    BY <1>6, <2>5
  <2>4. r[i] = x[i]
    BY <1>5, <2>5
  <2> QED BY <1>7, <2>1, <2>3, <2>4
<1>9. CASE lc = n
  <2>1. ASSUME NEW i \in 1..n
        PROVE  c[i] = x[i]
    <3>1. c[i] = disk[p + i]
      BY <1>2, <1>4, <1>9
    <3>2. PICK j \in Nat : j = p + i
      BY <1>1
    <3>3. j \in 1..ld
      <4>1. lc > 0 /\ p + lc <= ld
        BY <1>1, <1>2, <1>4, <1>9
      <4> QED BY <1>1, <1>9, <3>2, <4>1
    <3>4. disk[j] = w[j]
      BY <1>4, <3>3 DEF Begins
    <3> QED BY <1>8, <3>1, <3>2, <3>4
  <2>2. c = x
    BY <1>1, <1>4, <1>9, <2>1, SeqEqual
  <2>3. Lies(disk, w, g, e)
    <3>1. PICK y \in Seq(Cell) : y = b ++ x /\ Len(y) = Len(b) + Len(x)
      BY CatCells, SMTT(30)
    <3>2. w = y ++ e
      BY <1>3, <3>1, CatAssoc
    <3>3. Len(y) = g.pos
      BY <1>2, <1>3, <1>4, <1>9, <3>1
    <3> QED BY <1>2, <3>2, <3>3 DEF Lies
  <2>4. n > 0 => g.pos <= Len(disk)
    BY <1>2, <1>4, <1>9
  <2> QED BY <1>0, <1>2, <2>2, <2>3, <2>4
<1>10. CASE lc # n
  <2>1. lc < n
    BY <1>1, <1>2, <1>4, <1>10
  <2>2. ld <= p + lc
    BY <1>2, <1>4, <2>1
  <2>3. ld < lw
    BY <1>1, <1>7, <2>1, <2>2
  <2> QED BY <1>0, <1>2, <1>4, <2>1, <2>3
<1> QED BY <1>9, <1>10

LEMMA SeekWhatLies ==
    ASSUME disk \in Seq(Cell), NEW w \in Seq(Cell), NEW f, IsFile(f),
           NEW x \in Seq(Cell), NEW e \in Seq(Cell), Lies(disk, w, f, x ++ e), NEW n, n = Len(x)
    PROVE  IsFile(FSeek(f, n)) /\ Lies(disk, w, FSeek(f, n), e)
<1>1. n \in Nat
  BY LenProperties
<1>2. PICK g : g = FSeek(f, n) /\ IsFile(g) /\ g.pos = f.pos + n /\ Coherent(disk, g)
  BY <1>1, FSeekFacts DEF Lies
<1>3. PICK b \in Seq(Cell) : w = b ++ (x ++ e) /\ Len(b) = f.pos
  BY DEF Lies
<1>4. PICK y \in Seq(Cell) : y = b ++ x /\ Len(y) = Len(b) + Len(x)
  BY CatCells, SMTT(30)
<1>5. w = y ++ e
  BY <1>3, <1>4, CatAssoc
<1>6. Len(y) = g.pos
  BY <1>2, <1>3, <1>4
<1> QED BY <1>2, <1>5, <1>6 DEF Lies

-----------------------------------------------------------------------------
(* The invariant. *)

Ats == {"none", "header", "operation", "body", "skipping", "copying"} \cup Spawning
Place == [at : Ats, op : AnyOp, left : Int, got : Seq(Cell)]

TypeInv ==
  /\ TypeOK
  /\ disk \in Seq(Cell) /\ wbuf = << >> /\ todo \in Seq(Task) /\ IsFile(Here)
  /\ rd \in Place /\ made \in Seq(Seq(Op)) /\ torn \in BOOLEAN

Longest == CHOOSE k \in 1..MaxDone :
             (MaxProcesses - 1) * k <= MaxDone /\ \A p \in Patches : Len(p) < k

(* What is in the file, and what a creation still has to write. *)
WriteInv ==
  /\ "torn" \in causes => torn
  /\ mode # "create" => todo = << >>
  /\ mode = "create" /\ "torn" \notin causes =>
       ~torn /\ disk ++ CellsOfTasks(todo) = Image(made)
  /\ "torn" \notin causes => Begins(disk, Image(made))
  /\ mode # "create" /\ ~torn => disk = Image(made)
  /\ child # "none" =>
       \/ mode = "create" /\ todo # << >> /\ Head(todo).w = "spawn"
       \/ mode = "apply" /\ rd.at \in Spawning
  /\ Len(made) <= IF mode = "apply" THEN processes - 1 ELSE processes
  /\ Operations(made) <= Len(made) * Longest

(* The place r of the reader of f, which has consumed n of the operations of the
   patches past it has begun, when the operations s of the last one of them are
   left, and the patches ps behind it. *)
Standing(w, f, r, n, zlib, s, ps, past) ==
  \/ /\ r.at \in {"header", "postpatch"}
     /\ Lies(disk, w, f, Image(ps)) /\ f.pos <= Len(disk) /\ n = Operations(past)
  \/ /\ r.at = "patchingdone" /\ n = Operations(past) /\ (~torn => ps = << >>)
     /\ disk = Image(past) \/ disk = Image(past) ++ << Signature[1] >>
  \/ /\ r.at \in {"prepatch", "operation"}
     /\ Lies(disk, w, f, Remain(s) ++ Image(ps)) /\ n + Len(s) + 1 = Operations(past)
  \/ /\ r.at = "body" /\ r.op \in Op /\ r.left = r.op.size /\ r.got = << >>
     /\ Lies(disk, w, f, Payload(r.op) ++ (Remain(s) ++ Image(ps))) /\ n + Len(s) + 2 = Operations(past)
  \/ /\ r.at = "xdelta" /\ r.op \in Op /\ r.op.op = "PATCH" /\ r.got = Payload(r.op)
     /\ Lies(disk, w, f, Remain(s) ++ Image(ps)) /\ n + Len(s) + 2 = Operations(past)
  \/ /\ r.at \in {"skipping", "copying"} /\ r.op \in Op /\ r.op.op = "ADD"
     /\ r.op.z = TRUE /\ zlib = TRUE /\ r.left \in Nat
     /\ Lies(disk, w, f, Spread(ChunkOf(r.op), Pieces(r.left)) ++ (Remain(s) ++ Image(ps)))
     /\ r.at = "copying" => r.got ++ Spread(ChunkOf(r.op), Pieces(r.left)) = Payload(r.op)
     /\ n + Len(s) + 2 = Operations(past)

Stands(f, r, n, zlib) ==
  \E past, ps \in Seq(Seq(Op)), s \in Seq(Op) :
    made = past ++ ps /\ Standing(Image(made), f, r, n, zlib, s, ps, past)

(* A reader that nothing has happened to knows where it is. *)
ReadInv == mode = "apply" /\ causes = {} => Stands(Here, rd, done, build.zlib)

(* How a process has ended. *)
EndInv ==
  /\ result \in {"ok", "bad"} => mode = "idle"
  /\ ResultIsTrue
  /\ mode = "lost" => causes # {}

IndInv == TypeInv /\ WriteInv /\ ReadInv /\ EndInv

LEMMA LongestFacts ==
    /\ Longest \in 1..MaxDone /\ (MaxProcesses - 1) * Longest <= MaxDone
    /\ \A p \in Patches : Len(p) < Longest
  BY CountAssumption, Zenon DEF Longest

(* The ghost that counts operations does not stop short of those of an archive. *)
LEMMA CountFacts ==
    ASSUME NEW l \in Nat, l <= MaxProcesses - 1, NEW t \in Nat, t <= l * Longest
    PROVE  t <= MaxDone
<1>1. PICK k \in Nat, m \in Nat, d \in Nat :
         k = Longest /\ m = MaxProcesses - 1 /\ d = MaxDone /\ m * k <= d
  BY LongestFacts, SizesAssumption
<1>2. l * k <= m * k
  BY <1>1
<1> QED BY <1>1, <1>2

LEMMA PlaceFacts ==
    /\ Resting \in Place /\ Resting.at = "none"
    /\ \A w \in Ats : At(w) \in Place /\ At(w).at = w
    /\ \A o \in AnyOp : \A l \in Int : [at |-> "body", op |-> o, left |-> l, got |-> << >>] \in Place
    /\ \A r \in Place : /\ r.at \in Ats /\ r.op \in AnyOp /\ r.left \in Int /\ r.got \in Seq(Cell)
                        /\ \A w \in Ats : [r EXCEPT !.at = w] \in Place
                        /\ \A c \in Seq(Cell) : [r EXCEPT !.at = "xdelta", !.got = c] \in Place
                        /\ \A l \in Int, c \in Seq(Cell) : [r EXCEPT !.left = l, !.got = c] \in Place
<1>1. Done \in AnyOp
  BY DEF AnyOp
<1>2. << >> \in Seq(Cell)
  OBVIOUS
<1>3. Resting = [at |-> "none", op |-> Done, left |-> 0, got |-> << >>]
  BY DEF Resting, NoOp
<1>4. Resting \in Place
  BY <1>1, <1>2, <1>3 DEF Place, Ats
<1>5. ASSUME NEW w \in Ats
      PROVE  At(w) \in Place /\ At(w).at = w
  BY <1>3, <1>4 DEF At, Place
<1>6. \A o \in AnyOp : \A l \in Int : [at |-> "body", op |-> o, left |-> l, got |-> << >>] \in Place
  BY <1>2 DEF Place, Ats
<1>7. ASSUME NEW r \in Place
      PROVE  /\ r.at \in Ats /\ r.op \in AnyOp /\ r.left \in Int /\ r.got \in Seq(Cell)
             /\ \A w \in Ats : [r EXCEPT !.at = w] \in Place
             /\ \A c \in Seq(Cell) : [r EXCEPT !.at = "xdelta", !.got = c] \in Place
             /\ \A l \in Int, c \in Seq(Cell) : [r EXCEPT !.left = l, !.got = c] \in Place
  BY DEF Place, Ats, Spawning
<1> QED BY <1>3, <1>4, <1>5, <1>6, <1>7

LEMMA MoveFacts ==
    ASSUME NEW f, MoveTo(f)
    PROVE  /\ IsFile(f) => IsFile(Here)'
           /\ \A d, w, e : Lies(d, w, f, e) => Lies(d, w, Here', e)
           /\ pos' = f.pos
  BY DEF MoveTo, IsFile, Here, Lies, Coherent

(* What a step of a process that applies an archive leaves alone. *)
ReadStep ==
  /\ mode = "apply" /\ mode' \in {"apply", "idle", "lost"}
  /\ UNCHANGED <<writer, processes>>
  /\ child' \in {child, "none"}
  /\ causes \subseteq causes' /\ ("torn" \in causes' => "torn" \in causes)
  /\ child' # "none" => mode' = "apply" /\ rd' = rd

LEMMA BeginsFacts ==
    /\ \A d \in Seq(Cell) : Begins(d, d)
    /\ \A d \in Seq(Cell), x \in Seq(Cell) : Begins(d, d ++ x)
    /\ \A d \in Seq(Cell), x \in Seq(Cell), y \in Seq(Cell) : \A n \in 0..Len(x) :
          First(x, n) \in Seq(Cell) /\ Begins(d ++ First(x, n), d ++ (x ++ y))
<1>1. ASSUME NEW d \in Seq(Cell)
      PROVE  Begins(d, d)
  BY LenProperties DEF Begins
<1>2. ASSUME NEW d \in Seq(Cell), NEW x \in Seq(Cell)
      PROVE  Begins(d, d ++ x)
  <2>1. PICK e \in Seq(Cell) : /\ e = d ++ x /\ Len(e) = Len(d) + Len(x)
                               /\ \A i \in 1..Len(e) : e[i] = IF i <= Len(d) THEN d[i] ELSE x[i - Len(d)]
    BY CatIs, SMTT(30)
  <2>2. Len(d) \in Nat /\ Len(x) \in Nat
    BY LenProperties
  <2>3. Len(d) <= Len(e) /\ \A i \in 1..Len(d) : i \in 1..Len(e) /\ i <= Len(d)
    BY <2>1, <2>2
  <2>4. \A i \in 1..Len(d) : d[i] = e[i]
    BY <2>1, <2>3
  <2> QED BY <2>1, <2>3, <2>4 DEF Begins
<1>3. ASSUME NEW d \in Seq(Cell), NEW x \in Seq(Cell), NEW y \in Seq(Cell), NEW n \in 0..Len(x)
      PROVE  First(x, n) \in Seq(Cell) /\ Begins(d ++ First(x, n), d ++ (x ++ y))
  <2>1. PICK a \in Seq(Cell) : a = First(x, n) /\ Len(a) = n /\ \A i \in 1..n : a[i] = x[i]
    BY FirstOf
  <2>2. PICK b \in Seq(Cell) : b = After(x, n) /\ Len(b) \in Nat /\ Len(b) = Len(x) - n
                               /\ \A i \in 1..Len(b) : b[i] = x[n + i]
    <3>1. n \in Nat /\ n <= Len(x) /\ Len(x) \in Nat
      BY LenProperties
    <3> QED BY <3>1, AfterOf
  <2>3. PICK c \in Seq(Cell) : /\ c = a ++ b /\ Len(c) = Len(a) + Len(b)
                               /\ \A i \in 1..Len(c) : c[i] = IF i <= Len(a) THEN a[i] ELSE b[i - Len(a)]
    BY CatCells, SMTT(30)
  <2>4. PICK lx \in Nat : lx = Len(x) /\ n \in Nat /\ n <= lx
    BY LenProperties
  <2>5. Len(c) = lx
    BY <2>1, <2>2, <2>3, <2>4
  <2>6. ASSUME NEW i \in 1..lx
        PROVE  c[i] = x[i]
    <3>1. CASE i <= n
      BY <2>1, <2>3, <2>4, <2>5, <3>1
    <3>2. CASE ~(i <= n)
      <4>1. PICK j \in Nat : j = i - n /\ n + j = i /\ j \in 1..Len(b)
        BY <2>2, <2>4, <3>2
      <4>2. c[i] = b[j]
        BY <2>1, <2>3, <2>5, <3>2, <4>1
      <4>3. b[j] = x[n + j]
        BY <2>2, <4>1
      <4> QED BY <4>1, <4>2, <4>3
    <3> QED BY <3>1, <3>2
  <2>7. c = x
    BY <2>4, <2>5, <2>6, SeqEqual
  <2>8. d ++ (x ++ y) = (d ++ a) ++ (b ++ y)
    <3>1. (a ++ b) ++ y = a ++ (b ++ y)
      BY CatAssoc
    <3>2. d ++ (a ++ (b ++ y)) = (d ++ a) ++ (b ++ y)
      BY CatType, CatAssoc
    <3> QED BY <2>3, <2>7, <3>1, <3>2
  <2>9. d ++ a \in Seq(Cell) /\ b ++ y \in Seq(Cell)
    BY CatType
  <2> QED BY <1>2, <2>1, <2>8, <2>9
<1> QED BY <1>1, <1>2, <1>3

-----------------------------------------------------------------------------
(* Types. *)

LEMMA FReadTypes ==
    ASSUME TypeInv, NEW f, IsFile(f), NEW n \in Nat
    PROVE  FRead(f, n).cells \in Seq(Cell) /\ IsFile(FRead(f, n).f)
  BY FReadFacts DEF TypeInv

LEMMA CellFacts ==
    /\ \A c \in Cell : c.k \in {"sig1", "sig2", "strings", "code", "fields", "data", "sizes"}
    /\ \A c \in Cell : c.k = "code" => c.o \in AnyOp
    /\ \A c \in Cell : c.k = "sizes" => c.u \in Nat /\ c.c \in Nat
  BY DEF Cell

(* The parts of TypeInv that a step of the reader may change. *)
ReaderType ==
  /\ IsFile(Here) /\ rd \in Place
  /\ mode \in {"idle", "create", "apply", "lost"}
  /\ result \in {"none", "created", "ok", "bad", "stopped"}
  /\ causes \subseteq {"raw seek", "rewound", "other build", "torn"}
  /\ done \in 0..MaxDone

LEMMA HereType ==
    IsFile(Here) <=> pos \in Nat /\ off \in Nat /\ rbuf \in Seq(Cell) /\ Len(rbuf) <= BufSize
  BY DEF IsFile, Here

LEMMA TypeParts ==
    TypeInv <=>
      /\ ReaderType /\ child \in {"none", "running", "over"} /\ build \in Builds
      /\ processes \in 0..MaxProcesses
      /\ disk \in Seq(Cell) /\ wbuf = << >> /\ todo \in Seq(Task)
      /\ made \in Seq(Seq(Op)) /\ torn \in BOOLEAN
<1>1. rd \in Place => rd.left \in Int /\ rd.at \in Ats
  BY PlaceFacts
<1> QED BY <1>1, HereType DEF TypeInv, TypeOK, ReaderType, Ats

LEMMA TypePartsNext ==
    ASSUME ReaderType', child' \in {"none", "running", "over"}, build' \in Builds,
           processes' \in 0..MaxProcesses,
           disk' \in Seq(Cell), wbuf' = << >>, todo' \in Seq(Task),
           made' \in Seq(Seq(Op)), torn' \in BOOLEAN
    PROVE  TypeInv'
<1>1. rd' \in Place => rd'.left \in Int /\ rd'.at \in Ats
  BY PlaceFacts
<1>2. pos' \in Nat /\ off' \in Nat /\ Len(rbuf') <= BufSize /\ IsFile(Here)'
  BY DEF ReaderType, IsFile, Here
<1>3. TypeOK'
  BY <1>1, <1>2 DEF TypeOK, ReaderType, Ats
<1> QED BY <1>2, <1>3 DEF TypeInv, ReaderType

LEMMA StillTyped ==
    ASSUME TypeInv, ReaderType', child' \in {"none", "running", "over"}, build' \in Builds,
           processes' = processes, UNCHANGED writer
    PROVE  TypeInv'
<1>1. /\ processes \in 0..MaxProcesses /\ disk \in Seq(Cell) /\ wbuf = << >> /\ todo \in Seq(Task)
      /\ made \in Seq(Seq(Op)) /\ torn \in BOOLEAN
  BY TypeParts
<1>2. /\ processes' \in 0..MaxProcesses /\ disk' \in Seq(Cell) /\ wbuf' = << >> /\ todo' \in Seq(Task)
      /\ made' \in Seq(Seq(Op)) /\ torn' \in BOOLEAN
  BY <1>1 DEF writer
<1> QED BY <1>2, TypePartsNext

(* How a step of the reader leaves the operation it is in. *)
LEMMA OutcomeTypes ==
    ASSUME TypeInv
    PROVE  /\ \A r \in Place : Go(r) => rd' \in Place /\ mode' = mode /\ result' = result
           /\ \A x \in {"ok", "bad", "stopped"} : Finish(x) => rd' \in Place /\ mode' = "idle" /\ result' = x
           /\ Lose => rd' \in Place /\ mode' = "lost" /\ result' = result
           /\ OneMore => done' \in 0..MaxDone
           /\ UNCHANGED done => done' \in 0..MaxDone
<1>1. done \in 0..MaxDone /\ MaxDone \in Nat
  BY SizesAssumption DEF TypeInv, TypeOK
<1>2. OneMore => done' \in 0..MaxDone
  BY <1>1 DEF OneMore
<1> QED BY <1>1, <1>2, PlaceFacts DEF Go, Finish, Lose

LEMMA MayBe ==
    ASSUME TypeInv, mode = "apply"
    PROVE  /\ rd \in Place /\ IsFile(Here) /\ disk \in Seq(Cell) /\ rd.op.size \in Nat
           /\ child \in {"none", "running", "over"} /\ build \in Builds
           /\ causes \subseteq {"raw seek", "rewound", "other build", "torn"}
           /\ done \in 0..MaxDone /\ processes \in 0..MaxProcesses
           /\ result \in {"none", "created", "ok", "bad", "stopped"}
           /\ OfOtherBuild \subseteq {"other build"}
           /\ UNCHANGED stream => IsFile(Here)'
<1>1. /\ rd \in Place /\ IsFile(Here) /\ disk \in Seq(Cell) /\ child \in {"none", "running", "over"}
      /\ build \in Builds /\ causes \subseteq {"raw seek", "rewound", "other build", "torn"}
      /\ done \in 0..MaxDone /\ result \in {"none", "created", "ok", "bad", "stopped"}
      /\ processes \in 0..MaxProcesses
  BY TypeParts DEF ReaderType
<1>2. rd.op.size \in Nat
  BY <1>1, PlaceFacts, OpFacts
<1>3. OfOtherBuild \subseteq {"other build"}
  BY DEF OfOtherBuild
<1>4. UNCHANGED stream => IsFile(Here)'
  BY <1>1 DEF stream, IsFile, Here
<1> QED BY <1>1, <1>2, <1>3, <1>4

(* A step of the reader: the cells it moves to are a file's, what becomes of its
   place is one of the outcomes, and it does nothing to the archive. *)
Outcome ==
  \/ \E r \in Place : Go(r)
  \/ \E x \in {"ok", "bad", "stopped"} : Finish(x)
  \/ Lose

LEMMA ReaderSteps ==
    ASSUME TypeInv, mode = "apply", Outcome, IsFile(Here)', OneMore \/ UNCHANGED done,
           UNCHANGED <<writer, child, build, processes>>,
           causes \subseteq causes', causes' \subseteq causes \cup {"raw seek", "other build"}
    PROVE  /\ TypeInv'
           /\ child = "none" => ReadStep
<1>1. /\ rd' \in Place /\ mode' \in {"apply", "idle", "lost"}
      /\ result' \in {"none", "created", "ok", "bad", "stopped"} /\ done' \in 0..MaxDone
  BY OutcomeTypes, MayBe DEF Outcome
<1>2. causes' \subseteq {"raw seek", "rewound", "other build", "torn"}
  BY MayBe
<1>3. ReaderType'
  BY <1>1, <1>2 DEF ReaderType
<1>4. child' \in {"none", "running", "over"} /\ build' \in Builds /\ processes' = processes
  BY MayBe
<1>5. TypeInv'
  BY <1>3, <1>4, StillTyped
<1>6. child = "none" => ReadStep
  BY <1>1 DEF ReadStep
<1> QED BY <1>5, <1>6

LEMMA OutcomeIs ==
    ASSUME TypeInv
    PROVE  /\ \A w \in Ats : Go(At(w)) => Outcome
           /\ \A r \in Place : Go(r) => Outcome
           /\ \A x \in {"ok", "bad", "stopped"} : Finish(x) => Outcome
           /\ Lose => Outcome
           /\ \A c : Consumed(c) => Outcome /\ (OneMore \/ UNCHANGED done)
<1>1. \A w \in Ats : At(w) \in Place
  BY PlaceFacts
<1>2. "operation" \in Ats
  BY DEF Ats
<1>3. ASSUME NEW c, Consumed(c)
      PROVE  Outcome /\ (OneMore \/ UNCHANGED done)
  <2>1. \/ Go(At("operation")) /\ OneMore
        \/ Finish("bad") /\ UNCHANGED done
    BY <1>3 DEF Consumed
  <2>2. At("operation") \in Place
    BY <1>1, <1>2
  <2> QED BY <2>1, <2>2 DEF Outcome
<1> QED BY <1>1, <1>3 DEF Outcome

LEMMA SeekSteps ==
    ASSUME TypeInv, mode = "apply", NEW n \in Nat, Seek(n)
    PROVE  Outcome /\ IsFile(Here)' /\ (OneMore \/ UNCHANGED done)
<1>1. IsFile(Here) /\ disk \in Seq(Cell) /\ "operation" \in Ats
  BY MayBe DEF Ats
<1>2. CASE MoveTo(FSeek(Here, n)) /\ Go(At("operation")) /\ OneMore
  <2>1. IsFile(FSeek(Here, n))
    BY <1>1, FSeekFacts
  <2>2. IsFile(Here)'
    BY <1>2, <2>1, MoveFacts
  <2> QED BY <1>1, <1>2, <2>2, OutcomeIs
<1>3. CASE Finish("stopped") /\ UNCHANGED <<stream, done>>
  BY <1>3, MayBe, OutcomeIs
<1> QED BY <1>2, <1>3 DEF Seek

LEMMA HeaderSteps ==
    ASSUME TypeInv, Header
    PROVE  TypeInv' /\ (child = "none" => ReadStep)
<1>1. PICK sig, str : sig = FRead(Here, 2) /\ str = FRead(sig.f, 1)
  OBVIOUS
<1>2. IsFile(Here) /\ disk \in Seq(Cell)
  BY MayBe DEF Header
<1>3. IsFile(sig.f)
  BY <1>1, <1>2, FReadTypes
<1>4. IsFile(str.f)
  BY <1>1, <1>3, FReadTypes
<1>5. (MoveTo(sig.f) \/ MoveTo(str.f)) /\ Outcome
  <2>1. "operation" \in Ats /\ "prepatch" \in Ats /\ "patchingdone" \in Ats
    BY DEF Ats, Spawning
  <2>2. /\ MoveTo(sig.f) \/ MoveTo(str.f)
        /\ \/ Finish("ok") \/ Finish("bad") \/ Lose
           \/ Go(At("operation")) \/ Go(At("prepatch")) \/ Go(At("patchingdone"))
    BY <1>1 DEF Header
  <2> QED BY <2>1, <2>2, OutcomeIs
<1>6. IsFile(Here)'
  BY <1>3, <1>4, <1>5, MoveFacts
<1>7. /\ mode = "apply" /\ UNCHANGED <<writer, child, build, processes>> /\ causes' = causes
      /\ UNCHANGED done
  BY DEF Header
<1> QED BY <1>5, <1>6, <1>7, ReaderSteps

LEMMA OperationSteps ==
    ASSUME TypeInv, Operation
    PROVE  TypeInv' /\ (child = "none" => ReadStep)
<1>1. PICK code, fields, cells : /\ code = FRead(Here, 1) /\ fields = FRead(code.f, 1)
                                 /\ cells = code.cells \o fields.cells
  OBVIOUS
<1>2. IsFile(Here) /\ disk \in Seq(Cell)
  BY MayBe DEF Operation
<1>3. IsFile(code.f) /\ code.cells \in Seq(Cell)
  BY <1>1, <1>2, FReadTypes
<1>4. IsFile(fields.f) /\ fields.cells \in Seq(Cell)
  BY <1>1, <1>3, FReadTypes
<1>5. MoveTo(fields.f) /\ IsFile(Here)'
  <2>1. MoveTo(fields.f)
    BY <1>1 DEF Operation
  <2> QED BY <1>4, <2>1, MoveFacts
<1>6. cells \in Seq(Cell)
  BY <1>1, <1>3, <1>4, ConcatProperties
<1>7. \/ /\ Len(cells) = 2 /\ cells[1].k = "code"
         /\ Go(IF cells[1].o = Done THEN At("header")
               ELSE [at |-> "body", op |-> cells[1].o, left |-> cells[1].o.size, got |-> << >>])
         /\ IF cells[1].o = Done THEN OneMore ELSE UNCHANGED done
      \/ Go(At("postpatch")) /\ OneMore
      \/ Finish("bad") /\ UNCHANGED done
      \/ Lose /\ UNCHANGED done
  BY <1>1 DEF Operation
<1>8. Outcome /\ (OneMore \/ UNCHANGED done)
  <2>1. CASE /\ Len(cells) = 2 /\ cells[1].k = "code"
             /\ Go(IF cells[1].o = Done THEN At("header")
                   ELSE [at |-> "body", op |-> cells[1].o, left |-> cells[1].o.size, got |-> << >>])
             /\ IF cells[1].o = Done THEN OneMore ELSE UNCHANGED done
    <3>1. cells[1] \in Cell
      <4>1. 1 \in 1..Len(cells)
        BY <2>1
      <4> QED BY <1>6, <4>1, ElementOfSeq
    <3>2. cells[1].o \in AnyOp
      BY <2>1, <3>1, CellFacts
    <3>3. cells[1].o.size \in Int
      <4>1. PICK o \in AnyOp : o = cells[1].o
        BY <3>2
      <4>2. o.size \in Nat
        BY OpFacts
      <4> QED BY <4>1, <4>2
    <3>4. /\ At("header") \in Place
          /\ [at |-> "body", op |-> cells[1].o, left |-> cells[1].o.size, got |-> << >>] \in Place
      BY <3>2, <3>3, PlaceFacts DEF Ats
    <3>5. \E r \in Place : Go(r)
      BY <2>1, <3>4
    <3> QED BY <2>1, <3>5 DEF Outcome
  <2>2. CASE (Finish("bad") \/ Lose) /\ UNCHANGED done
    BY <2>2, OutcomeIs
  <2>3. CASE Go(At("postpatch")) /\ OneMore
    <3>1. "postpatch" \in Ats
      BY DEF Ats, Spawning
    <3> QED BY <2>3, <3>1, OutcomeIs
  <2> QED BY <1>7, <2>1, <2>2, <2>3
<1>9. /\ mode = "apply" /\ UNCHANGED <<writer, child, build, processes>> /\ causes' = causes
  BY DEF Operation, process
<1> QED BY <1>5, <1>8, <1>9, ReaderSteps

LEMMA PatchBodySteps ==
    ASSUME TypeInv, PatchBody
    PROVE  TypeInv' /\ (child = "none" => ReadStep)
<1>1. /\ mode = "apply" /\ UNCHANGED <<writer, child, build, processes>> /\ causes' = causes
  BY DEF PatchBody, InBody, process
<1>2. IsFile(Here) /\ disk \in Seq(Cell) /\ rd \in Place /\ rd.op.size \in Nat
  BY <1>1, MayBe
<1>3. PICK delta : delta = FRead(Here, rd.op.size) /\ delta.cells \in Seq(Cell) /\ IsFile(delta.f)
  BY <1>2, FReadTypes
<1>4. \/ Seek(rd.op.size)
      \/ /\ MoveTo(delta.f) /\ UNCHANGED done
         /\ Go([rd EXCEPT !.at = "xdelta", !.got = delta.cells]) \/ Finish("bad")
  BY <1>3 DEF PatchBody
<1>5. Outcome /\ IsFile(Here)' /\ (OneMore \/ UNCHANGED done)
  <2>1. CASE Seek(rd.op.size)
    BY <1>1, <1>2, <2>1, SeekSteps
  <2>2. CASE /\ MoveTo(delta.f) /\ UNCHANGED done
             /\ Go([rd EXCEPT !.at = "xdelta", !.got = delta.cells]) \/ Finish("bad")
    <3>1. [rd EXCEPT !.at = "xdelta", !.got = delta.cells] \in Place
      BY <1>2, <1>3, PlaceFacts
    <3>2. Outcome
      BY <2>2, <3>1, OutcomeIs
    <3> QED BY <1>3, <2>2, <3>2, MoveFacts
  <2> QED BY <1>4, <2>1, <2>2
<1> QED BY <1>1, <1>5, ReaderSteps

LEMMA AddThereSteps ==
    ASSUME TypeInv, AddThere
    PROVE  TypeInv' /\ (child = "none" => ReadStep)
<1>1. mode = "apply" /\ UNCHANGED <<writer, child, build, processes>>
  BY DEF AddThere, InBody, process
<1>2. rd.op.size \in Nat /\ OfOtherBuild \subseteq {"other build"}
  BY <1>1, MayBe
<1>3. causes \subseteq causes' /\ causes' \subseteq causes \cup {"raw seek", "other build"}
  BY <1>2 DEF AddThere
<1>4. Outcome /\ IsFile(Here)' /\ (OneMore \/ UNCHANGED done)
  BY <1>1, <1>2, SeekSteps DEF AddThere
<1> QED BY <1>1, <1>3, <1>4, ReaderSteps

LEMMA AddPlainSteps ==
    ASSUME TypeInv, AddPlain
    PROVE  TypeInv' /\ (child = "none" => ReadStep)
<1>1. mode = "apply" /\ UNCHANGED <<writer, child, build, processes>>
  BY DEF AddPlain, InBody, process
<1>2. /\ rd.op.size \in Nat /\ OfOtherBuild \subseteq {"other build"}
      /\ IsFile(Here) /\ disk \in Seq(Cell)
  BY <1>1, MayBe
<1>3. causes \subseteq causes' /\ causes' \subseteq causes \cup {"raw seek", "other build"}
  BY <1>2 DEF AddPlain
<1>4. PICK data : data = FRead(Here, rd.op.size) /\ IsFile(data.f)
  BY <1>2, FReadTypes
<1>5. \/ Seek(rd.op.size)
      \/ MoveTo(data.f) /\ Consumed(data.cells)
  BY <1>4 DEF AddPlain
<1>6. Outcome /\ IsFile(Here)' /\ (OneMore \/ UNCHANGED done)
  BY <1>1, <1>2, <1>4, <1>5, SeekSteps, OutcomeIs, MoveFacts
<1> QED BY <1>1, <1>3, <1>6, ReaderSteps

LEMMA AddZlibSteps ==
    ASSUME TypeInv, AddZlib
    PROVE  TypeInv' /\ (child = "none" => ReadStep)
<1>1. mode = "apply" /\ UNCHANGED <<writer, child, build, processes, done, stream>>
  BY DEF AddZlib, InBody, process
<1>2. OfOtherBuild \subseteq {"other build"} /\ rd \in Place /\ IsFile(Here)'
  BY <1>1, MayBe
<1>3. causes \subseteq causes' /\ causes' \subseteq causes \cup {"raw seek", "other build"}
  BY <1>2 DEF AddZlib
<1>4. Outcome
  <2>1. [rd EXCEPT !.at = "skipping"] \in Place /\ [rd EXCEPT !.at = "copying"] \in Place
    BY <1>2, PlaceFacts DEF Ats
  <2>2. Go([rd EXCEPT !.at = "skipping"]) \/ Go([rd EXCEPT !.at = "copying"])
    BY DEF AddZlib
  <2> QED BY <2>1, <2>2, OutcomeIs
<1> QED BY <1>1, <1>2, <1>3, <1>4, ReaderSteps

LEMMA ChunksEndSteps ==
    ASSUME TypeInv, ChunksEnd
    PROVE  TypeInv' /\ (child = "none" => ReadStep)
<1>1. mode = "apply" /\ UNCHANGED <<writer, child, build, processes, stream>> /\ causes' = causes
  BY DEF ChunksEnd, InChunks, process
<1>2. IsFile(Here)'
  BY <1>1, MayBe
<1>3. Consumed(rd.got) \/ (Go(At("operation")) /\ OneMore)
  BY DEF ChunksEnd
<1>4. Outcome /\ (OneMore \/ UNCHANGED done)
  BY <1>3, OutcomeIs DEF Ats
<1> QED BY <1>1, <1>2, <1>4, ReaderSteps

LEMMA ChunkSteps ==
    ASSUME TypeInv, Chunk
    PROVE  TypeInv' /\ (child = "none" => ReadStep)
<1>1. mode = "apply" /\ UNCHANGED <<writer, child, build, processes, done>> /\ causes' = causes
  BY DEF Chunk, InChunks, process
<1>2. IsFile(Here) /\ disk \in Seq(Cell) /\ rd \in Place
  BY <1>1, MayBe
<1>3. PICK sizes, data, next :
         /\ sizes = FRead(Here, 1) /\ data = FRead(sizes.f, sizes.cells[1].c)
         /\ next = [rd EXCEPT !.left = @ - sizes.cells[1].u, !.got = @ \o sizes.cells \o data.cells]
  OBVIOUS
<1>4. sizes.cells \in Seq(Cell) /\ IsFile(sizes.f)
  BY <1>2, <1>3, FReadTypes
<1>5. \/ /\ sizes.cells # << >> /\ sizes.cells[1].k = "sizes"
         /\ \/ MoveTo(FSeek(sizes.f, SkipSize(sizes.cells[1]))) /\ Go(next)
            \/ MoveTo(sizes.f) /\ Finish("stopped")
            \/ MoveTo(data.f) /\ (Go(next) \/ Finish("bad"))
      \/ MoveTo(sizes.f) /\ (Finish("bad") \/ Lose)
  BY <1>3 DEF Chunk
<1>6. Outcome /\ IsFile(Here)'
  <2>1. CASE MoveTo(sizes.f) /\ (Finish("bad") \/ Lose \/ Finish("stopped"))
    BY <1>4, <2>1, OutcomeIs, MoveFacts
  <2>2. CASE /\ sizes.cells # << >> /\ sizes.cells[1].k = "sizes"
             /\ \/ MoveTo(FSeek(sizes.f, SkipSize(sizes.cells[1]))) /\ Go(next)
                \/ MoveTo(data.f) /\ (Go(next) \/ Finish("bad"))
    <3>1. sizes.cells[1] \in Cell
      <4>1. 1 \in 1..Len(sizes.cells)
        BY <1>4, <2>2
      <4> QED BY <1>4, <4>1, ElementOfSeq
    <3>2. sizes.cells[1].u \in Nat /\ sizes.cells[1].c \in Nat
      BY <2>2, <3>1, CellFacts
    <3>3. data.cells \in Seq(Cell) /\ IsFile(data.f)
      BY <1>3, <1>4, <3>2, FReadTypes
    <3>4. IsFile(FSeek(sizes.f, SkipSize(sizes.cells[1])))
      BY <1>2, <1>4, <3>2, FSeekFacts DEF SkipSize
    <3>5. next \in Place
      <4>1. rd.left \in Int /\ rd.got \in Seq(Cell)
        BY <1>2, PlaceFacts
      <4>2. PICK l \in Int : l = rd.left - sizes.cells[1].u
        BY <3>2, <4>1
      <4>3. PICK c \in Seq(Cell) : c = rd.got \o sizes.cells \o data.cells
        BY <1>4, <3>3, <4>1, ConcatProperties
      <4>4. next = [rd EXCEPT !.left = l, !.got = c]
        BY <1>3, <4>2, <4>3
      <4> QED BY <1>2, <4>4, PlaceFacts
    <3> QED BY <2>2, <3>3, <3>4, <3>5, OutcomeIs, MoveFacts
  <2> QED BY <1>5, <2>1, <2>2
<1> QED BY <1>1, <1>6, ReaderSteps

-----------------------------------------------------------------------------
(* What is in the file. *)

(* The parts of the type invariant, and what follows from them. *)
LEMMA TypeFacts ==
    ASSUME TypeInv
    PROVE  /\ disk \in Seq(Cell) /\ wbuf = << >> /\ todo \in Seq(Task) /\ IsFile(Here) /\ rd \in Place
           /\ made \in Seq(Seq(Op)) /\ torn \in BOOLEAN /\ build \in Builds
           /\ processes \in 0..MaxProcesses /\ done \in 0..MaxDone
           /\ child \in {"none", "running", "over"}
           /\ mode \in {"idle", "create", "apply", "lost"}
           /\ result \in {"none", "created", "ok", "bad", "stopped"}
           /\ causes \subseteq {"raw seek", "rewound", "other build", "torn"}
           /\ Image(made) \in Seq(Cell) /\ CellsOfTasks(todo) \in Seq(Cell)
<1>1. /\ disk \in Seq(Cell) /\ wbuf = << >> /\ todo \in Seq(Task) /\ IsFile(Here) /\ rd \in Place
      /\ made \in Seq(Seq(Op)) /\ torn \in BOOLEAN /\ build \in Builds
      /\ processes \in 0..MaxProcesses /\ done \in 0..MaxDone
      /\ child \in {"none", "running", "over"}
      /\ mode \in {"idle", "create", "apply", "lost"}
      /\ result \in {"none", "created", "ok", "bad", "stopped"}
      /\ causes \subseteq {"raw seek", "rewound", "other build", "torn"}
  BY TypeParts DEF ReaderType
<1>2. Image(made) \in Seq(Cell)
  BY <1>1, ImageFacts
<1>3. CellsOfTasks(todo) \in Seq(Cell)
  BY <1>1, TasksFacts
<1> QED BY <1>1, <1>2, <1>3

LEMMA SameReader ==
    ASSUME TypeInv, UNCHANGED <<stream, rd>>,
           mode' \in {"idle", "create", "apply", "lost"},
           result' \in {"none", "created", "ok", "bad", "stopped"},
           causes' \subseteq {"raw seek", "rewound", "other build", "torn"},
           done' \in 0..MaxDone
    PROVE  ReaderType'
<1>1. IsFile(Here) /\ rd \in Place
  BY TypeFacts
<1>2. IsFile(Here)' /\ rd' \in Place
  BY <1>1 DEF stream, IsFile, Here
<1> QED BY <1>2 DEF ReaderType

LEMMA ProcessFacts ==
    ASSUME TypeInv
    PROVE  /\ processes \in Nat /\ processes <= MaxProcesses /\ MaxProcesses \in Nat
           /\ << >> \in Seq(Cell)
<1>1. processes \in 0..MaxProcesses
  BY TypeFacts
<1>2. MaxProcesses \in Nat /\ << >> \in Seq(Cell)
  BY SizesAssumption
<1> QED BY <1>1, <1>2

(* The parts of WriteInv, as they are after a step. *)
LEMMA WriteParts ==
    ASSUME "torn" \in causes' => torn', mode' # "create" => todo' = << >>,
           mode' = "create" /\ "torn" \notin causes' =>
             ~torn' /\ disk' ++ CellsOfTasks(todo') = Image(made'),
           "torn" \notin causes' => Begins(disk', Image(made')),
           mode' # "create" /\ ~torn' => disk' = Image(made'),
           child' # "none" =>
             \/ mode' = "create" /\ todo' # << >> /\ Head(todo').w = "spawn"
             \/ mode' = "apply" /\ rd'.at \in Spawning,
           Len(made') <= IF mode' = "apply" THEN processes' - 1 ELSE processes',
           Operations(made') <= Len(made') * Longest
    PROVE  WriteInv'
  BY Zenon DEF WriteInv

LEMMA ReadStepWrites ==
    ASSUME TypeInv, WriteInv, ReadStep
    PROVE  WriteInv'
<1>1. /\ disk' = disk /\ wbuf' = wbuf /\ todo' = todo /\ made' = made /\ torn' = torn
      /\ processes' = processes
  BY DEF ReadStep, writer
<1>2. mode = "apply" /\ mode' # "create"
  BY DEF ReadStep
<1>3. "torn" \in causes' <=> "torn" \in causes
  BY DEF ReadStep
<1>4. Len(made) <= processes - 1 /\ processes \in Nat
  BY <1>2, ProcessFacts DEF WriteInv
<1>5. Len(made') <= IF mode' = "apply" THEN processes' - 1 ELSE processes'
  <2>1. PICK l \in Nat : l = Len(made)
    BY TypeFacts, LenProperties
  <2> QED BY <1>1, <1>4, <2>1
<1>6. child' # "none" => mode' = "apply" /\ rd'.at \in Spawning
  <2>1. child' # "none" => child # "none" /\ mode' = "apply" /\ rd' = rd
    BY DEF ReadStep
  <2> QED BY <1>2, <2>1 DEF WriteInv
<1>7. /\ "torn" \in causes => torn
      /\ todo = << >>
      /\ "torn" \notin causes => Begins(disk, Image(made))
      /\ ~torn => disk = Image(made)
      /\ Operations(made) <= Len(made) * Longest
  BY <1>2, Zenon DEF WriteInv
<1> QED BY <1>1, <1>2, <1>3, <1>5, <1>6, <1>7, WriteParts

LEMMA OwnFacts ==
    ASSUME NEW ops \in Patches, NEW z \in BOOLEAN
    PROVE  LET own == [i \in DOMAIN ops |-> [ops[i] EXCEPT !.z = z]]
           IN own \in Seq(Op) /\ Len(own) = Len(ops) /\ Len(own) \in Nat
<1>1. ops \in Seq(Op)
  BY PatchesAssumption
<1>2. PICK n \in Nat : n = Len(ops) /\ DOMAIN ops = 1..n
  BY <1>1, LenProperties
<1>3. \A i \in 1..n : ops[i] \in Op
  BY <1>1, <1>2, ElementOfSeq
<1>4. \A o \in Op : [o EXCEPT !.z = z] \in Op
  BY DEF Op
<1>5. PICK own : own = [i \in 1..n |-> [ops[i] EXCEPT !.z = z]]
  OBVIOUS
<1>6. own \in [1..n -> Op]
  BY <1>3, <1>4, <1>5
<1>7. own \in Seq(Op) /\ Len(own) = n
  BY <1>6, IsASeq, LenProperties
<1> QED BY <1>2, <1>5, <1>7

LEMMA OpenToWriteKeeps ==
    ASSUME TypeInv, WriteInv, NEW ops \in Patches, NEW appending \in BOOLEAN,
           OpenToWrite(ops, appending)
    PROVE  TypeInv' /\ WriteInv'
<1>1. PICK own \in Seq(Op), before \in Seq(Seq(Op)) :
        /\ Len(own) = Len(ops) /\ Len(own) \in Nat
        /\ before = IF appending THEN made ELSE << >>
        /\ todo' = PutPatch(own) /\ made' = Append(before, own)
  <2>1. build' \in Builds /\ build'.zlib \in BOOLEAN
    BY PatchesAssumption DEF OpenToWrite
  <2>2. PICK own : own = [i \in DOMAIN ops |-> [ops[i] EXCEPT !.z = build'.zlib]]
    OBVIOUS
  <2>3. own \in Seq(Op) /\ Len(own) = Len(ops) /\ Len(own) \in Nat
    BY <2>1, <2>2, OwnFacts
  <2>4. PICK before : before = IF appending THEN made ELSE << >>
    OBVIOUS
  <2>5. before \in Seq(Seq(Op))
    <3>1. made \in Seq(Seq(Op))
      BY TypeFacts
    <3>2. << >> \in Seq(Seq(Op))
      OBVIOUS
    <3> QED BY <2>4, <3>1, <3>2
  <2>6. todo' = PutPatch(own) /\ made' = Append(before, own)
    BY <2>2, <2>4 DEF OpenToWrite
  <2> QED BY <2>3, <2>4, <2>5, <2>6
<1>2. /\ mode = "idle" /\ mode' = "create" /\ processes' = processes + 1 /\ build' \in Builds
      /\ processes < MaxProcesses
      /\ disk' = IF appending THEN disk ELSE << >>
      /\ torn' = (appending /\ torn)
      /\ causes' = IF appending /\ torn THEN {"torn"} ELSE {}
      /\ result' = "none" /\ done' = 0 /\ wbuf' = wbuf /\ child' = child
      /\ UNCHANGED <<stream, rd>>
  BY DEF OpenToWrite
<1>3. child = "none" /\ (~torn => disk = Image(made)) /\ Len(made) <= processes
      /\ Operations(made) <= Len(made) * Longest
  BY <1>2 DEF WriteInv
<1>4. /\ disk' \in Seq(Cell) /\ wbuf' = << >> /\ todo' \in Seq(Task)
      /\ made' \in Seq(Seq(Op)) /\ torn' \in BOOLEAN /\ processes' \in 0..MaxProcesses
  <2>1. made' \in Seq(Seq(Op))
    <3>1. PICK a : a = Append(before, own)
      OBVIOUS
    <3>2. a \in Seq(Seq(Op))
      BY <3>1, AppendProperties
    <3> QED BY <1>1, <3>1, <3>2
  <2>2. disk' \in Seq(Cell)
    <3>1. disk \in Seq(Cell)
      BY TypeFacts
    <3> QED BY <1>2, <3>1, ProcessFacts
  <2>3. processes' \in 0..MaxProcesses
    BY <1>2, ProcessFacts
  <2> QED BY <1>1, <1>2, <2>1, <2>2, <2>3, TypeFacts, PutPatchFacts
<1>5. ReaderType'
  <2>1. done' \in 0..MaxDone
    BY <1>2, SizesAssumption
  <2> QED BY <1>2, <2>1, SameReader
<1>6. TypeInv'
  BY <1>2, <1>4, <1>5, TypeFacts, TypePartsNext
<1>7. ~torn' => /\ disk' \in Seq(Cell)
                /\ CellsOfTasks(todo') \in Seq(Cell)
                /\ Image(made') = disk' ++ CellsOfTasks(todo')
  <2>1. Image(Append(before, own)) = Image(before) ++ PatchImage(own) /\ Image(before) \in Seq(Cell)
    BY <1>1, ImageFacts
  <2>2. CellsOfTasks(PutPatch(own)) = PatchImage(own) /\ PatchImage(own) \in Seq(Cell)
    BY <1>1, PutPatchFacts, PatchFacts
  <2>3. ~torn' => disk' = Image(before)
    BY <1>1, <1>2, <1>3, ImageFacts
  <2> QED BY <1>1, <2>1, <2>2, <2>3
<1>8. "torn" \notin causes' => ~torn'
  BY <1>2
<1>9. "torn" \notin causes' => Begins(disk', Image(made'))
  BY <1>7, <1>8, BeginsFacts
<1>10. PICK l \in Nat, b \in Nat, k \in Nat, m \in Nat :
         /\ l = Len(before) /\ b = Operations(before) /\ k = Longest /\ m = Len(own)
         /\ b <= l * k /\ m + 1 <= k /\ l <= processes
  <2>1. Len(before) \in Nat /\ Operations(before) \in Nat /\ Longest \in Nat /\ Len(own) \in Nat
    BY <1>1, LenProperties, OperationsFacts, LongestFacts
  <2>2. Len(own) + 1 <= Longest
    BY <1>1, <2>1, LongestFacts
  <2>3. Len(before) <= processes
    <3>1. CASE appending
      BY <1>1, <1>3, <3>1
    <3>2. CASE ~appending
      <4>1. Len(before) = 0
        BY <1>1, <3>2
      <4> QED BY <4>1, ProcessFacts
    <3> QED BY <3>1, <3>2
  <2>4. Operations(before) <= Len(before) * Longest
    <3>1. CASE appending
      BY <1>1, <1>3, <3>1
    <3>2. CASE ~appending
      <4>1. Operations(before) = 0 /\ Len(before) = 0
        BY <1>1, <3>2, OperationsFacts
      <4>2. 0 * Longest = 0
        BY <2>1
      <4> QED BY <4>1, <4>2
    <3> QED BY <3>1, <3>2
  <2> QED BY <2>1, <2>2, <2>3, <2>4
<1>11. Len(made') = l + 1 /\ Operations(made') = b + m + 1
  <2>1. Operations(Append(before, own)) = Operations(before) + Len(own) + 1
    BY <1>1, OperationsFacts
  <2>2. PICK a : a = Append(before, own)
    OBVIOUS
  <2>3. Len(a) = Len(before) + 1
    BY <2>2, AppendProperties
  <2> QED BY <1>1, <1>10, <2>1, <2>2, <2>3
<1>12. Operations(made') <= Len(made') * Longest
  <2>1. (l + 1) * k = l * k + k
    BY <1>10
  <2>2. PICK x \in Nat : x = l * k
    BY <1>10
  <2>3. b + m + 1 <= x + k
    BY <1>10, <2>2
  <2> QED BY <1>10, <1>11, <2>1, <2>2, <2>3
<1>13. Len(made') <= processes'
  <2>1. processes \in Nat
    BY ProcessFacts
  <2> QED BY <1>2, <1>10, <1>11, <2>1
<1> QED BY <1>2, <1>3, <1>6, <1>7, <1>8, <1>9, <1>12, <1>13, WriteParts

LEMMA PutKeeps ==
    ASSUME TypeInv, WriteInv, Put
    PROVE  TypeInv' /\ WriteInv'
<1>1. /\ mode = "create" /\ mode' = "create" /\ todo # << >> /\ child = "none" /\ Head(todo).w = "put"
      /\ todo' = Tail(todo) /\ wbuf' = << >> /\ disk' = disk ++ (wbuf ++ Head(todo).cells)
      /\ UNCHANGED <<stream, mode, rd, child, build, processes, made, torn, causes, done, result>>
  BY DEF Put, flush_archive, Written, process, ++
<1>2. /\ Head(todo) \in Task /\ Tail(todo) \in Seq(Task) /\ CellsOfTask[Head(todo)] \in Seq(Cell)
      /\ CellsOfTasks(todo) = CellsOfTask[Head(todo)] ++ CellsOfTasks(Tail(todo))
      /\ CellsOfTasks(Tail(todo)) \in Seq(Cell)
  BY <1>1, TypeFacts, TasksFacts
<1>3. PICK c \in Seq(Cell) : c = Head(todo).cells /\ c = CellsOfTask[Head(todo)]
  BY <1>1, <1>2, CellsOfTaskMaps
<1>4. disk' = disk ++ c
  BY <1>1, <1>3, TypeFacts, CatEmpty
<1>5. disk' \in Seq(Cell)
  BY <1>4, TypeFacts, CatType
<1>6. ReaderType'
  BY <1>1, TypeFacts, SameReader
<1>7. TypeInv'
  BY <1>1, <1>2, <1>5, <1>6, TypeFacts, TypePartsNext
<1>8. "torn" \notin causes' =>
        /\ ~torn' /\ disk' ++ CellsOfTasks(todo') = Image(made')
        /\ Begins(disk', Image(made'))
  <2>1. "torn" \notin causes => ~torn /\ disk ++ CellsOfTasks(todo) = Image(made)
    BY <1>1 DEF WriteInv
  <2>2. (disk ++ c) ++ CellsOfTasks(Tail(todo)) = disk ++ (c ++ CellsOfTasks(Tail(todo)))
    <3>1. disk \in Seq(Cell)
      BY TypeFacts
    <3> QED BY <1>2, <3>1, CatAssoc
  <2>3. Begins(disk', disk' ++ CellsOfTasks(Tail(todo)))
    BY <1>2, <1>5, BeginsFacts
  <2> QED BY <1>1, <1>2, <1>3, <1>4, <2>1, <2>2, <2>3
<1>9. /\ "torn" \in causes => torn
      /\ Len(made) <= processes /\ Operations(made) <= Len(made) * Longest
  BY <1>1 DEF WriteInv
<1> QED BY <1>1, <1>7, <1>8, <1>9, WriteParts

LEMMA PutFailsKeeps ==
    ASSUME TypeInv, WriteInv, PutFails
    PROVE  TypeInv' /\ WriteInv'
<1>1. /\ mode = "create" /\ mode' = "idle" /\ todo # << >> /\ child = "none"
      /\ wbuf' = << >> /\ todo' = << >> /\ torn' = TRUE /\ result' = "stopped"
      /\ UNCHANGED <<stream, rd, child, build, processes, made, causes, done>>
  BY DEF PutFails, process
<1>2. /\ Head(todo) \in Task /\ CellsOfTask[Head(todo)] \in Seq(Cell)
      /\ CellsOfTasks(todo) = CellsOfTask[Head(todo)] ++ CellsOfTasks(Tail(todo))
      /\ CellsOfTasks(Tail(todo)) \in Seq(Cell)
  BY <1>1, TypeFacts, TasksFacts
<1>3. PICK c \in Seq(Cell), e \in Seq(Cell) : /\ \E n \in 0..Len(c) : disk' = disk ++ First(c, n)
                                              /\ CellsOfTasks(todo) = c ++ e
  <2>1. PICK c \in {wbuf} \cup (IF Head(todo).w = "put" THEN {wbuf \o Head(todo).cells} ELSE {}) :
          \E n \in 0..Len(c) : disk' = disk \o SubSeq(c, 1, n)
    BY DEF PutFails
  <2>2. \E n \in 0..Len(c) : disk' = disk ++ First(c, n)
    BY <2>1 DEF ++, First
  <2>3. CASE c = wbuf
    <3>1. c = << >> /\ c \in Seq(Cell)
      <4>1. wbuf = << >>
        BY TypeFacts
      <4> QED BY <2>3, <4>1, ProcessFacts
    <3>2. CellsOfTasks(todo) = c ++ CellsOfTasks(todo)
      BY <3>1, TypeFacts, CatEmpty
    <3> QED BY <2>2, <3>1, <3>2, TypeFacts
  <2>4. CASE Head(todo).w = "put" /\ c = wbuf ++ Head(todo).cells
    <3>1. Head(todo).cells \in Seq(Cell) /\ Head(todo).cells = CellsOfTask[Head(todo)]
      BY <1>2, <2>4, CellsOfTaskMaps
    <3>2. c = Head(todo).cells
      BY <2>4, <3>1, TypeFacts, CatEmpty
    <3> QED BY <1>2, <2>2, <3>1, <3>2
  <2>5. c = wbuf \/ (Head(todo).w = "put" /\ c = wbuf ++ Head(todo).cells)
    BY <2>1 DEF ++
  <2> QED BY <2>3, <2>4, <2>5
<1>4. PICK n \in 0..Len(c) : disk' = disk ++ First(c, n)
  BY <1>3
<1>5. First(c, n) \in Seq(Cell) /\ Begins(disk ++ First(c, n), disk ++ (c ++ e))
  BY <1>3, TypeFacts, BeginsFacts
<1>6. disk' \in Seq(Cell)
  BY <1>4, <1>5, TypeFacts, CatType
<1>7. ReaderType'
  BY <1>1, TypeFacts, SameReader
<1>8. TypeInv'
  <2>1. todo' \in Seq(Task)
    BY <1>1
  <2> QED BY <1>1, <1>6, <1>7, <2>1, TypeFacts, TypePartsNext
<1>9. "torn" \notin causes' => Begins(disk', Image(made'))
  <2>1. "torn" \notin causes => disk ++ CellsOfTasks(todo) = Image(made)
    BY <1>1 DEF WriteInv
  <2> QED BY <1>1, <1>3, <1>4, <1>5, <2>1
<1>10. Len(made) <= processes /\ Operations(made) <= Len(made) * Longest
  BY <1>1 DEF WriteInv
<1> QED BY <1>1, <1>8, <1>9, <1>10, WriteParts

LEMMA CloseWrittenKeeps ==
    ASSUME TypeInv, WriteInv, CloseWritten
    PROVE  TypeInv' /\ WriteInv'
<1>1. /\ mode = "create" /\ mode' = "idle" /\ todo = << >> /\ todo' = << >>
      /\ disk' = disk ++ wbuf /\ wbuf' = << >> /\ result' = "created"
      /\ UNCHANGED <<stream, rd, child, build, processes, made, torn, causes, done>>
  BY DEF CloseWritten, process, ++
<1>2. disk' = disk
  BY <1>1, TypeFacts, CatEmpty
<1>3. ReaderType'
  BY <1>1, TypeFacts, SameReader
<1>4. TypeInv'
  BY <1>1, <1>2, <1>3, TypeFacts, TypePartsNext
<1>5. child = "none"
  BY <1>1 DEF WriteInv
<1>6. "torn" \notin causes => disk = Image(made)
  <2>1. "torn" \notin causes => disk ++ CellsOfTasks(todo) = Image(made)
    BY <1>1 DEF WriteInv
  <2>2. CellsOfTasks(todo) = << >>
    BY <1>1, TypeFacts, TasksFacts
  <2> QED BY <2>1, <2>2, TypeFacts, CatEmpty
<1>7. /\ "torn" \in causes => torn
      /\ "torn" \notin causes => Begins(disk, Image(made))
      /\ Len(made) <= processes /\ Operations(made) <= Len(made) * Longest
  BY <1>1 DEF WriteInv
<1> QED BY <1>1, <1>2, <1>4, <1>5, <1>6, <1>7, WriteParts

LEMMA SpawnKeeps ==
    ASSUME TypeInv, WriteInv, Spawn
    PROVE  TypeInv' /\ WriteInv'
<1>1. /\ WantsChild /\ child' = "running"
      /\ UNCHANGED <<writer, stream, mode, rd, build, processes, causes, done, result>>
  BY DEF Spawn, process
<1>2. ReaderType'
  BY <1>1, TypeFacts, SameReader
<1>3. TypeInv'
  BY <1>1, <1>2, TypeFacts, StillTyped
<1>4. /\ disk' = disk /\ wbuf' = wbuf /\ todo' = todo /\ made' = made /\ torn' = torn
      /\ mode' = mode /\ rd' = rd /\ processes' = processes /\ causes' = causes
  BY <1>1 DEF writer
<1>5. \/ mode' = "create" /\ todo' # << >> /\ Head(todo').w = "spawn"
      \/ mode' = "apply" /\ rd'.at \in Spawning
  BY <1>1, <1>4 DEF WantsChild
<1> QED BY <1>3, <1>4, <1>5, Zenon DEF WriteInv

LEMMA ChildExitsKeeps ==
    ASSUME TypeInv, WriteInv, ChildExits
    PROVE  TypeInv' /\ WriteInv'
<1>1. /\ child = "running" /\ child' = "over"
      /\ disk' = disk \/ disk' = disk ++ wbuf
      /\ \/ off' = off - Len(rbuf) /\ causes' = causes \cup {"rewound"} /\ Len(rbuf) \in 1..off
         \/ UNCHANGED <<off, causes>>
      /\ UNCHANGED <<wbuf, todo, pos, rbuf, mode, rd, build, processes, made, torn, done, result>>
  BY DEF ChildExits, process, ++
<1>2. disk' = disk
  BY <1>1, TypeFacts, CatEmpty
<1>3. pos \in Nat /\ off \in Nat /\ rbuf \in Seq(Cell) /\ Len(rbuf) <= BufSize /\ Len(rbuf) \in Nat
  <2>1. pos \in Nat /\ off \in Nat /\ rbuf \in Seq(Cell) /\ Len(rbuf) <= BufSize
    BY TypeFacts, HereType
  <2> QED BY <2>1, LenProperties
<1>4. off' \in Nat
  BY <1>1, <1>3
<1>5. ReaderType'
  <2>1. IsFile(Here)'
    BY <1>1, <1>3, <1>4 DEF IsFile, Here
  <2>2. /\ rd' \in Place /\ mode' \in {"idle", "create", "apply", "lost"}
        /\ result' \in {"none", "created", "ok", "bad", "stopped"} /\ done' \in 0..MaxDone
    BY <1>1, TypeFacts
  <2>3. causes' \subseteq {"raw seek", "rewound", "other build", "torn"}
    BY <1>1, TypeFacts
  <2> QED BY <2>1, <2>2, <2>3 DEF ReaderType
<1>6. TypeInv'
  BY <1>1, <1>2, <1>5, TypeFacts, TypePartsNext
<1>7. "torn" \in causes' <=> "torn" \in causes
  BY <1>1
<1> QED BY <1>1, <1>2, <1>6, <1>7, Zenon DEF WriteInv

LEMMA ScriptOutcome ==
    ASSUME TypeInv, AfterScript \/ ScriptFails
    PROVE  Outcome
<1>1. "operation" \in Ats /\ "header" \in Ats
  BY DEF Ats
<1>2. \/ Go(At("operation")) \/ Go(At("header")) \/ Finish("ok") \/ Finish("stopped")
  BY DEF AfterScript, ScriptFails
<1> QED BY <1>1, <1>2, OutcomeIs

LEMMA WaitedKeeps ==
    ASSUME TypeInv, WriteInv, Waited
    PROVE  TypeInv' /\ WriteInv' /\ (mode = "apply" => ReadStep)
<1>1. /\ child = "over" /\ child' = "none"
      /\ UNCHANGED <<disk, wbuf, stream, build, processes, made, torn, causes>>
  BY DEF Waited, process
<1>2. CASE mode = "create"
  <2>1. todo' = Tail(todo) /\ UNCHANGED <<mode, rd, result, done>>
    BY <1>2 DEF Waited
  <2>2. todo # << >> /\ Head(todo).w = "spawn"
    BY <1>1, <1>2 DEF WriteInv
  <2>3. /\ Head(todo) \in Task /\ Tail(todo) \in Seq(Task)
        /\ CellsOfTasks(todo) = CellsOfTask[Head(todo)] ++ CellsOfTasks(Tail(todo))
        /\ CellsOfTasks(Tail(todo)) \in Seq(Cell)
    BY <2>2, TypeFacts, TasksFacts
  <2>4. CellsOfTask[Head(todo)] = << >>
    BY <2>2, <2>3, CellsOfTaskMaps
  <2>5. CellsOfTasks(todo) = CellsOfTasks(Tail(todo))
    BY <2>3, <2>4, CatEmpty
  <2>6. ReaderType'
    BY <1>1, <2>1, TypeFacts, SameReader
  <2>7. TypeInv'
    BY <1>1, <2>1, <2>3, <2>6, TypeFacts, TypePartsNext
  <2>8. WriteInv'
    <3>1. /\ "torn" \in causes => torn
          /\ "torn" \notin causes => ~torn /\ disk ++ CellsOfTasks(todo) = Image(made)
          /\ "torn" \notin causes => Begins(disk, Image(made))
          /\ Len(made) <= processes /\ Operations(made) <= Len(made) * Longest
      BY <1>2 DEF WriteInv
    <3> QED BY <1>1, <1>2, <2>1, <2>5, <3>1, WriteParts
  <2> QED BY <1>2, <2>7, <2>8
<1>3. CASE mode = "apply"
  <2>1. /\ todo' = todo
        /\ Consumed(rd.got) \/ AfterScript \/ ScriptFails
        /\ Consumed(rd.got) \/ UNCHANGED done
    BY <1>3 DEF Waited
  <2>2. Outcome /\ (OneMore \/ UNCHANGED done)
    BY <2>1, ScriptOutcome, OutcomeIs
  <2>3. /\ rd' \in Place /\ mode' \in {"apply", "idle", "lost"}
        /\ result' \in {"none", "created", "ok", "bad", "stopped"} /\ done' \in 0..MaxDone
    BY <1>3, <2>2, OutcomeTypes, MayBe DEF Outcome
  <2>4. ReaderType'
    <3>1. IsFile(Here)'
      BY <1>1, <1>3, MayBe
    <3> QED BY <1>1, <2>3, <3>1, TypeFacts DEF ReaderType
  <2>5. UNCHANGED writer
    BY <1>1, <2>1 DEF writer
  <2>6. TypeInv'
    BY <1>1, <2>4, <2>5, TypeFacts, StillTyped
  <2>7. ReadStep
    BY <1>1, <1>3, <2>3, <2>5 DEF ReadStep
  <2> QED BY <2>6, <2>7, ReadStepWrites
<1> QED BY <1>2, <1>3 DEF Waited

LEMMA SpawnFailsKeeps ==
    ASSUME TypeInv, WriteInv, SpawnFails
    PROVE  TypeInv' /\ WriteInv' /\ ReadStep
<1>1. /\ mode = "apply" /\ child = "none" /\ ScriptFails
      /\ UNCHANGED <<writer, stream, child, build, processes, causes, done>>
  BY DEF SpawnFails, process
<1>2. Outcome /\ IsFile(Here)'
  BY <1>1, ScriptOutcome, MayBe
<1>3. TypeInv' /\ ReadStep
  BY <1>1, <1>2, ReaderSteps
<1> QED BY <1>3, ReadStepWrites

LEMMA OpenToReadKeeps ==
    ASSUME TypeInv, WriteInv, OpenToRead
    PROVE  TypeInv' /\ WriteInv'
<1>1. /\ mode = "idle" /\ mode' = "apply" /\ processes < MaxProcesses /\ processes' = processes + 1
      /\ build' \in Builds /\ rd' = At("header") /\ pos' = 0 /\ off' = 0 /\ rbuf' = << >>
      /\ causes' = causes \cap {"torn"} /\ done' = 0 /\ result' = "none"
      /\ disk' = disk /\ wbuf' = wbuf /\ todo' = todo /\ made' = made /\ torn' = torn /\ child' = child
  BY DEF OpenToRead, writer
<1>2. ReaderType'
  <2>1. << >> \in Seq(Cell) /\ Len(<< >>) = 0 /\ 0 \in Nat /\ 0 <= BufSize /\ 0 \in 0..MaxDone
    BY SizesAssumption
  <2>2. IsFile(Here)'
    BY <1>1, <2>1 DEF IsFile, Here
  <2>3. rd' \in Place
    BY <1>1, PlaceFacts DEF Ats
  <2>4. causes' \subseteq {"raw seek", "rewound", "other build", "torn"}
    BY <1>1
  <2> QED BY <1>1, <2>1, <2>2, <2>3, <2>4 DEF ReaderType
<1>3. processes' \in 0..MaxProcesses /\ processes' - 1 = processes
  BY <1>1, ProcessFacts
<1>4. TypeInv'
  BY <1>1, <1>2, <1>3, TypeFacts, TypePartsNext
<1>5. /\ "torn" \in causes => torn
      /\ todo = << >> /\ child = "none"
      /\ "torn" \notin causes => Begins(disk, Image(made))
      /\ ~torn => disk = Image(made)
      /\ Len(made) <= processes /\ Operations(made) <= Len(made) * Longest
  BY <1>1 DEF WriteInv
<1> QED BY <1>1, <1>3, <1>4, <1>5, WriteParts

(* The steps of a process that reads. *)
Reads == Header \/ Operation \/ PatchBody \/ AddThere \/ AddPlain \/ AddZlib \/ Chunk \/ ChunksEnd

LEMMA ReadsKeep ==
    ASSUME TypeInv, WriteInv, Reads
    PROVE  TypeInv' /\ WriteInv' /\ ReadStep
<1>1. mode = "apply" /\ rd.at \in {"header", "operation", "body", "skipping", "copying"}
  BY DEF Reads, Header, Operation, PatchBody, AddThere, AddPlain, AddZlib, Chunk, ChunksEnd,
         InBody, InChunks
<1>2. child = "none"
  BY <1>1 DEF WriteInv, Spawning
<1>3. TypeInv' /\ ReadStep
  BY <1>2, HeaderSteps, OperationSteps, PatchBodySteps, AddThereSteps, AddPlainSteps, AddZlibSteps,
     ChunkSteps, ChunksEndSteps DEF Reads
<1> QED BY <1>3, ReadStepWrites

-----------------------------------------------------------------------------
(* Where a reader is. *)

LEMMA CatCancel ==
    ASSUME NEW S, NEW a \in Seq(S), NEW b \in Seq(S), NEW c \in Seq(S), a ++ c = b ++ c
    PROVE  a = b
<1>1. PICK d \in Seq(S) : /\ d = a ++ c /\ Len(d) = Len(a) + Len(c)
                          /\ \A i \in 1..Len(d) : d[i] = IF i <= Len(a) THEN a[i] ELSE c[i - Len(a)]
  BY CatIs, SMTT(30)
<1>2. PICK e \in Seq(S) : /\ e = b ++ c /\ Len(e) = Len(b) + Len(c)
                          /\ \A i \in 1..Len(e) : e[i] = IF i <= Len(b) THEN b[i] ELSE c[i - Len(b)]
  BY CatIs, SMTT(30)
<1>3. d = e
  BY <1>1, <1>2
<1>4. PICK la \in Nat, lb \in Nat, lc \in Nat : la = Len(a) /\ lb = Len(b) /\ lc = Len(c)
  BY LenProperties
<1>5. la = lb
  BY <1>1, <1>2, <1>3, <1>4
<1>6. ASSUME NEW i \in 1..la
      PROVE  a[i] = b[i]
  <2>1. i \in 1..Len(d) /\ i \in 1..Len(e) /\ i <= Len(a) /\ i <= Len(b)
    BY <1>1, <1>2, <1>4, <1>5
  <2> QED BY <1>1, <1>2, <1>3, <2>1
<1> QED BY <1>4, <1>5, <1>6, SeqEqual

LEMMA CatFirst ==
    ASSUME NEW S, NEW a \in Seq(S), NEW b \in Seq(S)
    PROVE  Len(a) \in Nat /\ Len(a) <= Len(a ++ b) /\ First(a ++ b, Len(a)) = a
<1>1. PICK d \in Seq(S) : /\ d = a ++ b /\ Len(d) = Len(a) + Len(b)
                          /\ \A i \in 1..Len(d) : d[i] = IF i <= Len(a) THEN a[i] ELSE b[i - Len(a)]
  BY CatIs, SMTT(30)
<1>2. PICK la \in Nat, lb \in Nat : la = Len(a) /\ lb = Len(b)
  BY LenProperties
<1>3. la \in 0..Len(d)
  BY <1>1, <1>2
<1>4. PICK c \in Seq(S) : c = First(d, la) /\ Len(c) = la /\ \A i \in 1..la : c[i] = d[i]
  BY <1>3, FirstOf
<1>5. \A i \in 1..la : c[i] = a[i]
  BY <1>1, <1>2, <1>4
<1>6. c = a
  BY <1>2, <1>4, <1>5, SeqEqual
<1> QED BY <1>1, <1>2, <1>3, <1>4, <1>6

(* A file that ends with, or one cell behind, the beginning b of what it begins. *)
LEMMA EndsNear ==
    ASSUME NEW d \in Seq(Cell), NEW b \in Seq(Cell), NEW e \in Seq(Cell), Begins(d, b ++ e),
           Len(b) <= Len(d)
    PROVE  /\ Len(d) = Len(b) => d = b
           /\ Len(d) = Len(b) + 1 => Len(e) >= 1 /\ d = b ++ <<e[1]>>
<1>1. PICK w \in Seq(Cell) : /\ w = b ++ e /\ Len(w) = Len(b) + Len(e)
                             /\ \A i \in 1..Len(w) : w[i] = IF i <= Len(b) THEN b[i] ELSE e[i - Len(b)]
  BY CatCells, SMTT(30)
<1>2. PICK ld \in Nat, lb \in Nat, le \in Nat : ld = Len(d) /\ lb = Len(b) /\ le = Len(e)
  BY LenProperties
<1>3. ld <= lb + le /\ \A i \in 1..ld : d[i] = w[i]
  BY <1>1, <1>2 DEF Begins
<1>4. \A i \in 1..ld : d[i] = IF i <= lb THEN b[i] ELSE e[i - lb]
  BY <1>1, <1>2, <1>3
<1>5. CASE ld = lb
  <2>1. \A i \in 1..ld : d[i] = b[i]
    BY <1>4, <1>5
  <2>2. d = b
    BY <1>2, <1>5, <2>1, SeqEqual
  <2> QED BY <1>2, <1>5, <2>2
<1>6. CASE ld = lb + 1
  <2>1. le >= 1 /\ 1 \in 1..Len(e)
    BY <1>2, <1>3, <1>6
  <2>2. e[1] \in Cell
    BY <2>1, ElementOfSeq
  <2>3. PICK t \in Seq(Cell) : t = <<e[1]>> /\ Len(t) = 1 /\ t[1] = e[1]
    BY <2>2, Singleton
  <2>4. PICK v \in Seq(Cell) : /\ v = b ++ t /\ Len(v) = Len(b) + Len(t)
                               /\ \A i \in 1..Len(v) : v[i] = IF i <= Len(b) THEN b[i] ELSE t[i - Len(b)]
    BY CatCells, SMTT(30)
  <2>5. Len(v) = ld
    BY <1>2, <1>6, <2>3, <2>4
  <2>6. ASSUME NEW i \in 1..ld
        PROVE  d[i] = v[i]
    <3>1. CASE i <= lb
      BY <1>2, <1>4, <2>4, <2>5, <3>1
    <3>2. CASE ~(i <= lb)
      <4>1. i - lb = 1 /\ i \in 1..Len(v)
        BY <1>6, <2>5, <3>2
      <4>2. d[i] = e[1]
        BY <1>4, <3>2, <4>1
      <4>3. v[i] = t[1]
        BY <1>2, <2>4, <3>2, <4>1
      <4> QED BY <2>3, <4>2, <4>3
    <3> QED BY <3>1, <3>2
  <2>7. d = v
    BY <1>2, <2>5, <2>6, SeqEqual
  <2> QED BY <1>2, <1>6, <2>1, <2>3, <2>4, <2>7
<1>7. \/ Len(d) # Len(b) /\ Len(d) # Len(b) + 1
      \/ ld = lb \/ ld = lb + 1
  BY <1>2
<1> QED BY <1>2, <1>5, <1>6, <1>7

(* What every reader that nothing has happened to may rely on. *)
LEMMA Untroubled ==
    ASSUME IndInv, mode = "apply", causes = {}
    PROVE  /\ TypeInv /\ WriteInv /\ disk \in Seq(Cell) /\ Image(made) \in Seq(Cell) /\ IsFile(Here)
           /\ Begins(disk, Image(made)) /\ (Len(disk) < Len(Image(made)) => torn)
           /\ Stands(Here, rd, done, build.zlib)
           /\ rd \in Place /\ done \in Nat /\ rd.op \in AnyOp
<1>1. TypeInv /\ WriteInv /\ ReadInv
  BY DEF IndInv
<1>2. disk \in Seq(Cell) /\ Image(made) \in Seq(Cell) /\ IsFile(Here) /\ rd \in Place
  BY <1>1, TypeFacts
<1>3. Begins(disk, Image(made)) /\ (~torn => disk = Image(made))
  BY <1>1 DEF WriteInv
<1>4. Len(disk) < Len(Image(made)) => torn
  <2>1. Len(disk) \in Nat
    BY <1>2, LenProperties
  <2> QED BY <1>3, <2>1
<1>5. done \in Nat
  <2>1. done \in 0..MaxDone
    BY <1>1, TypeFacts
  <2> QED BY <2>1
<1>6. rd.op \in AnyOp
  BY <1>2, PlaceFacts
<1> QED BY <1>1, <1>2, <1>3, <1>4, <1>5, <1>6 DEF ReadInv

LEMMA TotalFacts ==
    ASSUME TypeInv, WriteInv, mode = "apply", NEW past \in Seq(Seq(Op)), NEW ps \in Seq(Seq(Op)),
           made = past ++ ps
    PROVE  Operations(past) \in Nat /\ Operations(past) <= MaxDone
<1>1. Operations(made) = Operations(past) + Operations(ps)
  BY OperationsFacts
<1>2. Operations(past) \in Nat /\ Operations(ps) \in Nat
  BY OperationsFacts
<1>3. PICK l \in Nat : l = Len(made)
  <2>1. made \in Seq(Seq(Op))
    BY TypeFacts
  <2> QED BY <2>1, LenProperties
<1>4. l <= processes - 1 /\ Operations(made) <= l * Longest
  BY <1>3 DEF WriteInv
<1>5. l <= MaxProcesses - 1
  BY <1>3, <1>4, ProcessFacts
<1>6. PICK t \in Nat : t = Operations(made)
  BY <1>1, <1>2
<1>7. t <= MaxDone
  BY <1>3, <1>4, <1>5, <1>6, CountFacts
<1> QED BY <1>1, <1>2, <1>6, <1>7, SizesAssumption

LEMMA OneMoreFacts ==
    ASSUME OneMore, done < MaxDone
    PROVE  done' = done + 1
  BY DEF OneMore

LEMMA StandsAtHeader ==
    ASSUME NEW past \in Seq(Seq(Op)), NEW ps \in Seq(Seq(Op)), made = past ++ ps,
           NEW f, NEW r, r.at \in {"header", "postpatch"}, NEW n, NEW z,
           Lies(disk, Image(made), f, Image(ps)), f.pos <= Len(disk), n = Operations(past)
    PROVE  Stands(f, r, n, z)
<1>1. << >> \in Seq(Op)
  OBVIOUS
<1>2. Standing(Image(made), f, r, n, z, << >>, ps, past)
  BY DEF Standing
<1> QED BY <1>1, <1>2, Zenon DEF Stands

LEMMA StandsBehind ==
    ASSUME NEW past \in Seq(Seq(Op)), NEW ps \in Seq(Seq(Op)), made = past ++ ps,
           NEW f, NEW r, r.at = "patchingdone", NEW n, NEW z, n = Operations(past),
           disk = Image(past) \/ disk = Image(past) ++ << Signature[1] >>,
           ~torn => ps = << >>
    PROVE  Stands(f, r, n, z)
<1>1. << >> \in Seq(Op)
  OBVIOUS
<1>2. Standing(Image(made), f, r, n, z, << >>, ps, past)
  BY DEF Standing
<1> QED BY <1>1, <1>2, Zenon DEF Stands

LEMMA StandsAtOperation ==
    ASSUME NEW past \in Seq(Seq(Op)), NEW ps \in Seq(Seq(Op)), made = past ++ ps,
           NEW s \in Seq(Op), NEW f, NEW r, r.at \in {"prepatch", "operation"}, NEW n, NEW z,
           Lies(disk, Image(made), f, Remain(s) ++ Image(ps)), n + Len(s) + 1 = Operations(past)
    PROVE  Stands(f, r, n, z)
<1>1. Standing(Image(made), f, r, n, z, s, ps, past)
  BY DEF Standing
<1> QED BY <1>1, Zenon DEF Stands

LEMMA StandsInBody ==
    ASSUME NEW past \in Seq(Seq(Op)), NEW ps \in Seq(Seq(Op)), made = past ++ ps,
           NEW s \in Seq(Op), NEW f, NEW r, NEW n, NEW z, NEW o \in Op,
           r.at = "body", r.op = o, r.left = o.size, r.got = << >>,
           Lies(disk, Image(made), f, Payload(o) ++ (Remain(s) ++ Image(ps))),
           n + Len(s) + 2 = Operations(past)
    PROVE  Stands(f, r, n, z)
<1>1. Standing(Image(made), f, r, n, z, s, ps, past)
  BY DEF Standing
<1> QED BY <1>1, Zenon DEF Stands

LEMMA StandsAtXdelta ==
    ASSUME NEW past \in Seq(Seq(Op)), NEW ps \in Seq(Seq(Op)), made = past ++ ps,
           NEW s \in Seq(Op), NEW f, NEW r, NEW n, NEW z, NEW o \in Op,
           r.at = "xdelta", r.op = o, o.op = "PATCH", r.got = Payload(o),
           Lies(disk, Image(made), f, Remain(s) ++ Image(ps)),
           n + Len(s) + 2 = Operations(past)
    PROVE  Stands(f, r, n, z)
<1>1. Standing(Image(made), f, r, n, z, s, ps, past)
  BY DEF Standing
<1> QED BY <1>1, Zenon DEF Stands

LEMMA StandsInChunks ==
    ASSUME NEW past \in Seq(Seq(Op)), NEW ps \in Seq(Seq(Op)), made = past ++ ps,
           NEW s \in Seq(Op), NEW f, NEW r, NEW n, NEW z, z = TRUE, NEW o \in Op,
           r.at \in {"skipping", "copying"}, r.op = o, o.op = "ADD", o.z = TRUE,
           NEW l \in Nat, r.left = l,
           Lies(disk, Image(made), f, Spread(ChunkOf(o), Pieces(l)) ++ (Remain(s) ++ Image(ps))),
           r.at = "copying" => r.got ++ Spread(ChunkOf(o), Pieces(l)) = Payload(o),
           n + Len(s) + 2 = Operations(past)
    PROVE  Stands(f, r, n, z)
<1>1. Standing(Image(made), f, r, n, z, s, ps, past)
  BY DEF Standing
<1> QED BY <1>1, Zenon DEF Stands

(* What a step of the reader that nothing happens to may end in. *)
Right ==
  \/ Finish("bad") /\ torn
  \/ Finish("stopped")
  \/ \E r : Go(r) /\ Stands(Here', r, done', build.zlib)

LEMMA StandsLater ==
    ASSUME made' = made, disk' = disk, build' = build, torn' = torn,
           mode' = "apply" /\ causes' = {} => Stands(Here', rd', done', build.zlib)
    PROVE  ReadInv'
<1>1. SUFFICES ASSUME mode' = "apply", causes' = {}
               PROVE  Stands(Here, rd, done, build.zlib)'
  BY Zenon DEF ReadInv
<1>2. PICK past \in Seq(Seq(Op)), ps \in Seq(Seq(Op)), s \in Seq(Op) :
        /\ made = past ++ ps
        /\ Standing(Image(made), Here', rd', done', build.zlib, s, ps, past)
  BY <1>1, Zenon DEF Stands
<1>3. made' = past ++ ps
  BY <1>2
<1>4. Standing(Image(made), Here, rd, done, build.zlib, s, ps, past)'
  BY <1>2, ZenonT(60) DEF Standing
<1> QED BY <1>3, <1>4, Zenon DEF Stands

LEMMA NotEnded ==
    ASSUME result' \in {"ok", "bad"} => mode' = "idle", result' # "ok",
           result' = "bad" => causes' # {} \/ torn', mode' = "lost" => causes' # {}
    PROVE  EndInv'
  BY Zenon DEF EndInv, ResultIsTrue, WholeIsAccepted, CutIsNoticed

LEMMA Arrives ==
    ASSUME IndInv, ReadStep, build' = build,
           \/ \E r : Go(r)
           \/ Finish("bad") \/ Finish("stopped") \/ Lose,
           causes' = {} => Right
    PROVE  ReadInv' /\ EndInv'
<1>1. mode = "apply" /\ made' = made /\ disk' = disk /\ torn' = torn
  BY DEF ReadStep, writer
<1>2. result \notin {"ok", "bad"}
  BY <1>1 DEF IndInv, EndInv
<1>3. mode' = "apply" /\ causes' = {} => Stands(Here', rd', done', build.zlib)
  BY DEF Right, Finish, Go
<1>4. ReadInv'
  BY <1>1, <1>3, StandsLater
<1>5. /\ result' \in {"ok", "bad"} => mode' = "idle"
      /\ result' # "ok"
  BY <1>1, <1>2 DEF Go, Finish, Lose
<1>6. result' = "bad" => causes' # {} \/ torn'
  BY <1>1, <1>2 DEF Right, Go, Finish, Lose
<1>7. mode' = "lost" => causes' # {}
  BY <1>1 DEF Right, Go, Finish, Lose
<1> QED BY <1>4, <1>5, <1>6, <1>7, NotEnded

-----------------------------------------------------------------------------
(* Each step of a reader. *)

LEMMA MovedThere ==
    ASSUME NEW f, MoveTo(f), NEW d, NEW w, NEW e, Lies(d, w, f, e)
    PROVE  Lies(d, w, Here', e) /\ Here'.pos = f.pos
<1>1. Here'.pos = pos'
  BY DEF Here
<1> QED BY <1>1, MoveFacts

(* What c = FRead(f, n) got is x, or less: the end of the file. *)
ReadOrEnded(c, w, n, x, e) ==
  /\ IsFile(c.f) /\ Coherent(disk, c.f)
  /\ \/ c.cells = x /\ Lies(disk, w, c.f, e) /\ (n > 0 => c.f.pos <= Len(disk))
     \/ c.cells \in Seq(Cell) /\ Len(c.cells) < n /\ Len(disk) < Len(w) /\ Len(disk) <= c.f.pos

LEMMA WhatIsRead ==
    ASSUME disk \in Seq(Cell), NEW w \in Seq(Cell), Begins(disk, w), NEW f, IsFile(f),
           NEW x \in Seq(Cell), NEW e \in Seq(Cell), Lies(disk, w, f, x ++ e), NEW n \in Nat, Len(x) = n
    PROVE  ReadOrEnded(FRead(f, n), w, n, x, e)
<1>1. PICK c : c = FRead(f, n)
  OBVIOUS
<1>2. n = Len(x)
  OBVIOUS
<1>3. /\ IsFile(c.f) /\ Coherent(disk, c.f)
      /\ \/ c.cells = x /\ Lies(disk, w, c.f, e) /\ (n > 0 => c.f.pos <= Len(disk))
         \/ c.cells \in Seq(Cell) /\ Len(c.cells) < n /\ Len(disk) < Len(w) /\ Len(disk) <= c.f.pos
  BY <1>1, <1>2, ReadWhatLies
<1> QED BY <1>1, <1>3 DEF ReadOrEnded

(* One cell is there or nothing is. *)
LEMMA OneIsRead ==
    ASSUME NEW c, NEW w, NEW x, NEW e, ReadOrEnded(c, w, 1, x, e)
    PROVE  /\ IsFile(c.f) /\ Coherent(disk, c.f)
           /\ \/ c.cells = x /\ Lies(disk, w, c.f, e) /\ c.f.pos <= Len(disk)
              \/ c.cells = << >> /\ Len(disk) < Len(w) /\ Len(disk) <= c.f.pos
<1>1. c.cells \in Seq(Cell) => Len(c.cells) \in Nat /\ (Len(c.cells) = 0 => c.cells = << >>)
  BY LenProperties
<1> QED BY <1>1 DEF ReadOrEnded

(* The two cells of an operation, or less: the end of the file. *)
LEMMA OpCellsRead ==
    ASSUME disk \in Seq(Cell), NEW w \in Seq(Cell), Begins(disk, w), NEW f, IsFile(f),
           NEW o \in AnyOp, NEW e \in Seq(Cell), Lies(disk, w, f, OpCells(o) ++ e),
           NEW code, code = FRead(f, 1), NEW fields, fields = FRead(code.f, 1),
           NEW both, both = code.cells ++ fields.cells
    PROVE  \/ both = OpCells(o) /\ Lies(disk, w, fields.f, e) /\ fields.f.pos <= Len(disk)
           \/ Len(both) \in 0..1 /\ Len(disk) < Len(w)
<1>1. PICK a \in Seq(Cell), b \in Seq(Cell) :
        Len(a) = 1 /\ Len(b) = 1 /\ OpCells(o) = a ++ b
  <2>1. OpCells(o) \in Seq(Cell) /\ Len(OpCells(o)) = 2
    BY OpFacts
  <2>2. PICK c \in Seq(Cell) : c = OpCells(o) /\ Len(c) = 2
    BY <2>1
  <2>3. c[1] \in Cell /\ c[2] \in Cell
    <3>1. 1 \in 1..Len(c) /\ 2 \in 1..Len(c)
      BY <2>2
    <3> QED BY <3>1, ElementOfSeq
  <2>4. PICK a \in Seq(Cell) : a = <<c[1]>> /\ Len(a) = 1 /\ a[1] = c[1]
    BY <2>3, Singleton
  <2>5. PICK b \in Seq(Cell) : b = <<c[2]>> /\ Len(b) = 1 /\ b[1] = c[2]
    BY <2>3, Singleton
  <2>6. c = a ++ b
    BY <2>2, <2>4, <2>5, CatTwo
  <2> QED BY <2>2, <2>4, <2>5, <2>6
<1>2. (a ++ b) ++ e = a ++ (b ++ e) /\ b ++ e \in Seq(Cell)
  BY CatAssoc, CatType
<1>3. Lies(disk, w, f, a ++ (b ++ e))
  BY <1>1, <1>2
<1>4. /\ IsFile(code.f) /\ Coherent(disk, code.f)
      /\ \/ code.cells = a /\ Lies(disk, w, code.f, b ++ e)
         \/ code.cells = << >> /\ Len(disk) < Len(w) /\ Len(disk) <= code.f.pos
  <2>1. ReadOrEnded(code, w, 1, a, b ++ e)
    BY <1>1, <1>2, <1>3, WhatIsRead
  <2> QED BY <2>1, OneIsRead
<1>5. CASE code.cells = a /\ Lies(disk, w, code.f, b ++ e)
  <2>1. ReadOrEnded(fields, w, 1, b, e)
    BY <1>1, <1>4, <1>5, WhatIsRead
  <2>2. \/ fields.cells = b /\ Lies(disk, w, fields.f, e) /\ fields.f.pos <= Len(disk)
        \/ fields.cells = << >> /\ Len(disk) < Len(w)
    BY <2>1, OneIsRead
  <2>3. CASE fields.cells = << >> /\ Len(disk) < Len(w)
    <3>1. both = a
      BY <1>1, <1>5, <2>3, CatEmpty
    <3>2. Len(both) = 1
      BY <1>1, <3>1
    <3> QED BY <2>3, <3>2
  <2>4. CASE fields.cells = b /\ Lies(disk, w, fields.f, e) /\ fields.f.pos <= Len(disk)
    <3>1. both = OpCells(o)
      BY <1>1, <1>5, <2>4
    <3> QED BY <2>4, <3>1
  <2> QED BY <2>2, <2>3, <2>4
<1>6. CASE code.cells = << >> /\ Len(disk) < Len(w) /\ Len(disk) <= code.f.pos
  <2>1. fields.cells = << >>
    BY <1>4, <1>6, ReadOnlyWhatIsThere
  <2>2. << >> \in Seq(Cell) /\ Len(<< >>) = 0
    OBVIOUS
  <2>3. both = << >>
    BY <1>6, <2>1, <2>2, CatEmpty
  <2>4. Len(both) = 0
    BY <2>2, <2>3
  <2> QED BY <1>6, <2>4
<1> QED BY <1>4, <1>5, <1>6

LEMMA OperationArrives ==
    ASSUME IndInv, Operation, causes = {}
    PROVE  Right
<1>1. mode = "apply" /\ rd.at = "operation"
  BY DEF Operation
<1>2. PICK w \in Seq(Cell) : /\ w = Image(made) /\ Begins(disk, w)
                             /\ Len(disk) < Len(w) => torn
  BY <1>1, Untroubled
<1>3. disk \in Seq(Cell) /\ IsFile(Here) /\ done \in Nat /\ TypeInv /\ WriteInv
  BY <1>1, Untroubled
<1>4. PICK past \in Seq(Seq(Op)), ps \in Seq(Seq(Op)), s \in Seq(Op) :
        /\ made = past ++ ps
        /\ Lies(disk, w, Here, Remain(s) ++ Image(ps)) /\ done + Len(s) + 1 = Operations(past)
  <2>1. Stands(Here, rd, done, build.zlib)
    BY <1>1, Untroubled
  <2> QED BY <1>1, <1>2, <2>1 DEF Stands, Standing
<1>5. PICK n \in Nat : n = Len(s)
  BY LenProperties
<1>6. done < MaxDone
  <2>1. Operations(past) \in Nat /\ Operations(past) <= MaxDone
    BY <1>1, <1>3, <1>4, TotalFacts
  <2> QED BY <1>3, <1>4, <1>5, <2>1, SizesAssumption
<1>7. PICK code, fields, cells : /\ code = FRead(Here, 1) /\ fields = FRead(code.f, 1)
                                 /\ cells = code.cells ++ fields.cells
  OBVIOUS
<1>8. /\ MoveTo(fields.f)
      /\ \/ /\ Len(cells) = 2 /\ cells[1].k = "code" /\ cells = OpCells(cells[1].o)
            /\ Go(IF cells[1].o = Done THEN At("header")
                  ELSE [at |-> "body", op |-> cells[1].o, left |-> cells[1].o.size, got |-> << >>])
            /\ IF cells[1].o = Done THEN OneMore ELSE UNCHANGED done
         \/ Len(cells) = 2 /\ cells[1].o = Done /\ Go(At("postpatch")) /\ OneMore
         \/ ~(Len(cells) = 2 /\ cells[1].k = "code" /\ cells = OpCells(cells[1].o)) /\ Finish("bad")
         \/ ~(Len(cells) = 2 /\ cells[1].k = "code" /\ cells = OpCells(cells[1].o)) /\ Len(cells) = 2
  BY <1>7, Zenon DEF Operation, ++
<1>9. Image(ps) \in Seq(Cell)
  BY ImageFacts
<1>10. CASE s = << >>
  <2>1. Done \in AnyOp
    BY DEF AnyOp
  <2>2. Lies(disk, w, Here, OpCells(Done) ++ Image(ps))
    BY <1>4, <1>10, RemainFacts
  <2>3. \/ /\ cells = OpCells(Done) /\ Lies(disk, w, fields.f, Image(ps))
           /\ fields.f.pos <= Len(disk)
        \/ Len(cells) \in 0..1 /\ Len(disk) < Len(w)
    BY <1>2, <1>3, <1>7, <1>9, <2>1, <2>2, OpCellsRead
  <2>4. CASE Len(cells) \in 0..1 /\ Len(disk) < Len(w)
    <3>1. Len(cells) = 2 => FALSE
      <4>1. PICK m \in 0..1 : m = Len(cells)
        BY <2>4
      <4>2. ~(m = 2)
        OBVIOUS
      <4> QED BY <4>1, <4>2
    <3>2. Finish("bad") /\ torn
      BY <1>2, <1>8, <2>4, <3>1
    <3> QED BY <3>2 DEF Right
  <2>5. CASE /\ cells = OpCells(Done) /\ Lies(disk, w, fields.f, Image(ps))
             /\ fields.f.pos <= Len(disk)
    <3>1. Len(cells) = 2 /\ cells[1].k = "code" /\ cells[1].o = Done
      <4>1. Len(cells) = 2 /\ cells[1] = [k |-> "code", o |-> Done]
        BY <2>1, <2>5, OpFacts
      <4> QED BY <4>1
    <3>2. PICK a \in {"header", "postpatch"} : Go(At(a)) /\ OneMore
      BY <1>8, <2>5, <3>1
    <3>3. done' = done + 1
      BY <1>6, <3>2, OneMoreFacts
    <3>4. Lies(disk, w, Here', Image(ps)) /\ Here'.pos <= Len(disk)
      BY <1>8, <2>5, MovedThere
    <3>5. PICK q : q = At(a) /\ q.at \in {"header", "postpatch"}
      <4>1. At(a).at = a
        BY PlaceFacts DEF Ats, Spawning
      <4> QED BY <4>1
    <3>6. done' = Operations(past)
      <4>1. n = 0
        BY <1>5, <1>10
      <4> QED BY <1>3, <1>4, <1>5, <3>3, <4>1
    <3>7. Stands(Here', q, done', build.zlib)
      BY <1>2, <1>4, <3>4, <3>5, <3>6, StandsAtHeader
    <3> QED BY <3>2, <3>5, <3>7 DEF Right
  <2> QED BY <2>3, <2>4, <2>5
<1>11. CASE s # << >>
  <2>1. PICK o \in Op, t \in Seq(Op) :
          /\ Remain(s) = OpCells(o) ++ (Payload(o) ++ Remain(t)) /\ Len(t) = n - 1
    BY <1>5, <1>11, RemainFacts
  <2>2. o \in AnyOp /\ o # Done
    <3>1. o \in AnyOp
      BY DEF AnyOp
    <3> QED BY <3>1, OpFacts
  <2>3. /\ OpCells(o) \in Seq(Cell) /\ Payload(o) \in Seq(Cell) /\ Remain(t) \in Seq(Cell)
    BY <2>2, OpFacts, PayloadFacts, RemainFacts
  <2>4. PICK e \in Seq(Cell) : e = Payload(o) ++ (Remain(t) ++ Image(ps))
    BY <1>9, <2>3, CatType
  <2>5. Remain(s) ++ Image(ps) = OpCells(o) ++ e
    <3>1. Payload(o) ++ Remain(t) \in Seq(Cell)
      BY <2>3, CatType
    <3>2. (OpCells(o) ++ (Payload(o) ++ Remain(t))) ++ Image(ps)
            = OpCells(o) ++ ((Payload(o) ++ Remain(t)) ++ Image(ps))
      BY <1>9, <2>3, <3>1, CatAssoc
    <3>3. (Payload(o) ++ Remain(t)) ++ Image(ps) = Payload(o) ++ (Remain(t) ++ Image(ps))
      BY <1>9, <2>3, CatAssoc
    <3> QED BY <2>1, <2>4, <3>2, <3>3
  <2>6. Lies(disk, w, Here, OpCells(o) ++ e)
    BY <1>4, <2>5
  <2>7. \/ cells = OpCells(o) /\ Lies(disk, w, fields.f, e)
        \/ Len(cells) \in 0..1 /\ Len(disk) < Len(w)
    BY <1>2, <1>3, <1>7, <2>2, <2>6, OpCellsRead
  <2>8. CASE Len(cells) \in 0..1 /\ Len(disk) < Len(w)
    <3>1. Len(cells) = 2 => FALSE
      <4>1. PICK m \in 0..1 : m = Len(cells)
        BY <2>8
      <4>2. ~(m = 2)
        OBVIOUS
      <4> QED BY <4>1, <4>2
    <3>2. Finish("bad") /\ torn
      BY <1>2, <1>8, <2>8, <3>1
    <3> QED BY <3>2 DEF Right
  <2>9. CASE cells = OpCells(o) /\ Lies(disk, w, fields.f, e)
    <3>1. Len(cells) = 2 /\ cells[1].k = "code" /\ cells[1].o = o
      <4>1. Len(cells) = 2 /\ cells[1] = [k |-> "code", o |-> o]
        BY <2>2, <2>9, OpFacts
      <4> QED BY <4>1
    <3>2. PICK r : r = [at |-> "body", op |-> o, left |-> o.size, got |-> << >>]
      OBVIOUS
    <3>3. Go(r) /\ UNCHANGED done
      BY <1>8, <2>2, <2>9, <3>1, <3>2
    <3>4. Lies(disk, w, Here', e)
      BY <1>8, <2>9, MovedThere
    <3>5. done' + Len(t) + 2 = Operations(past)
      BY <1>3, <1>4, <1>5, <2>1, <3>3
    <3>6. r.at = "body" /\ r.op = o /\ r.left = o.size /\ r.got = << >>
      BY <3>2
    <3>7. Stands(Here', r, done', build.zlib)
      BY <1>2, <1>4, <2>4, <3>4, <3>5, <3>6, StandsInBody
    <3> QED BY <3>3, <3>7 DEF Right
  <2> QED BY <2>7, <2>8, <2>9
<1> QED BY <1>10, <1>11

(* Where the reader of a body is. *)
InBodyOf(o, past, ps, s, w) ==
  /\ rd.op = o /\ rd.left = o.size /\ rd.got = << >>
  /\ made = past ++ ps /\ w = Image(made)
  /\ Lies(disk, w, Here, Payload(o) ++ (Remain(s) ++ Image(ps)))
  /\ done + Len(s) + 2 = Operations(past) /\ done < MaxDone
  /\ Remain(s) ++ Image(ps) \in Seq(Cell) /\ Payload(o) \in Seq(Cell)
  /\ Begins(disk, w) /\ (Len(disk) < Len(w) => torn) /\ disk \in Seq(Cell) /\ IsFile(Here)
  /\ done \in Nat /\ Len(s) \in Nat

LEMMA BodyIs ==
    ASSUME IndInv, InBody, causes = {}
    PROVE  \E o \in Op, past, ps \in Seq(Seq(Op)), s \in Seq(Op), w \in Seq(Cell) :
              InBodyOf(o, past, ps, s, w)
<1>1. mode = "apply" /\ rd.at = "body"
  BY DEF InBody
<1>2. PICK w \in Seq(Cell) : /\ w = Image(made) /\ Begins(disk, w)
                             /\ Len(disk) < Len(w) => torn
  BY <1>1, Untroubled
<1>3. disk \in Seq(Cell) /\ IsFile(Here) /\ done \in Nat /\ TypeInv /\ WriteInv
  BY <1>1, Untroubled
<1>4. PICK past \in Seq(Seq(Op)), ps \in Seq(Seq(Op)), s \in Seq(Op) :
        /\ made = past ++ ps /\ rd.op \in Op /\ rd.left = rd.op.size /\ rd.got = << >>
        /\ Lies(disk, w, Here, Payload(rd.op) ++ (Remain(s) ++ Image(ps)))
        /\ done + Len(s) + 2 = Operations(past)
  <2>1. Stands(Here, rd, done, build.zlib)
    BY <1>1, Untroubled
  <2> QED BY <1>1, <1>2, <2>1 DEF Stands, Standing
<1>5. PICK o \in Op : o = rd.op
  BY <1>4
<1>6. Len(s) \in Nat
  BY LenProperties
<1>7. done < MaxDone
  <2>1. Operations(past) \in Nat /\ Operations(past) <= MaxDone
    BY <1>1, <1>3, <1>4, TotalFacts
  <2> QED BY <1>3, <1>4, <1>6, <2>1, SizesAssumption
<1>8. Image(ps) \in Seq(Cell) /\ Remain(s) \in Seq(Cell) /\ Payload(o) \in Seq(Cell)
  BY ImageFacts, RemainFacts, PayloadFacts
<1>9. Remain(s) ++ Image(ps) \in Seq(Cell)
  BY <1>8, CatType
<1>10. InBodyOf(o, past, ps, s, w)
  BY <1>2, <1>3, <1>4, <1>5, <1>6, <1>7, <1>8, <1>9 DEF InBodyOf
<1> QED BY <1>10

(* A reader that is through with a payload. *)
LEMMA Through ==
    ASSUME NEW past \in Seq(Seq(Op)), NEW ps \in Seq(Seq(Op)), NEW s \in Seq(Op),
           NEW w, w = Image(made), made = past ++ ps, done \in Nat, Len(s) \in Nat, done < MaxDone,
           done + Len(s) + 2 = Operations(past),
           Lies(disk, w, Here', Remain(s) ++ Image(ps)), Go(At("operation")), OneMore
    PROVE  Right
<1>1. done' = done + 1
  BY OneMoreFacts
<1>2. done' + Len(s) + 1 = Operations(past)
  BY <1>1
<1>3. At("operation").at = "operation"
  BY PlaceFacts DEF Ats
<1>4. Stands(Here', At("operation"), done', build.zlib)
  BY <1>2, <1>3, StandsAtOperation
<1> QED BY <1>4 DEF Right

LEMMA SeekArrives ==
    ASSUME NEW o \in Op, NEW past \in Seq(Seq(Op)), NEW ps \in Seq(Seq(Op)), NEW s \in Seq(Op),
           NEW w \in Seq(Cell), InBodyOf(o, past, ps, s, w),
           NEW n \in Nat, Len(Payload(o)) = n, Seek(n)
    PROVE  Right
<1>1. CASE MoveTo(FSeek(Here, n)) /\ Go(At("operation")) /\ OneMore
  <2>1. PICK e \in Seq(Cell) : e = Remain(s) ++ Image(ps)
    BY DEF InBodyOf
  <2>2. /\ disk \in Seq(Cell) /\ IsFile(Here) /\ Payload(o) \in Seq(Cell)
        /\ Lies(disk, w, Here, Payload(o) ++ e)
    BY <2>1 DEF InBodyOf
  <2>3. n = Len(Payload(o))
    OBVIOUS
  <2>4. Lies(disk, w, FSeek(Here, n), e)
    BY <2>2, <2>3, SeekWhatLies
  <2>5. Lies(disk, w, Here', e)
    BY <1>1, <2>4, MovedThere
  <2> QED BY <1>1, <2>1, <2>5, Through DEF InBodyOf
<1>2. CASE Finish("stopped")
  BY <1>2 DEF Right
<1> QED BY <1>1, <1>2 DEF Seek

LEMMA PlaceExcept ==
    ASSUME NEW r \in Place
    PROVE  /\ \A a, c : LET q == [r EXCEPT !.at = a, !.got = c]
                        IN q.at = a /\ q.op = r.op /\ q.left = r.left /\ q.got = c
           /\ \A a : LET q == [r EXCEPT !.at = a]
                     IN q.at = a /\ q.op = r.op /\ q.left = r.left /\ q.got = r.got
           /\ \A l, c : LET q == [r EXCEPT !.left = l, !.got = c]
                        IN q.at = r.at /\ q.op = r.op /\ q.left = l /\ q.got = c
  BY DEF Place

LEMMA TooFew ==
    ASSUME NEW c \in Seq(Cell), NEW n \in Nat, Len(c) < n, NEW d, Len(d) = n
    PROVE  c # d /\ Len(c) # n
<1>1. PICK m \in Nat : m = Len(c)
  BY LenProperties
<1> QED BY <1>1

LEMMA PatchBodyArrives ==
    ASSUME IndInv, PatchBody, causes = {}
    PROVE  Right
<1>1. InBody /\ rd.op.op = "PATCH"
  BY DEF PatchBody
<1>2. PICK o \in Op, past \in Seq(Seq(Op)), ps \in Seq(Seq(Op)), s \in Seq(Op), w \in Seq(Cell) :
        InBodyOf(o, past, ps, s, w)
  BY <1>1, BodyIs
<1>3. rd.op = o /\ o.op = "PATCH" /\ o.size \in Nat /\ Len(Payload(o)) = o.size
  <2>1. rd.op = o
    BY <1>2 DEF InBodyOf
  <2>2. o.op = "PATCH"
    BY <1>1, <2>1
  <2>3. Len(Payload(o)) = o.size
    BY <2>2, PayloadFacts
  <2>4. o.size \in Nat
    BY DEF Op
  <2> QED BY <2>1, <2>2, <2>3, <2>4
<1>4. PICK delta : delta = FRead(Here, o.size)
  OBVIOUS
<1>5. \/ Seek(o.size)
      \/ /\ MoveTo(delta.f) /\ UNCHANGED done
         /\ IF Len(delta.cells) = o.size
              THEN Go([rd EXCEPT !.at = "xdelta", !.got = delta.cells])
              ELSE Finish("bad")
  BY <1>3, <1>4 DEF PatchBody
<1>6. CASE Seek(o.size)
  BY <1>2, <1>3, <1>6, SeekArrives
<1>7. CASE /\ MoveTo(delta.f) /\ UNCHANGED done
           /\ IF Len(delta.cells) = o.size
                THEN Go([rd EXCEPT !.at = "xdelta", !.got = delta.cells])
                ELSE Finish("bad")
  <2>1. PICK e \in Seq(Cell) : e = Remain(s) ++ Image(ps)
    BY <1>2 DEF InBodyOf
  <2>2. /\ disk \in Seq(Cell) /\ IsFile(Here) /\ Payload(o) \in Seq(Cell) /\ Begins(disk, w)
        /\ Lies(disk, w, Here, Payload(o) ++ e)
    BY <1>2, <2>1 DEF InBodyOf
  <2>3. ReadOrEnded(delta, w, o.size, Payload(o), e)
    BY <1>3, <1>4, <2>2, WhatIsRead
  <2>4. CASE delta.cells = Payload(o) /\ Lies(disk, w, delta.f, e)
    <3>1. PICK r : r = [rd EXCEPT !.at = "xdelta", !.got = delta.cells]
      OBVIOUS
    <3>2. Go(r) /\ UNCHANGED done
      BY <1>3, <1>7, <2>4, <3>1
    <3>3. r.at = "xdelta" /\ r.op = o /\ r.got = Payload(o)
      <4>1. rd \in Place
        BY <1>1, Untroubled DEF InBody
      <4> QED BY <1>3, <2>4, <3>1, <4>1, PlaceExcept
    <3>4. Lies(disk, w, Here', e)
      BY <1>7, <2>4, MovedThere
    <3>5. done' + Len(s) + 2 = Operations(past) /\ made = past ++ ps /\ w = Image(made)
      BY <1>2, <3>2 DEF InBodyOf
    <3>6. Stands(Here', r, done', build.zlib)
      BY <1>3, <2>1, <3>3, <3>4, <3>5, StandsAtXdelta
    <3> QED BY <3>2, <3>6 DEF Right
  <2>5. CASE delta.cells \in Seq(Cell) /\ Len(delta.cells) < o.size /\ Len(disk) < Len(w)
    <3>1. Len(delta.cells) = o.size => FALSE
      <4>1. PICK m \in Nat : m = Len(delta.cells)
        BY <2>5, LenProperties
      <4> QED BY <1>3, <2>5, <4>1
    <3>2. torn
      BY <1>2, <2>5 DEF InBodyOf
    <3> QED BY <1>7, <3>1, <3>2 DEF Right
  <2> QED BY <2>3, <2>4, <2>5 DEF ReadOrEnded
<1> QED BY <1>5, <1>6, <1>7

LEMMA AddThereArrives ==
    ASSUME IndInv, AddThere, causes' = {}
    PROVE  Right
<1>1. /\ InBody /\ rd.op.op = "ADD" /\ causes = {} /\ OfOtherBuild = {}
      /\ Seek(rd.op.size) /\ ~(build.zlib /\ Len(Payload(rd.op)) # rd.op.size)
  BY DEF AddThere
<1>2. PICK o \in Op, past \in Seq(Seq(Op)), ps \in Seq(Seq(Op)), s \in Seq(Op), w \in Seq(Cell) :
        InBodyOf(o, past, ps, s, w)
  BY <1>1, BodyIs
<1>3. rd.op = o
  BY <1>2 DEF InBodyOf
<1>4. Len(Payload(o)) = o.size /\ o.size \in Nat
  <2>1. o.z = build.zlib
    BY <1>1, <1>3 DEF OfOtherBuild
  <2>2. ~build.zlib => Len(Payload(o)) = o.size
    BY <2>1, PayloadFacts
  <2>3. o.size \in Nat
    BY DEF Op
  <2> QED BY <1>1, <1>3, <2>2, <2>3
<1> QED BY <1>1, <1>2, <1>3, <1>4, SeekArrives

LEMMA ConsumedArrives ==
    ASSUME NEW o \in Op, rd.op = o, NEW c, Consumed(c), c = Payload(o), OfOtherBuild = {}
    PROVE  Go(At("operation")) /\ OneMore
  BY DEF Consumed, Verified

LEMMA AddPlainArrives ==
    ASSUME IndInv, AddPlain, causes' = {}
    PROVE  Right
<1>1. InBody /\ rd.op.op = "ADD" /\ ~build.zlib /\ causes = {} /\ OfOtherBuild = {}
  BY DEF AddPlain
<1>2. PICK o \in Op, past \in Seq(Seq(Op)), ps \in Seq(Seq(Op)), s \in Seq(Op), w \in Seq(Cell) :
        InBodyOf(o, past, ps, s, w)
  BY <1>1, BodyIs
<1>3. rd.op = o
  BY <1>2 DEF InBodyOf
<1>4. Len(Payload(o)) = o.size /\ o.size \in Nat
  <2>1. o.z = build.zlib
    BY <1>1, <1>3 DEF OfOtherBuild
  <2>2. o.size \in Nat
    BY DEF Op
  <2> QED BY <1>1, <2>1, <2>2, PayloadFacts
<1>5. PICK data : data = FRead(Here, o.size)
  OBVIOUS
<1>6. \/ Seek(o.size)
      \/ MoveTo(data.f) /\ Consumed(data.cells)
  BY <1>3, <1>5 DEF AddPlain
<1>7. CASE Seek(o.size)
  BY <1>2, <1>4, <1>7, SeekArrives
<1>8. CASE MoveTo(data.f) /\ Consumed(data.cells)
  <2>1. PICK e \in Seq(Cell) : e = Remain(s) ++ Image(ps)
    BY <1>2 DEF InBodyOf
  <2>2. /\ disk \in Seq(Cell) /\ IsFile(Here) /\ Payload(o) \in Seq(Cell) /\ Begins(disk, w)
        /\ Lies(disk, w, Here, Payload(o) ++ e)
    BY <1>2, <2>1 DEF InBodyOf
  <2>3. ReadOrEnded(data, w, o.size, Payload(o), e)
    BY <1>4, <1>5, <2>2, WhatIsRead
  <2>4. CASE data.cells = Payload(o) /\ Lies(disk, w, data.f, e)
    <3>1. Go(At("operation")) /\ OneMore
      BY <1>1, <1>3, <1>8, <2>4, ConsumedArrives
    <3>2. Lies(disk, w, Here', e)
      BY <1>8, <2>4, MovedThere
    <3> QED BY <1>2, <2>1, <3>1, <3>2, Through DEF InBodyOf
  <2>5. CASE data.cells \in Seq(Cell) /\ Len(data.cells) < o.size /\ Len(disk) < Len(w)
    <3>1. data.cells = Payload(o) => FALSE
      BY <1>4, <2>5, TooFew
    <3>2. torn
      BY <1>2, <2>5 DEF InBodyOf
    <3>3. Finish("bad")
      BY <1>3, <1>8, <3>1 DEF Consumed, Verified
    <3> QED BY <3>2, <3>3 DEF Right
  <2> QED BY <2>3, <2>4, <2>5 DEF ReadOrEnded
<1> QED BY <1>6, <1>7, <1>8

LEMMA AddZlibArrives ==
    ASSUME IndInv, AddZlib, causes' = {}
    PROVE  Right
<1>1. /\ InBody /\ rd.op.op = "ADD" /\ build.zlib /\ causes = {} /\ OfOtherBuild = {}
      /\ UNCHANGED <<stream, done>>
      /\ Go([rd EXCEPT !.at = "skipping"]) \/ Go([rd EXCEPT !.at = "copying"])
  BY DEF AddZlib
<1>2. PICK o \in Op, past \in Seq(Seq(Op)), ps \in Seq(Seq(Op)), s \in Seq(Op), w \in Seq(Cell) :
        InBodyOf(o, past, ps, s, w)
  BY <1>1, BodyIs
<1>3. rd.op = o /\ rd.left = o.size /\ rd.got = << >> /\ made = past ++ ps /\ w = Image(made)
  BY <1>2 DEF InBodyOf
<1>4. build.zlib = TRUE /\ o.z = TRUE
  <2>1. build.zlib \in BOOLEAN
    <3>1. build \in Builds
      BY TypeFacts DEF IndInv
    <3> QED BY <3>1, PatchesAssumption
  <2>2. o.z = build.zlib
    BY <1>1, <1>3 DEF OfOtherBuild
  <2> QED BY <1>1, <2>1, <2>2
<1>5. Payload(o) = Spread(ChunkOf(o), Pieces(o.size)) /\ Payload(o) \in Seq(Cell)
  BY <1>1, <1>3, <1>4, PayloadFacts
<1>6. PICK l \in Nat : l = o.size
  BY DEF Op
<1>7. Lies(disk, w, Here', Spread(ChunkOf(o), Pieces(l)) ++ (Remain(s) ++ Image(ps)))
  <2>1. Here' = Here
    BY <1>1 DEF Here, stream
  <2>2. Lies(disk, w, Here, Payload(o) ++ (Remain(s) ++ Image(ps)))
    BY <1>2 DEF InBodyOf
  <2> QED BY <1>5, <1>6, <2>1, <2>2
<1>8. PICK r : Go(r) /\ r.at \in {"skipping", "copying"} /\ r.op = o /\ r.left = l /\ r.got = << >>
  <2>1. rd \in Place
    BY <1>1, Untroubled DEF InBody
  <2>2. PICK a \in {"skipping", "copying"} : Go([rd EXCEPT !.at = a])
    BY <1>1
  <2>3. PICK r : r = [rd EXCEPT !.at = a]
    OBVIOUS
  <2>4. r.at = a /\ r.op = rd.op /\ r.left = rd.left /\ r.got = rd.got
    BY <2>1, <2>3, PlaceExcept
  <2> QED BY <1>3, <1>6, <2>2, <2>3, <2>4
<1>9. r.got ++ Spread(ChunkOf(o), Pieces(l)) = Payload(o)
  <2>1. << >> ++ Payload(o) = Payload(o)
    BY <1>5, CatEmpty
  <2> QED BY <1>5, <1>6, <1>8, <2>1
<1>10. done' + Len(s) + 2 = Operations(past)
  BY <1>1, <1>2 DEF InBodyOf
<1>11. o.op = "ADD"
  BY <1>1, <1>3
<1>12. Stands(Here', r, done', build.zlib)
  BY <1>3, <1>4, <1>7, <1>8, <1>9, <1>10, <1>11, StandsInChunks
<1> QED BY <1>8, <1>12 DEF Right

(* Where the reader of the chunks of a payload is. *)
InChunksOf(o, l, past, ps, s, w) ==
  /\ rd.op = o /\ rd.left = l /\ o.op = "ADD" /\ o.z = TRUE /\ build.zlib = TRUE
  /\ made = past ++ ps /\ w = Image(made)
  /\ Lies(disk, w, Here, Spread(ChunkOf(o), Pieces(l)) ++ (Remain(s) ++ Image(ps)))
  /\ rd.at = "copying" => rd.got ++ Spread(ChunkOf(o), Pieces(l)) = Payload(o)
  /\ done + Len(s) + 2 = Operations(past) /\ done < MaxDone
  /\ Remain(s) ++ Image(ps) \in Seq(Cell) /\ Payload(o) \in Seq(Cell) /\ rd.got \in Seq(Cell)
  /\ Begins(disk, w) /\ (Len(disk) < Len(w) => torn) /\ disk \in Seq(Cell) /\ IsFile(Here)
  /\ done \in Nat /\ Len(s) \in Nat

LEMMA ChunksAre ==
    ASSUME IndInv, InChunks, causes = {}
    PROVE  \E o \in Op, l \in Nat, past, ps \in Seq(Seq(Op)), s \in Seq(Op), w \in Seq(Cell) :
              InChunksOf(o, l, past, ps, s, w)
<1>1. mode = "apply" /\ rd.at \in {"skipping", "copying"}
  BY DEF InChunks
<1>2. PICK w \in Seq(Cell) : /\ w = Image(made) /\ Begins(disk, w)
                             /\ Len(disk) < Len(w) => torn
  BY <1>1, Untroubled
<1>3. disk \in Seq(Cell) /\ IsFile(Here) /\ done \in Nat /\ TypeInv /\ WriteInv
  BY <1>1, Untroubled
<1>4. PICK past \in Seq(Seq(Op)), ps \in Seq(Seq(Op)), s \in Seq(Op) :
        /\ made = past ++ ps /\ rd.op \in Op /\ rd.op.op = "ADD" /\ rd.op.z = TRUE
        /\ build.zlib = TRUE /\ rd.left \in Nat
        /\ Lies(disk, w, Here, Spread(ChunkOf(rd.op), Pieces(rd.left)) ++ (Remain(s) ++ Image(ps)))
        /\ rd.at = "copying" => rd.got ++ Spread(ChunkOf(rd.op), Pieces(rd.left)) = Payload(rd.op)
        /\ done + Len(s) + 2 = Operations(past)
  <2>1. Stands(Here, rd, done, build.zlib)
    BY <1>1, Untroubled
  <2> QED BY <1>1, <1>2, <2>1 DEF Stands, Standing
<1>5. PICK o \in Op, l \in Nat : o = rd.op /\ l = rd.left
  BY <1>4
<1>6. Len(s) \in Nat
  BY LenProperties
<1>7. done < MaxDone
  <2>1. Operations(past) \in Nat /\ Operations(past) <= MaxDone
    BY <1>1, <1>3, <1>4, TotalFacts
  <2> QED BY <1>3, <1>4, <1>6, <2>1, SizesAssumption
<1>8. Image(ps) \in Seq(Cell) /\ Remain(s) \in Seq(Cell) /\ Payload(o) \in Seq(Cell)
  BY ImageFacts, RemainFacts, PayloadFacts
<1>9. Remain(s) ++ Image(ps) \in Seq(Cell)
  BY <1>8, CatType
<1>10. rd.got \in Seq(Cell)
  <2>1. rd \in Place
    BY <1>1, Untroubled
  <2> QED BY <2>1, PlaceFacts
<1>11. InChunksOf(o, l, past, ps, s, w)
  BY <1>2, <1>3, <1>4, <1>5, <1>6, <1>7, <1>8, <1>9, <1>10 DEF InChunksOf
<1> QED BY <1>11

LEMMA ChunksEndArrives ==
    ASSUME IndInv, ChunksEnd, causes = {}
    PROVE  Right
<1>1. /\ InChunks /\ rd.left <= 0 /\ UNCHANGED stream
      /\ IF rd.at = "copying" THEN Consumed(rd.got) ELSE Go(At("operation")) /\ OneMore
  BY DEF ChunksEnd
<1>2. PICK o \in Op, l \in Nat, past \in Seq(Seq(Op)), ps \in Seq(Seq(Op)), s \in Seq(Op),
           w \in Seq(Cell) : InChunksOf(o, l, past, ps, s, w)
  BY <1>1, ChunksAre
<1>3. rd.op = o /\ o.op = "ADD" /\ o.z = TRUE /\ build.zlib = TRUE /\ rd.left = l
  BY <1>2 DEF InChunksOf
<1>4. l = 0
  BY <1>1, <1>3
<1>5. Spread(ChunkOf(o), Pieces(l)) = << >>
  BY <1>4, PiecesFacts, ChunkFacts, SpreadEmpty
<1>6. PICK e \in Seq(Cell) : e = Remain(s) ++ Image(ps)
  BY <1>2 DEF InChunksOf
<1>7. Lies(disk, w, Here', e)
  <2>1. Here' = Here
    BY <1>1 DEF Here, stream
  <2>2. Lies(disk, w, Here, << >> ++ e)
    BY <1>2, <1>5, <1>6 DEF InChunksOf
  <2>3. << >> ++ e = e
    BY CatEmpty
  <2> QED BY <2>1, <2>2, <2>3
<1>8. Go(At("operation")) /\ OneMore
  <2>1. CASE rd.at = "copying"
    <3>1. rd.got ++ << >> = Payload(o) /\ rd.got \in Seq(Cell)
      BY <1>2, <1>5, <2>1 DEF InChunksOf
    <3>2. rd.got = Payload(o)
      BY <3>1, CatEmpty
    <3>3. OfOtherBuild = {}
      BY <1>3 DEF OfOtherBuild
    <3> QED BY <1>1, <1>3, <2>1, <3>2, <3>3, ConsumedArrives
  <2> QED BY <1>1, <2>1
<1> QED BY <1>2, <1>6, <1>7, <1>8, Through DEF InChunksOf

LEMMA ChunkArrives ==
    ASSUME IndInv, Chunk, causes = {}
    PROVE  Right
<1>1. InChunks /\ rd.left > 0 /\ done' = done
  BY DEF Chunk
<1>2. PICK o \in Op, l \in Nat, past \in Seq(Seq(Op)), ps \in Seq(Seq(Op)), s \in Seq(Op),
           w \in Seq(Cell) : InChunksOf(o, l, past, ps, s, w)
  BY <1>1, ChunksAre
<1>3. /\ rd.op = o /\ o.op = "ADD" /\ o.z = TRUE /\ build.zlib = TRUE /\ rd.left = l /\ l > 0
      /\ Len(disk) < Len(w) => torn
      /\ rd \in Place /\ rd.got \in Seq(Cell) /\ rd.at \in {"skipping", "copying"}
  <2>1. rd \in Place
    BY <1>1, Untroubled DEF InChunks
  <2> QED BY <1>1, <1>2, <2>1 DEF InChunksOf, InChunks
<1>4. PICK u \in Nat : /\ u > 0 /\ u <= l /\ Pieces(l) # << >> /\ Pieces(l)[1] = u
                       /\ Tail(Pieces(l)) = Pieces(l - u)
  BY <1>3, PiecesFacts
<1>5. PICK c \in Nat : c = CompSize(u)
  BY CompFacts
<1>6. PICK x \in Seq(Cell) : x = << [k |-> "sizes", u |-> u, c |-> c] >> /\ Len(x) = 1
  <2>1. [k |-> "sizes", u |-> u, c |-> c] \in Cell
    BY DEF Cell
  <2> QED BY <2>1, Singleton
<1>7. x[1].k = "sizes" /\ x[1].u = u /\ x[1].c = c
  BY <1>6
<1>8. PICK y \in Seq(Cell) : y = DataCells(o, c) /\ Len(y) = c
  BY DataFacts
<1>9. PICK m \in Nat, rest \in Seq(Cell), e \in Seq(Cell) :
        /\ m = l - u /\ rest = Spread(ChunkOf(o), Pieces(m)) /\ e = Remain(s) ++ Image(ps)
        /\ Spread(ChunkOf(o), Pieces(l)) = (x ++ y) ++ rest
  <2>1. PICK m \in Nat : m = l - u
    BY <1>4
  <2>2. Pieces(l) \in Seq(Nat) /\ Pieces(m) \in Seq(Nat)
    BY PiecesFacts
  <2>3. Maps(ChunkOf(o), Nat, Seq(Cell))
    BY ChunkFacts
  <2>4. PICK rest \in Seq(Cell) : rest = Spread(ChunkOf(o), Pieces(m))
    BY <2>2, <2>3, SpreadCat
  <2>5. Spread(ChunkOf(o), Pieces(l)) = ChunkOf(o)[u] ++ rest
    <3>1. PICK q \in Seq(Nat) : q = Pieces(l) /\ q # << >> /\ q[1] = u /\ Tail(q) = Pieces(m)
      BY <1>4, <2>1, <2>2
    <3>2. Spread(ChunkOf(o), q) = ChunkOf(o)[q[1]] ++ Spread(ChunkOf(o), Tail(q))
      BY <2>3, <3>1, SpreadCat
    <3> QED BY <2>4, <3>1, <3>2
  <2>6. ChunkOf(o)[u] = x ++ y
    BY <1>5, <1>6, <1>8, ChunkFacts DEF ++
  <2>7. PICK e \in Seq(Cell) : e = Remain(s) ++ Image(ps)
    BY <1>2 DEF InChunksOf
  <2> QED BY <2>1, <2>4, <2>5, <2>6, <2>7
<1>10. Lies(disk, w, Here, x ++ (y ++ (rest ++ e))) /\ y ++ (rest ++ e) \in Seq(Cell)
         /\ rest ++ e \in Seq(Cell)
  <2>1. Lies(disk, w, Here, ((x ++ y) ++ rest) ++ e)
    BY <1>2, <1>9 DEF InChunksOf
  <2>2. ((x ++ y) ++ rest) ++ e = x ++ (y ++ (rest ++ e))
    BY CatFour
  <2> QED BY <2>1, <2>2, CatType
<1>11. PICK sizes : sizes = FRead(Here, 1)
  OBVIOUS
<1>12. ReadOrEnded(sizes, w, 1, x, y ++ (rest ++ e))
  <2>1. disk \in Seq(Cell) /\ IsFile(Here) /\ Begins(disk, w)
    BY <1>2 DEF InChunksOf
  <2> QED BY <1>6, <1>10, <1>11, <2>1, WhatIsRead
<1>13. CASE sizes.cells = << >> /\ Len(disk) < Len(w)
  <2>1. Finish("bad")
    BY <1>11, <1>13 DEF Chunk
  <2> QED BY <1>3, <1>13, <2>1 DEF Right
<1>14. CASE sizes.cells = x /\ Lies(disk, w, sizes.f, y ++ (rest ++ e))
  <2>1. PICK data : data = FRead(sizes.f, c)
    OBVIOUS
  <2>2. PICK next : next = [rd EXCEPT !.left = m, !.got = (rd.got \o x) \o data.cells]
    OBVIOUS
  <2>3. x # << >>
    BY <1>6
  <2>4. \/ rd.at = "skipping" /\ MoveTo(FSeek(sizes.f, c)) /\ Go(next)
        \/ Finish("stopped")
        \/ /\ rd.at = "copying" /\ MoveTo(data.f)
           /\ IF Len(data.cells) = c THEN Go(next) ELSE Finish("bad")
    <3>1. sizes.cells # << >> /\ sizes.cells[1].k = "sizes" /\ sizes.cells[1].u = u
            /\ sizes.cells[1].c = c
      BY <1>7, <1>14, <2>3
    <3>2. next = [rd EXCEPT !.left = @ - sizes.cells[1].u, !.got = @ \o sizes.cells \o data.cells]
      BY <1>3, <1>9, <1>14, <2>2, <3>1
    <3> QED BY <1>11, <2>1, <3>1, <3>2 DEF Chunk, SkipSize
  <2>5. next.at = rd.at /\ next.op = o /\ next.left = m /\ next.got = (rd.got ++ x) ++ data.cells
    <3>1. PICK g : g = (rd.got \o x) \o data.cells /\ g = (rd.got ++ x) ++ data.cells
      BY Zenon DEF ++
    <3>2. next = [rd EXCEPT !.left = m, !.got = g]
      BY <2>2, <3>1
    <3>3. next.at = rd.at /\ next.op = rd.op /\ next.left = m /\ next.got = g
      BY <1>3, <3>2, PlaceExcept
    <3> QED BY <1>3, <3>1, <3>3
  <2>6. done' + Len(s) + 2 = Operations(past) /\ made = past ++ ps /\ w = Image(made)
    BY <1>1, <1>2 DEF InChunksOf
  <2>7. disk \in Seq(Cell) /\ Begins(disk, w) /\ IsFile(sizes.f)
    BY <1>2, <1>12 DEF InChunksOf, ReadOrEnded
  <2>8. CASE rd.at = "skipping" /\ MoveTo(FSeek(sizes.f, c)) /\ Go(next)
    <3>1. c = Len(y)
      BY <1>8
    <3>2. Lies(disk, w, FSeek(sizes.f, c), rest ++ e)
      BY <1>10, <1>14, <2>7, <3>1, SeekWhatLies
    <3>3. Lies(disk, w, Here', rest ++ e)
      BY <2>8, <3>2, MovedThere
    <3>4. Lies(disk, w, Here', Spread(ChunkOf(o), Pieces(m)) ++ (Remain(s) ++ Image(ps)))
      BY <1>9, <3>3
    <3>5. next.at \in {"skipping", "copying"} /\ ~(next.at = "copying")
      BY <2>5, <2>8
    <3>6. Stands(Here', next, done', build.zlib)
      BY <1>3, <2>5, <2>6, <3>4, <3>5, StandsInChunks
    <3> QED BY <2>8, <3>6 DEF Right
  <2>9. CASE /\ rd.at = "copying" /\ MoveTo(data.f)
             /\ IF Len(data.cells) = c THEN Go(next) ELSE Finish("bad")
    <3>1. ReadOrEnded(data, w, c, y, rest ++ e)
      BY <1>8, <1>10, <1>14, <2>1, <2>7, WhatIsRead
    <3>2. CASE data.cells = y /\ Lies(disk, w, data.f, rest ++ e)
      <4>1. Go(next)
        BY <1>8, <2>9, <3>2
      <4>2. Lies(disk, w, Here', rest ++ e)
        BY <2>9, <3>2, MovedThere
      <4>3. Lies(disk, w, Here', Spread(ChunkOf(o), Pieces(m)) ++ (Remain(s) ++ Image(ps)))
        BY <1>9, <4>2
      <4>4. next.got ++ Spread(ChunkOf(o), Pieces(m)) = Payload(o)
        <5>1. ((rd.got ++ x) ++ y) ++ rest = rd.got ++ (x ++ (y ++ rest))
          BY <1>3, CatFour
        <5>2. (x ++ y) ++ rest = x ++ (y ++ rest)
          BY CatAssoc
        <5>3. rd.got ++ ((x ++ y) ++ rest) = Payload(o)
          BY <1>2, <1>9, <2>9 DEF InChunksOf
        <5> QED BY <1>9, <2>5, <3>2, <5>1, <5>2, <5>3
      <4>5. next.at \in {"skipping", "copying"}
        BY <2>5, <2>9
      <4>6. Stands(Here', next, done', build.zlib)
        BY <1>3, <2>5, <2>6, <4>3, <4>4, <4>5, StandsInChunks
      <4> QED BY <4>1, <4>6 DEF Right
    <3>3. CASE data.cells \in Seq(Cell) /\ Len(data.cells) < c /\ Len(disk) < Len(w)
      <4>1. Len(data.cells) = c => FALSE
        <5>1. PICK n \in Nat : n = Len(data.cells)
          BY <3>3, LenProperties
        <5> QED BY <3>3, <5>1
      <4> QED BY <1>3, <2>9, <3>3, <4>1 DEF Right
    <3> QED BY <3>1, <3>2, <3>3 DEF ReadOrEnded
  <2> QED BY <2>4, <2>8, <2>9 DEF Right
<1>15. \/ sizes.cells = << >> /\ Len(disk) < Len(w)
       \/ sizes.cells = x /\ Lies(disk, w, sizes.f, y ++ (rest ++ e))
  BY <1>12, OneIsRead
<1> QED BY <1>13, <1>14, <1>15

LEMMA HeadTailCat ==
    ASSUME NEW S, NEW s \in Seq(S), s # << >>
    PROVE  s = <<s[1]>> ++ Tail(s)
<1>1. PICK t \in Seq(S) : /\ t = Tail(s) /\ Len(t) = Len(s) - 1
                          /\ \A i \in 1..Len(t) : t[i] = s[i + 1]
  BY HeadTailProperties
<1>2. PICK ls \in Nat : ls = Len(s) /\ ls > 0
  BY EmptySeq, LenProperties
<1>3. s[1] \in S
  <2>1. 1 \in 1..Len(s)
    BY <1>2
  <2> QED BY <2>1, ElementOfSeq
<1>4. PICK h \in Seq(S) : h = <<s[1]>> /\ Len(h) = 1 /\ h[1] = s[1]
  BY <1>3, Singleton
<1>5. PICK u \in Seq(S) : /\ u = h ++ t /\ Len(u) = Len(h) + Len(t)
                          /\ \A i \in 1..Len(u) : u[i] = IF i <= Len(h) THEN h[i] ELSE t[i - Len(h)]
  BY CatIs, SMTT(30)
<1>6. Len(u) = ls
  BY <1>1, <1>2, <1>4, <1>5
<1>7. ASSUME NEW i \in 1..ls
      PROVE  s[i] = u[i]
  <2>1. CASE i = 1
    BY <1>4, <1>5, <1>6, <2>1
  <2>2. CASE i # 1
    <3>1. PICK j \in Nat : j = i - 1 /\ j \in 1..Len(t) /\ j + 1 = i /\ ~(i <= 1)
      BY <1>1, <1>2, <2>2
    <3>2. u[i] = t[j]
      BY <1>4, <1>5, <1>6, <3>1
    <3>3. t[j] = s[j + 1]
      BY <1>1, <3>1
    <3> QED BY <3>1, <3>2, <3>3
  <2> QED BY <2>1, <2>2
<1>8. s = u
  BY <1>2, <1>6, <1>7, SeqEqual
<1> QED BY <1>1, <1>4, <1>5, <1>8

LEMMA CatAppend ==
    ASSUME NEW S, NEW s \in Seq(S), NEW x \in S
    PROVE  s ++ <<x>> = Append(s, x)
<1>1. Append(s, x) = s \o <<x>>
  BY AppendIsConcat
<1> QED BY <1>1, Zenon DEF ++

(* How an application that ends well ends: behind every patch of the archive, or
   in the signature of one that a creation that did not end well began. *)
EndedWell ==
  /\ Finish("ok") /\ UNCHANGED <<made, disk, torn, done>>
  /\ \E n \in 0..Len(made) :
       /\ done = Operations(SubSeq(made, 1, n))
       /\ disk \in { Image(SubSeq(made, 1, n)),
                     Image(SubSeq(made, 1, n)) \o << Signature[1] >> }
       /\ ~torn => n = Len(made)

LEMMA EndsWell ==
    ASSUME NEW past \in Seq(Seq(Op)), NEW ps \in Seq(Seq(Op)), made = past ++ ps,
           Finish("ok"), UNCHANGED <<made, disk, torn, done>>, done = Operations(past),
           disk = Image(past) \/ disk = Image(past) ++ << Signature[1] >>,
           ~torn => ps = << >>
    PROVE  EndedWell
<1>1. PICK n \in Nat : n = Len(past)
  BY LenProperties
<1>2. n \in 0..Len(made) /\ First(made, n) = past
  <2>1. Len(past) \in Nat /\ Len(past) <= Len(past ++ ps) /\ First(past ++ ps, Len(past)) = past
    BY CatFirst
  <2>2. Len(past ++ ps) \in Nat
    BY CatType, LenProperties
  <2> QED BY <1>1, <2>1, <2>2
<1>3. SubSeq(made, 1, n) = past
  BY <1>2, Zenon DEF First
<1>4. ~torn => n = Len(made)
  <2>1. past ++ << >> = past
    BY CatEmpty
  <2> QED BY <1>1, <2>1
<1>5. disk \in { Image(past), Image(past) \o << Signature[1] >> }
  BY Zenon DEF ++
<1> QED BY <1>2, <1>3, <1>4, <1>5, Zenon DEF EndedWell

(* The same for one whose archive is closed already: patchingdone is over. *)
LEMMA ScriptEndsWell ==
    ASSUME IndInv, mode = "apply", causes = {}, rd.at = "patchingdone",
           Finish("ok"), UNCHANGED <<made, disk, torn, done>>
    PROVE  EndedWell
<1>1. PICK past \in Seq(Seq(Op)), ps \in Seq(Seq(Op)) :
        /\ made = past ++ ps /\ done = Operations(past) /\ (~torn => ps = << >>)
        /\ disk = Image(past) \/ disk = Image(past) ++ << Signature[1] >>
  BY Untroubled DEF Stands, Standing
<1> QED BY <1>1, EndsWell

LEMMA WaitedArrives ==
    ASSUME IndInv, Waited, mode = "apply", causes = {}
    PROVE  Right \/ EndedWell
<1>1. /\ child = "over" /\ UNCHANGED stream
      /\ \/ rd.at = "xdelta" /\ Consumed(rd.got)
         \/ rd.at = "prepatch" /\ UNCHANGED done /\ Go(At("operation"))
         \/ rd.at = "postpatch" /\ UNCHANGED done /\ Go(At("header"))
         \/ rd.at # "xdelta" /\ UNCHANGED <<made, disk, torn, done>> /\ ScriptFails
  <2>1. child = "over" /\ UNCHANGED <<stream, made, disk, torn>>
    BY DEF Waited
  <2>2. CASE rd.at = "xdelta"
    BY <2>1, <2>2 DEF Waited
  <2>3. CASE rd.at # "xdelta" /\ UNCHANGED done /\ AfterScript
    <3>1. rd.at \in Spawning
      BY <2>1 DEF IndInv, WriteInv
    <3> QED BY <2>1, <2>3, <3>1 DEF AfterScript, Spawning
  <2>4. CASE rd.at # "xdelta" /\ UNCHANGED done /\ ScriptFails
    BY <2>1, <2>4
  <2> QED BY <2>2, <2>3, <2>4 DEF Waited
<1>2. PICK w \in Seq(Cell) : w = Image(made)
  BY Untroubled
<1>3. done \in Nat /\ TypeInv /\ WriteInv /\ Stands(Here, rd, done, build.zlib)
  BY Untroubled
<1>4. Here' = Here
  BY <1>1 DEF Here, stream
<1>5. CASE rd.at = "xdelta" /\ Consumed(rd.got)
  <2>1. PICK past \in Seq(Seq(Op)), ps \in Seq(Seq(Op)), s \in Seq(Op) :
          /\ made = past ++ ps /\ rd.op \in Op /\ rd.op.op = "PATCH" /\ rd.got = Payload(rd.op)
          /\ Lies(disk, w, Here, Remain(s) ++ Image(ps))
          /\ done + Len(s) + 2 = Operations(past)
    BY <1>2, <1>3, <1>5 DEF Stands, Standing
  <2>2. Len(s) \in Nat
    BY LenProperties
  <2>3. done < MaxDone
    <3>1. Operations(past) \in Nat /\ Operations(past) <= MaxDone
      BY <1>3, <2>1, TotalFacts
    <3> QED BY <1>3, <2>1, <2>2, <3>1, SizesAssumption
  <2>4. OfOtherBuild = {}
    BY <2>1 DEF OfOtherBuild
  <2>5. Go(At("operation")) /\ OneMore
    BY <1>5, <2>1, <2>4, ConsumedArrives
  <2>6. Lies(disk, w, Here', Remain(s) ++ Image(ps))
    BY <1>4, <2>1
  <2> QED BY <1>2, <1>3, <2>1, <2>2, <2>3, <2>5, <2>6, Through
<1>6. CASE rd.at = "prepatch" /\ UNCHANGED done /\ Go(At("operation"))
  <2>1. PICK past \in Seq(Seq(Op)), ps \in Seq(Seq(Op)), s \in Seq(Op) :
          /\ made = past ++ ps
          /\ Lies(disk, w, Here, Remain(s) ++ Image(ps))
          /\ done + Len(s) + 1 = Operations(past)
    BY <1>2, <1>3, <1>6 DEF Stands, Standing
  <2>2. Lies(disk, w, Here', Remain(s) ++ Image(ps)) /\ done' + Len(s) + 1 = Operations(past)
    BY <1>4, <1>6, <2>1
  <2>3. At("operation").at = "operation"
    BY PlaceFacts DEF Ats
  <2>4. Stands(Here', At("operation"), done', build.zlib)
    BY <1>2, <2>1, <2>2, <2>3, StandsAtOperation
  <2> QED BY <1>6, <2>4 DEF Right
<1>7. CASE rd.at = "postpatch" /\ UNCHANGED done /\ Go(At("header"))
  <2>1. PICK past \in Seq(Seq(Op)), ps \in Seq(Seq(Op)) :
          /\ made = past ++ ps /\ done = Operations(past)
          /\ Lies(disk, w, Here, Image(ps)) /\ Here.pos <= Len(disk)
    BY <1>2, <1>3, <1>7 DEF Stands, Standing
  <2>2. /\ Lies(disk, w, Here', Image(ps)) /\ Here'.pos <= Len(disk)
        /\ done' = Operations(past)
    BY <1>4, <1>7, <2>1
  <2>3. PICK q : q = At("header") /\ q.at \in {"header", "postpatch"}
    BY PlaceFacts DEF Ats
  <2>4. Stands(Here', q, done', build.zlib)
    BY <1>2, <2>1, <2>2, <2>3, StandsAtHeader
  <2> QED BY <1>7, <2>3, <2>4 DEF Right
<1>8. CASE rd.at # "xdelta" /\ UNCHANGED <<made, disk, torn, done>> /\ ScriptFails
  BY <1>8, ScriptEndsWell DEF ScriptFails, Right
<1> QED BY <1>1, <1>5, <1>6, <1>7, <1>8

LEMMA HeaderArrives ==
    ASSUME IndInv, Header, causes = {}
    PROVE  Right \/ EndedWell
<1>1. mode = "apply" /\ rd.at = "header" /\ UNCHANGED <<made, disk, torn, done>>
  BY DEF Header, writer
<1>2. PICK w \in Seq(Cell) : /\ w = Image(made) /\ Begins(disk, w)
                             /\ Len(disk) < Len(w) => torn
  BY <1>1, Untroubled
<1>3. disk \in Seq(Cell) /\ IsFile(Here) /\ TypeInv /\ WriteInv
  BY <1>1, Untroubled
<1>4. PICK past \in Seq(Seq(Op)), ps \in Seq(Seq(Op)) :
        /\ made = past ++ ps /\ done = Operations(past)
        /\ Lies(disk, w, Here, Image(ps)) /\ Here.pos <= Len(disk)
  <2>1. Stands(Here, rd, done, build.zlib)
    BY <1>1, Untroubled
  <2> QED BY <1>1, <1>2, <2>1 DEF Stands, Standing
<1>5. PICK b \in Seq(Cell), e \in Seq(Cell) :
        /\ b = Image(past) /\ e = Image(ps) /\ w = b ++ e /\ Len(b) = Here.pos
  <2>1. PICK b \in Seq(Cell), e \in Seq(Cell) : b = Image(past) /\ e = Image(ps)
    BY ImageFacts
  <2>2. w = b ++ e
    BY <1>2, <1>4, <2>1, ImageFacts
  <2>3. PICK a \in Seq(Cell) : w = a ++ e /\ Len(a) = Here.pos
    BY <1>4, <2>1 DEF Lies
  <2>4. a = b
    BY <2>2, <2>3, CatCancel
  <2> QED BY <2>1, <2>2, <2>3, <2>4
<1>6. PICK ld \in Nat, lb \in Nat : ld = Len(disk) /\ lb = Len(b) /\ lb <= ld
  BY <1>3, <1>4, <1>5, LenProperties
<1>7. /\ ld = lb => disk = b
      /\ ld = lb + 1 => disk = b ++ <<e[1]>>
  BY <1>2, <1>3, <1>5, <1>6, EndsNear
<1>8. PICK sig, str : sig = FRead(Here, 2) /\ str = FRead(sig.f, 1)
  OBVIOUS
<1>9. \/ Len(sig.cells) < 2 /\ (Finish("ok") \/ Go(At("patchingdone")))
      \/ Len(sig.cells) = 2 /\ sig.cells # Signature
      \/ /\ sig.cells = Signature /\ ~(Len(sig.cells) < 2) /\ MoveTo(str.f)
         /\ \/ /\ str.cells = << [k |-> "strings"] >>
               /\ Go(At("operation")) \/ Go(At("prepatch"))
            \/ str.cells # << [k |-> "strings"] >> /\ Finish("bad")
            \/ str.cells \notin { <<>>, << [k |-> "strings"] >> }
  BY <1>8, Zenon DEF Header, legitEOF
<1>0. ASSUME Finish("ok") \/ Go(At("patchingdone")), ~torn => ps = << >>,
             disk = Image(past) \/ disk = Image(past) ++ << Signature[1] >>
      PROVE  Right \/ EndedWell
  <2>1. CASE Finish("ok")
    BY <1>0, <1>1, <1>4, <2>1, EndsWell
  <2>2. CASE Go(At("patchingdone"))
    <3>1. PICK q : q = At("patchingdone") /\ q.at = "patchingdone"
      BY PlaceFacts DEF Ats, Spawning
    <3>2. done' = Operations(past)
      BY <1>1, <1>4
    <3>3. Stands(Here', q, done', build.zlib)
      BY <1>0, <1>4, <3>1, <3>2, StandsBehind
    <3> QED BY <2>2, <3>1, <3>3 DEF Right
  <2> QED BY <1>0, <2>1, <2>2
<1>10. CASE ps = << >>
  <2>1. e = << >> /\ w = b
    BY <1>5, <1>10, ImageFacts, CatEmpty
  <2>2. ld = lb
    <3>1. Len(disk) <= Len(w)
      BY <1>2 DEF Begins
    <3> QED BY <1>6, <2>1, <3>1
  <2>3. sig.cells = << >>
    <3>1. Coherent(disk, Here) /\ Len(disk) <= Here.pos
      <4>1. Coherent(disk, Here)
        BY <1>4 DEF Lies
      <4> QED BY <1>5, <1>6, <2>2, <4>1
    <3> QED BY <1>3, <1>8, <3>1, ReadOnlyWhatIsThere
  <2>4. Finish("ok") \/ Go(At("patchingdone"))
    <3>1. sig.cells # Signature /\ Len(sig.cells) # 2
      BY <2>3, HeaderFacts
    <3> QED BY <1>9, <3>1
  <2>5. disk = Image(past)
    BY <1>5, <1>7, <2>2
  <2> QED BY <1>0, <1>10, <2>4, <2>5
<1>11. CASE ps # << >>
  <2>1. PICK p \in Seq(Op), qs \in Seq(Seq(Op)) :
          /\ p = ps[1] /\ qs = Tail(ps) /\ e = PatchImage(p) ++ Image(qs)
    BY <1>5, <1>11, ImageFacts
  <2>2. PICK x \in Seq(Cell), y \in Seq(Cell), z \in Seq(Cell) :
          /\ x = Signature /\ Len(x) = 2 /\ y = << [k |-> "strings"] >> /\ Len(y) = 1
          /\ z = Remain(p) ++ Image(qs) /\ e = x ++ (y ++ z) /\ y ++ z \in Seq(Cell)
    <3>1. PICK x \in Seq(Cell), y \in Seq(Cell) :
            /\ x = Signature /\ Len(x) = 2 /\ y = << [k |-> "strings"] >> /\ Len(y) = 1
      BY HeaderFacts
    <3>2. Remain(p) \in Seq(Cell) /\ Image(qs) \in Seq(Cell)
      BY RemainFacts, ImageFacts
    <3>3. PICK z \in Seq(Cell) : z = Remain(p) ++ Image(qs)
      BY <3>2, CatType
    <3>4. PatchImage(p) = (x ++ y) ++ Remain(p)
      <4>1. HeaderCells = x ++ y
        BY <3>1, HeaderFacts DEF ++
      <4> QED BY <4>1, PatchFacts
    <3>5. ((x ++ y) ++ Remain(p)) ++ Image(qs) = x ++ (y ++ (Remain(p) ++ Image(qs)))
      BY <3>2, CatFour
    <3>6. e = x ++ (y ++ z)
      BY <2>1, <3>3, <3>4, <3>5
    <3>7. y ++ z \in Seq(Cell)
      BY CatType
    <3> QED BY <3>1, <3>3, <3>6, <3>7
  <2>3. ReadOrEnded(sig, w, 2, x, y ++ z)
    <3>1. Lies(disk, w, Here, x ++ (y ++ z))
      BY <1>4, <1>5, <2>2
    <3> QED BY <1>2, <1>3, <1>8, <2>2, <3>1, WhatIsRead
  <2>4. CASE sig.cells = x /\ Lies(disk, w, sig.f, y ++ z)
    <3>1. ReadOrEnded(str, w, 1, y, z)
      <4>1. IsFile(sig.f)
        BY <2>3 DEF ReadOrEnded
      <4> QED BY <1>2, <1>3, <1>8, <2>2, <2>4, <4>1, WhatIsRead
    <3>2. /\ MoveTo(str.f)
          /\ \/ /\ str.cells = y
                /\ Go(At("operation")) \/ Go(At("prepatch"))
             \/ str.cells # y /\ Finish("bad")
             \/ str.cells # << >> /\ str.cells # y
      <4>1. Len(sig.cells) = 2 /\ sig.cells = Signature
        BY <2>2, <2>4
      <4>2. ~(Len(sig.cells) < 2)
        BY <4>1
      <4> QED BY <1>9, <2>2, <4>1, <4>2
    <3>3. CASE str.cells = y /\ Lies(disk, w, str.f, z)
      <4>1. PICK a \in {"operation", "prepatch"} : Go(At(a))
        BY <3>2, <3>3
      <4>2. At(a).at = a
        BY PlaceFacts DEF Ats, Spawning
      <4>3. Lies(disk, w, Here', Remain(p) ++ Image(qs))
        BY <2>2, <3>2, <3>3, MovedThere
      <4>4. PICK past2 \in Seq(Seq(Op)) : /\ past2 = Append(past, p) /\ made = past2 ++ qs
        <5>1. <<p>> \in Seq(Seq(Op))
          BY Singleton
        <5>2. ps = <<p>> ++ qs
          <6>1. ps = <<ps[1]>> ++ Tail(ps)
            BY <1>11, HeadTailCat
          <6> QED BY <2>1, <6>1
        <5>3. (past ++ <<p>>) ++ qs = past ++ (<<p>> ++ qs)
          <6>1. PICK one \in Seq(Seq(Op)) : one = <<p>>
            BY <5>1
          <6>2. (past ++ one) ++ qs = past ++ (one ++ qs)
            BY CatAssoc
          <6> QED BY <6>1, <6>2
        <5>4. past ++ <<p>> = Append(past, p) /\ past ++ <<p>> \in Seq(Seq(Op))
          BY <5>1, CatAppend, CatType
        <5> QED BY <1>4, <5>2, <5>3, <5>4
      <4>5. done' + Len(p) + 1 = Operations(past2)
        BY <1>1, <1>4, <4>4, OperationsFacts
      <4>6. PICK q : q = At(a) /\ q.at \in {"prepatch", "operation"}
        BY <4>2
      <4>7. Lies(disk, Image(made), Here', Remain(p) ++ Image(qs))
        BY <1>2, <4>3
      <4>8. made = past2 ++ qs
        BY <4>4
      <4>9. Stands(Here', q, done', build.zlib)
        BY <4>5, <4>6, <4>7, <4>8, StandsAtOperation
      <4> QED BY <4>1, <4>6, <4>9 DEF Right
    <3>4. CASE str.cells = << >> /\ Len(disk) < Len(w)
      <4>1. str.cells # y
        BY <2>2, <3>4
      <4> QED BY <1>2, <3>2, <3>4, <4>1 DEF Right
    <3> QED BY <3>1, <3>3, <3>4, OneIsRead
  <2>5. CASE sig.cells \in Seq(Cell) /\ Len(sig.cells) < 2 /\ Len(disk) < Len(w) /\ Len(disk) <= sig.f.pos
    <3>1. PICK n \in Nat : n = Len(sig.cells) /\ n < 2
      BY <2>5, LenProperties
    <3>2. sig.f.pos = Here.pos + n
      BY <1>3, <1>8, <3>1, FReadFacts
    <3>3. ld = lb \/ ld = lb + 1
      <4>1. sig.f.pos = lb + n
        BY <1>5, <1>6, <3>2
      <4>2. ld <= lb + n
        BY <1>6, <2>5, <4>1
      <4> QED BY <1>6, <3>1, <4>2, SMTT(30)
    <3>4. e[1] = Signature[1]
      <4>0. PICK v \in Seq(Cell) : v = y ++ z
        BY <2>2
      <4>1. PICK d \in Seq(Cell) : /\ d = x ++ v /\ Len(d) = Len(x) + Len(v)
                                   /\ \A i \in 1..Len(d) : d[i] = IF i <= Len(x) THEN x[i] ELSE v[i - Len(x)]
        BY CatCells, ZenonT(40)
      <4>2. Len(v) \in Nat /\ e = d
        BY <2>2, <4>0, <4>1, LenProperties
      <4>3. 1 \in 1..Len(d)
        BY <2>2, <4>1, <4>2
      <4>4. d[1] = x[1]
        BY <2>2, <4>1, <4>3
      <4> QED BY <2>2, <4>2, <4>4
    <3>5. Finish("ok") \/ Go(At("patchingdone"))
      <4>1. Len(sig.cells) = 2 => FALSE
        BY <3>1
      <4>2. sig.cells # Signature
        BY <2>2, <4>1
      <4> QED BY <1>9, <4>1, <4>2
    <3>6. torn
      BY <1>2, <2>5
    <3>7. disk = Image(past) \/ disk = Image(past) ++ << Signature[1] >>
      BY <1>5, <1>7, <3>3, <3>4
    <3> QED BY <1>0, <3>5, <3>6, <3>7
  <2> QED BY <2>3, <2>4, <2>5 DEF ReadOrEnded
<1> QED BY <1>10, <1>11

-----------------------------------------------------------------------------
(* The invariant holds. *)

LEMMA EndedOtherwise ==
    ASSUME Finish("ok"), causes' # {}
    PROVE  ReadInv' /\ EndInv'
<1>1. mode' = "idle" /\ result' = "ok"
  BY DEF Finish
<1> QED BY <1>1 DEF ReadInv, EndInv, ResultIsTrue, WholeIsAccepted, CutIsNoticed

LEMMA EndedWellIsTrue ==
    ASSUME EndedWell
    PROVE  ReadInv' /\ EndInv'
<1>1. mode' = "idle" /\ result' = "ok" /\ made' = made /\ disk' = disk /\ torn' = torn /\ done' = done
  BY DEF EndedWell, Finish
<1>2. \E n \in 0..Len(made) :
        /\ done = Operations(SubSeq(made, 1, n))
        /\ disk \in { Image(SubSeq(made, 1, n)), Image(SubSeq(made, 1, n)) \o << Signature[1] >> }
        /\ ~torn => n = Len(made)
  BY Zenon DEF EndedWell
<1>3. CutIsNoticed'
  BY <1>1, <1>2, Zenon DEF CutIsNoticed
<1> QED BY <1>1, <1>3 DEF ReadInv, EndInv, ResultIsTrue, WholeIsAccepted

(* A step of a process that may end well. *)
LEMMA EndsOrArrives ==
    ASSUME IndInv, TypeInv', WriteInv', ReadStep, build' = build, causes' = causes,
           (\E r : Go(r)) \/ Finish("ok") \/ Finish("bad") \/ Finish("stopped") \/ Lose,
           causes = {} => Right \/ EndedWell
    PROVE  IndInv'
<1>1. CASE Finish("ok")
  <2>1. ~Right
    BY <1>1 DEF Right, Finish, Go, ReadStep
  <2> QED BY <1>1, <2>1, EndedOtherwise, EndedWellIsTrue DEF IndInv
<1>2. CASE ~Finish("ok")
  <2>1. causes' = {} => Right
    BY <1>2 DEF EndedWell
  <2> QED BY <1>2, <2>1, Arrives DEF IndInv
<1> QED BY <1>1, <1>2

(* A step of a process that reads, and of one that waits for its child. *)
LEMMA ReadsArrive ==
    ASSUME IndInv, Reads
    PROVE  IndInv'
<1>1. TypeInv' /\ WriteInv' /\ ReadStep
  BY ReadsKeep DEF IndInv
<1>2. build' = build /\ causes \subseteq causes'
  BY <1>1 DEF Reads, ReadStep, Header, Operation, PatchBody, AddThere, AddPlain, AddZlib, Chunk,
              ChunksEnd, process
<1>3. CASE Header
  <2>1. causes' = causes /\ ((\E r : Go(r)) \/ Finish("ok") \/ Finish("bad") \/ Lose)
    BY <1>3 DEF Header
  <2>2. causes = {} => Right \/ EndedWell
    BY <1>3, HeaderArrives
  <2> QED BY <1>1, <1>2, <2>1, <2>2, EndsOrArrives
<1>4. CASE ~Header
  <2>1. causes' = {} => Right
    <3>1. causes' = {} => causes = {}
      BY <1>2
    <3> QED BY <1>4, <3>1, OperationArrives, PatchBodyArrives, AddThereArrives, AddPlainArrives,
               AddZlibArrives, ChunkArrives, ChunksEndArrives DEF Reads
  <2>2. (\E r : Go(r)) \/ Finish("bad") \/ Finish("stopped") \/ Lose
    <3>1. CASE Operation
      BY <3>1 DEF Operation
    <3>2. CASE PatchBody
      BY <3>2 DEF PatchBody, Seek
    <3>3. CASE AddThere
      BY <3>3 DEF AddThere, Seek
    <3>4. CASE AddPlain
      BY <3>4 DEF AddPlain, Seek, Consumed
    <3>5. CASE AddZlib
      BY <3>5 DEF AddZlib
    <3>6. CASE Chunk
      BY <3>6 DEF Chunk
    <3>7. CASE ChunksEnd
      BY <3>7 DEF ChunksEnd, Consumed
    <3> QED BY <1>4, <3>1, <3>2, <3>3, <3>4, <3>5, <3>6, <3>7 DEF Reads
  <2> QED BY <1>1, <1>2, <2>1, <2>2, Arrives DEF IndInv
<1> QED BY <1>3, <1>4

LEMMA WaitedArrivesThere ==
    ASSUME IndInv, Waited
    PROVE  IndInv'
<1>1. TypeInv' /\ WriteInv' /\ (mode = "apply" => ReadStep)
  BY WaitedKeeps DEF IndInv
<1>2. CASE mode = "create"
  <2>1. mode' = "create" /\ result' = result /\ result \notin {"ok", "bad"}
    BY <1>2 DEF Waited, IndInv, EndInv
  <2>2. ReadInv' /\ EndInv'
    BY <2>1, NotEnded DEF ReadInv
  <2> QED BY <1>1, <2>2 DEF IndInv
<1>3. CASE mode = "apply"
  <2>1. build' = build /\ causes' = causes
    BY DEF Waited, process
  <2>2. (\E r : Go(r)) \/ Finish("ok") \/ Finish("bad") \/ Finish("stopped") \/ Lose
    BY <1>3 DEF Waited, Consumed, AfterScript, ScriptFails
  <2>3. causes = {} => Right \/ EndedWell
    BY <1>3, WaitedArrives
  <2> QED BY <1>1, <1>3, <2>1, <2>2, <2>3, EndsOrArrives
<1> QED BY <1>2, <1>3 DEF Waited

LEMMA SpawnFailsArrives ==
    ASSUME IndInv, SpawnFails
    PROVE  IndInv'
<1>1. TypeInv' /\ WriteInv' /\ ReadStep
  BY SpawnFailsKeeps DEF IndInv
<1>2. /\ mode = "apply" /\ build' = build /\ causes' = causes /\ ScriptFails
      /\ UNCHANGED <<made, disk, torn, done>>
  BY DEF SpawnFails, process, writer
<1>3. causes = {} => Right \/ EndedWell
  BY <1>2, ScriptEndsWell DEF ScriptFails, Right
<1>4. Finish("ok") \/ Finish("stopped")
  BY <1>2 DEF ScriptFails
<1> QED BY <1>1, <1>2, <1>3, <1>4, EndsOrArrives

LEMMA ChildStays ==
    ASSUME IndInv, Spawn \/ ChildExits
    PROVE  IndInv'
<1>1. TypeInv' /\ WriteInv'
  BY SpawnKeeps, ChildExitsKeeps DEF IndInv
<1>2. /\ mode \in {"create", "apply"} /\ mode' = mode /\ result' = result /\ rd' = rd /\ done' = done
      /\ made' = made /\ build' = build /\ torn' = torn
  <2>1. CASE Spawn
    BY <2>1 DEF Spawn, WantsChild, process, writer
  <2>2. CASE ChildExits
    BY <2>2 DEF ChildExits, process, IndInv, WriteInv
  <2> QED BY <2>1, <2>2
<1>3. result \notin {"ok", "bad"}
  BY <1>2 DEF IndInv, EndInv
<1>4. EndInv'
  BY <1>2, <1>3, NotEnded
<1>5. causes' = {} => causes = {} /\ Here' = Here /\ disk' = disk
  <2>1. CASE Spawn
    BY <2>1 DEF Spawn, writer, stream, Here
  <2>2. CASE ChildExits
    <3>1. disk' = disk \/ disk' = disk ++ wbuf
      BY <2>2 DEF ChildExits, ++
    <3>2. disk' = disk
      BY <3>1, TypeFacts, CatEmpty DEF IndInv
    <3> QED BY <2>2, <3>2 DEF ChildExits, Here
  <2> QED BY <2>1, <2>2
<1>6. ReadInv'
  <2>1. SUFFICES ASSUME mode' = "apply", causes' = {}
                 PROVE  ReadInv'
    BY DEF ReadInv
  <2>2. Stands(Here, rd, done, build.zlib)
    BY <1>2, <1>5, <2>1, Untroubled
  <2>3. Stands(Here', rd', done', build.zlib)
    BY <1>2, <1>5, <2>1, <2>2
  <2> QED BY <1>2, <1>5, <2>1, <2>3, StandsLater
<1> QED BY <1>1, <1>4, <1>6 DEF IndInv

LEMMA OpenToReadArrives ==
    ASSUME IndInv, OpenToRead
    PROVE  IndInv'
<1>1. TypeInv /\ TypeInv' /\ WriteInv'
  BY OpenToReadKeeps DEF IndInv
<1>2. /\ mode' = "apply" /\ rd' = At("header") /\ pos' = 0 /\ off' = 0 /\ rbuf' = << >>
      /\ done' = 0 /\ result' = "none" /\ disk' = disk /\ made' = made /\ torn' = torn
  BY DEF OpenToRead, writer
<1>3. EndInv'
  BY <1>2, NotEnded
<1>4. made \in Seq(Seq(Op)) /\ disk \in Seq(Cell) /\ Image(made) \in Seq(Cell) /\ Len(disk) \in Nat
  BY <1>1, TypeFacts, LenProperties
<1>5. Lies(disk, Image(made), Here', Image(made)) /\ Here'.pos = 0
  <2>1. Here' = [pos |-> 0, off |-> 0, rbuf |-> << >>]
    BY <1>2 DEF Here
  <2>2. Coherent(disk, Here')
    BY <1>4, <2>1 DEF Coherent, Agrees
  <2>3. << >> \in Seq(Cell) /\ Len(<< >>) = 0 /\ << >> ++ Image(made) = Image(made)
    BY <1>4, CatEmpty
  <2>4. Here'.pos = 0 /\ \E b \in Seq(Cell) : Image(made) = b ++ Image(made) /\ Len(b) = Here'.pos
    <3>1. Here'.pos = 0
      BY <2>1
    <3>2. PICK b \in Seq(Cell) : b = << >> /\ Len(b) = 0
      BY <2>3
    <3>3. Image(made) = b ++ Image(made)
      BY <2>3, <3>2
    <3> QED BY <3>1, <3>2, <3>3
  <2> QED BY <2>2, <2>4 DEF Lies
<1>6. << >> \in Seq(Seq(Op)) /\ made = << >> ++ made
  <2>1. << >> ++ made = made
    BY <1>4, CatEmpty
  <2> QED BY <2>1
<1>7. At("header").at = "header"
  BY PlaceFacts DEF Ats
<1>8. Stands(Here', rd', done', build'.zlib)
  <2>1. done' = Operations(<< >>)
    BY <1>2, OperationsFacts
  <2>2. rd'.at \in {"header", "postpatch"}
    BY <1>2, <1>7
  <2>3. Here'.pos <= Len(disk)
    BY <1>4, <1>5
  <2>4. PICK none \in Seq(Seq(Op)), every \in Seq(Seq(Op)) : none = << >> /\ every = made
    BY <1>4, <1>6
  <2>5. PICK f, q, n, z : f = Here' /\ q = rd' /\ n = done' /\ z = build'.zlib
    OBVIOUS
  <2>6. /\ made = none ++ every /\ Lies(disk, Image(made), f, Image(every))
        /\ f.pos <= Len(disk) /\ q.at \in {"header", "postpatch"} /\ n = Operations(none)
    BY <1>5, <1>6, <2>1, <2>2, <2>3, <2>4, <2>5
  <2>7. Stands(f, q, n, z)
    BY <2>6, StandsAtHeader
  <2> QED BY <2>5, <2>7
<1>9. ReadInv'
  <2>1. PICK past \in Seq(Seq(Op)), ps \in Seq(Seq(Op)), s \in Seq(Op) :
          /\ made = past ++ ps
          /\ Standing(Image(made), Here', rd', done', build'.zlib, s, ps, past)
    BY <1>8, Zenon DEF Stands
  <2>2. made' = past ++ ps
    BY <1>2, <2>1
  <2>3. Standing(Image(made), Here, rd, done, build.zlib, s, ps, past)'
    BY <1>2, <2>1, ZenonT(60) DEF Standing
  <2> QED BY <2>2, <2>3, Zenon DEF ReadInv, Stands
<1> QED BY <1>1, <1>3, <1>9 DEF IndInv

LEMMA CreateKeeps ==
    ASSUME IndInv, Create
    PROVE  IndInv'
<1>1. TypeInv' /\ WriteInv'
  BY OpenToWriteKeeps, PutKeeps, PutFailsKeeps, CloseWrittenKeeps DEF IndInv, Create
<1>2. mode' \in {"create", "idle"} /\ result' \notin {"ok", "bad"}
  <2>1. CASE \E ops \in Patches, appending \in BOOLEAN : OpenToWrite(ops, appending)
    BY <2>1 DEF OpenToWrite
  <2>2. CASE Put
    BY <2>2 DEF Put, IndInv, EndInv
  <2>3. CASE PutFails
    BY <2>3 DEF PutFails
  <2>4. CASE CloseWritten
    BY <2>4 DEF CloseWritten
  <2> QED BY <2>1, <2>2, <2>3, <2>4 DEF Create
<1>3. ReadInv' /\ EndInv'
  BY <1>2, NotEnded DEF ReadInv
<1> QED BY <1>1, <1>3 DEF IndInv

LEMMA IndInvStays ==
    ASSUME IndInv, UNCHANGED avars
    PROVE  IndInv'
<1>1. /\ UNCHANGED <<disk, wbuf, todo, pos, off, rbuf, mode, rd, child, build>>
      /\ UNCHANGED <<skip, piped, made, torn, causes, done, result, processes>>
  BY DEF avars
<1>2. TypeInv'
  <2>1. TypeOK'
    BY <1>1, Zenon DEF IndInv, TypeInv, TypeOK
  <2>2. Here' = Here
    BY <1>1 DEF Here
  <2>3. IsFile(Here)'
    BY <2>2, Zenon DEF IndInv, TypeInv
  <2> QED BY <1>1, <2>1, <2>3, Zenon DEF IndInv, TypeInv
<1>3. WriteInv'
  BY <1>1, Zenon DEF IndInv, WriteInv
<1>4. EndInv'
  BY <1>1, Zenon DEF IndInv, EndInv, ResultIsTrue, WholeIsAccepted, CutIsNoticed
<1>5. ReadInv'
  <2>1. Here' = Here
    BY <1>1 DEF Here
  <2>2. mode' = "apply" /\ causes' = {} => Stands(Here', rd', done', build.zlib)
    BY <1>1, <2>1 DEF IndInv, ReadInv
  <2> QED BY <1>1, <2>2, StandsLater
<1> QED BY <1>2, <1>3, <1>4, <1>5 DEF IndInv

LEMMA InitIndInv ==
    ASSUME Init
    PROVE  IndInv
<1>1. /\ disk = << >> /\ wbuf = << >> /\ todo = << >> /\ pos = 0 /\ off = 0 /\ rbuf = << >>
      /\ mode = "idle" /\ rd = Resting /\ child = "none" /\ build \in Builds
      /\ made = << >> /\ torn = FALSE /\ causes = {} /\ done = 0 /\ result = "none" /\ processes = 0
  BY DEF Init
<1>2. << >> \in Seq(Cell) /\ << >> \in Seq(Task) /\ << >> \in Seq(Seq(Op)) /\ Len(<< >>) = 0
  OBVIOUS
<1>3. IsFile(Here)
  BY <1>1, <1>2, SizesAssumption DEF IsFile, Here
<1>4. rd \in Place
  BY <1>1, PlaceFacts
<1>5. done \in 0..MaxDone /\ processes \in 0..MaxProcesses
  BY <1>1, SizesAssumption
<1>6. ReaderType
  BY <1>1, <1>3, <1>4, <1>5 DEF ReaderType
<1>7. TypeInv
  BY <1>1, <1>2, <1>5, <1>6, TypeParts
<1>8. disk = Image(made) /\ Operations(made) = 0 /\ Len(made) = 0
  BY <1>1, <1>2, ImageFacts, OperationsFacts
<1>9. WriteInv
  <2>1. Begins(disk, Image(made))
    BY <1>1, <1>2, <1>8, BeginsFacts
  <2>2. PICK k \in Nat : k = Longest /\ 0 <= 0 * k
    BY LongestFacts
  <2>3. Operations(made) <= Len(made) * Longest
    BY <1>8, <2>2
  <2>4. Len(made) <= IF mode = "apply" THEN processes - 1 ELSE processes
    BY <1>1, <1>8
  <2> QED BY <1>1, <1>8, <2>1, <2>3, <2>4 DEF WriteInv
<1>10. ReadInv /\ EndInv
  BY <1>1 DEF ReadInv, EndInv, ResultIsTrue, WholeIsAccepted, CutIsNoticed
<1> QED BY <1>7, <1>9, <1>10 DEF IndInv

(* The place of a reader that nothing has happened to, and what is in the file,
   are what every step preserves.  This is why the code may trust its position
   in the archive, although it never checks it. *)
THEOREM Invariant == Spec => []IndInv
<1>1. Init => IndInv
  BY InitIndInv
<1>2. IndInv /\ [Next]_avars => IndInv'
  <2>1. SUFFICES ASSUME IndInv, [Next]_avars
                 PROVE  IndInv'
    OBVIOUS
  <2>2. CASE Create
    BY <2>1, <2>2, CreateKeeps
  <2>3. CASE OpenToRead
    BY <2>1, <2>3, OpenToReadArrives
  <2>4. CASE SpawnFails
    BY <2>1, <2>4, SpawnFailsArrives
  <2>5. CASE Spawn \/ ChildExits
    BY <2>1, <2>5, ChildStays
  <2>6. CASE Waited
    BY <2>1, <2>6, WaitedArrivesThere
  <2>7. CASE Reads
    BY <2>1, <2>7, ReadsArrive
  <2>8. CASE UNCHANGED avars
    BY <2>1, <2>8, IndInvStays
  <2> QED BY <2>1, <2>2, <2>3, <2>4, <2>5, <2>6, <2>7, <2>8 DEF Next, Create, Running, Reads, Rest
<1> QED BY <1>1, <1>2, PTL DEF Spec

(* InStep.  A reader takes data for an operation only after a raw seek over a
   compressed payload, a child that moved the shared offset, an archive of
   another build, or a patch appended to an archive that was never finished. *)
THEOREM NeverLost == Spec => []InStep
<1>1. IndInv => InStep
  BY DEF IndInv, TypeInv, EndInv, InStep
<1> QED BY <1>1, Invariant, PTL

(* CreatedIsWhole.  A creation that says it succeeded left exactly the patches it
   and the ones it was appended to stand for, though every child of spawn_binary
   had a copy of the stream. *)
THEOREM WrittenOnce == Spec => []CreatedIsWhole
<1>1. IndInv => CreatedIsWhole
  BY DEF IndInv, WriteInv, CreatedIsWhole
<1> QED BY <1>1, Invariant, PTL

(* ResultIsTrue.  What an application says of the archive is so: "bad" is said only
   of an archive that is cut, or after one of the four events; "ok" only when every
   operation of every whole patch was consumed and at most one cell of a signature
   is left over. *)
THEOREM ResultsAreTrue == Spec => []ResultIsTrue
<1>1. IndInv => ResultIsTrue
  BY DEF IndInv, EndInv
<1> QED BY <1>1, Invariant, PTL

=============================================================================
