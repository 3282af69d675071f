-------------------------- MODULE PageCache_proofs --------------------------
(***************************************************************************)
(* The page cache of xdelta keeps its list, its bound and what is held, for *)
(* files of every length, pages of every size and every number of pages    *)
(* that may be mapped.                                                     *)
(*                                                                         *)
(* That every page is linked to its neighbours is not enough to prove it:  *)
(* pages could be linked in a ring that neither end reaches, and a list    *)
(* whose last page is pulled would not be empty.  The invariant gives the  *)
(* pages ranks, which grow along next.                                     *)
(***************************************************************************)
EXTENDS PageCache, FiniteSetTheorems, TLAPS

-----------------------------------------------------------------------------
(* Doubly linked lists, as pull_lru and map_page link them.                *)

\* The elements L, linked by next and prev from the tail tl to the head hd.
Chain(S, next, prev, hd, tl, L, rank, lo, hi) ==
  /\ next \in [S -> S \cup {None}] /\ prev \in [S -> S \cup {None}]
  /\ L \subseteq S /\ None \notin S
  /\ lo \in Int /\ hi \in Int /\ rank \in [S -> lo..hi]
  /\ hd \in L \cup {None} /\ tl \in L \cup {None}
  /\ L # {} => hd # None /\ tl # None
  /\ \A p \in L :
       /\ p = hd => next[p] = None
       /\ p # hd => next[p] \in L /\ prev[next[p]] = p /\ rank[p] < rank[next[p]]
       /\ p = tl => prev[p] = None
       /\ p # tl => prev[p] \in L /\ next[prev[p]] = p /\ rank[prev[p]] < rank[p]
  /\ \A p \in S \ L : next[p] = None /\ prev[p] = None

\* A list with the same head and tail has one element.
LEMMA EndsMeet ==
  ASSUME NEW S, NEW next, NEW prev, NEW hd, NEW tl, NEW L, NEW rank, NEW lo, NEW hi,
         Chain(S, next, prev, hd, tl, L, rank, lo, hi), hd = tl
  PROVE  L \subseteq {hd}
<1>1. SUFFICES ASSUME NEW b \in L, b # hd PROVE FALSE
  OBVIOUS
<1> DEFINE Up == {n \in Nat : \E q \in L : q # hd /\ n = hi - rank[q]}
           R == OpToRel(<, Nat)
<1>2. lo \in Int /\ hi \in Int /\ \A q \in L : rank[q] \in lo..hi /\ hi - rank[q] \in Nat
  BY DEF Chain
<1>3. hi - rank[b] \in Up
  BY <1>1, <1>2
<1>4. IsWellFoundedOn(R, Nat)
  BY NatLessThanWellFounded
<1> HIDE DEF R
<1>5. PICK x \in Up : \A y \in Up : ~(<<y, x>> \in R)
  BY <1>3, <1>4, WFMin, Zenon
<1>6. PICK q \in L : q # hd /\ x = hi - rank[q]
  BY <1>5
<1>7. next[q] \in L /\ prev[next[q]] = q /\ rank[q] < rank[next[q]]
  BY <1>6 DEF Chain
<1>8. next[q] # hd
  <2>1. next[q] = tl => prev[next[q]] = None
    BY <1>7 DEF Chain
  <2>2. q # None
    BY <1>6 DEF Chain
  <2> QED
    BY <1>7, <2>1, <2>2
<1>9. PICK y : y = hi - rank[next[q]]
  OBVIOUS
<1>10. y \in Up /\ y < x
  BY <1>2, <1>6, <1>7, <1>8, <1>9
<1>11. <<y, x>> \in R
  BY <1>5, <1>10 DEF R, OpToRel
<1> QED
  BY <1>5, <1>10, <1>11

\* pull_lru takes p out of the list.
Pulled(f, g, p) == [(IF g[p] # None THEN [f EXCEPT ![g[p]] = f[p]] ELSE f) EXCEPT ![p] = None]

LEMMA PullChain ==
  ASSUME NEW S, NEW next, NEW prev, NEW hd, NEW tl, NEW L, NEW rank, NEW lo, NEW hi,
         Chain(S, next, prev, hd, tl, L, rank, lo, hi), NEW p \in L,
         NEW n, NEW v, n = next[p], v = prev[p],
         NEW next2, next2 = Pulled(next, prev, p), NEW prev2, prev2 = Pulled(prev, next, p),
         NEW hd2, hd2 = IF n # None THEN hd ELSE v,
         NEW tl2, tl2 = IF v # None THEN tl ELSE n
  PROVE  Chain(S, next2, prev2, hd2, tl2, L \ {p}, rank, lo, hi)
<1>0. /\ next \in [S -> S \cup {None}] /\ prev \in [S -> S \cup {None}]
      /\ L \subseteq S /\ None \notin S /\ p \in S /\ p # None
      /\ lo \in Int /\ hi \in Int /\ rank \in [S -> lo..hi]
      /\ hd \in L \cup {None} /\ tl \in L \cup {None} /\ hd # None /\ tl # None
  BY DEF Chain
<1>1. \A q \in L :
       /\ q = hd => next[q] = None
       /\ q # hd => next[q] \in L /\ prev[next[q]] = q /\ rank[q] < rank[next[q]]
       /\ q = tl => prev[q] = None
       /\ q # tl => prev[q] \in L /\ next[prev[q]] = q /\ rank[prev[q]] < rank[q]
  BY DEF Chain
<1>2. \A q \in S \ L : next[q] = None /\ prev[q] = None
  BY DEF Chain
<1>3. /\ n \in L \cup {None} /\ v \in L \cup {None} /\ n # p /\ v # p
      /\ (n # None => prev[n] = p) /\ (v # None => next[v] = p)
      /\ (n = None <=> p = hd) /\ (v = None <=> p = tl)
  BY <1>0, <1>1
<1>4. /\ next2 \in [S -> S \cup {None}] /\ prev2 \in [S -> S \cup {None}]
      /\ next2[p] = None /\ prev2[p] = None
      /\ \A q \in S : q # p => next2[q] = IF q = v THEN n ELSE next[q]
      /\ \A q \in S : q # p => prev2[q] = IF q = n THEN v ELSE prev[q]
  BY <1>0, <1>3 DEF Pulled
<1>5. hd2 \in (L \ {p}) \cup {None} /\ tl2 \in (L \ {p}) \cup {None}
  BY <1>0, <1>3
<1>6. L \ {p} # {} => hd2 # None /\ tl2 # None
  <2>1. CASE p = hd /\ p = tl
    <3>1. L \subseteq {p}
      BY <2>1, EndsMeet
    <3> QED
      BY <3>1
  <2>2. CASE ~(p = hd /\ p = tl)
    BY <1>0, <1>3, <2>2
  <2> QED
    BY <2>1, <2>2
<1>7. ASSUME NEW q \in L \ {p}
      PROVE  /\ q = hd2 => next2[q] = None
             /\ q # hd2 => /\ next2[q] \in L \ {p} /\ prev2[next2[q]] = q
                           /\ rank[q] < rank[next2[q]]
  <2>1. q \in S /\ q \in L /\ q # p
    BY <1>0
  <2>2. CASE q = v
    <3>1. next2[q] = n
      BY <1>4, <2>1, <2>2
    <3>2. CASE n = None
      BY <3>1, <3>2, <2>2
    <3>3. CASE n # None
      <4>1. n \in S /\ n # p /\ n \in L /\ hd2 = hd
        BY <1>0, <1>3, <3>3
      <4>2. prev2[n] = v /\ q # hd
        BY <1>0, <1>1, <1>3, <1>4, <2>1, <2>2, <4>1
      <4>3. rank[q] < rank[p] /\ rank[p] < rank[n]
        BY <1>0, <1>1, <1>3, <2>1, <2>2, <4>1
      <4>4. rank[q] \in Int /\ rank[p] \in Int /\ rank[n] \in Int
        BY <1>0, <2>1, <4>1
      <4> QED
        BY <2>2, <3>1, <4>1, <4>2, <4>3, <4>4
    <3> QED
      BY <3>2, <3>3
  <2>3. CASE q # v
    <3>1. next2[q] = next[q]
      BY <1>4, <2>1, <2>3
    <3>2. CASE q = hd
      <4>1. n # None => hd2 = hd
        OBVIOUS
      <4>2. n # None
        BY <1>3, <2>1, <3>2
      <4> QED
        BY <1>1, <2>1, <3>1, <3>2, <4>1, <4>2
    <3>3. CASE q # hd
      <4>1. next[q] \in L /\ prev[next[q]] = q /\ rank[q] < rank[next[q]]
        BY <1>1, <2>1, <3>3
      <4>2. next[q] # p
        BY <2>3, <4>1
      <4>3. next[q] # n
        BY <1>0, <1>3, <2>1, <4>1
      <4>4. prev2[next[q]] = q
        BY <1>0, <1>4, <4>1, <4>2, <4>3
      <4>5. q # hd2
        BY <1>3, <2>3, <3>3
      <4> QED
        BY <3>1, <4>1, <4>2, <4>4, <4>5
    <3> QED
      BY <3>2, <3>3
  <2> QED
    BY <2>2, <2>3
<1>8. ASSUME NEW q \in L \ {p}
      PROVE  /\ q = tl2 => prev2[q] = None
             /\ q # tl2 => /\ prev2[q] \in L \ {p} /\ next2[prev2[q]] = q
                           /\ rank[prev2[q]] < rank[q]
  <2>1. q \in S /\ q \in L /\ q # p
    BY <1>0
  <2>2. CASE q = n
    <3>1. prev2[q] = v
      BY <1>4, <2>1, <2>2
    <3>2. CASE v = None
      BY <3>1, <3>2, <2>2
    <3>3. CASE v # None
      <4>1. v \in S /\ v # p /\ v \in L /\ tl2 = tl
        BY <1>0, <1>3, <3>3
      <4>2. next2[v] = n /\ q # tl
        BY <1>0, <1>1, <1>3, <1>4, <2>1, <2>2, <4>1
      <4>3. rank[v] < rank[p] /\ rank[p] < rank[q]
        BY <1>0, <1>1, <1>3, <2>1, <2>2, <4>1
      <4>4. rank[q] \in Int /\ rank[p] \in Int /\ rank[v] \in Int
        BY <1>0, <2>1, <4>1
      <4> QED
        BY <2>2, <3>1, <4>1, <4>2, <4>3, <4>4
    <3> QED
      BY <3>2, <3>3
  <2>3. CASE q # n
    <3>1. prev2[q] = prev[q]
      BY <1>4, <2>1, <2>3
    <3>2. CASE q = tl
      <4>1. v # None => tl2 = tl
        OBVIOUS
      <4>2. v # None
        BY <1>3, <2>1, <3>2
      <4> QED
        BY <1>1, <2>1, <3>1, <3>2, <4>1, <4>2
    <3>3. CASE q # tl
      <4>1. prev[q] \in L /\ next[prev[q]] = q /\ rank[prev[q]] < rank[q]
        BY <1>1, <2>1, <3>3
      <4>2. prev[q] # p
        BY <2>3, <4>1
      <4>3. prev[q] # v
        BY <1>0, <1>3, <2>1, <4>1
      <4>4. next2[prev[q]] = q
        BY <1>0, <1>4, <4>1, <4>2, <4>3
      <4>5. q # tl2
        BY <1>3, <2>3, <3>3
      <4> QED
        BY <3>1, <4>1, <4>2, <4>4, <4>5
    <3> QED
      BY <3>2, <3>3
  <2> QED
    BY <2>2, <2>3
<1>9. \A q \in S \ (L \ {p}) : next2[q] = None /\ prev2[q] = None
  <2>1. \A q \in S \ L : q # v /\ q # n /\ q # p
    BY <1>0, <1>3
  <2> QED
    BY <1>2, <1>4, <2>1
<1> HIDE DEF Pulled
<1> QED
  BY <1>0, <1>4, <1>5, <1>6, <1>7, <1>8, <1>9 DEF Chain

\* map_page puts p, which is not in the list, at its head.
LinkedUp(f, hd, p) ==
  IF hd # None THEN [[f EXCEPT ![p] = None] EXCEPT ![hd] = p] ELSE [f EXCEPT ![p] = None]
TailWith(tl, p) == IF tl = None THEN p ELSE tl

LEMMA PushChain ==
  ASSUME NEW S, NEW next, NEW prev, NEW hd, NEW tl, NEW L, NEW rank, NEW lo, NEW hi,
         Chain(S, next, prev, hd, tl, L, rank, lo, hi), NEW p \in S \ L,
         NEW next2, next2 = LinkedUp(next, hd, p),
         NEW prev2, prev2 = [prev EXCEPT ![p] = hd],
         NEW tl2, tl2 = TailWith(tl, p)
  PROVE  \E rank2, hi2 : Chain(S, next2, prev2, p, tl2, L \cup {p}, rank2, lo, hi2)
<1>0. /\ next \in [S -> S \cup {None}] /\ prev \in [S -> S \cup {None}]
      /\ L \subseteq S /\ None \notin S /\ p # None /\ p \notin L /\ p \in S
      /\ lo \in Int /\ hi \in Int /\ rank \in [S -> lo..hi]
      /\ hd \in L \cup {None} /\ tl \in L \cup {None}
      /\ (L # {} => hd # None /\ tl # None)
  BY DEF Chain
<1>1. \A q \in L :
       /\ q = hd => next[q] = None
       /\ q # hd => next[q] \in L /\ prev[next[q]] = q /\ rank[q] < rank[next[q]]
       /\ q = tl => prev[q] = None
       /\ q # tl => prev[q] \in L /\ next[prev[q]] = q /\ rank[prev[q]] < rank[q]
  BY DEF Chain
<1>2. \A q \in S \ L : next[q] = None /\ prev[q] = None
  BY DEF Chain
<1>3. PICK rank2 : rank2 = [rank EXCEPT ![p] = hi + 1]
  OBVIOUS
<1>4. lo <= hi
  BY <1>0
<1>5. /\ rank2 \in [S -> lo..(hi + 1)] /\ hi + 1 \in Int /\ rank2[p] = hi + 1
      /\ \A q \in S : q # p => rank2[q] = rank[q] /\ rank[q] \in lo..hi
  BY <1>0, <1>3, <1>4
<1>6. /\ next2 \in [S -> S \cup {None}] /\ prev2 \in [S -> S \cup {None}]
      /\ next2[p] = None /\ prev2[p] = hd
      /\ \A q \in S : q # p => next2[q] = IF q = hd THEN p ELSE next[q]
      /\ \A q \in S : q # p => prev2[q] = prev[q]
  BY <1>0 DEF LinkedUp
<1>7. tl2 \in L \cup {p} /\ tl2 # None /\ tl2 = IF tl = None THEN p ELSE tl
  BY <1>0 DEF TailWith
<1>8. ASSUME NEW q \in L \cup {p}
      PROVE  /\ q = p => next2[q] = None
             /\ q # p => /\ next2[q] \in L \cup {p} /\ prev2[next2[q]] = q
                         /\ rank2[q] < rank2[next2[q]]
  <2>1. CASE q = p
    BY <1>6, <2>1
  <2>2. CASE q = hd /\ q # p
    <3>1. next2[q] = p /\ q \in S
      BY <1>0, <1>6, <2>2
    <3>2. rank2[q] < rank2[p]
      BY <1>0, <1>5, <2>2, <3>1
    <3> QED
      BY <1>6, <2>2, <3>1, <3>2
  <2>3. CASE q # hd /\ q # p
    <3>1. q \in L /\ q \in S /\ next2[q] = next[q]
      BY <1>0, <1>6, <2>3
    <3>2. next[q] \in L /\ prev[next[q]] = q /\ rank[q] < rank[next[q]]
      BY <1>1, <2>3, <3>1
    <3>3. next[q] \in S /\ next[q] # p
      BY <1>0, <3>2
    <3> QED
      BY <1>5, <1>6, <2>3, <3>1, <3>2, <3>3
  <2> QED
    BY <2>1, <2>2, <2>3
<1>9. ASSUME NEW q \in L \cup {p}
      PROVE  /\ q = tl2 => prev2[q] = None
             /\ q # tl2 => /\ prev2[q] \in L \cup {p} /\ next2[prev2[q]] = q
                           /\ rank2[prev2[q]] < rank2[q]
  <2>1. CASE q = p
    <3>1. prev2[q] = hd
      BY <1>6, <2>1
    <3>2. CASE tl = None
      <4>1. hd = None
        BY <1>0, <3>2
      <4> QED
        BY <1>7, <2>1, <3>1, <3>2, <4>1
    <3>3. CASE tl # None
      <4>1. hd \in L /\ hd \in S /\ hd # p /\ hd # None /\ tl2 = tl /\ tl # p
        BY <1>0, <1>7, <3>3
      <4>2. next2[hd] = p
        BY <1>6, <4>1
      <4>3. rank2[hd] < rank2[p]
        BY <1>0, <1>5, <4>1
      <4> QED
        BY <2>1, <3>1, <4>1, <4>2, <4>3
    <3> QED
      BY <3>2, <3>3
  <2>2. CASE q # p
    <3>1. q \in L /\ q \in S /\ prev2[q] = prev[q] /\ tl # None /\ tl2 = tl
      BY <1>0, <1>6, <1>7, <2>2
    <3>2. CASE q = tl
      BY <1>1, <3>1, <3>2
    <3>3. CASE q # tl
      <4>1. prev[q] \in L /\ next[prev[q]] = q /\ rank[prev[q]] < rank[q]
        BY <1>1, <3>1, <3>3
      <4>2. prev[q] \in S /\ prev[q] # p
        BY <1>0, <4>1
      <4>3. prev[q] # hd
        BY <1>0, <1>1, <3>1, <4>1
      <4>4. next2[prev[q]] = q
        BY <1>6, <4>1, <4>2, <4>3
      <4> QED
        BY <1>5, <3>1, <3>3, <4>1, <4>2, <4>4
    <3> QED
      BY <3>2, <3>3
  <2> QED
    BY <2>1, <2>2
<1>10. \A q \in S \ (L \cup {p}) : next2[q] = None /\ prev2[q] = None
  BY <1>0, <1>2, <1>6
<1>11. /\ L \cup {p} \subseteq S /\ p \in (L \cup {p}) \cup {None} /\ p # None
       /\ tl2 \in (L \cup {p}) \cup {None}
  BY <1>0, <1>7
<1>12. Chain(S, next2, prev2, p, tl2, L \cup {p}, rank2, lo, hi + 1)
  BY <1>0, <1>5, <1>6, <1>7, <1>8, <1>9, <1>10, <1>11 DEF Chain
<1> QED
  BY <1>12

-----------------------------------------------------------------------------
(* The cache of a handle.                                                  *)

IsHandle(h) ==
  h = [next |-> h.next, prev |-> h.prev, head |-> h.head, tail |-> h.tail,
       refs |-> h.refs, mapped |-> h.mapped, md5_page |-> h.md5_page, ctx |-> h.ctx,
       md5 |-> h.md5, aborted |-> h.aborted]

\* The list of h is that of the pages L.
Lists(h, L) ==
  \E rank, lo, hi : Chain(PageNo, h.next, h.prev, h.head, h.tail, L, rank, lo, hi)

\* What the client holds is mapped, and no other page is in use; of TO no other is
\* kept.
Sound(h, page) ==
  /\ IsHandle(h)
  /\ Lists(h, h.mapped)
  /\ ~h.aborted /\ Cardinality(h.mapped) <= max_mapped_pages
  /\ h.refs = [p \in PageNo |-> IF p = page THEN 1 ELSE 0]
  /\ page \in h.mapped \cup {None}
  /\ role = "to" => h.mapped \subseteq {page}
  /\ h.md5_page \in Nat

LEMMA PullLru ==
  ASSUME NEW h, IsHandle(h), NEW L, Lists(h, L), NEW p \in L
  PROVE  /\ IsHandle(pull_lru(h, p)) /\ Lists(pull_lru(h, p), L \ {p})
         /\ pull_lru(h, p).refs = h.refs /\ pull_lru(h, p).mapped = h.mapped
         /\ pull_lru(h, p).md5_page = h.md5_page /\ pull_lru(h, p).aborted = h.aborted
         /\ pull_lru(h, p).next[p] = None /\ pull_lru(h, p).prev[p] = None
<1>1. PICK rank, lo, hi : Chain(PageNo, h.next, h.prev, h.head, h.tail, L, rank, lo, hi)
  BY DEF Lists
<1>2. PICK next, prev, hd, tl, k : next = h.next /\ prev = h.prev /\ hd = h.head /\ tl = h.tail
                                   /\ k = pull_lru(h, p)
  OBVIOUS
<1>3. PICK n, v : n = next[p] /\ v = prev[p]
  OBVIOUS
<1>4. /\ k.next = Pulled(next, prev, p) /\ k.prev = Pulled(prev, next, p)
      /\ k.head = (IF n # None THEN hd ELSE v) /\ k.tail = (IF v # None THEN tl ELSE n)
      /\ k.refs = h.refs /\ k.mapped = h.mapped /\ k.md5_page = h.md5_page
      /\ k.aborted = h.aborted /\ IsHandle(k)
  <2>1. /\ k.refs = h.refs /\ k.mapped = h.mapped /\ k.md5_page = h.md5_page
        /\ k.aborted = h.aborted /\ IsHandle(k)
    BY <1>2 DEF pull_lru, IsHandle
  <2>2. k.next = Pulled(next, prev, p) /\ k.prev = Pulled(prev, next, p)
    BY <1>2, <1>3 DEF pull_lru, IsHandle, Pulled
  <2>3. k.head = (IF n # None THEN hd ELSE v) /\ k.tail = (IF v # None THEN tl ELSE n)
    BY <1>2, <1>3 DEF pull_lru, IsHandle
  <2> QED BY <2>1, <2>2, <2>3
<1>5. Chain(PageNo, k.next, k.prev, k.head, k.tail, L \ {p}, rank, lo, hi)
  BY <1>1, <1>2, <1>3, <1>4, PullChain
<1>6. p \in PageNo
  BY <1>1 DEF Chain
<1>7. k.next[p] = None /\ k.prev[p] = None
  BY <1>5, <1>6 DEF Chain
<1> QED
  BY <1>2, <1>4, <1>5, <1>7 DEF Lists

LEMMA PagesAreFinite ==
  ASSUME NEW M, M \subseteq PageNo, length \in Nat
  PROVE  /\ IsFiniteSet(M) /\ Cardinality(M) \in Nat /\ last \in Nat
         /\ Cardinality(M) = 0 <=> M = {}
<1>1. last \in Nat
  BY PagesAssumption DEF last
<1>2. IsFiniteSet(PageNo)
  BY <1>1, FS_Interval DEF PageNo
<1> QED
  BY <1>1, <1>2, FS_Subset, FS_CardinalityType, FS_EmptySet

\* make_lru_room finds a page to free when there has to be one, for none is in use.
LEMMA MakesRoom ==
  ASSUME NEW h, IsHandle(h), NEW p \in PageNo, Lists(h, h.mapped \cup {p}), h.head = p,
         h.mapped \subseteq PageNo, p \notin h.mapped, length \in Nat,
         ~h.aborted, Cardinality(h.mapped) <= max_mapped_pages,
         h.refs = [q \in PageNo |-> 0],
         NEW k, k = make_lru_room(h)
  PROVE  /\ IsHandle(k) /\ Lists(k, k.mapped \cup {p}) /\ ~k.aborted
         /\ k.mapped \subseteq h.mapped /\ Cardinality(k.mapped) < max_mapped_pages
         /\ k.refs = h.refs /\ k.md5_page = h.md5_page
<1>1. /\ max_mapped_pages \in Nat /\ max_mapped_pages > 0
      /\ IsFiniteSet(h.mapped) /\ Cardinality(h.mapped) \in Nat
      /\ Cardinality(h.mapped) = 0 <=> h.mapped = {}
  BY PagesAssumption, PagesAreFinite
<1>2. CASE Cardinality(h.mapped) # max_mapped_pages
  <2>1. k = [h EXCEPT !.aborted = @ \/ Cardinality(h.mapped) >= max_mapped_pages]
    BY <1>2 DEF make_lru_room
  <2>2. /\ k.mapped = h.mapped /\ k.refs = h.refs /\ k.md5_page = h.md5_page
        /\ k.next = h.next /\ k.prev = h.prev /\ k.head = h.head /\ k.tail = h.tail
        /\ IsHandle(k) /\ k.aborted = (h.aborted \/ Cardinality(h.mapped) >= max_mapped_pages)
    BY <2>1 DEF IsHandle
  <2>3. Cardinality(h.mapped) < max_mapped_pages
    BY <1>1, <1>2
  <2>4. ~k.aborted
    <3>1. ~(Cardinality(h.mapped) >= max_mapped_pages)
      BY <1>1, <2>3
    <3> QED
      BY <2>2, <3>1, Zenon
  <2> QED
    BY <2>2, <2>3, <2>4 DEF Lists
<1>3. CASE Cardinality(h.mapped) = max_mapped_pages
  <2>1. PICK q \in h.mapped : TRUE
    BY <1>1, <1>3
  <2>2. PICK t : t = h.tail
    OBVIOUS
  <2>3. t \in h.mapped \cup {p} /\ t # None /\ t # p /\ t \in PageNo
    <3>1. PICK rank, lo, hi : Chain(PageNo, h.next, h.prev, h.head, h.tail,
                                    h.mapped \cup {p}, rank, lo, hi)
      BY DEF Lists
    <3>2. t \in h.mapped \cup {p} /\ t # None /\ t \in PageNo
      BY <2>2, <3>1 DEF Chain
    <3>3. ASSUME t = p PROVE FALSE
      <4>1. h.mapped \cup {p} \subseteq {h.head}
        BY <2>2, <3>1, <3>3, EndsMeet
      <4> QED
        BY <2>1, <4>1
    <3> QED
      BY <3>2, <3>3
  <2>4. PICK f : f = pull_lru(h, t)
    OBVIOUS
  <2>5. PICK L : L = h.mapped \cup {p}
    OBVIOUS
  <2>6. /\ IsHandle(f) /\ Lists(f, L \ {t}) /\ f.refs = h.refs /\ f.mapped = h.mapped
        /\ f.md5_page = h.md5_page /\ f.aborted = h.aborted
    <3>1. IsHandle(h) /\ Lists(h, L) /\ t \in L
      BY <2>3, <2>5, Zenon
    <3> QED
      BY <2>4, <3>1, PullLru, ZenonT(40)
  <2>7. h.refs[t] = 0 /\ h.tail # None
    BY <2>2, <2>3
  <2>8. PICK room : room = [f EXCEPT !.mapped = @ \ {t}]
    OBVIOUS
  <2>9. really_free_one_page(h) = room
    BY <2>2, <2>4, <2>7, <2>8 DEF really_free_one_page
  <2>10. /\ IsHandle(room) /\ room.mapped = h.mapped \ {t} /\ room.refs = h.refs
         /\ room.md5_page = h.md5_page /\ room.aborted = h.aborted
         /\ room.next = f.next /\ room.prev = f.prev /\ room.head = f.head /\ room.tail = f.tail
    BY <2>6, <2>8 DEF IsHandle
  <2>11. k = [room EXCEPT !.aborted = @ \/ Cardinality(room.mapped) >= max_mapped_pages]
    BY <1>3, <2>9 DEF make_lru_room
  <2>12. /\ IsHandle(k) /\ k.mapped = room.mapped /\ k.refs = h.refs
         /\ k.md5_page = h.md5_page
         /\ k.aborted = (room.aborted \/ Cardinality(room.mapped) >= max_mapped_pages)
         /\ k.next = f.next /\ k.prev = f.prev /\ k.head = f.head /\ k.tail = f.tail
    BY <2>10, <2>11 DEF IsHandle
  <2>13. Cardinality(k.mapped) = max_mapped_pages - 1
    <3>1. Cardinality(h.mapped \ {t}) = Cardinality(h.mapped) - 1
      <4>1. t \in h.mapped
        BY <2>3
      <4> QED
        BY <1>1, <4>1, FS_RemoveElement
    <3> QED
      BY <1>3, <2>10, <2>12, <3>1
  <2>14. ~(Cardinality(room.mapped) >= max_mapped_pages)
    BY <1>1, <2>12, <2>13
  <2>15. ~k.aborted
    BY <2>10, <2>12, <2>14, Zenon
  <2>16. k.mapped \cup {p} = L \ {t}
    BY <2>3, <2>5, <2>10, <2>12
  <2>17. Lists(k, k.mapped \cup {p})
    BY <2>6, <2>12, <2>16 DEF Lists
  <2> QED
    BY <1>1, <2>10, <2>12, <2>13, <2>15, <2>17
<1> QED
  BY <1>2, <1>3

\* The digest is a matter of its own.
SameCache(k, h) ==
  /\ k.next = h.next /\ k.prev = h.prev /\ k.head = h.head /\ k.tail = h.tail
  /\ k.refs = h.refs /\ k.mapped = h.mapped /\ k.aborted = h.aborted

LEMMA HashedSame ==
  ASSUME NEW h, IsHandle(h), NEW p, NEW verify
  PROVE  /\ IsHandle(Hashed(h, p, verify)) /\ SameCache(Hashed(h, p, verify), h)
         /\ Hashed(h, p, verify).md5_page = h.md5_page + 1
<1> DEFINE a == [h EXCEPT !.ctx = IF verify THEN edsio_md5_update(@, PageBytes(p)) ELSE @,
                          !.md5_page = @ + 1]
<1>1. PICK x : x = IF verify THEN edsio_md5_update(h.ctx, PageBytes(p)) ELSE h.ctx
  OBVIOUS
<1>2. PICK b : b = a
  OBVIOUS
<1>3. b = [h EXCEPT !.ctx = x, !.md5_page = @ + 1]
  BY <1>1, <1>2, Zenon
<1>4. IsHandle(b) /\ SameCache(b, h) /\ b.md5_page = h.md5_page + 1
  BY <1>3 DEF IsHandle, SameCache
<1>5. PICK y, z, f : y = edsio_md5_final(b.ctx) /\ z = zeroized /\ f = Final(b)
  OBVIOUS
<1>6. f = [b EXCEPT !.md5 = y, !.ctx = z]
  BY <1>5, Zenon DEF Final
<1>7. IsHandle(f) /\ SameCache(f, b) /\ f.md5_page = b.md5_page
  BY <1>4, <1>6 DEF IsHandle, SameCache
<1>8. Hashed(h, p, verify) = IF a.md5_page > last THEN Final(a) ELSE a
  BY DEF Hashed
<1>9. Hashed(h, p, verify) = f \/ Hashed(h, p, verify) = b
  <2> HIDE DEF a
  <2> QED
    BY <1>2, <1>5, <1>8, Zenon
<1>10. IsHandle(f) /\ SameCache(f, h) /\ f.md5_page = h.md5_page + 1
  BY <1>4, <1>7 DEF SameCache
<1> QED
  BY <1>4, <1>9, <1>10, Zenon

\* The pages below the one whose turn it is have been hashed.
TurnOf(h, p) == IF p = h.md5_page THEN h.md5_page + 1 ELSE h.md5_page

Pushed(h, p) ==
  LET a == [h EXCEPT !.prev[p] = h.head, !.next[p] = None, !.head = p]
      b == IF h.head # None THEN [a EXCEPT !.next[h.head] = p] ELSE a
  IN  IF b.tail = None THEN [b EXCEPT !.tail = p] ELSE b

LEMMA PagePushed ==
  ASSUME NEW h, IsHandle(h), NEW L, Lists(h, L), NEW p \in PageNo \ L,
         NEW c, c = Pushed(h, p)
  PROVE  /\ IsHandle(c) /\ Lists(c, L \cup {p}) /\ c.head = p
         /\ c.refs = h.refs /\ c.mapped = h.mapped /\ c.md5_page = h.md5_page
         /\ c.aborted = h.aborted
<1>0. PICK a, b : /\ a = [h EXCEPT !.prev[p] = h.head, !.next[p] = None, !.head = p]
                  /\ b = IF h.head # None THEN [a EXCEPT !.next[h.head] = p] ELSE a
  OBVIOUS
<1>1. PICK rank, lo, hi : Chain(PageNo, h.next, h.prev, h.head, h.tail, L, rank, lo, hi)
  BY DEF Lists
<1>2. PICK next, prev, hd, tl : next = h.next /\ prev = h.prev /\ hd = h.head /\ tl = h.tail
  OBVIOUS
<1>3. /\ IsHandle(a) /\ a.head = p /\ a.tail = tl /\ a.next = [next EXCEPT ![p] = None]
      /\ a.prev = [prev EXCEPT ![p] = hd]
      /\ a.refs = h.refs /\ a.mapped = h.mapped /\ a.md5_page = h.md5_page
      /\ a.aborted = h.aborted
  BY <1>0, <1>2 DEF IsHandle
<1>4. /\ IsHandle(b) /\ b.head = p /\ b.tail = tl /\ b.prev = a.prev
      /\ b.next = IF hd # None THEN [a.next EXCEPT ![hd] = p] ELSE a.next
      /\ b.refs = h.refs /\ b.mapped = h.mapped /\ b.md5_page = h.md5_page
      /\ b.aborted = h.aborted
  BY <1>0, <1>2, <1>3 DEF IsHandle
<1>5. /\ IsHandle(c) /\ c.head = p /\ c.prev = [prev EXCEPT ![p] = hd] /\ c.next = b.next
      /\ c.tail = IF tl = None THEN p ELSE tl
      /\ c.refs = h.refs /\ c.mapped = h.mapped /\ c.md5_page = h.md5_page
      /\ c.aborted = h.aborted
  <2>1. c = IF b.tail = None THEN [b EXCEPT !.tail = p] ELSE b
    BY <1>0 DEF Pushed
  <2> QED
    BY <1>3, <1>4, <2>1 DEF IsHandle
<1>6. PICK next2, prev2, tl2 : next2 = c.next /\ prev2 = c.prev /\ tl2 = c.tail
  OBVIOUS
<1>7. next2 = LinkedUp(next, hd, p)
  <2>1. PICK n1 : n1 = a.next
    OBVIOUS
  <2>2. n1 = [next EXCEPT ![p] = None]
    BY <1>3, <2>1, Zenon
  <2>3. next2 = IF hd # None THEN [n1 EXCEPT ![hd] = p] ELSE n1
    BY <1>4, <1>5, <1>6, <2>1
  <2> QED
    BY <2>2, <2>3, Zenon DEF LinkedUp
<1>8. prev2 = [prev EXCEPT ![p] = hd] /\ tl2 = TailWith(tl, p)
  BY <1>5, <1>6, Zenon DEF TailWith
<1>9. Chain(PageNo, next, prev, hd, tl, L, rank, lo, hi)
  BY <1>1, <1>2, Zenon
<1>10. \E rank2, hi2 : Chain(PageNo, next2, prev2, p, tl2, L \cup {p}, rank2, lo, hi2)
  <2>1. p \in PageNo \ L
    OBVIOUS
  <2> QED
    BY <1>7, <1>8, <1>9, <2>1, PushChain, Zenon
<1>11. Lists(c, L \cup {p})
  <2>1. PICK rank2, hi2 : Chain(PageNo, next2, prev2, p, tl2, L \cup {p}, rank2, lo, hi2)
    BY <1>10, Zenon
  <2> QED
    <3>1. Chain(PageNo, c.next, c.prev, c.head, c.tail, L \cup {p}, rank2, lo, hi2)
      BY <1>5, <1>6, <2>1
    <3> QED
      BY <3>1 DEF Lists
<1> QED
  BY <1>5, <1>11, Zenon

LEMMA MapSound ==
  ASSUME NEW h, Sound(h, None), NEW p \in PageNo, length \in Nat,
         NEW m, m = map_page(h, p)
  PROVE  /\ Sound(m, p) /\ m.mapped \subseteq h.mapped \cup {p}
         /\ m.md5_page = IF p \in h.mapped THEN h.md5_page ELSE TurnOf(h, p)
<1> DEFINE pulled == IF p \in h.mapped THEN pull_lru(h, p) ELSE h
           c == Pushed(pulled, p)
           room == make_lru_room(c)
           with == [room EXCEPT !.mapped = @ \cup {p}]
           d == IF p \in h.mapped THEN c ELSE md5_this_page(with, p)
<1>1. m = [d EXCEPT !.refs[p] = @ + 1]
  BY DEF map_page, ToHead, Mapped, Pushed
<1>2. /\ IsHandle(h) /\ Lists(h, h.mapped) /\ ~h.aborted
      /\ Cardinality(h.mapped) <= max_mapped_pages
      /\ h.refs = [q \in PageNo |-> 0]
      /\ h.mapped \subseteq PageNo /\ None \notin PageNo
      /\ (role = "to" => h.mapped = {}) /\ h.md5_page \in Nat
  <2>1. /\ IsHandle(h) /\ Lists(h, h.mapped) /\ ~h.aborted
        /\ Cardinality(h.mapped) <= max_mapped_pages /\ h.md5_page \in Nat
        /\ h.refs = [q \in PageNo |-> IF q = None THEN 1 ELSE 0]
        /\ (role = "to" => h.mapped \subseteq {None})
    BY DEF Sound
  <2>2. h.mapped \subseteq PageNo /\ None \notin PageNo
    BY <2>1 DEF Lists, Chain
  <2> QED
    BY <2>1, <2>2
<1>3. /\ IsHandle(pulled) /\ Lists(pulled, h.mapped \ {p}) /\ pulled.refs = h.refs
      /\ pulled.mapped = h.mapped /\ pulled.md5_page = h.md5_page
      /\ pulled.aborted = h.aborted
  <2>1. CASE p \in h.mapped
    BY <1>2, <2>1, PullLru
  <2>2. CASE p \notin h.mapped
    <3>1. h.mapped \ {p} = h.mapped /\ pulled = h
      BY <2>2
    <3> QED
      BY <1>2, <3>1
  <2> QED
    BY <2>1, <2>2
<1> HIDE DEF pulled
<1>4. PICK pl, L : pl = pulled /\ L = h.mapped \ {p}
  OBVIOUS
<1>5. /\ IsHandle(c) /\ Lists(c, L \cup {p}) /\ c.head = p
      /\ c.refs = pulled.refs /\ c.mapped = pulled.mapped /\ c.md5_page = pulled.md5_page
      /\ c.aborted = pulled.aborted
  <2>1. PICK cc : cc = Pushed(pl, p)
    OBVIOUS
  <2>2. IsHandle(pl) /\ Lists(pl, L)
    BY <1>3, <1>4, Zenon
  <2>4. p \in PageNo \ L
    BY <1>4
  <2>3. /\ IsHandle(cc) /\ Lists(cc, L \cup {p}) /\ cc.head = p
        /\ cc.refs = pl.refs /\ cc.mapped = pl.mapped /\ cc.md5_page = pl.md5_page
        /\ cc.aborted = pl.aborted
    BY <2>1, <2>2, <2>4, PagePushed
  <2> QED
    BY <1>4, <2>1, <2>3, Zenon
<1> HIDE DEF c
<1>6. L \cup {p} = h.mapped \cup {p}
  BY <1>4
<1>7. /\ IsHandle(d) /\ Lists(d, d.mapped) /\ p \in d.mapped /\ ~d.aborted
      /\ d.mapped \subseteq h.mapped \cup {p} /\ Cardinality(d.mapped) <= max_mapped_pages
      /\ d.refs = h.refs
      /\ d.md5_page = IF p \in h.mapped THEN h.md5_page ELSE TurnOf(h, p)
  <2>1. CASE p \in h.mapped
    <3>1. d = c /\ h.mapped \cup {p} = h.mapped
      BY <2>1
    <3> QED
      BY <1>2, <1>3, <1>5, <1>6, <2>1, <3>1
  <2>2. CASE p \notin h.mapped
    <3>1. PICK cc, r : cc = c /\ r = room
      OBVIOUS
    <3>2. /\ IsHandle(cc) /\ Lists(cc, cc.mapped \cup {p}) /\ cc.head = p
          /\ cc.mapped = h.mapped /\ ~cc.aborted /\ cc.refs = [q \in PageNo |-> 0]
          /\ cc.md5_page = h.md5_page
      BY <1>2, <1>3, <1>5, <1>6, <3>1
    <3>3. /\ cc.mapped \subseteq PageNo /\ p \notin cc.mapped
          /\ Cardinality(cc.mapped) <= max_mapped_pages /\ r = make_lru_room(cc)
      BY <1>2, <2>2, <3>1, <3>2
    <3>4. /\ IsHandle(r) /\ Lists(r, r.mapped \cup {p}) /\ ~r.aborted
          /\ r.mapped \subseteq cc.mapped /\ Cardinality(r.mapped) < max_mapped_pages
          /\ r.refs = cc.refs /\ r.md5_page = cc.md5_page
      BY <3>2, <3>3, MakesRoom, Zenon
    <3>5. PICK w : w = [r EXCEPT !.mapped = @ \cup {p}]
      OBVIOUS
    <3>6. /\ IsHandle(w) /\ w.mapped = r.mapped \cup {p} /\ w.refs = r.refs
          /\ w.md5_page = r.md5_page /\ w.aborted = r.aborted
          /\ w.next = r.next /\ w.prev = r.prev /\ w.head = r.head /\ w.tail = r.tail
      BY <3>4, <3>5 DEF IsHandle
    <3>7. Lists(w, w.mapped)
      BY <3>4, <3>6 DEF Lists
    <3>8. Cardinality(w.mapped) <= max_mapped_pages
      <4>1. /\ p \notin r.mapped /\ IsFiniteSet(r.mapped) /\ Cardinality(r.mapped) \in Nat
            /\ max_mapped_pages \in Nat
        BY <3>3, <3>4, PagesAreFinite, PagesAssumption
      <4>2. Cardinality(r.mapped \cup {p}) = Cardinality(r.mapped) + 1
        BY <4>1, FS_AddElement
      <4> QED
        BY <3>4, <3>6, <4>1, <4>2
    <3>9. d = (IF p = w.md5_page THEN Hashed(w, p, ~no_verify) ELSE w)
      BY <2>2, <3>1, <3>5 DEF md5_this_page
    <3>10. IsHandle(d) /\ SameCache(d, w) /\ d.md5_page = TurnOf(w, p)
      <4>1. CASE p = w.md5_page
        BY <3>6, <3>9, <4>1, HashedSame DEF TurnOf
      <4>2. CASE p # w.md5_page
        BY <3>6, <3>9, <4>2 DEF TurnOf, SameCache
      <4> QED
        BY <4>1, <4>2
    <3> HIDE DEF d
    <3>11. Lists(d, d.mapped)
      BY <3>7, <3>10 DEF SameCache, Lists
    <3> QED
      BY <1>2, <2>2, <3>2, <3>3, <3>4, <3>6, <3>8, <3>10, <3>11 DEF SameCache, TurnOf
  <2> QED
    BY <2>1, <2>2
<1> HIDE DEF d
<1>8. /\ IsHandle(m) /\ m.mapped = d.mapped /\ m.md5_page = d.md5_page
      /\ m.aborted = d.aborted /\ m.refs = [d.refs EXCEPT ![p] = @ + 1]
      /\ m.next = d.next /\ m.prev = d.prev /\ m.head = d.head /\ m.tail = d.tail
  BY <1>1, <1>7 DEF IsHandle
<1>9. m.refs = [q \in PageNo |-> IF q = p THEN 1 ELSE 0]
  BY <1>2, <1>7, <1>8
<1>10. Lists(m, m.mapped)
  BY <1>7, <1>8 DEF Lists
<1>11. m.md5_page \in Nat
  BY <1>2, <1>7, <1>8 DEF TurnOf
<1> QED
  BY <1>2, <1>7, <1>8, <1>9, <1>10, <1>11 DEF Sound
LEMMA SameSound ==
  ASSUME NEW h, NEW page, Sound(h, page), NEW k, IsHandle(k), SameCache(k, h),
         k.md5_page \in Nat
  PROVE  Sound(k, page)
BY DEF Sound, SameCache, Lists

\* What is unmapped is held no more; of TO it is freed.
LEMMA UnmapSound ==
  ASSUME NEW p \in PageNo, NEW h, Sound(h, p), length \in Nat,
         NEW u, u = unmap_page(h, p)
  PROVE  Sound(u, None) /\ u.mapped \subseteq h.mapped /\ u.md5_page = h.md5_page
<1> DEFINE a == [h EXCEPT !.refs[p] = @ - 1]
<1>0. last \in Nat /\ None \notin PageNo
  BY PagesAssumption DEF last, PageNo, None
<1>1. /\ IsHandle(h) /\ Lists(h, h.mapped) /\ ~h.aborted
      /\ Cardinality(h.mapped) <= max_mapped_pages /\ h.md5_page \in Nat
      /\ h.refs = [q \in PageNo |-> IF q = p THEN 1 ELSE 0] /\ p \in h.mapped
      /\ role = "to" => h.mapped \subseteq {p}
  BY <1>0 DEF Sound
<1>2. /\ IsHandle(a) /\ a.mapped = h.mapped /\ a.md5_page = h.md5_page
      /\ a.aborted = h.aborted /\ a.next = h.next /\ a.prev = h.prev
      /\ a.head = h.head /\ a.tail = h.tail /\ a.refs = [h.refs EXCEPT ![p] = @ - 1]
  BY <1>1 DEF IsHandle
<1>3. a.refs = [q \in PageNo |-> IF q = None THEN 1 ELSE 0] /\ a.refs[p] = 0
  BY <1>0, <1>1, <1>2
<1>4. Lists(a, a.mapped)
  BY <1>1, <1>2 DEF Lists
<1>5. CASE role # "to"
  <2>1. u = a
    BY <1>5 DEF unmap_page
  <2> HIDE DEF a
  <2> QED
    BY <1>1, <1>2, <1>3, <1>4, <1>5, <2>1 DEF Sound
<1>6. CASE role = "to"
  <2> DEFINE b == pull_lru(a, p)
             c == [b EXCEPT !.next[p] = b.tail, !.tail = p]
             d == IF b.tail # None THEN [c EXCEPT !.prev[b.tail] = p] ELSE c
  <2>1. u = really_free_one_page(d)
    BY <1>3, <1>6 DEF unmap_page
  <2> HIDE DEF a
  <2>2. PICK L, aa, bb : L = {p} /\ aa = a /\ bb = b
    OBVIOUS
  <2>3. L = a.mapped /\ p \in L
    BY <1>1, <1>2, <1>6, <2>2
  <2>4. /\ IsHandle(bb) /\ Lists(bb, L \ {p}) /\ bb.refs = aa.refs /\ bb.mapped = aa.mapped
        /\ bb.md5_page = aa.md5_page /\ bb.aborted = aa.aborted
        /\ bb.next[p] = None /\ bb.prev[p] = None
    <3>1. IsHandle(aa) /\ Lists(aa, L)
      BY <1>2, <1>4, <2>2, <2>3, Zenon
    <3> QED
      BY <2>2, <2>3, <3>1, PullLru
  <2>5. PICK rank, lo, hi : Chain(PageNo, bb.next, bb.prev, bb.head, bb.tail, {}, rank, lo, hi)
    <3>1. L \ {p} = {}
      BY <2>2
    <3> QED
      BY <2>4, <3>1, Zenon DEF Lists
  <2>6. /\ bb.head = None /\ bb.tail = None
        /\ bb.next \in [PageNo -> PageNo \cup {None}] /\ bb.prev \in [PageNo -> PageNo \cup {None}]
    BY <2>5 DEF Chain
  <2>7. PICK dd : dd = d
    OBVIOUS
  <2>8. dd = [bb EXCEPT !.next[p] = None, !.tail = p]
    BY <2>2, <2>6, <2>7, Zenon
  <2> HIDE DEF b, c, d
  <2>9. /\ IsHandle(dd) /\ dd.head = None /\ dd.tail = p /\ dd.next = [bb.next EXCEPT ![p] = None]
        /\ dd.prev = bb.prev /\ dd.refs = bb.refs /\ dd.mapped = bb.mapped
        /\ dd.md5_page = bb.md5_page /\ dd.aborted = bb.aborted
    BY <2>4, <2>6, <2>8 DEF IsHandle
  <2>10. dd.next = bb.next
    BY <2>4, <2>6, <2>9
  <2>11. p # None /\ dd.refs[p] = 0
    BY <1>0, <1>3, <2>2, <2>4, <2>9
  <2>12. PICK f : f = pull_lru(dd, p)
    OBVIOUS
  <2>13. u = [f EXCEPT !.mapped = @ \ {p}]
    BY <2>1, <2>7, <2>9, <2>11, <2>12 DEF really_free_one_page
  <2>14. dd.next[p] = None /\ dd.prev[p] = None
    BY <2>4, <2>9, <2>10
  <2>15. f = [[dd EXCEPT !.head = None, !.tail = None] EXCEPT !.next[p] = None, !.prev[p] = None]
    BY <2>9, <2>12, <2>14 DEF pull_lru, IsHandle
  <2>16. /\ IsHandle(f) /\ f.head = None /\ f.tail = None
         /\ f.next = [dd.next EXCEPT ![p] = None] /\ f.prev = [dd.prev EXCEPT ![p] = None]
         /\ f.refs = dd.refs /\ f.mapped = dd.mapped /\ f.md5_page = dd.md5_page
         /\ f.aborted = dd.aborted
    BY <2>9, <2>15 DEF IsHandle
  <2>17. f.next = bb.next /\ f.prev = bb.prev
    BY <2>4, <2>6, <2>9, <2>10, <2>16
  <2>18. /\ IsHandle(u) /\ u.head = None /\ u.tail = None /\ u.next = bb.next /\ u.prev = bb.prev
         /\ u.refs = dd.refs /\ u.mapped = dd.mapped \ {p} /\ u.md5_page = dd.md5_page
         /\ u.aborted = dd.aborted
    <3>1. /\ IsHandle(u) /\ u.head = f.head /\ u.tail = f.tail /\ u.next = f.next
          /\ u.prev = f.prev /\ u.refs = f.refs /\ u.mapped = f.mapped \ {p}
          /\ u.md5_page = f.md5_page /\ u.aborted = f.aborted
      <4>1. IsHandle(f)
        BY <2>16
      <4> QED
        BY <2>13, <4>1 DEF IsHandle
    <3> QED
      BY <2>16, <2>17, <3>1, Zenon
  <2>19. u.mapped = {} /\ u.refs = a.refs /\ u.md5_page = h.md5_page /\ ~u.aborted
    BY <1>1, <1>2, <2>2, <2>3, <2>4, <2>9, <2>18
  <2>20. Lists(u, {})
    BY <2>5, <2>6, <2>18 DEF Lists
  <2>21. Cardinality(u.mapped) <= max_mapped_pages
    BY <2>19, FS_EmptySet, PagesAssumption
  <2>22. u.refs = [q \in PageNo |-> IF q = None THEN 1 ELSE 0]
    BY <1>3, <2>19
  <2> QED
    BY <1>1, <2>18, <2>19, <2>20, <2>21, <2>22 DEF Sound
<1> QED
  BY <1>5, <1>6

-----------------------------------------------------------------------------
(* The inductive invariant.                                                *)

\* The pages of FROM are mapped in order while it is indexed, so all of it has
\* been hashed before any page of it is held.
InTurn ==
  /\ phase = "index" => /\ role = "from" /\ at <= last + 1
                        /\ fh.md5_page = at /\ fh.mapped \subseteq 0..(at - 1)
  /\ role = "from" /\ phase = "scan" => fh.md5_page > last

\* A page is held between two calls only while FROM or TO is compared, or when
\* nothing of it is left to be hashed.
HeldInScan ==
  /\ phase \in {"head", "index"} \/ role \in {"base", "in", "out"} => held = None
  /\ phase = "md5" => held = None \/ fh.md5_page > last

PInv ==
  /\ role \in {"from", "to", "base", "in", "out"} /\ no_verify \in BOOLEAN
  /\ length \in Nat /\ at \in Nat
  /\ phase \in {"head", "index", "scan", "md5", "end", "failed"}
  /\ held \in PageNo \cup {None}
  /\ phase # "failed" => InTurn /\ HeldInScan /\ Sound(fh, held)
LEMMA Initially == Init => PInv
<1> SUFFICES ASSUME Init PROVE PInv
  OBVIOUS
<1>1. length \in Nat /\ last \in Nat /\ None \notin PageNo
  BY PagesAssumption DEF Init, last, PageNo, None
<1>2. PageNo = 0..last
  BY DEF PageNo
<1>3. PICK z, y : z = edsio_md5_init /\ y = << >>
  OBVIOUS
<1>4. fh = [next |-> [p \in PageNo |-> None], prev |-> [p \in PageNo |-> None],
            head |-> None, tail |-> None, refs |-> [p \in PageNo |-> 0], mapped |-> {},
            md5_page |-> 0, ctx |-> z, md5 |-> y, aborted |-> FALSE]
  BY <1>2, <1>3, Zenon DEF Init, FreshHandle
<1>5. /\ IsHandle(fh) /\ fh.mapped = {} /\ ~fh.aborted /\ fh.md5_page = 0
      /\ fh.refs = [p \in PageNo |-> 0] /\ fh.head = None /\ fh.tail = None
      /\ fh.next = [p \in PageNo |-> None] /\ fh.prev = [p \in PageNo |-> None]
  BY <1>4 DEF IsHandle
<1>6. PICK rank : rank = [p \in PageNo |-> 0]
  OBVIOUS
<1>7. Chain(PageNo, fh.next, fh.prev, fh.head, fh.tail, {}, rank, 0, 0)
  BY <1>1, <1>5, <1>6 DEF Chain
<1>8. Lists(fh, fh.mapped)
  BY <1>5, <1>7 DEF Lists
<1>9. Cardinality(fh.mapped) <= max_mapped_pages
  BY <1>5, FS_EmptySet, PagesAssumption
<1>10. fh.refs = [p \in PageNo |-> IF p = None THEN 1 ELSE 0]
  BY <1>1, <1>5
<1>11. held = None
  BY DEF Init
<1>12. Sound(fh, held)
  BY <1>5, <1>8, <1>9, <1>10, <1>11 DEF Sound
<1>13. InTurn
  BY <1>1, <1>5 DEF Init, InTurn
<1>14. HeldInScan
  BY <1>11 DEF HeldInScan
<1> QED
  BY <1>1, <1>12, <1>13, <1>14 DEF Init, PInv

LEMMA Onward == PInv /\ [Next]_vars => PInv'
<1> SUFFICES ASSUME PInv, [Next]_vars PROVE PInv'
  OBVIOUS
\* Nothing is asked of the cache of a client that has given up.
<1>a. CASE GiveUp
  <2>1. PageNo' = PageNo
    BY <1>a DEF GiveUp, Fixed, PageNo, last
  <2> QED
    BY <1>a, <2>1 DEF GiveUp, Fixed, PInv
<1>b. CASE UNCHANGED vars
  BY <1>b DEF vars, PInv, InTurn, HeldInScan, Sound, Lists, PageNo, last
<1>c. \A p \in PageNo : MapFails(p) => GiveUp
  BY DEF MapFails
<1>d. UnmapFails => GiveUp
  BY DEF UnmapFails
<1> SUFFICES ASSUME Next, ~GiveUp PROVE PInv'
  BY <1>a, <1>b
<1>e. phase # "failed"
  BY <1>c, <1>d DEF Next, IndexPage, Indexed, NotIndexed, PosMap, CopyPage, Scanned, Copied,
     ChecksumPage, ChecksumDone, Narrow, CloseHeader, Piece, Streamed
<1>1. /\ length \in Nat /\ last \in Nat /\ None \notin PageNo /\ at \in Nat
      /\ held \in PageNo \cup {None} /\ Sound(fh, held) /\ InTurn /\ HeldInScan
      /\ PageNo = 0..last /\ fh.md5_page \in Nat
  BY <1>e, PagesAssumption DEF PInv, last, PageNo, None, Sound
\* What is left to be shown of a step that leaves the file what it was.
<1>2. ASSUME Fixed, at' \in Nat, held' \in PageNo \cup {None},
             phase' \in {"head", "index", "scan", "md5", "end"},
             InTurn', HeldInScan', Sound(fh', held')
      PROVE  PInv'
  <2>1. role' = role /\ length' = length /\ no_verify' = no_verify
    BY <1>2 DEF Fixed
  <2>2. last' = last /\ PageNo' = PageNo
    BY <2>1 DEF last, PageNo
  <2>3. Sound(fh, held)'
    BY <1>2, <2>1, <2>2 DEF Sound, Lists
  <2> QED
    BY <1>2, <2>1, <2>2, <2>3 DEF PInv
<1>3. ASSUME Fixed PROVE last' = last /\ role' = role
  BY <1>3 DEF Fixed, last
<1>4. CASE IndexPage
  <2>1. /\ phase = "index" /\ at <= last /\ Fixed /\ held' = held /\ phase' = phase
        /\ at' = at + 1 /\ fh' = unmap_page(map_page(fh, at), at)
    BY <1>4 DEF IndexPage
  <2>2. held = None /\ role = "from" /\ fh.md5_page = at /\ fh.mapped \subseteq 0..(at - 1)
    BY <1>1, <2>1 DEF HeldInScan, InTurn
  <2>3. at \in PageNo /\ at \notin fh.mapped
    BY <1>1, <2>1, <2>2
  <2>4. PICK p, m : p = at /\ m = map_page(fh, p)
    OBVIOUS
  <2>5. p \in PageNo /\ Sound(fh, None)
    BY <1>1, <2>2, <2>3, <2>4
  <2>6. /\ Sound(m, p) /\ m.mapped \subseteq fh.mapped \cup {p}
        /\ m.md5_page = IF p \in fh.mapped THEN fh.md5_page ELSE TurnOf(fh, p)
    BY <1>1, <2>4, <2>5, MapSound
  <2>7. fh' = unmap_page(m, p)
    BY <2>1, <2>4, Zenon
  <2>8. Sound(fh', None) /\ fh'.mapped \subseteq m.mapped /\ fh'.md5_page = m.md5_page
    <3>1. PICK u : u = fh'
      OBVIOUS
    <3>2. Sound(u, None) /\ u.mapped \subseteq m.mapped /\ u.md5_page = m.md5_page
      BY <1>1, <2>5, <2>6, <2>7, <3>1, UnmapSound
    <3> QED
      BY <3>1, <3>2, Zenon
  <2>9. fh'.md5_page = at + 1
    BY <2>2, <2>3, <2>4, <2>6, <2>8 DEF TurnOf
  <2>10. fh'.mapped \subseteq 0..((at + 1) - 1)
    BY <1>1, <2>2, <2>4, <2>6, <2>8
  <2>11. InTurn' /\ HeldInScan'
    BY <1>1, <1>3, <2>1, <2>2, <2>9, <2>10 DEF InTurn, HeldInScan
  <2> QED
    BY <1>1, <1>2, <2>1, <2>2, <2>8, <2>11
<1>5. CASE Indexed
  <2>1. /\ phase = "index" /\ at > last /\ Fixed /\ held' = held /\ phase' = "scan"
        /\ at' = at /\ fh' = fh
    BY <1>5 DEF Indexed
  <2>2. InTurn' /\ HeldInScan'
    BY <1>1, <1>3, <2>1 DEF InTurn, HeldInScan
  <2> QED
    BY <1>1, <1>2, <2>1, <2>2
<1>6. CASE NotIndexed
  <2>1. /\ phase = "index" /\ Fixed /\ held' = held /\ phase' = "md5"
        /\ at' = at /\ fh' = fh
    BY <1>6 DEF NotIndexed
  <2>2. InTurn' /\ HeldInScan'
    BY <1>1, <1>3, <2>1 DEF InTurn, HeldInScan
  <2> QED
    BY <1>1, <1>2, <2>1, <2>2
<1>7. ASSUME NEW p \in PageNo, PosMap(p) PROVE PInv'
  <2>1. /\ phase = "scan" /\ role \in {"from", "to"} /\ p # held /\ Fixed /\ phase' = phase
        /\ held' = p /\ at' = p + 1
        /\ fh' = map_page(IF held = None THEN fh ELSE unmap_page(fh, held), p)
    BY <1>7 DEF PosMap
  <2>2. PICK k : k = IF held = None THEN fh ELSE unmap_page(fh, held)
    OBVIOUS
  <2>3. Sound(k, None) /\ k.md5_page = fh.md5_page
    <3>1. CASE held = None
      BY <1>1, <2>2, <3>1
    <3>2. CASE held # None
      <4>1. PICK q, u : q = held /\ u = fh
        OBVIOUS
      <4>2. q \in PageNo /\ Sound(u, q) /\ k = unmap_page(u, q)
        BY <1>1, <2>2, <3>2, <4>1
      <4>3. Sound(k, None) /\ k.md5_page = u.md5_page
        BY <1>1, <4>2, UnmapSound
      <4> QED
        BY <4>1, <4>3
    <3> QED
      BY <3>1, <3>2
  <2>4. PICK m : m = map_page(k, p)
    OBVIOUS
  <2>5. /\ Sound(m, p)
        /\ m.md5_page = IF p \in k.mapped THEN k.md5_page ELSE TurnOf(k, p)
    BY <1>1, <2>3, <2>4, MapSound
  <2>6. fh' = m
    BY <2>1, <2>2, <2>4, Zenon
  <2>7. m.md5_page \in Nat /\ m.md5_page >= fh.md5_page
    BY <1>1, <2>3, <2>5 DEF TurnOf
  <2>8. InTurn' /\ HeldInScan'
    BY <1>1, <1>3, <2>1, <2>6, <2>7 DEF InTurn, HeldInScan
  <2>9. p + 1 \in Nat
    BY <1>1
  <2> QED
    BY <1>2, <2>1, <2>5, <2>6, <2>8, <2>9
<1>8. ASSUME NEW p \in PageNo, CopyPage(p) PROVE PInv'
  <2>1. /\ phase = "scan" /\ role = "base" /\ Fixed /\ phase' = phase
        /\ held' = held /\ at' = at + 1 /\ fh' = unmap_page(map_page(fh, p), p)
    BY <1>8 DEF CopyPage
  <2>2. held = None
    BY <1>1, <2>1 DEF HeldInScan
  <2>3. PICK k, m, u : k = fh /\ m = map_page(k, p) /\ u = unmap_page(m, p)
    OBVIOUS
  <2>4. Sound(k, None)
    BY <1>1, <2>2, <2>3
  <2>5. Sound(m, p)
    BY <1>1, <2>3, <2>4, MapSound
  <2>6. Sound(u, None) /\ fh' = u
    <3>1. Sound(u, None)
      BY <1>1, <2>3, <2>5, UnmapSound
    <3> QED
      BY <2>1, <2>3, <3>1, Zenon
  <2>7. InTurn' /\ HeldInScan'
    BY <1>3, <2>1, <2>2 DEF InTurn, HeldInScan
  <2> QED
    BY <1>1, <1>2, <2>1, <2>2, <2>6, <2>7
<1>9. CASE Scanned
  <2>1. /\ phase = "scan" /\ role \in {"from", "to"} /\ Fixed /\ phase' = "md5" /\ at' = at
        /\ IF role = "to" /\ held # None
           THEN fh' = unmap_page(fh, held) /\ held' = None ELSE fh' = fh /\ held' = held
    BY <1>9 DEF Scanned
  <2>2. CASE role = "to" /\ held # None
    <3>1. PICK q, k, u : q = held /\ k = fh /\ u = unmap_page(k, q)
      OBVIOUS
    <3>2. q \in PageNo /\ Sound(k, q)
      BY <1>1, <2>2, <3>1
    <3>3. Sound(u, None)
      BY <1>1, <3>1, <3>2, UnmapSound
    <3>4. fh' = u /\ held' = None
      BY <2>1, <2>2, <3>1, Zenon
    <3>5. InTurn' /\ HeldInScan'
      BY <1>3, <2>1, <2>2, <3>4 DEF InTurn, HeldInScan
    <3> QED
      BY <1>1, <1>2, <2>1, <3>3, <3>4, <3>5
  <2>3. CASE ~(role = "to" /\ held # None)
    <3>1. fh' = fh /\ held' = held
      BY <2>1, <2>3
    <3>2. held = None \/ fh.md5_page > last
      BY <1>1, <2>1, <2>3 DEF InTurn
    <3>3. InTurn' /\ HeldInScan'
      BY <1>3, <2>1, <3>1, <3>2 DEF InTurn, HeldInScan
    <3> QED
      BY <1>1, <1>2, <2>1, <3>1, <3>3
  <2> QED
    BY <2>2, <2>3
<1>10. CASE Copied
  <2>1. /\ phase = "scan" /\ role = "base" /\ Fixed /\ held' = held /\ phase' = "md5"
        /\ at' = at /\ fh' = fh
    BY <1>10 DEF Copied
  <2>2. InTurn' /\ HeldInScan'
    BY <1>1, <1>3, <2>1 DEF InTurn, HeldInScan
  <2> QED
    BY <1>1, <1>2, <2>1, <2>2
<1>11. CASE ChecksumPage
  <2>1. PICK p, k, m, g, u :
          /\ p = fh.md5_page /\ k = fh /\ m = map_page(k, p)
          /\ g = (IF p = m.md5_page THEN Hashed(m, p, TRUE) ELSE m) /\ u = unmap_page(g, p)
    OBVIOUS
  <2>2. /\ phase = "md5" /\ role \notin {"in", "out"} /\ fh.md5_page <= last /\ Fixed
        /\ held' = held /\ at' = at /\ phase' = phase /\ fh' = u
    BY <1>11, <2>1, Zenon DEF ChecksumPage
  <2>3. held = None /\ p \in PageNo
    BY <1>1, <2>1, <2>2 DEF HeldInScan
  <2>4. Sound(k, None)
    BY <1>1, <2>1, <2>3
  <2>5. Sound(m, p)
    BY <1>1, <2>1, <2>3, <2>4, MapSound
  <2>6. IsHandle(m) /\ m.md5_page \in Nat
    BY <2>5 DEF Sound
  <2>7. Sound(g, p)
    <3>1. CASE p = m.md5_page
      <4>1. g = Hashed(m, p, TRUE)
        BY <2>1, <3>1
      <4>2. IsHandle(g) /\ SameCache(g, m) /\ g.md5_page = m.md5_page + 1
        BY <2>6, <4>1, HashedSame
      <4>3. g.md5_page \in Nat
        BY <2>6, <4>2
      <4> QED
        BY <2>5, <4>2, <4>3, SameSound, Zenon
    <3>2. CASE p # m.md5_page
      BY <2>1, <2>5, <3>2
    <3> QED
      BY <3>1, <3>2
  <2>8. Sound(u, None)
    BY <1>1, <2>1, <2>3, <2>7, UnmapSound
  <2>9. InTurn' /\ HeldInScan'
    BY <1>3, <2>2, <2>3 DEF InTurn, HeldInScan
  <2> QED
    BY <1>1, <1>2, <2>2, <2>3, <2>8, <2>9
<1>12. CASE ChecksumDone
  <2>1. Fixed /\ held' = held /\ phase' = "end" /\ at' = at /\ fh' = fh /\ phase = "md5"
        /\ role \notin {"in", "out"}
    BY <1>12 DEF ChecksumDone
  <2>2. InTurn' /\ HeldInScan'
    BY <1>1, <1>3, <2>1 DEF InTurn, HeldInScan
  <2> QED
    BY <1>1, <1>2, <2>1, <2>2
\* The streams change nothing but what has been hashed.
<1>13. ASSUME Fixed, role \in {"in", "out"}, held' = held, at' \in Nat,
              phase' \in {"scan", "end"}, IsHandle(fh'), SameCache(fh', fh),
              fh'.md5_page = fh.md5_page
       PROVE  PInv'
  <2>1. held = None
    BY <1>1, <1>13 DEF HeldInScan
  <2>2. PICK k, u : k = fh /\ u = fh'
    OBVIOUS
  <2>3. Sound(k, None) /\ IsHandle(u) /\ SameCache(u, k) /\ u.md5_page \in Nat
    BY <1>1, <1>13, <2>1, <2>2
  <2>4. Sound(u, None)
    BY <2>3, SameSound, Zenon
  <2>5. InTurn' /\ HeldInScan'
    BY <1>3, <1>13, <2>1 DEF InTurn, HeldInScan
  <2> QED
    BY <1>1, <1>2, <1>13, <2>1, <2>2, <2>4, <2>5
<1>14. IsHandle(fh)
  BY <1>1 DEF Sound
<1>15. CASE Narrow
  <2>1. PICK k, x, y, a, f : k = fh /\ y = edsio_md5_init /\ a = Updated(fh, HeaderBytes)
                             /\ x = (IF no_verify THEN k.ctx
                                     ELSE edsio_md5_update(k.ctx, HeaderBytes))
                             /\ f = [a EXCEPT !.ctx = y]
    OBVIOUS
  <2>2. a = [k EXCEPT !.ctx = x]
    BY <2>1, Zenon DEF Updated
  <2>3. IsHandle(f) /\ SameCache(f, k) /\ f.md5_page = k.md5_page
    BY <1>14, <2>1, <2>2 DEF IsHandle, SameCache
  <2>4. role = "in" /\ fh' = f /\ phase' = "scan" /\ Fixed /\ held' = held /\ at' = at
    BY <1>15, <2>1, Zenon DEF Narrow
  <2> QED
    BY <1>1, <1>13, <2>1, <2>3, <2>4
<1>16. CASE CloseHeader
  <2>1. PICK k, x, y, v, w, a, b, f :
          /\ k = fh /\ y = edsio_md5_init /\ a = Updated(fh, HeaderBytes)
          /\ x = (IF no_verify THEN k.ctx ELSE edsio_md5_update(k.ctx, HeaderBytes))
          /\ v = edsio_md5_final(a.ctx) /\ w = zeroized
          /\ b = Final(a) /\ f = [b EXCEPT !.ctx = y]
    OBVIOUS
  <2>2. a = [k EXCEPT !.ctx = x] /\ b = [a EXCEPT !.md5 = v, !.ctx = w]
    BY <2>1, Zenon DEF Updated, Final
  <2>3. IsHandle(f) /\ SameCache(f, k) /\ f.md5_page = k.md5_page
    <3>1. IsHandle(a) /\ SameCache(a, k) /\ a.md5_page = k.md5_page
      BY <1>14, <2>1, <2>2 DEF IsHandle, SameCache
    <3>2. IsHandle(b) /\ SameCache(b, a) /\ b.md5_page = a.md5_page
      BY <2>2, <3>1 DEF IsHandle, SameCache
    <3>3. IsHandle(f) /\ SameCache(f, b) /\ f.md5_page = b.md5_page
      BY <2>1, <3>2 DEF IsHandle, SameCache
    <3> QED BY <3>1, <3>2, <3>3 DEF SameCache
  <2>4. role = "out" /\ fh' = f /\ phase' = "scan" /\ Fixed /\ held' = held /\ at' = at
    BY <1>16, <2>1, Zenon DEF CloseHeader
  <2> QED
    BY <1>1, <1>13, <2>1, <2>3, <2>4
<1>17. ASSUME NEW n \in 1..length, Piece(n) PROVE PInv'
  <2>1. PICK k, s, x, a : k = fh /\ s = SubSeq(File, at + 1, at + n) /\ a = Updated(k, s)
                          /\ x = (IF no_verify THEN k.ctx ELSE edsio_md5_update(k.ctx, s))
    OBVIOUS
  <2>2. a = [k EXCEPT !.ctx = x]
    BY <2>1, Zenon DEF Updated
  <2>3. IsHandle(a) /\ SameCache(a, k) /\ a.md5_page = k.md5_page
    BY <1>14, <2>1, <2>2 DEF IsHandle, SameCache
  <2>4. /\ role \in {"in", "out"} /\ fh' = a /\ phase = "scan" /\ Fixed /\ held' = held
        /\ at' = at + n /\ phase' = phase
    BY <1>17, <2>1, Zenon DEF Piece
  <2>5. at + n \in Nat
    BY <1>1
  <2> QED
    BY <1>13, <2>1, <2>3, <2>4, <2>5
<1>18. CASE Streamed
  <2>1. PICK k, y, v, w, b, f :
          /\ k = fh /\ y = edsio_md5_init /\ v = edsio_md5_final(k.ctx) /\ w = zeroized
          /\ b = Final(k) /\ f = [b EXCEPT !.ctx = y]
    OBVIOUS
  <2>2. b = [k EXCEPT !.md5 = v, !.ctx = w]
    BY <2>1, Zenon DEF Final
  <2>3. /\ IsHandle(f) /\ SameCache(f, k) /\ f.md5_page = k.md5_page
        /\ IsHandle(b) /\ SameCache(b, k) /\ b.md5_page = k.md5_page
    BY <1>14, <2>1, <2>2 DEF IsHandle, SameCache
  <2>4. /\ role \in {"in", "out"} /\ (fh' = f \/ fh' = b) /\ Fixed /\ held' = held
        /\ at' = at /\ phase' = "end"
    BY <1>18, <2>1, Zenon DEF Streamed
  <2> QED
    BY <1>1, <1>13, <2>1, <2>3, <2>4
<1> QED
  BY <1>c, <1>d, <1>4, <1>5, <1>6, <1>7, <1>8, <1>9, <1>10, <1>11, <1>12, <1>15, <1>16,
     <1>17, <1>18, Zenon DEF Next
LEMMA SoundPages == PInv => PagesAreSound
<1> SUFFICES ASSUME PInv, phase # "failed"
             PROVE  ListIsSound /\ WithinTheBound /\ HeldStaysMapped
  BY DEF PagesAreSound
<1>1. /\ Lists(fh, fh.mapped) /\ ~fh.aborted /\ Cardinality(fh.mapped) <= max_mapped_pages
      /\ fh.refs = [p \in PageNo |-> IF p = held THEN 1 ELSE 0]
      /\ held \in fh.mapped \cup {None} /\ None \notin PageNo
      /\ role = "to" => fh.mapped \subseteq {held}
  BY DEF PInv, Sound, PageNo, None
<1>2. PICK rank, lo, hi : Chain(PageNo, fh.next, fh.prev, fh.head, fh.tail, fh.mapped, rank, lo, hi)
  BY <1>1 DEF Lists
<1>3. /\ fh.mapped \subseteq PageNo
      /\ fh.head \in fh.mapped \cup {None} /\ fh.tail \in fh.mapped \cup {None}
      /\ fh.mapped # {} => fh.head # None /\ fh.tail # None
      /\ \A p \in PageNo \ fh.mapped : fh.next[p] = None /\ fh.prev[p] = None
  BY <1>2 DEF Chain
<1>4. ASSUME NEW p \in fh.mapped
      PROVE  /\ p = fh.head => fh.next[p] = None
             /\ p # fh.head => \E q \in fh.mapped : Linked(q, p)
             /\ p = fh.tail => fh.prev[p] = None
             /\ p # fh.tail => \E q \in fh.mapped : Linked(p, q)
  BY <1>2 DEF Chain, Linked
<1>5. ListIsSound
  <2>1. (fh.mapped = {} <=> fh.head = None) /\ (fh.mapped = {} <=> fh.tail = None)
    BY <1>1, <1>3
  <2> QED
    BY <1>3, <1>4, <2>1 DEF ListIsSound
<1>6. WithinTheBound
  BY <1>1 DEF WithinTheBound
<1>7. HeldStaysMapped
  BY <1>1, <1>3 DEF HeldStaysMapped
<1> QED
  BY <1>5, <1>6, <1>7

(* The pages xdelta has mapped are the pages of its list, however long the  *)
(* file is and whatever pages are asked for: no more of them than there may *)
(* be, none of them freed under the client, and the assertion of            *)
(* xd_handle_map_page about the room never fires.                           *)
THEOREM PagesStaySound == Spec => []PagesAreSound
<1>1. Init => PInv
  BY Initially
<1>2. PInv /\ [Next]_vars => PInv'
  BY Onward
<1>3. PInv => PagesAreSound
  BY SoundPages
<1> QED
  BY <1>1, <1>2, <1>3, PTL DEF Spec
=============================================================================
