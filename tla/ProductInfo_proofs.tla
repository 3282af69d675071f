------------------------- MODULE ProductInfo_proofs -------------------------
(***************************************************************************)
(* Proofs about the version of a product: that it is found where it stands *)
(* and stamped without touching anything else, that what was stamped is    *)
(* read back by every later run, and that a patch is applied to no other   *)
(* product than it names, and to none it has been applied to.              *)
(*                                                                         *)
(* update_version searches the file as get_product_version did, each in a  *)
(* copy of its own.  The argument compares the two searches: the turns of  *)
(* one form a trail (Trail), the stamp keeps the trail that led to it, and *)
(* a later search of that file can only follow it.                         *)
(***************************************************************************)
EXTENDS ProductInfo, WellFoundedInduction, SequenceTheorems, TLAPS

(* A search: what has been cut, where it is, and whether behind a key. *)
Search == [cuts : SUBSET Nat, ptr : Nat \ {0}, key : BOOLEAN]
Now == [cuts |-> cuts, ptr |-> ptr, key |-> have_key]
Fresh == [cuts |-> {}, ptr |-> 1, key |-> FALSE]

(* parse_xml as a relation: from tag to end is the first element in doc from
   s.ptr on, and no NUL stands before its end. *)
Element(doc, s, tag, end) ==
    /\ tag \in s.ptr..Len(doc) /\ end \in (tag + 1)..Len(doc)
    /\ doc[tag].t = "open" /\ doc[end] = Close(doc[tag].v)
    /\ \A j \in s.ptr..(tag - 1) : doc[j].t # "open"
    /\ \A j \in (tag + 1)..(end - 1) : doc[j] # Close(doc[tag].v)
    /\ \A c \in s.cuts : c < s.ptr \/ end < c

Shows(doc, s, tag, end) ==
    Element(doc, s, tag, end) /\ s.key /\ doc[tag].v = "string"

(* The text of an element is one of the keys. *)
NamesKey(doc, tag, end, keys) ==
    /\ doc[tag].v = "key" /\ end = tag + 2
    /\ doc[tag + 1].t = "text" /\ doc[tag + 1].v \in keys

(* The search stands right behind one of the keys. *)
BehindKey(doc, p, keys) ==
    /\ p \in 4..(Len(doc) + 1)
    /\ doc[p - 1] = Close("key")
    /\ doc[p - 2].t = "text" /\ doc[p - 2].v \in keys

(* One turn of find_info_plist_version. *)
Turn(doc, s, u) ==
    \E tag, end \in 1..Len(doc) :
       /\ Element(doc, s, tag, end)
       /\ ~(s.key /\ doc[tag].v = "string")
       /\ u = [cuts |-> s.cuts \cup {end},
               ptr |-> IF doc[tag].v \in {"plist", "dict"} THEN tag + 1 ELSE end + 1,
               key |-> NamesKey(doc, tag, end, VersionKeys)]

(* The turns of a search from its start. *)
Trail(doc, tr) ==
    /\ tr \in Seq(Search) /\ tr # << >>
    /\ tr[1] = Fresh
    /\ \A m \in 1..(Len(tr) - 1) : Turn(doc, tr[m], tr[m + 1])

(* A trail that ends at a version. *)
Finds(doc, tr, version) ==
    /\ Trail(doc, tr)
    /\ \E tag, end \in 1..Len(doc) :
          /\ Shows(doc, tr[Len(tr)], tag, end)
          /\ end = tag + 2 /\ doc[tag + 1] = Text(version)

(* A document that differs from another in texts of versions only. *)
SameBut(doc, orig) ==
    /\ doc \in Seq(Token) /\ Len(doc) = Len(orig)
    /\ \A i \in 1..Len(doc) :
          \/ doc[i] = orig[i]
          \/ doc[i].t = "text" /\ orig[i].t = "text" /\ i \in Texts(orig, VersionKeys)

----------------------------------------------------------------------------
(* The inductive invariant. *)

Placed == at \in {"open", "identifier", "version", "check", "operations", "update",
                  "unstamped"}
KeysOf == IF at = "identifier" THEN IdKeys ELSE VersionKeys

(* The string of an element without a text. *)
NoText == ""
Application ==
    [k : Nat, dir : Dirs, ver : STRING \cup {None, NoText}, consent : BOOLEAN, run : Nat]
Types ==
    /\ TypeOK
    /\ Placed => cwd \in Dirs
    /\ ver \in STRING \cup {None, NoText}
    /\ stamped \in [Dirs -> STRING \cup {None}]
    /\ \A d \in torn : stamped[d] = None
    /\ applied \in Seq(Application)

(* Every file that no stamp has torn is as it was installed but for its version. *)
Unaltered ==
    /\ plist \in [Dirs -> Seq(Token)]
    /\ \A d \in Dirs \ torn : SameBut(plist[d], InfoPlists[d])

(* A key that was noticed stands right before the search. *)
KeyNoticed == Searching /\ have_key => BehindKey(Doc, ptr, KeysOf)

(* The place is the right one, or the user has said so. *)
Identified == at \in {"version", "check", "operations"} =>
    \/ consent \/ cwd \in torn
    \/ \E j \in Texts(InfoPlists[cwd], IdKeys) : InfoPlists[cwd][j].v = Header.identifier

(* The search for a version has a trail; a stamp lies at the end of one; and a
   search of a stamped file is on that trail. *)
OnTrail ==
    /\ at = "update" => \E tr : Trail(Doc, tr) /\ tr[Len(tr)] = Now
    /\ \A d \in Dirs : stamped[d] # None => \E tr : Finds(plist[d], tr, stamped[d])
    /\ at = "version" /\ stamped[cwd] # None =>
           \E tr : Finds(Doc, tr, stamped[cwd]) /\ \E m \in 1..Len(tr) : tr[m] = Now

(* The version that was read is the one that was stamped, if one was; and it is
   not the new one. *)
ReadBack ==
    /\ at \in {"check", "operations"} /\ stamped[cwd] # None => ver = stamped[cwd]
    /\ at = "operations" => Header.version.kind = "any" \/ ver # Header.newversion
    /\ at = "update" => Header.newversion # ""

(* While an entry of the top dict lies ahead, the search is not yet in it, or
   right before its value; and nothing is cut up from there on but at the ends
   of what the search is in. *)
Ahead(doc, s, i) ==
    /\ s.ptr <= i - 4 \/ (s.ptr = i - 1 /\ s.key)
    /\ \A c \in s.cuts : c < s.ptr \/
          \E o \in 1..(s.ptr - 1) :
             /\ doc[o] \in {Open("plist"), Open("dict")}
             /\ c \in (o + 1)..Len(doc) /\ doc[c] = Close(doc[o].v)
NotPassed ==
    at = "version" /\ cwd \notin torn =>
      \A i \in Texts(Doc, VersionKeys) :
         (\E j \in 1..i : Doc[j] = Close("dict")) \/ Ahead(Doc, Now, i)

InfoInv == /\ Types /\ Unaltered /\ KeyNoticed /\ Identified
           /\ OnTrail /\ ReadBack /\ NotPassed /\ WrongPlaceNeedsConsent
----------------------------------------------------------------------------
(* The reader of XML. *)

(* A set of numbers has a first one. *)
LEMMA FirstIsLeast ==
    ASSUME NEW S \in SUBSET Nat, S # {}
    PROVE  FirstIn(S) \in S /\ \A j \in S : FirstIn(S) <= j
  <1> DEFINE R == OpToRel(<, Nat)
  <1>1. IsWellFoundedOn(R, Nat)
    BY NatLessThanWellFounded
  <1> HIDE DEF R
  <1>2. PICK x \in S : \A y \in S : ~(<<y, x>> \in R)
    BY <1>1, WFMin, Zenon
  <1>3. ASSUME NEW y \in S
        PROVE  x <= y
    <2>1. ~(<<y, x>> \in R)
      BY <1>2, Zenon
    <2>2. ~(y < x)
      BY <2>1 DEF R, OpToRel
    <2> QED BY <2>2
  <1> QED BY <1>3 DEF FirstIn

(* Where parse_xml stops: before every NUL from its start on. *)
LEMMA EndIsNearest ==
    ASSUME Doc \in Seq(Token), cuts \subseteq 1..Len(Doc), NEW p \in Nat
    PROVE  /\ EndOf(p) \in 1..(Len(Doc) + 1)
           /\ \A j \in p..Len(Doc) : j < EndOf(p) <=> \A c \in cuts : c < p \/ j < c
  <1> DEFINE nul == {c \in cuts : c >= p}
  <1>1. Len(Doc) \in Nat
    OBVIOUS
  <1>2. CASE nul = {}
    <2>1. EndOf(p) = Len(Doc) + 1
      BY <1>2 DEF EndOf
    <2> QED BY <1>1, <1>2, <2>1
  <1>3. CASE nul # {}
    <2>1. nul \in SUBSET Nat
      <3>1. ASSUME NEW c \in nul PROVE c \in Nat
        <4>1. c \in 1..Len(Doc)
          OBVIOUS
        <4> QED BY <1>1, <4>1
      <3> QED BY <3>1
    <2>2. FirstIn(nul) \in nul /\ \A d \in nul : FirstIn(nul) <= d
      BY <1>3, <2>1, FirstIsLeast
    <2>3. EndOf(p) = FirstIn(nul)
      BY <1>3 DEF EndOf, FirstIn
    <2> DEFINE f == FirstIn(nul)
    <2> HIDE DEF f
    <2>4. f \in cuts /\ f >= p /\ \A d \in cuts : d >= p => f <= d
      BY <2>2 DEF f
    <2>5. f \in 1..Len(Doc) /\ \A c \in cuts : c \in 1..Len(Doc)
      BY <2>4
    <2>6. \A j \in p..Len(Doc) : j < f <=> \A c \in cuts : c < p \/ j < c
      BY <1>1, <2>4, <2>5
    <2> QED BY <1>1, <2>3, <2>5, <2>6 DEF f
  <1> QED BY <1>2, <1>3

(* There is only one next element. *)
LEMMA ElementIsUnique ==
    ASSUME NEW doc \in Seq(Token), NEW s \in Search, NEW t, NEW e, NEW t2, NEW e2,
           Element(doc, s, t, e), Element(doc, s, t2, e2)
    PROVE  t = t2 /\ e = e2
  <1>1. s.ptr \in Nat /\ Len(doc) \in Nat
    BY DEF Search
  <1>2. t = t2
    BY <1>1 DEF Element
  <1> QED BY <1>1, <1>2 DEF Element

(* parse_xml finds the next element, and whatever is one. *)
LEMMA ParseIsElement ==
    ASSUME Doc \in Seq(Token), cuts \subseteq 1..Len(Doc), ptr \in Nat \ {0}, have_key \in BOOLEAN
    PROVE  /\ parse_xml(ptr).found =>
                Element(Doc, Now, parse_xml(ptr).tag, parse_xml(ptr).end)
           /\ \A t, e : Element(Doc, Now, t, e) =>
                parse_xml(ptr).found /\ parse_xml(ptr).tag = t /\ parse_xml(ptr).end = e
  <1>b. ptr \in Nat
    OBVIOUS
  <1>a. /\ EndOf(ptr) \in 1..(Len(Doc) + 1)
        /\ \A j \in ptr..Len(Doc) : j < EndOf(ptr) <=> \A c \in cuts : c < ptr \/ j < c
    BY <1>b, EndIsNearest, Zenon
  <1> DEFINE stop   == EndOf(ptr)
             opens  == {i \in ptr..(stop - 1) : Doc[i].t = "open"}
             tag    == FirstIn(opens)
             closes == {j \in (tag + 1)..(stop - 1) : Doc[j] = Close(Doc[tag].v)}
  <1>c. Len(Doc) \in Nat
    OBVIOUS
  <1>1. /\ stop \in 1..(Len(Doc) + 1) /\ Len(Doc) \in Nat
        /\ \A j \in ptr..Len(Doc) : j < stop <=> \A c \in cuts : c < ptr \/ j < c
    BY <1>a, <1>c, Zenon
  <1>2. Now.cuts = cuts /\ Now.ptr = ptr
    BY DEF Now
  <1>3. parse_xml(ptr) = IF opens = {} \/ closes = {}
                           THEN [found |-> FALSE, tag |-> 0, end |-> 0]
                           ELSE [found |-> TRUE, tag |-> tag, end |-> FirstIn(closes)]
    BY DEF parse_xml
  <1> HIDE DEF stop, opens, tag, closes
  <1>0. opens \in SUBSET Nat /\ (tag \in Nat => closes \in SUBSET Nat)
    BY <1>1 DEF opens, closes
  <1>4. opens # {} => tag \in opens /\ \A i \in opens : tag <= i
    BY <1>0, FirstIsLeast DEF tag
  <1>5. opens # {} /\ closes # {} =>
            FirstIn(closes) \in closes /\ \A j \in closes : FirstIn(closes) <= j
    <2>1. opens # {} => tag \in Nat
      BY <1>0, <1>4
    <2> QED BY <1>0, <2>1, FirstIsLeast
  <1>6. ASSUME parse_xml(ptr).found
        PROVE  Element(Doc, Now, parse_xml(ptr).tag, parse_xml(ptr).end)
    <2> DEFINE end == FirstIn(closes)
    <2>1. opens # {} /\ closes # {} /\ parse_xml(ptr).tag = tag /\ parse_xml(ptr).end = end
      BY <1>3, <1>6 DEF end
    <2> HIDE DEF end
    <2>2. /\ tag \in ptr..(stop - 1) /\ Doc[tag].t = "open"
          /\ \A j \in ptr..(tag - 1) : Doc[j].t # "open"
      BY <2>1, <1>1, <1>4 DEF opens
    <2>3. /\ end \in (tag + 1)..(stop - 1) /\ Doc[end] = Close(Doc[tag].v)
          /\ \A j \in (tag + 1)..(end - 1) : Doc[j] # Close(Doc[tag].v)
      <3>1. end \in closes /\ \A j \in closes : end <= j
        BY <2>1, <1>5 DEF end
      <3>2. \A j : j \in closes <=> j \in (tag + 1)..(stop - 1) /\ Doc[j] = Close(Doc[tag].v)
        BY DEF closes
      <3>3. tag \in Nat /\ stop \in Nat /\ end \in (tag + 1)..(stop - 1)
        BY <2>2, <1>1, <3>1, <3>2
      <3>4. ASSUME NEW j \in (tag + 1)..(end - 1)
            PROVE  Doc[j] # Close(Doc[tag].v)
        <4>1. j \in (tag + 1)..(stop - 1) /\ ~(end <= j)
          BY <3>3
        <4> QED BY <4>1, <3>1, <3>2
      <3> QED BY <3>1, <3>2, <3>3, <3>4
    <2>4. \A c \in cuts : c < ptr \/ end < c
      BY <2>2, <2>3, <1>1
    <2>5. tag \in ptr..Len(Doc) /\ end \in (tag + 1)..Len(Doc)
      BY <1>1, <2>2, <2>3
    <2> QED BY <2>1, <2>2, <2>3, <2>4, <2>5, <1>2 DEF Element
  <1>7. ASSUME NEW t, NEW e, Element(Doc, Now, t, e)
        PROVE  parse_xml(ptr).found /\ parse_xml(ptr).tag = t /\ parse_xml(ptr).end = e
    <2>1. t \in ptr..Len(Doc) /\ e \in (t + 1)..Len(Doc) /\ \A c \in cuts : c < ptr \/ e < c
      BY <1>2, <1>7 DEF Element
    <2>2. e < stop /\ t < stop
      BY <1>1, <2>1
    <2>3. t \in opens /\ \A i \in opens : t <= i
      BY <1>1, <1>2, <1>7, <2>1, <2>2 DEF Element, opens
    <2>4. tag = t
      <3>1. tag \in opens /\ tag <= t /\ t <= tag
        BY <1>4, <2>3
      <3>2. t \in Nat /\ tag \in Nat
        BY <1>0, <2>3, <3>1
      <3> QED BY <3>1, <3>2
    <2>a. t \in Nat /\ e \in Nat /\ tag \in Nat
      BY <1>1, <2>1, <2>4
    <2>5. e \in closes /\ \A j \in closes : e <= j
      BY <1>1, <1>2, <1>7, <2>1, <2>2, <2>4 DEF Element, closes
    <2>6. FirstIn(closes) = e
      <3>1. FirstIn(closes) \in closes /\ FirstIn(closes) <= e /\ e <= FirstIn(closes)
        BY <1>5, <2>3, <2>5
      <3>2. FirstIn(closes) \in Nat
        BY <1>0, <2>a, <3>1
      <3> QED BY <2>a, <3>1, <3>2
    <2> QED BY <1>3, <2>3, <2>4, <2>5, <2>6
  <1> QED BY <1>6, <1>7

----------------------------------------------------------------------------
(* Documents and their versions. *)

(* What is no text of a version is the same; and so all markup is. *)
LEMMA SameTokens ==
    ASSUME NEW orig \in Seq(Token), NEW doc, SameBut(doc, orig), NEW i \in 1..Len(doc)
    PROVE  /\ i \in 1..Len(orig)
           /\ doc[i].t = orig[i].t
           /\ doc[i].t # "text" => doc[i] = orig[i]
           /\ orig[i].t # "text" => doc[i] = orig[i]
           /\ i \notin Texts(orig, VersionKeys) => doc[i] = orig[i]
  BY DEF SameBut

(* The text of a key is the text of no version. *)
LEMMA KeyIsKept ==
    ASSUME NEW orig \in Seq(Token), NEW doc, SameBut(doc, orig), NEW i \in 1..(Len(doc) - 1),
           doc[i + 1] = Close("key") \/ orig[i + 1] = Close("key")
    PROVE  doc[i] = orig[i] /\ doc[i + 1] = orig[i + 1]
  <1>1. Len(doc) \in Nat /\ Len(doc) = Len(orig)
    BY DEF SameBut
  <1>2. i \in 1..Len(doc) /\ i + 1 \in 1..Len(doc)
    BY <1>1
  <1>3. doc[i + 1] = orig[i + 1] /\ orig[i + 1] = Close("key")
    BY <1>2, SameTokens DEF Close
  <1>4. i \notin Texts(orig, VersionKeys)
    BY <1>3 DEF Texts, Close
  <1> QED BY <1>2, <1>3, <1>4, SameTokens

LEMMA SameTexts ==
    ASSUME NEW orig \in Seq(Token), NEW doc, SameBut(doc, orig), NEW keys
    PROVE  Texts(doc, keys) = Texts(orig, keys)
  <1>1. Len(doc) \in Nat /\ Len(doc) = Len(orig)
    BY DEF SameBut
  <1>2. ASSUME NEW i \in 5..(Len(doc) - 1)
        PROVE  i \in Texts(doc, keys) <=> i \in Texts(orig, keys)
    <2>1. /\ i - 1 \in 1..Len(doc) /\ i + 1 \in 1..Len(doc) /\ i - 2 \in 1..Len(doc)
          /\ i - 3 \in 1..(Len(doc) - 1) /\ (i - 3) + 1 = i - 2
      BY <1>1
    <2>2. doc[i - 1] = Open("string") <=> orig[i - 1] = Open("string")
      BY <2>1, SameTokens DEF Open
    <2>3. doc[i + 1] = Close("string") <=> orig[i + 1] = Close("string")
      BY <2>1, SameTokens DEF Close
    <2>4. doc[i - 2] = Close("key") <=> orig[i - 2] = Close("key")
      BY <2>1, SameTokens DEF Close
    <2>5. ASSUME doc[i - 2] = Close("key")
          PROVE  doc[i - 3] = orig[i - 3]
      <3>1. doc[(i - 3) + 1] = Close("key")
        BY <2>1, <2>5
      <3> QED BY <2>1, <3>1, KeyIsKept, Zenon
    <2> QED BY <1>1, <2>2, <2>3, <2>4, <2>5, SMTT(30) DEF Texts
  <1> QED BY <1>1, <1>2 DEF Texts

LEMMA SameKeysAreWhole ==
    ASSUME NEW orig \in Seq(Token), NEW doc, SameBut(doc, orig), KeysAreWhole(orig)
    PROVE  KeysAreWhole(doc)
  <1>1. Len(doc) \in Nat /\ Len(doc) = Len(orig)
    BY DEF SameBut
  <1>2. SUFFICES ASSUME NEW i \in 2..(Len(doc) - 1), doc[i].t = "text", doc[i + 1] = Close("key")
                 PROVE  /\ doc[i - 1] = Open("key")
                        /\ doc[i].v \in VersionKeys \cup IdKeys =>
                             /\ i + 4 <= Len(doc)
                             /\ doc[i + 2] = Open("string") /\ doc[i + 3].t = "text"
                             /\ doc[i + 4] = Close("string")
    BY DEF KeysAreWhole
  <1>3. doc[i] = orig[i] /\ doc[i + 1] = orig[i + 1]
    <2>1. i \in 1..(Len(doc) - 1)
      BY <1>1
    <2> QED BY <1>2, <2>1, KeyIsKept
  <1>4. /\ orig[i - 1] = Open("key")
        /\ orig[i].v \in VersionKeys \cup IdKeys =>
             /\ i + 4 <= Len(orig)
             /\ orig[i + 2] = Open("string") /\ orig[i + 3].t = "text"
             /\ orig[i + 4] = Close("string")
    BY <1>1, <1>2, <1>3 DEF KeysAreWhole
  <1>5. doc[i - 1] = orig[i - 1]
    <2>1. i - 1 \in 1..Len(doc)
      BY <1>1
    <2> QED BY <2>1, <1>4, SameTokens DEF Open
  <1>6. CASE doc[i].v \in VersionKeys \cup IdKeys
    <2>1. i + 2 \in 1..Len(doc) /\ i + 3 \in 1..Len(doc) /\ i + 4 \in 1..Len(doc)
      BY <1>1, <1>3, <1>4, <1>6
    <2>2. doc[i + 2] = orig[i + 2] /\ doc[i + 4] = orig[i + 4]
      BY <2>1, <1>3, <1>4, <1>6, SameTokens DEF Open, Close
    <2>3. doc[i + 3].t = "text"
      BY <2>1, <1>3, <1>4, <1>6, SameTokens
    <2> QED BY <1>1, <1>3, <1>4, <1>5, <1>6, <2>2, <2>3
  <1> QED BY <1>4, <1>5, <1>6

LEMMA SameAtTheTop ==
    ASSUME NEW orig \in Seq(Token), NEW doc, SameBut(doc, orig), VersionsAtTheTop(orig)
    PROVE  VersionsAtTheTop(doc)
  <1>1. Len(doc) \in Nat /\ Len(doc) = Len(orig)
    BY DEF SameBut
  <1>2. \A j \in 1..Len(doc) : \A v :
           /\ doc[j] = Open(v) <=> orig[j] = Open(v)
           /\ doc[j] = Close(v) <=> orig[j] = Close(v)
           /\ doc[j].t = orig[j].t
           /\ doc[j].t = "open" => doc[j].v = orig[j].v
    BY SameTokens DEF Open, Close
  <1>3. SUFFICES ASSUME NEW i \in Texts(doc, VersionKeys),
                        ~ \E j \in 1..i : doc[j] = Close("dict")
                 PROVE  AtTheTop(doc, i)
    BY DEF VersionsAtTheTop
  <1>4. i \in Texts(orig, VersionKeys) /\ i \in 5..(Len(doc) - 1)
    <2>1. Texts(doc, VersionKeys) = Texts(orig, VersionKeys)
      BY SameTexts
    <2> QED BY <2>1 DEF Texts
  <1>5. AtTheTop(orig, i)
    BY <1>1, <1>2, <1>3, <1>4 DEF VersionsAtTheTop
  <1>6. ASSUME NEW j \in 1..(i - 5), doc[j].t = "open", doc[j].v \notin {"plist", "dict"}
        PROVE  \E c \in (j + 1)..(i - 5) : doc[c] = Close(doc[j].v)
    <2>1. j \in 1..Len(doc)
      BY <1>1, <1>4
    <2>2. orig[j].t = "open" /\ orig[j].v = doc[j].v
      BY <1>2, <1>6, <2>1
    <2>3. PICK c \in (j + 1)..(i - 5) : orig[c] = Close(doc[j].v)
      BY <1>5, <1>6, <2>2 DEF AtTheTop
    <2> QED BY <1>1, <1>2, <1>4, <2>3
  <1>7. ASSUME NEW j \in 1..i, NEW h \in 1..(j - 1)
        PROVE  /\ doc[j] = Open("dict") => doc[h] # Open("dict")
               /\ doc[j] = Open("plist") => doc[h] \notin {Open("plist"), Open("dict")}
    <2>1. j \in 1..Len(doc) /\ h \in 1..Len(doc)
      BY <1>1, <1>4
    <2> QED BY <1>2, <1>5, <2>1 DEF AtTheTop
  <1>8. PICK x \in (i + 2)..Len(doc) :
           /\ orig[x] = Close("dict")
           /\ \E y \in (x + 1)..Len(doc) : orig[y] = Close("plist")
           /\ \A h \in 1..x : orig[h] # Close("plist")
    BY <1>1, <1>5 DEF AtTheTop
  <1>9. /\ doc[x] = Close("dict")
        /\ \E y \in (x + 1)..Len(doc) : doc[y] = Close("plist")
        /\ \A h \in 1..x : doc[h] # Close("plist")
    BY <1>1, <1>2, <1>4, <1>8
  <1> QED BY <1>6, <1>7, <1>9 DEF AtTheTop

(* The places around the text at p + 1. *)
LEMMA AroundText ==
    ASSUME NEW p \in Nat, NEW l \in Nat, p >= 4, p + 2 <= l
    PROVE  /\ (p + 1) - 1 = p /\ (p + 1) + 1 = p + 2 /\ (p + 1) - 2 = p - 1
           /\ (p + 1) - 3 = p - 2 /\ p + 1 \in 5..(l - 1)
  OBVIOUS

(* The value a search finds behind a key is the text of one of these keys. *)
LEMMA ValueIsText ==
    ASSUME NEW doc \in Seq(Token), NEW s \in Search, NEW t, NEW e,
           NEW keys \in SUBSET (VersionKeys \cup IdKeys),
           KeysAreWhole(doc), BehindKey(doc, s.ptr, keys), Element(doc, s, t, e)
    PROVE  /\ t = s.ptr /\ e = t + 2
           /\ doc[t] = Open("string") /\ doc[t + 1].t = "text"
           /\ t + 1 \in Texts(doc, keys)
  <1>1. Len(doc) \in Nat /\ s.ptr \in Nat
    BY DEF Search
  <1> DEFINE p == s.ptr
  <1>2. /\ p \in 4..(Len(doc) + 1) /\ doc[p - 1] = Close("key")
        /\ doc[p - 2].t = "text" /\ doc[p - 2].v \in keys
    BY DEF BehindKey
  <1>a. t \in p..Len(doc)
    BY DEF Element
  <1> HIDE DEF p
  <1>3. p - 2 \in 2..(Len(doc) - 1) /\ (p - 2) + 1 = p - 1
    BY <1>1, <1>2, <1>a
  <1>4. /\ doc[(p - 2) - 1] = Open("key") /\ (p - 2) + 4 <= Len(doc)
        /\ doc[(p - 2) + 2] = Open("string") /\ doc[(p - 2) + 3].t = "text"
        /\ doc[(p - 2) + 4] = Close("string")
    BY <1>2, <1>3 DEF KeysAreWhole
  <1>5. (p - 2) + 4 = p + 2 /\ (p - 2) + 2 = p /\ (p - 2) + 3 = p + 1
    BY <1>2
  <1>6. /\ p + 2 <= Len(doc) /\ doc[p] = Open("string")
        /\ doc[p + 1].t = "text" /\ doc[p + 2] = Close("string")
    BY <1>4, <1>5
  <1>7. /\ \A j \in p..(t - 1) : doc[j].t # "open"
        /\ e \in (t + 1)..Len(doc) /\ doc[e] = Close(doc[t].v)
        /\ \A j \in (t + 1)..(e - 1) : doc[j] # Close(doc[t].v)
    BY DEF Element, p
  <1>8. t = p
    BY <1>1, <1>2, <1>6, <1>7, <1>a DEF Open
  <1>9. e = p + 2
    <2>1. doc[p].v = "string" /\ e # p + 1
      BY <1>6, <1>7, <1>8 DEF Open, Close
    <2>2. doc[p + 2] = Close(doc[t].v)
      BY <1>6, <1>8, <2>1
    <2>3. ~(p + 2 \in (p + 1)..(e - 1))
      BY <1>7, <1>8, <2>2
    <2>4. p \in Nat /\ Len(doc) \in Nat /\ e \in (p + 1)..Len(doc)
      BY <1>1, <1>7, <1>8 DEF p
    <2> QED BY <2>1, <2>3, <2>4
  <1>10. p + 1 \in Texts(doc, keys)
    <2>1. /\ (p + 1) - 1 = p /\ (p + 1) + 1 = p + 2 /\ (p + 1) - 2 = p - 1
          /\ (p + 1) - 3 = p - 2 /\ p + 1 \in 5..(Len(doc) - 1)
      <3>1. p \in Nat /\ Len(doc) \in Nat
        BY <1>1 DEF p
      <3>2. p >= 4 /\ p + 2 <= Len(doc)
        BY <1>2, <1>6, <3>1
      <3> QED BY <3>1, <3>2, AroundText
    <2> QED BY <1>2, <1>6, <2>1 DEF Texts
  <1> QED BY <1>6, <1>8, <1>9, <1>10 DEF p

(* The search goes on right behind the key it has seen. *)
LEMMA KeyIsBehind ==
    ASSUME NEW doc \in Seq(Token), NEW s \in Search, NEW t, NEW e, NEW keys,
           Element(doc, s, t, e), NamesKey(doc, t, e, keys)
    PROVE  BehindKey(doc, e + 1, keys)
  <1>1. /\ Len(doc) \in Nat /\ s.ptr \in Nat \ {0} /\ t \in s.ptr..Len(doc)
        /\ e \in (t + 1)..Len(doc) /\ doc[e] = Close(doc[t].v)
    BY DEF Search, Element
  <1>2. e = t + 2 /\ doc[t].v = "key" /\ doc[t + 1].t = "text" /\ doc[t + 1].v \in keys
    BY DEF NamesKey
  <1>3. (e + 1) - 1 = e /\ (e + 1) - 2 = t + 1 /\ e + 1 \in 4..(Len(doc) + 1)
    BY <1>1, <1>2
  <1> QED BY <1>1, <1>2, <1>3 DEF BehindKey

(* The text of a version may be replaced. *)
LEMMA StampIsSame ==
    ASSUME NEW orig \in Seq(Token), NEW doc, SameBut(doc, orig),
           NEW i \in Texts(doc, VersionKeys), doc[i].t = "text", NEW x \in STRING
    PROVE  SameBut([doc EXCEPT ![i] = Text(x)], orig)
  <1> DEFINE new == [doc EXCEPT ![i] = Text(x)]
  <1>1. doc \in Seq(Token) /\ Len(doc) = Len(orig) /\ Len(doc) \in Nat
    BY DEF SameBut
  <1>2. i \in 1..Len(doc)
    BY <1>1 DEF Texts
  <1>3. Text(x) \in Token
    BY DEF Text, Token
  <1>4. /\ new \in Seq(Token) /\ Len(new) = Len(doc)
        /\ new[i] = Text(x) /\ \A j \in 1..Len(doc) : j # i => new[j] = doc[j]
    BY <1>1, <1>2, <1>3
  <1>5. i \in Texts(orig, VersionKeys) /\ orig[i].t = "text"
    <2>1. Texts(doc, VersionKeys) = Texts(orig, VersionKeys)
      BY SameTexts
    <2> QED BY <1>2, <2>1, SameTokens
  <1> HIDE DEF new
  <1>6. ASSUME NEW j \in 1..Len(new)
        PROVE  \/ new[j] = orig[j]
               \/ new[j].t = "text" /\ orig[j].t = "text" /\ j \in Texts(orig, VersionKeys)
    <2>1. CASE j = i
      BY <1>4, <1>5, <2>1 DEF Text
    <2>2. CASE j # i
      BY <1>4, <1>6, <2>2 DEF SameBut
    <2> QED BY <2>1, <2>2
  <1>7. SameBut(new, orig)
    BY <1>1, <1>4, <1>6 DEF SameBut
  <1> QED BY <1>7 DEF new

(* Three sequences in a row. *)
LEMMA Concatenation ==
    ASSUME NEW a \in Seq(Token), NEW b \in Token, NEW c \in Seq(Token), NEW new \in Seq(Token),
           Len(new) = Len(a) + 1 + Len(c),
           \A j \in 1..Len(a) : new[j] = a[j],
           new[Len(a) + 1] = b,
           \A j \in 1..Len(c) : new[Len(a) + 1 + j] = c[j]
    PROVE  a \o << b >> \o c = new
  <1>1. /\ a \o << b >> \in Seq(Token) /\ Len(a \o << b >>) = Len(a) + 1
        /\ \A j \in 1..(Len(a) + 1) :
              (a \o << b >>)[j] = IF j <= Len(a) THEN a[j] ELSE b
    OBVIOUS
  <1>2. PICK ab : ab = a \o << b >>
    OBVIOUS
  <1>3. /\ ab \o c \in Seq(Token) /\ Len(ab \o c) = Len(new)
        /\ \A j \in 1..Len(new) :
              (ab \o c)[j] = IF j <= Len(ab) THEN ab[j] ELSE c[j - Len(ab)]
    BY <1>1, <1>2
  <1>4. ASSUME NEW j \in 1..Len(new)
        PROVE  (ab \o c)[j] = new[j]
    <2>1. CASE j <= Len(a)
      BY <1>1, <1>2, <1>3, <2>1
    <2>2. CASE j = Len(a) + 1
      BY <1>1, <1>2, <1>3, <2>2
    <2>3. CASE j > Len(a) + 1
      <3>1. Len(ab) = Len(a) + 1 /\ Len(a) \in Nat /\ Len(c) \in Nat /\ j \in Nat
        BY <1>1, <1>2
      <3>2. PICK m : m = j - Len(ab)
        OBVIOUS
      <3>3. m \in 1..Len(c) /\ Len(a) + 1 + m = j
        BY <2>3, <3>1, <3>2
      <3>4. new[j] = c[m]
        BY <3>3
      <3>5. (ab \o c)[j] = c[m]
        BY <1>3, <2>3, <3>1, <3>2
      <3> QED BY <3>4, <3>5
    <2>4. j <= Len(a) \/ j = Len(a) + 1 \/ j > Len(a) + 1
      <3>1. Len(a) \in Nat /\ Len(new) \in Nat
        OBVIOUS
      <3>2. \A l, n \in Nat : \A m \in 1..n : m <= l \/ m = l + 1 \/ m > l + 1
        OBVIOUS
      <3> QED BY <3>1, <3>2
    <2> QED BY <2>1, <2>2, <2>3, <2>4, Zenon
  <1>5. ab \o c = new
    BY <1>3, <1>4, SeqEqual
  <1> QED BY <1>2, <1>5

(* What update_version writes is the old file with another text. *)
LEMMA StampReplaces ==
    ASSUME NEW doc \in Seq(Token), NEW t \in 1..(Len(doc) - 2), NEW x \in STRING
    PROVE  SubSeq(doc, 1, t) \o << Text(x) >> \o SubSeq(doc, t + 2, Len(doc))
             = [doc EXCEPT ![t + 1] = Text(x)]
  <1>1. Len(doc) \in Nat /\ Text(x) \in Token
    BY DEF Text, Token
  <1>2. PICK a : a = SubSeq(doc, 1, t)
    OBVIOUS
  <1>3. PICK c : c = SubSeq(doc, t + 2, Len(doc))
    OBVIOUS
  <1>4. PICK b : b = Text(x)
    OBVIOUS
  <1>5. PICK new : new = [doc EXCEPT ![t + 1] = b]
    OBVIOUS
  <1>6. a \in Seq(Token) /\ Len(a) = t /\ \A j \in 1..t : a[j] = doc[j]
    BY <1>1, <1>2, SubSeqProperties
  <1>7. t + 2 \in 1..(Len(doc) + 1) /\ Len(doc) - (t + 2) + 1 = Len(doc) - (t + 1)
    BY <1>1
  <1>8. /\ c \in Seq(Token) /\ Len(c) = Len(doc) - (t + 1)
        /\ \A j \in 1..Len(c) : c[j] = doc[t + 2 + j - 1]
    BY <1>1, <1>3, <1>7, SubSeqProperties
  <1>9. /\ new \in Seq(Token) /\ Len(new) = Len(doc) /\ new[t + 1] = b
        /\ \A j \in 1..Len(doc) : j # t + 1 => new[j] = doc[j]
    <2>1. t + 1 \in 1..Len(doc)
      BY <1>1
    <2>2. b \in Token
      BY <1>1, <1>4, Zenon
    <2> QED BY <1>1, <1>5, <2>1, <2>2
  <1>10. ASSUME NEW j \in 1..Len(c) PROVE new[Len(a) + 1 + j] = c[j]
    <2>1. t + 2 + j - 1 = t + 1 + j /\ t + 1 + j \in 1..Len(doc) /\ t + 1 + j # t + 1
      BY <1>1, <1>8
    <2> QED BY <2>1, <1>6, <1>8, <1>9
  <1>11. Len(new) = Len(a) + 1 + Len(c)
    BY <1>1, <1>6, <1>8, <1>9
  <1>12. \A j \in 1..Len(a) : new[j] = a[j]
    BY <1>1, <1>6, <1>9
  <1>13. a \o << b >> \o c = new
    <2>1. b \in Token
      BY <1>1, <1>4
    <2> QED BY <2>1, <1>6, <1>8, <1>9, <1>10, <1>11, <1>12, Concatenation, Zenon
  <1> QED BY <1>2, <1>3, <1>4, <1>5, <1>13

(* A search is not disturbed by what stands in a string. *)
LEMMA StampKeepsElements ==
    ASSUME NEW doc \in Seq(Token), NEW new \in Seq(Token), Len(new) = Len(doc),
           NEW i \in 2..Len(doc), doc[i].t = "text", new[i].t = "text",
           \A j \in 1..Len(doc) : j # i => new[j] = doc[j],
           NEW s \in Search, NEW t, NEW e
    PROVE  Element(doc, s, t, e) <=> Element(new, s, t, e)
  <1>1. Len(doc) \in Nat /\ s.ptr \in Nat \ {0}
    BY DEF Search
  <1>2. \A j \in 1..Len(doc) : \A v :
            /\ doc[j].t = "open" <=> new[j].t = "open"
            /\ doc[j].t = "open" => doc[j] = new[j]
            /\ doc[j] = Close(v) <=> new[j] = Close(v)
    BY DEF Close
  <1>3. SUFFICES ASSUME t \in s.ptr..Len(doc), e \in (t + 1)..Len(doc)
                 PROVE  Element(doc, s, t, e) <=> Element(new, s, t, e)
    BY DEF Element
  <1>4. /\ t \in 1..Len(doc) /\ e \in 1..Len(doc)
        /\ \A j \in s.ptr..(t - 1) : j \in 1..Len(doc)
        /\ \A j \in (t + 1)..(e - 1) : j \in 1..Len(doc)
    BY <1>1, <1>3
  <1>5. CASE doc[t].t = "open"
    <2>1. doc[t].v = new[t].v /\ new[t].t = "open"
      BY <1>2, <1>4, <1>5
    <2>2. doc[e] = Close(doc[t].v) <=> new[e] = Close(doc[t].v)
      BY <1>2, <1>4
    <2>3. \A j \in s.ptr..(t - 1) : doc[j].t # "open" <=> new[j].t # "open"
      BY <1>2, <1>4
    <2>4. \A j \in (t + 1)..(e - 1) : doc[j] # Close(doc[t].v) <=> new[j] # Close(doc[t].v)
      BY <1>2, <1>4
    <2> QED BY <1>5, <2>1, <2>2, <2>3, <2>4 DEF Element
  <1>6. CASE doc[t].t # "open"
    BY <1>2, <1>4, <1>6 DEF Element
  <1> QED BY <1>5, <1>6

LEMMA StampKeepsTurns ==
    ASSUME NEW doc \in Seq(Token), NEW new \in Seq(Token), Len(new) = Len(doc),
           NEW i \in 2..Len(doc), doc[i].t = "text", new[i].t = "text",
           doc[i - 1] = Open("string"),
           \A j \in 1..Len(doc) : j # i => new[j] = doc[j],
           NEW s \in Search, NEW u, Turn(doc, s, u)
    PROVE  Turn(new, s, u)
  <1>1. Len(doc) \in Nat
    OBVIOUS
  <1>2. PICK t \in 1..Len(doc), e \in 1..Len(doc) :
           /\ Element(doc, s, t, e)
           /\ ~(s.key /\ doc[t].v = "string")
           /\ u = [cuts |-> s.cuts \cup {e},
                   ptr |-> IF doc[t].v \in {"plist", "dict"} THEN t + 1 ELSE e + 1,
                   key |-> NamesKey(doc, t, e, VersionKeys)]
    BY DEF Turn
  <1>3. Element(new, s, t, e)
    BY <1>2, StampKeepsElements
  <1>4. doc[t] = new[t]
    BY <1>2 DEF Element
  <1>5. NamesKey(doc, t, e, VersionKeys) <=> NamesKey(new, t, e, VersionKeys)
    <2>1. CASE t + 1 = i
      <3>1. doc[t].v = "string" /\ new[t].v = "string"
        BY <1>2, <1>4, <2>1 DEF Open
      <3> QED BY <3>1 DEF NamesKey
    <2>2. CASE t + 1 # i
      <3>1. t + 1 \in 1..Len(doc)
        BY <1>1, <1>2 DEF Element
      <3> QED BY <1>4, <2>2, <3>1 DEF NamesKey
    <2> QED BY <2>1, <2>2
  <1>6. NamesKey(doc, t, e, VersionKeys) = NamesKey(new, t, e, VersionKeys)
    BY <1>5 DEF NamesKey
  <1> QED BY <1>2, <1>3, <1>4, <1>6 DEF Turn

----------------------------------------------------------------------------
(* Trails. *)

(* A search can only go on in one way, and not where it has found a value. *)
LEMMA TurnIsUnique ==
    ASSUME NEW doc \in Seq(Token), NEW s \in Search, NEW u, Turn(doc, s, u)
    PROVE  /\ \A t, e : ~Shows(doc, s, t, e)
           /\ \A u2 : Turn(doc, s, u2) => u2 = u
           /\ \E t, e : Element(doc, s, t, e)
  <1>1. PICK t \in 1..Len(doc), e \in 1..Len(doc) :
           /\ Element(doc, s, t, e)
           /\ ~(s.key /\ doc[t].v = "string")
           /\ u = [cuts |-> s.cuts \cup {e},
                   ptr |-> IF doc[t].v \in {"plist", "dict"} THEN t + 1 ELSE e + 1,
                   key |-> NamesKey(doc, t, e, VersionKeys)]
    BY DEF Turn
  <1>2. \A t2, e2 : Element(doc, s, t2, e2) => t2 = t /\ e2 = e
    BY <1>1, ElementIsUnique
  <1>3. \A t2, e2 : ~Shows(doc, s, t2, e2)
    BY <1>1, <1>2 DEF Shows
  <1>4. ASSUME NEW u2, Turn(doc, s, u2)
        PROVE  u2 = u
    <2>1. PICK t2 \in 1..Len(doc), e2 \in 1..Len(doc) :
             /\ Element(doc, s, t2, e2)
             /\ u2 = [cuts |-> s.cuts \cup {e2},
                      ptr |-> IF doc[t2].v \in {"plist", "dict"} THEN t2 + 1 ELSE e2 + 1,
                      key |-> NamesKey(doc, t2, e2, VersionKeys)]
      BY <1>4 DEF Turn
    <2>2. t2 = t /\ e2 = e
      BY <1>2, <2>1
    <2> QED BY <1>1, <2>1, <2>2
  <1> QED BY <1>1, <1>3, <1>4

(* A trail grows with every turn. *)
LEMMA TrailGrows ==
    ASSUME NEW doc \in Seq(Token), NEW tr, Trail(doc, tr), NEW u \in Search,
           Turn(doc, tr[Len(tr)], u)
    PROVE  Trail(doc, Append(tr, u)) /\ Append(tr, u)[Len(Append(tr, u))] = u
  <1>1. tr \in Seq(Search) /\ Len(tr) \in Nat \ {0} /\ tr[1] = Fresh
    BY DEF Trail
  <1>2. PICK new : new = Append(tr, u)
    OBVIOUS
  <1>3. /\ new \in Seq(Search) /\ Len(new) = Len(tr) + 1
        /\ \A m \in 1..Len(tr) : new[m] = tr[m]
        /\ new[Len(tr) + 1] = u
    BY <1>1, <1>2
  <1>4. ASSUME NEW m \in 1..(Len(new) - 1)
        PROVE  Turn(doc, new[m], new[m + 1])
    <2>1. m \in 1..Len(tr)
      BY <1>1, <1>3
    <2>2. CASE m = Len(tr)
      BY <1>3, <2>1, <2>2
    <2>3. CASE m # Len(tr)
      <3>1. m \in 1..(Len(tr) - 1) /\ m + 1 \in 1..Len(tr)
        BY <1>1, <2>1, <2>3
      <3>2. Turn(doc, tr[m], tr[m + 1])
        BY <3>1 DEF Trail
      <3> QED BY <1>3, <2>1, <3>1, <3>2
    <2> QED BY <2>2, <2>3
  <1>5. new # << >> /\ new[1] = Fresh
    BY <1>1, <1>3
  <1> QED BY <1>1, <1>2, <1>3, <1>4, <1>5 DEF Trail

LEMMA TrailStarts ==
    ASSUME NEW doc
    PROVE  Trail(doc, << Fresh >>)
  <1>1. Fresh \in Search
    BY DEF Fresh, Search
  <1>2. \A m \in 1..(Len(<< Fresh >>) - 1) : FALSE
    OBVIOUS
  <1> QED BY <1>1, <1>2 DEF Trail

(* The stamp lies at the end of the trail that led to it. *)
LEMMA StampKeepsTrail ==
    ASSUME NEW doc \in Seq(Token), NEW t \in 1..(Len(doc) - 2), NEW x \in STRING,
           NEW tr, Trail(doc, tr), Shows(doc, tr[Len(tr)], t, t + 2),
           doc[t] = Open("string"), doc[t + 1].t = "text"
    PROVE  Finds([doc EXCEPT ![t + 1] = Text(x)], tr, x)
  <1>1. PICK new : new = [doc EXCEPT ![t + 1] = Text(x)]
    OBVIOUS
  <1>2. Text(x) \in Token /\ Text(x).t = "text"
    BY DEF Text, Token
  <1>3. Len(doc) \in Nat /\ t + 1 \in 2..Len(doc) /\ (t + 1) - 1 = t
    OBVIOUS
  <1>4. /\ new \in Seq(Token) /\ Len(new) = Len(doc)
        /\ new[t + 1] = Text(x) /\ new[t + 1].t = "text"
        /\ \A j \in 1..Len(doc) : j # t + 1 => new[j] = doc[j]
    BY <1>1, <1>2, <1>3
  <1>5. tr \in Seq(Search) /\ tr # << >> /\ Len(tr) \in Nat \ {0} /\ tr[1] = Fresh
    BY DEF Trail
  <1>6. ASSUME NEW m \in 1..(Len(tr) - 1)
        PROVE  Turn(new, tr[m], tr[m + 1])
    <2>1. tr[m] \in Search
      BY <1>5
    <2>2. Turn(doc, tr[m], tr[m + 1])
      BY DEF Trail
    <2> HIDE DEF Trail
    <2> QED BY <1>3, <1>4, <2>1, <2>2, StampKeepsTurns, SMTT(30)
  <1>7. Trail(new, tr)
    BY <1>5, <1>6 DEF Trail
  <1>8. Shows(new, tr[Len(tr)], t, t + 2)
    <2>1. tr[Len(tr)] \in Search
      BY <1>5
    <2>2. Element(doc, tr[Len(tr)], t, t + 2) /\ tr[Len(tr)].key
      BY DEF Shows
    <2>3. Element(new, tr[Len(tr)], t, t + 2)
      BY <1>3, <1>4, <2>1, <2>2, StampKeepsElements
    <2>4. new[t] = doc[t] /\ doc[t].v = "string"
      BY <1>3, <1>4 DEF Shows
    <2> QED BY <2>2, <2>3, <2>4 DEF Shows
  <1>9. t \in 1..Len(new) /\ t + 2 \in 1..Len(new)
    BY <1>3, <1>4
  <1> QED BY <1>1, <1>4, <1>7, <1>8, <1>9 DEF Finds

(* On the trail of a version a search never fails: it has turned at every
   place but the last, and there it finds the version. *)
LEMMA OnTrailFinds ==
    ASSUME NEW doc \in Seq(Token), NEW x, NEW tr, Finds(doc, tr, x), NEW m \in 1..Len(tr)
    PROVE  /\ \E t, e : Element(doc, tr[m], t, e)
           /\ \A t, e : Shows(doc, tr[m], t, e) => doc[t + 1] = Text(x)
           /\ \A u : Turn(doc, tr[m], u) => \E n \in 1..Len(tr) : tr[n] = u
  <1>1. /\ tr \in Seq(Search) /\ Len(tr) \in Nat \ {0}
        /\ \A n \in 1..(Len(tr) - 1) : Turn(doc, tr[n], tr[n + 1])
    BY DEF Finds, Trail
  <1>2. tr[m] \in Search
    BY <1>1
  <1>3. PICK t \in 1..Len(doc), e \in 1..Len(doc) :
           Shows(doc, tr[Len(tr)], t, e) /\ doc[t + 1] = Text(x)
    BY DEF Finds
  <1>4. CASE m = Len(tr)
    <2>1. ~ \E u : Turn(doc, tr[m], u)
      BY <1>2, <1>3, <1>4, TurnIsUnique
    <2>2. Element(doc, tr[m], t, e)
      BY <1>3, <1>4 DEF Shows
    <2>3. \A t2, e2 : Shows(doc, tr[m], t2, e2) => t2 = t
      BY <1>2, <2>2, ElementIsUnique DEF Shows
    <2> QED BY <1>3, <2>1, <2>2, <2>3
  <1>5. CASE m # Len(tr)
    <2>1. m \in 1..(Len(tr) - 1) /\ m + 1 \in 1..Len(tr)
      BY <1>1, <1>5
    <2>2. Turn(doc, tr[m], tr[m + 1])
      BY <1>1, <2>1
    <2> QED BY <1>2, <2>1, <2>2, TurnIsUnique
  <1> QED BY <1>4, <1>5

----------------------------------------------------------------------------
(* A search in the file at hand. *)

LEMMA DocFacts ==
    ASSUME Types, Unaltered, Placed
    PROVE  /\ cwd \in Dirs /\ Doc \in Seq(Token) /\ InfoPlists[cwd] \in Seq(Token)
           /\ cwd \notin torn => /\ SameBut(Doc, InfoPlists[cwd])
                              /\ KeysAreWhole(Doc) /\ VersionsAtTheTop(Doc)
           /\ Searching => /\ cuts \subseteq 1..Len(Doc) /\ ptr \in 1..(Len(Doc) + 1)
                           /\ have_key \in BOOLEAN /\ Now \in Search
  <1>1. cwd \in Dirs
    BY DEF Types
  <1>2. /\ Doc \in Seq(Token) /\ InfoPlists[cwd] \in Seq(Token)
        /\ cwd \notin torn => SameBut(Doc, InfoPlists[cwd])
    BY <1>1, InfoAssumption DEF Unaltered, Doc
  <1>3. cwd \notin torn => KeysAreWhole(Doc)
    BY <1>1, <1>2, InfoAssumption, SameKeysAreWhole
  <1>4. cwd \notin torn => VersionsAtTheTop(Doc)
    BY <1>1, <1>2, InfoAssumption, SameAtTheTop
  <1>5. ASSUME Searching
        PROVE  /\ cuts \subseteq 1..Len(Doc) /\ ptr \in 1..(Len(Doc) + 1)
               /\ have_key \in BOOLEAN /\ Now \in Search
    <2>1. have_key \in BOOLEAN /\ ptr \in 1..(Len(Doc) + 1) /\ \A c \in cuts : c \in DOMAIN Doc
      BY <1>5 DEF Types, TypeOK
    <2>2. Len(Doc) \in Nat /\ DOMAIN Doc = 1..Len(Doc)
      BY <1>2
    <2>3. cuts \subseteq 1..Len(Doc) /\ ptr \in Nat \ {0} /\ cuts \in SUBSET Nat
      BY <2>1, <2>2
    <2> QED BY <2>1, <2>3 DEF Now, Search
  <1> QED BY <1>1, <1>2, <1>3, <1>4, <1>5

(* A turn of the loop is a turn over the next element. *)
LEMMA TurnFacts ==
    ASSUME Types, Unaltered, Searching, NEW keys \in {IdKeys, VersionKeys}, TurnOf(keys)
    PROVE  \E t, e \in 1..Len(Doc) :
              /\ Element(Doc, Now, t, e)
              /\ ~(have_key /\ Doc[t].v = "string")
              /\ cuts' = cuts \cup {e}
              /\ ptr' = IF Doc[t].v \in {"plist", "dict"} THEN t + 1 ELSE e + 1
              /\ have_key' = NamesKey(Doc, t, e, keys)
  <1>1. /\ Doc \in Seq(Token) /\ Now \in Search
        /\ cuts \subseteq 1..Len(Doc) /\ ptr \in Nat \ {0} /\ have_key \in BOOLEAN
    BY DocFacts DEF Placed, Searching
  <1>2. PICK e : e = parse_xml(ptr)
    OBVIOUS
  <1>3. /\ e.found /\ ~IsValue(keys, e)
        /\ cuts' = cuts \cup {e.end}
        /\ ptr' = GoOn(e)
        /\ have_key' = (Doc[e.tag].v = "key" /\ StringOf(e) \in keys)
    BY <1>2 DEF TurnOf
  <1>4. Element(Doc, Now, e.tag, e.end)
    BY <1>1, <1>2, <1>3, ParseIsElement
  <1>5. e.tag \in 1..Len(Doc) /\ e.end \in 1..Len(Doc)
    BY <1>1, <1>4 DEF Element, Search
  <1>6. "" \notin keys
    <2>1. "" \notin IdKeys /\ "" \notin VersionKeys
      BY DEF IdKeys, VersionKeys
    <2> QED BY <2>1
  <1>7. (Doc[e.tag].v = "key" /\ StringOf(e) \in keys) <=> NamesKey(Doc, e.tag, e.end, keys)
    BY <1>6 DEF StringOf, NamesKey
  <1>8. (Doc[e.tag].v = "key" /\ StringOf(e) \in keys) = NamesKey(Doc, e.tag, e.end, keys)
    BY <1>7 DEF NamesKey
  <1>9. ~(have_key /\ Doc[e.tag].v = "string")
    BY <1>3 DEF IsValue
  <1> QED BY <1>3, <1>4, <1>5, <1>8, <1>9 DEF GoOn

(* A value is a string element. *)
LEMMA ValueIsString ==
    ASSUME Types, Unaltered, Searching, NEW keys, Value(keys).found
    PROVE  /\ Element(Doc, Now, Value(keys).e.tag, Value(keys).e.end)
           /\ Value(keys).e.tag \in 1..Len(Doc)
           /\ Value(keys).e.end \in (Value(keys).e.tag + 1)..Len(Doc)
           /\ StringOf(Value(keys).e) \in STRING \cup {NoText}
  <1>1. /\ Doc \in Seq(Token) /\ Now \in Search
        /\ cuts \subseteq 1..Len(Doc) /\ ptr \in Nat \ {0} /\ have_key \in BOOLEAN
    BY DocFacts DEF Placed, Searching
  <1>2. PICK e : e = parse_xml(ptr)
    OBVIOUS
  <1>3. Value(keys).e = e /\ e.found
    BY <1>2 DEF Value, IsValue
  <1>4. Element(Doc, Now, e.tag, e.end)
    BY <1>1, <1>2, <1>3, ParseIsElement
  <1>5. e.tag \in 1..Len(Doc) /\ e.end \in (e.tag + 1)..Len(Doc) /\ Len(Doc) \in Nat
    BY <1>1, <1>4 DEF Element, Search
  <1>6. StringOf(e) \in STRING \cup {NoText}
    <2>1. CASE e.end = e.tag + 2
      <3>1. e.tag + 1 \in 1..Len(Doc)
        BY <1>5, <2>1
      <3>2. Doc[e.tag + 1] \in Token
        BY <1>1, <3>1
      <3>3. Doc[e.tag + 1].v \in STRING
        BY <3>2 DEF Token
      <3> QED BY <3>3, Zenon DEF StringOf, NoText
    <2>2. CASE e.end # e.tag + 2
      BY <2>2, Zenon DEF StringOf, NoText
    <2> QED BY <2>1, <2>2
  <1> QED BY <1>3, <1>4, <1>5, <1>6

(* A value is a text under one of the keys, as long as it may be. *)
LEMMA ValueFacts ==
    ASSUME Types, Unaltered, KeyNoticed, Searching, cwd \notin torn,
           NEW keys, keys = KeysOf, Value(keys).found
    PROVE  /\ Value(keys).e.tag \in 1..(Len(Doc) - 2)
           /\ Value(keys).e.end = Value(keys).e.tag + 2
           /\ Shows(Doc, Now, Value(keys).e.tag, Value(keys).e.tag + 2)
           /\ Doc[Value(keys).e.tag] = Open("string")
           /\ Value(keys).e.tag + 1 \in Texts(Doc, keys)
           /\ Doc[Value(keys).e.tag + 1] \in Token
           /\ Doc[Value(keys).e.tag + 1].t = "text"
           /\ StringOf(Value(keys).e) = Doc[Value(keys).e.tag + 1].v
  <1>1. /\ Doc \in Seq(Token) /\ Now \in Search /\ KeysAreWhole(Doc)
        /\ cuts \subseteq 1..Len(Doc) /\ ptr \in Nat \ {0} /\ have_key \in BOOLEAN
    BY DocFacts DEF Placed, Searching
  <1>2. PICK e : e = parse_xml(ptr)
    OBVIOUS
  <1>3. Value(keys).e = e /\ e.found /\ have_key /\ Doc[e.tag].v = "string"
    BY <1>2 DEF Value, IsValue
  <1>4. Element(Doc, Now, e.tag, e.end)
    BY <1>1, <1>2, <1>3, ParseIsElement
  <1>5. BehindKey(Doc, ptr, keys) /\ Now.ptr = ptr /\ Now.key = have_key
    BY <1>3 DEF KeyNoticed, Now
  <1>6. keys \in SUBSET (VersionKeys \cup IdKeys)
    BY DEF KeysOf
  <1>7. /\ e.tag = ptr /\ e.end = e.tag + 2
        /\ Doc[e.tag] = Open("string") /\ Doc[e.tag + 1].t = "text"
        /\ e.tag + 1 \in Texts(Doc, keys)
    BY <1>1, <1>4, <1>5, <1>6, ValueIsText
  <1>8. e.tag \in 1..(Len(Doc) - 2)
    <2>1. Len(Doc) \in Nat /\ e.tag \in ptr..Len(Doc) /\ e.end \in (e.tag + 1)..Len(Doc)
      BY <1>1, <1>4, <1>5 DEF Element
    <2> QED BY <1>1, <1>7, <2>1
  <1>9. Shows(Doc, Now, e.tag, e.tag + 2)
    BY <1>3, <1>4, <1>5, <1>7 DEF Shows
  <1>10. StringOf(e) = Doc[e.tag + 1].v
    BY <1>7 DEF StringOf
  <1>11. Doc[e.tag + 1] \in Token
    BY <1>1, <1>8
  <1> QED BY <1>3, <1>7, <1>8, <1>9, <1>10, <1>11

----------------------------------------------------------------------------
(* A version at the top of the plist is not passed over. *)

(* Around a version stand its key and the tags of both. *)
LEMMA EntryOfVersion ==
    ASSUME NEW doc \in Seq(Token), KeysAreWhole(doc), NEW i \in Texts(doc, VersionKeys)
    PROVE  /\ i \in 5..(Len(doc) - 1)
           /\ doc[i - 4] = Open("key")
           /\ doc[i - 3].t = "text" /\ doc[i - 3].v \in VersionKeys
           /\ doc[i - 2] = Close("key")
           /\ doc[i - 1] = Open("string")
           /\ doc[i + 1] = Close("string")
  <1>1. /\ i \in 5..(Len(doc) - 1)
        /\ doc[i - 1] = Open("string") /\ doc[i + 1] = Close("string")
        /\ doc[i - 2] = Close("key") /\ doc[i - 3].t = "text" /\ doc[i - 3].v \in VersionKeys
    BY DEF Texts
  <1>2. i - 3 \in 2..(Len(doc) - 1) /\ (i - 3) + 1 = i - 2 /\ (i - 3) - 1 = i - 4
    BY <1>1
  <1>3. doc[(i - 3) - 1] = Open("key")
    BY <1>1, <1>2 DEF KeysAreWhole
  <1> QED BY <1>1, <1>2, <1>3

(* An opening tag that is closed, with no NUL up to there, makes an element of
   the first such tag. *)
LEMMA FirstElement ==
    ASSUME NEW doc \in Seq(Token), NEW s \in Search,
           NEW t \in s.ptr..Len(doc), doc[t].t = "open",
           \A j \in s.ptr..(t - 1) : doc[j].t # "open",
           NEW e0 \in (t + 1)..Len(doc), doc[e0] = Close(doc[t].v),
           \A c \in s.cuts : c < s.ptr \/ e0 < c
    PROVE  \E e \in (t + 1)..e0 : Element(doc, s, t, e)
  <1>1. Len(doc) \in Nat /\ s.ptr \in Nat \ {0} /\ s.cuts \in SUBSET Nat /\ t \in Nat /\ e0 \in Nat
    BY DEF Search
  <1>2. PICK closes : closes = {j \in (t + 1)..Len(doc) : doc[j] = Close(doc[t].v)}
    OBVIOUS
  <1>3. closes \in SUBSET Nat /\ e0 \in closes
    BY <1>1, <1>2
  <1>4. PICK e : e \in closes /\ \A j \in closes : e <= j
    BY <1>3, FirstIsLeast
  <1>5. e \in (t + 1)..e0 /\ doc[e] = Close(doc[t].v)
    BY <1>1, <1>2, <1>3, <1>4
  <1>6. ASSUME NEW j \in (t + 1)..(e - 1)
        PROVE  doc[j] # Close(doc[t].v)
    <2>1. j \in (t + 1)..Len(doc) /\ ~(e <= j)
      BY <1>1, <1>5
    <2> QED BY <2>1, <1>2, <1>4
  <1>7. \A c \in s.cuts : c < s.ptr \/ e < c
    BY <1>1, <1>5
  <1>8. e \in (t + 1)..Len(doc)
    BY <1>1, <1>5
  <1> QED BY <1>5, <1>6, <1>7, <1>8 DEF Element

(* The next element is then the value, the key, or one before the key, which is
   either over before it or what holds it. *)
LEMMA AheadIsFound ==
    ASSUME NEW doc \in Seq(Token), NEW s \in Search, KeysAreWhole(doc),
           NEW i \in Texts(doc, VersionKeys), \A j \in 1..i : doc[j] # Close("dict"),
           AtTheTop(doc, i), Ahead(doc, s, i)
    PROVE  \E t, e : /\ Element(doc, s, t, e)
                     /\ \/ t = i - 1 /\ s.ptr = i - 1
                        \/ t = i - 4 /\ e = i - 2
                        \/ t < i - 4 /\ doc[t].v \notin {"plist", "dict"} /\ e <= i - 5
                        \/ t < i - 4 /\ doc[t].v \in {"plist", "dict"}
  <1>1. Len(doc) \in Nat /\ s.ptr \in Nat \ {0} /\ s.cuts \in SUBSET Nat
    BY DEF Search
  <1>2. /\ i \in 5..(Len(doc) - 1)
        /\ doc[i - 4] = Open("key") /\ doc[i - 3].t = "text" /\ doc[i - 2] = Close("key")
        /\ doc[i - 1] = Open("string") /\ doc[i + 1] = Close("string")
    BY EntryOfVersion
  <1>3. PICK x \in (i + 2)..Len(doc) :
           /\ doc[x] = Close("dict")
           /\ \E y \in (x + 1)..Len(doc) : doc[y] = Close("plist")
           /\ \A h \in 1..x : doc[h] # Close("plist")
    BY DEF AtTheTop
  <1>4. PICK y \in (x + 1)..Len(doc) : doc[y] = Close("plist")
    BY <1>3
  (* What is cut up from here on is cut up behind the entry. *)
  <1>5. ASSUME NEW c \in s.cuts, c >= s.ptr
        PROVE  \E o \in 1..(s.ptr - 1) :
                  \/ doc[o] = Open("dict") /\ c > i + 1
                  \/ doc[o] = Open("plist") /\ c > x
    <2>0. ~(c < s.ptr)
      BY <1>1, <1>5
    <2>1. PICK o \in 1..(s.ptr - 1) :
             /\ doc[o] \in {Open("plist"), Open("dict")}
             /\ c \in (o + 1)..Len(doc) /\ doc[c] = Close(doc[o].v)
      BY <2>0, Zenon DEF Ahead
    <2>2. CASE doc[o] = Open("dict")
      <3>1. doc[c] = Close("dict")
        BY <2>1, <2>2 DEF Open
      <3>a. Close("dict") # Close("string")
        BY DEF Close
      <3>2. c \in Nat /\ c >= 1 /\ c # i + 1
        <4>1. c \in Nat /\ c >= 1
          BY <1>1, <1>5
        <4>2. c # i + 1
          BY <1>2, <3>1, <3>a
        <4> QED BY <4>1, <4>2
      <3>3. ~(c <= i)
        BY <1>2, <3>1, <3>2
      <3>4. i \in Nat
        BY <1>2
      <3>5. c > i + 1
        BY <3>2, <3>3, <3>4
      <3> QED BY <2>2, <3>5, Zenon
    <2>3. CASE doc[o] = Open("plist")
      <3>1. doc[c] = Close("plist")
        BY <2>1, <2>3 DEF Open
      <3>2. c \in Nat /\ c >= 1
        BY <1>1, <1>5
      <3>3. ~(c <= x)
        BY <1>2, <1>3, <3>1, <3>2
      <3>4. x \in Nat
        BY <1>2, <1>3
      <3>5. c > x
        BY <3>2, <3>3, <3>4
      <3> QED BY <2>3, <3>5, Zenon
    <2> QED BY <2>1, <2>2, <2>3
  <1>6. \A c \in s.cuts : c < s.ptr \/ i + 1 < c
    <2>1. ASSUME NEW c \in s.cuts, c >= s.ptr
          PROVE  i + 1 < c
      <3>1. c > i + 1 \/ c > x
        BY <1>5, <2>1, Zenon
      <3>2. c \in Nat /\ i \in Nat /\ x \in Nat /\ x >= i + 2
        BY <1>1, <1>2, <1>3
      <3> QED BY <3>1, <3>2
    <2>2. \A c \in s.cuts : c \in Nat
      BY <1>1
    <2> QED BY <1>1, <2>1, <2>2
  <1>7. CASE s.ptr = i - 1
    <2>0. i \in Nat /\ i >= 5 /\ i <= Len(doc) - 1 /\ Len(doc) \in Nat
      BY <1>1, <1>2
    <2>1. i - 1 \in s.ptr..Len(doc) /\ i + 1 \in ((i - 1) + 1)..Len(doc)
      BY <1>7, <2>0
    <2>2. doc[i - 1].t = "open" /\ doc[i + 1] = Close(doc[i - 1].v)
      BY <1>2 DEF Open
    <2>3. \A j \in s.ptr..((i - 1) - 1) : doc[j].t # "open"
      BY <1>2, <1>7
    <2>4. \E e \in ((i - 1) + 1)..(i + 1) : Element(doc, s, i - 1, e)
      BY <1>6, <2>1, <2>2, <2>3, FirstElement
    <2> QED BY <1>7, <2>4
  <1>8. CASE s.ptr <= i - 4
    <2>1. PICK opens : opens = {j \in s.ptr..Len(doc) : doc[j].t = "open"}
      OBVIOUS
    <2>2. opens \in SUBSET Nat /\ i - 4 \in opens
      BY <1>1, <1>2, <1>8, <2>1 DEF Open
    <2>3. PICK t : t \in opens /\ \A j \in opens : t <= j
      BY <2>2, FirstIsLeast
    <2>4. t \in s.ptr..Len(doc) /\ doc[t].t = "open" /\ t <= i - 4
      BY <2>1, <2>2, <2>3
    <2>5. ASSUME NEW j \in s.ptr..(t - 1)
          PROVE  doc[j].t # "open"
      <3>1. j \in s.ptr..Len(doc) /\ ~(t <= j)
        BY <1>1, <2>4
      <3> QED BY <2>1, <2>3, <3>1
    <2>6. CASE t = i - 4
      <3>1. i - 2 \in (t + 1)..Len(doc) /\ doc[i - 2] = Close(doc[t].v)
        BY <1>2, <2>6 DEF Open
      <3>2. \A c \in s.cuts : c < s.ptr \/ i - 2 < c
        BY <1>1, <1>2, <1>6
      <3>3. PICK e \in (t + 1)..(i - 2) : Element(doc, s, t, e)
        BY <2>4, <2>5, <3>1, <3>2, FirstElement
      <3>4. e # i - 3
        <4>1. doc[e] = Close(doc[t].v)
          BY <3>3 DEF Element
        <4> QED BY <1>2, <4>1 DEF Close
      <3>5. e = i - 2
        BY <1>2, <2>6, <3>3, <3>4
      <3> QED BY <2>6, <3>3, <3>5
    <2>7. CASE t < i - 4 /\ doc[t].v \notin {"plist", "dict"}
      <3>1. t \in 1..(i - 5)
        BY <1>1, <1>2, <2>4, <2>7
      <3>2. PICK c0 \in (t + 1)..(i - 5) : doc[c0] = Close(doc[t].v)
        BY <2>4, <2>7, <3>1 DEF AtTheTop
      <3>3. c0 \in (t + 1)..Len(doc) /\ \A c \in s.cuts : c < s.ptr \/ c0 < c
        <4>1. c0 \in Nat /\ c0 <= i - 5 /\ c0 >= t + 1 /\ t \in Nat /\ i \in Nat
          BY <1>2, <3>1, <3>2
        <4>2. c0 \in (t + 1)..Len(doc)
          BY <1>1, <1>2, <4>1
        <4>3. ASSUME NEW c \in s.cuts PROVE c < s.ptr \/ c0 < c
          <5>1. c \in Nat /\ (c < s.ptr \/ i + 1 < c)
            BY <1>1, <1>6
          <5> QED BY <4>1, <5>1
        <4> QED BY <4>2, <4>3
      <3>4. PICK e \in (t + 1)..c0 : Element(doc, s, t, e)
        BY <2>4, <2>5, <3>2, <3>3, FirstElement
      <3>5. e <= i - 5
        BY <1>2, <3>1, <3>2, <3>4
      <3> QED BY <2>7, <3>4, <3>5
    <2>8. CASE t < i - 4 /\ doc[t].v \in {"plist", "dict"}
      <3>1. doc[t] = Open(doc[t].v)
        <4>1. doc[t] \in Token
          BY <1>1, <2>4
        <4> QED BY <2>4, <4>1 DEF Token, Open
      <3>2. ASSUME NEW o \in 1..(s.ptr - 1)
            PROVE  /\ doc[t].v = "dict" => doc[o] # Open("dict")
                   /\ doc[t].v = "plist" => doc[o] \notin {Open("plist"), Open("dict")}
        <4>1. t \in 1..i /\ o \in 1..(t - 1)
          BY <1>1, <1>2, <2>4
        <4>2. /\ doc[t] = Open("dict") => doc[o] # Open("dict")
              /\ doc[t] = Open("plist") => doc[o] \notin {Open("plist"), Open("dict")}
          BY <4>1 DEF AtTheTop
        <4> QED BY <3>1, <4>2
      <3>3. CASE doc[t].v = "dict"
        <4>1. x \in (t + 1)..Len(doc) /\ doc[x] = Close(doc[t].v)
          BY <1>1, <1>2, <1>3, <2>4, <3>3
        <4>a. \A o \in 1..(s.ptr - 1) : doc[o] # Open("dict")
          BY <3>2, <3>3
        <4>2. \A c \in s.cuts : c < s.ptr \/ x < c
          <5>1. ASSUME NEW c \in s.cuts, c >= s.ptr
                PROVE  x < c
            <6>1. PICK o \in 1..(s.ptr - 1) :
                     \/ doc[o] = Open("dict") /\ c > i + 1
                     \/ doc[o] = Open("plist") /\ c > x
              BY <1>5, <5>1
            <6>2. c \in Nat /\ x \in Nat
              BY <1>1, <1>2, <1>3
            <6>3. c > x
              BY <4>a, <6>1, Zenon
            <6> QED BY <6>2, <6>3
          <5>2. \A c \in s.cuts : c \in Nat
            BY <1>1
          <5> QED BY <1>1, <5>1, <5>2
        <4>3. \E e \in (t + 1)..x : Element(doc, s, t, e)
          BY <2>4, <2>5, <4>1, <4>2, FirstElement
        <4> QED BY <2>8, <4>3
      <3>4. CASE doc[t].v = "plist"
        <4>1. y \in (t + 1)..Len(doc) /\ doc[y] = Close(doc[t].v)
          BY <1>1, <1>2, <1>3, <1>4, <2>4, <3>4
        <4>2. \A c \in s.cuts : c < s.ptr \/ y < c
          BY <1>1, <1>5, <3>2, <3>4
        <4>3. \E e \in (t + 1)..y : Element(doc, s, t, e)
          BY <2>4, <2>5, <4>1, <4>2, FirstElement
        <4> QED BY <2>8, <4>3
      <3> QED BY <2>8, <3>3, <3>4
    <2>9. t = i - 4 \/ t < i - 4
      BY <1>1, <1>2, <2>4
    <2> QED BY <2>6, <2>7, <2>8, <2>9
  <1> QED BY <1>7, <1>8 DEF Ahead

LEMMA TurnKeepsAhead ==
    ASSUME NEW doc \in Seq(Token), NEW s \in Search, KeysAreWhole(doc),
           NEW i \in Texts(doc, VersionKeys), \A j \in 1..i : doc[j] # Close("dict"),
           AtTheTop(doc, i), Ahead(doc, s, i), NEW u, Turn(doc, s, u)
    PROVE  Ahead(doc, u, i)
  <1>1. Len(doc) \in Nat /\ s.ptr \in Nat \ {0} /\ s.cuts \in SUBSET Nat
    BY DEF Search
  <1>2. /\ i \in 5..(Len(doc) - 1) /\ doc[i - 4] = Open("key")
        /\ doc[i - 3].t = "text" /\ doc[i - 3].v \in VersionKeys
        /\ doc[i - 1] = Open("string")
    BY EntryOfVersion
  <1>3. PICK t \in 1..Len(doc), e \in 1..Len(doc) :
           /\ Element(doc, s, t, e)
           /\ ~(s.key /\ doc[t].v = "string")
           /\ u = [cuts |-> s.cuts \cup {e},
                   ptr |-> IF doc[t].v \in {"plist", "dict"} THEN t + 1 ELSE e + 1,
                   key |-> NamesKey(doc, t, e, VersionKeys)]
    BY DEF Turn
  <1>4. \/ t = i - 1 /\ s.ptr = i - 1
        \/ t = i - 4 /\ e = i - 2
        \/ t < i - 4 /\ doc[t].v \notin {"plist", "dict"} /\ e <= i - 5
        \/ t < i - 4 /\ doc[t].v \in {"plist", "dict"}
    BY <1>3, AheadIsFound, ElementIsUnique
  <1>5. ~(t = i - 1 /\ s.ptr = i - 1)
    BY <1>1, <1>2, <1>3 DEF Ahead, Open
  <1>6. /\ t \in s.ptr..Len(doc) /\ e \in (t + 1)..Len(doc)
        /\ doc[t].t = "open" /\ doc[e] = Close(doc[t].v)
    BY <1>3 DEF Element
  <1>7. u.ptr <= i - 4 \/ (u.ptr = i - 1 /\ u.key)
    <2>1. CASE t = i - 4 /\ e = i - 2
      <3>1. NamesKey(doc, t, e, VersionKeys)
        <4>1. t + 1 = i - 3 /\ e = t + 2
          BY <1>2, <2>1
        <4> QED BY <1>2, <2>1, <4>1 DEF NamesKey, Open
      <3>2. doc[t].v = "key" /\ e + 1 = i - 1
        BY <1>2, <2>1 DEF Open
      <3> QED BY <1>3, <3>1, <3>2
    <2>2. CASE t < i - 4 /\ doc[t].v \notin {"plist", "dict"} /\ e <= i - 5
      BY <1>2, <1>3, <2>2
    <2>3. CASE t < i - 4 /\ doc[t].v \in {"plist", "dict"}
      BY <1>2, <1>3, <2>3
    <2> QED BY <1>4, <1>5, <2>1, <2>2, <2>3
  <1>8. u.ptr \in Nat /\ s.ptr < u.ptr
    BY <1>1, <1>3, <1>6
  <1>9. ASSUME NEW c \in u.cuts, ~(c < u.ptr)
        PROVE  \E o \in 1..(u.ptr - 1) :
                  /\ doc[o] \in {Open("plist"), Open("dict")}
                  /\ c \in (o + 1)..Len(doc) /\ doc[c] = Close(doc[o].v)
    <2>1. c \in s.cuts \/ c = e
      BY <1>3
    <2>2. CASE c \in s.cuts
      <3>1. ~(c < s.ptr)
        BY <1>1, <1>8, <1>9, <2>2
      <3>2. PICK o \in 1..(s.ptr - 1) :
               /\ doc[o] \in {Open("plist"), Open("dict")}
               /\ c \in (o + 1)..Len(doc) /\ doc[c] = Close(doc[o].v)
        BY <2>2, <3>1 DEF Ahead
      <3>3. o \in 1..(u.ptr - 1)
        BY <1>1, <1>8
      <3> QED BY <3>2, <3>3
    <2>3. CASE c = e
      <3>1. doc[t].v \in {"plist", "dict"} /\ u.ptr = t + 1
        BY <1>3, <1>9, <2>3
      <3>2. doc[t] \in {Open("plist"), Open("dict")}
        <4>1. doc[t] \in Token
          BY <1>1
        <4> QED BY <1>6, <3>1, <4>1 DEF Token, Open
      <3>3. t \in 1..(u.ptr - 1)
        BY <1>1, <3>1
      <3> QED BY <1>6, <2>3, <3>2, <3>3
    <2> QED BY <2>1, <2>2, <2>3
  <1> QED BY <1>7, <1>9 DEF Ahead

----------------------------------------------------------------------------
(* InfoInv is inductive. *)

LEMMA ChainFacts ==
    ASSUME Types
    PROVE  /\ chain \in Seq(PatchHeader) /\ k \in 1..Len(chain)
           /\ Header \in PatchHeader /\ Header.newversion \in STRING \ {None}
  <1>1. chain \in Seq(PatchHeader) /\ k \in 1..Len(chain)
    BY ChainsAssumption DEF Types, TypeOK
  <1>2. Header \in PatchHeader
    BY <1>1 DEF Header
  <1> QED BY <1>1, <1>2 DEF PatchHeader

LEMMA InfoInvInit == Init => InfoInv
  <1> SUFFICES ASSUME Init PROVE InfoInv
    OBVIOUS
  <1> USE DEF Init
  <1>1. chain \in Seq(PatchHeader) /\ chain # << >> /\ 1 \in DOMAIN chain
    BY ChainsAssumption
  <1>2. Types
    <2>b. chain \in Chains /\ k \in DOMAIN chain /\ runs \in 1..MaxRuns
      BY <1>1, ChainsAssumption
    <2>c. ~Searching
      BY DEF Searching
    <2>1. TypeOK
      BY <2>b, <2>c DEF TypeOK
    <2>2. ver \in STRING \cup {None, NoText} /\ stamped \in [Dirs -> STRING \cup {None}]
      OBVIOUS
    <2>3. applied \in Seq(Application)
      OBVIOUS
    <2> QED BY <2>1, <2>2, <2>3 DEF Types, Placed
  <1>3. Unaltered
    BY InfoAssumption DEF Unaltered, SameBut
  <1> QED BY <1>2, <1>3 DEF InfoInv, KeyNoticed, Identified, OnTrail, ReadBack, NotPassed,
             WrongPlaceNeedsConsent, Searching

(* A step that writes to no file, and from which no search goes on but one that
   starts anew. *)
LEMMA QuietStep ==
    ASSUME InfoInv, UNCHANGED <<plist, stamped, torn, chain>>, Types', WrongPlaceNeedsConsent',
           at' \in {"identifier", "version"} => cuts' = {} /\ ptr' = 1 /\ have_key' = FALSE,
           at' # "update", Identified', ReadBack'
    PROVE  InfoInv'
  <1>1. Unaltered'
    BY DEF InfoInv, Unaltered
  <1>2. KeyNoticed'
    BY DEF KeyNoticed, Searching
  <1>3. OnTrail'
    <2>1. \A d \in Dirs : stamped'[d] # None => \E tr : Finds(plist'[d], tr, stamped'[d])
      BY DEF InfoInv, OnTrail
    <2>2. ASSUME at' = "version", stamped'[cwd'] # None
          PROVE  \E tr : Finds(Doc', tr, stamped'[cwd']) /\ \E m \in 1..Len(tr) : tr[m] = Now'
      <3>1. cwd' \in Dirs
        BY <2>2 DEF Types, Placed
      <3>2. PICK tr : Finds(Doc', tr, stamped'[cwd'])
        BY <2>1, <2>2, <3>1 DEF Doc
      <3>3. 1 \in 1..Len(tr) /\ tr[1] = Fresh
        BY <3>2 DEF Finds, Trail
      <3>4. Now' = Fresh
        BY <2>2 DEF Now, Fresh
      <3> QED BY <3>2, <3>3, <3>4
    <2> QED BY <2>1, <2>2 DEF OnTrail
  <1>4. NotPassed'
    <2>1. ASSUME at' = "version", NEW i \in Texts(Doc', VersionKeys)
          PROVE  Ahead(Doc', Now', i)
      <3>0. Doc' \in Seq(Token)
        BY <1>1, <2>1 DEF Types, Placed, Unaltered, Doc
      <3>a. i \in 5..(Len(Doc') - 1)
        BY <2>1 DEF Texts
      <3>1. Now' = Fresh
        BY <2>1 DEF Now, Fresh
      <3>2. Len(Doc') \in Nat
        BY <3>0
      <3>3. i \in Nat /\ 5 <= i
        BY <3>2, <3>a
      <3> QED BY <3>1, <3>3 DEF Ahead, Fresh
    <2> QED BY <2>1 DEF NotPassed
  <1> QED BY <1>1, <1>2, <1>3, <1>4 DEF InfoInv

(* A turn of a search: the same place of the same file. *)
LEMMA TurnKeepsSearch ==
    ASSUME InfoInv, Searching, NEW keys, keys = KeysOf, TurnOf(keys)
    PROVE  /\ Types' /\ Unaltered' /\ KeyNoticed' /\ Identified' /\ ReadBack'
           /\ WrongPlaceNeedsConsent'
           /\ Doc' = Doc /\ Now' \in Search
           /\ keys = VersionKeys => Turn(Doc, Now, Now')
  <1>1. UNCHANGED <<plist, chain, k, at, cwd, ver, consent, applied, stamped, torn, runs>>
    BY DEF TurnOf
  <1>2. Types /\ Unaltered /\ KeyNoticed /\ keys \in {IdKeys, VersionKeys}
    BY DEF InfoInv, KeysOf
  <1>3. PICK t \in 1..Len(Doc), e \in 1..Len(Doc) :
           /\ Element(Doc, Now, t, e)
           /\ ~(have_key /\ Doc[t].v = "string")
           /\ cuts' = cuts \cup {e}
           /\ ptr' = IF Doc[t].v \in {"plist", "dict"} THEN t + 1 ELSE e + 1
           /\ have_key' = NamesKey(Doc, t, e, keys)
    BY <1>2, TurnFacts
  <1>4. Doc' = Doc
    BY <1>1 DEF Doc
  <1>5. /\ Doc \in Seq(Token) /\ Now \in Search /\ cuts \subseteq 1..Len(Doc)
        /\ ptr \in 1..(Len(Doc) + 1) /\ Len(Doc) \in Nat
    BY <1>2, DocFacts DEF Placed, Searching
  <1>6. Doc[e] = Close(Doc[t].v) /\ Doc[e].t = "close" /\ e > t
    BY <1>3, <1>5 DEF Element, Close
  <1>7. ptr' \in 1..(Len(Doc) + 1) /\ have_key' \in BOOLEAN
    <2>1. have_key' \in BOOLEAN
      BY <1>3 DEF NamesKey
    <2> QED BY <1>3, <1>5, <2>1
  <1>8. Types'
    <2>1. \A c \in cuts' : c \in DOMAIN Doc /\ Doc[c].t = "close"
      <3>1. \A c \in cuts : c \in DOMAIN Doc /\ Doc[c].t = "close"
        BY <1>2 DEF Types, TypeOK
      <3>2. e \in DOMAIN Doc
        BY <1>5
      <3> QED BY <1>3, <1>6, <3>1, <3>2
    <2> QED BY <1>1, <1>2, <1>4, <1>7, <2>1 DEF Types, TypeOK, Searching, Placed
  <1>9. KeyNoticed'
    <2>1. ASSUME have_key'
          PROVE  BehindKey(Doc, ptr', keys)
      <3>1. NamesKey(Doc, t, e, keys) /\ ptr' = e + 1
        BY <1>3, <2>1 DEF NamesKey
      <3> QED BY <1>3, <1>5, <3>1, KeyIsBehind
    <2> QED BY <1>1, <1>4, <2>1 DEF KeyNoticed, KeysOf
  <1>10. Now' \in Search
    <2>1. cuts' \in SUBSET Nat
      BY <1>3, <1>5
    <2> QED BY <1>5, <1>7, <2>1 DEF Now, Search
  <1>11. ASSUME keys = VersionKeys
         PROVE  Turn(Doc, Now, Now')
    BY <1>3, <1>11 DEF Turn, Now
  <1>12. Unaltered' /\ Identified' /\ ReadBack' /\ WrongPlaceNeedsConsent'
    BY <1>1 DEF InfoInv, Unaltered, Identified, ReadBack, WrongPlaceNeedsConsent, Header
  <1> QED BY <1>4, <1>8, <1>9, <1>10, <1>11, <1>12

LEMMA SeekIdentifierKeepsInv == InfoInv /\ SeekIdentifier => InfoInv'
  <1> SUFFICES ASSUME InfoInv, SeekIdentifier PROVE InfoInv'
    OBVIOUS
  <1>1. at = "identifier" /\ TurnOf(IdKeys) /\ UNCHANGED <<at, cwd, plist, stamped, torn>>
    BY DEF SeekIdentifier, TurnOf
  <1>2. IdKeys = KeysOf /\ Searching
    BY <1>1 DEF KeysOf, Searching
  <1>3. OnTrail' /\ NotPassed'
    BY <1>1 DEF InfoInv, OnTrail, NotPassed
  <1> QED BY <1>1, <1>2, <1>3, TurnKeepsSearch DEF InfoInv

LEMMA SeekStampKeepsInv == InfoInv /\ SeekStamp => InfoInv'
  <1> SUFFICES ASSUME InfoInv, SeekStamp PROVE InfoInv'
    OBVIOUS
  <1>1. at = "update" /\ TurnOf(VersionKeys) /\ UNCHANGED <<at, cwd, plist, stamped, torn>>
    BY DEF SeekStamp, TurnOf
  <1>2. VersionKeys = KeysOf /\ Searching
    BY <1>1 DEF KeysOf, Searching
  <1>3. /\ Types' /\ Unaltered' /\ KeyNoticed' /\ Identified' /\ ReadBack'
        /\ WrongPlaceNeedsConsent'
        /\ Doc' = Doc /\ Now' \in Search /\ Turn(Doc, Now, Now')
    BY <1>1, <1>2, TurnKeepsSearch
  <1>4. PICK tr : Trail(Doc, tr) /\ tr[Len(tr)] = Now
    BY <1>1 DEF InfoInv, OnTrail
  <1>5. Doc \in Seq(Token)
    BY <1>2, DocFacts DEF InfoInv, Placed, Searching
  <1>6. \E new : Trail(Doc', new) /\ new[Len(new)] = Now'
    <2>1. PICK u : u = Now'
      OBVIOUS
    <2>2. Trail(Doc, Append(tr, u)) /\ Append(tr, u)[Len(Append(tr, u))] = u
      BY <1>3, <1>4, <1>5, <2>1, TrailGrows
    <2> QED BY <1>3, <2>1, <2>2
  <1>7. OnTrail' /\ NotPassed'
    BY <1>1, <1>6 DEF InfoInv, OnTrail, NotPassed
  <1> QED BY <1>3, <1>7 DEF InfoInv

LEMMA SeekVersionKeepsInv == InfoInv /\ SeekVersion => InfoInv'
  <1> SUFFICES ASSUME InfoInv, SeekVersion PROVE InfoInv'
    OBVIOUS
  <1>1. at = "version" /\ TurnOf(VersionKeys) /\ UNCHANGED <<at, cwd, plist, stamped, torn>>
    BY DEF SeekVersion, TurnOf
  <1>2. VersionKeys = KeysOf /\ Searching
    BY <1>1 DEF KeysOf, Searching
  <1>3. /\ Types' /\ Unaltered' /\ KeyNoticed' /\ Identified' /\ ReadBack'
        /\ WrongPlaceNeedsConsent'
        /\ Doc' = Doc /\ Now' \in Search /\ Turn(Doc, Now, Now')
    BY <1>1, <1>2, TurnKeepsSearch
  <1>4. /\ Doc \in Seq(Token) /\ Now \in Search
        /\ cwd \notin torn => KeysAreWhole(Doc) /\ VersionsAtTheTop(Doc)
    BY <1>2, DocFacts DEF InfoInv, Placed, Searching
  <1>5. PICK u : u = Now'
    OBVIOUS
  <1>6. OnTrail'
    <2>1. ASSUME stamped[cwd] # None
          PROVE  \E tr : Finds(Doc, tr, stamped[cwd]) /\ \E m \in 1..Len(tr) : tr[m] = u
      <3>1. PICK tr : Finds(Doc, tr, stamped[cwd]) /\ \E m \in 1..Len(tr) : tr[m] = Now
        BY <1>1, <2>1 DEF InfoInv, OnTrail
      <3>2. PICK m \in 1..Len(tr) : tr[m] = Now
        BY <3>1
      <3>3. \E n \in 1..Len(tr) : tr[n] = u
        <4>1. Turn(Doc, tr[m], u)
          BY <1>3, <1>5, <3>2
        <4> QED BY <1>4, <3>1, <4>1, OnTrailFinds
      <3> QED BY <3>1, <3>3
    <2> QED BY <1>1, <1>3, <1>5, <2>1 DEF InfoInv, OnTrail
  <1>7. NotPassed'
    <2>1. ASSUME cwd \notin torn, NEW i \in Texts(Doc, VersionKeys),
                 ~ \E j \in 1..i : Doc[j] = Close("dict")
          PROVE  Ahead(Doc, u, i)
      <3>1. Ahead(Doc, Now, i)
        BY <1>1, <2>1 DEF InfoInv, NotPassed
      <3>2. AtTheTop(Doc, i)
        BY <1>4, <2>1 DEF VersionsAtTheTop
      <3> QED BY <1>3, <1>4, <1>5, <2>1, <3>1, <3>2, TurnKeepsAhead
    <2> QED BY <1>1, <1>3, <1>5, <2>1 DEF NotPassed
  <1> QED BY <1>3, <1>6, <1>7 DEF InfoInv

(* A step that only goes somewhere where nothing is known of the place. *)
LEMMA FailKeepsInv ==
    ASSUME InfoInv, UNCHANGED <<plist, stamped, torn, chain, applied>>, Types',
           at' \in {"locate", "open", "unstamped", "ended", "failed", "aborted"}
    PROVE  InfoInv'
  <1>1. WrongPlaceNeedsConsent'
    BY DEF InfoInv, WrongPlaceNeedsConsent
  <1>2. Identified' /\ ReadBack'
    BY DEF Identified, ReadBack
  <1> QED BY <1>1, <1>2, QuietStep

(* Types in a step that goes on in the same run; a search starts anew. *)
LEMMA StepKeepsTypes ==
    ASSUME InfoInv, UNCHANGED <<plist, chain, cwd, stamped, torn, runs>>,
           at' \in {"locate", "open", "identifier", "version", "check", "operations",
                    "update", "unstamped", "ended", "failed", "aborted"},
           Placed' => Placed,
           k' \in DOMAIN chain, consent' \in BOOLEAN, ver' \in STRING \cup {None, NoText},
           applied' \in Seq(Application),
           UNCHANGED search \/ StartSearch, Searching' => StartSearch
    PROVE  Types'
  <1>1. Types /\ Unaltered
    BY DEF InfoInv
  <1>2. have_key' \in BOOLEAN
    BY <1>1 DEF StartSearch, search, Types, TypeOK
  <1>3. ASSUME Searching'
        PROVE  ptr' \in 1..(Len(Doc') + 1) /\ \A c \in cuts' : c \in DOMAIN Doc' /\ Doc'[c].t = "close"
    <2>1. cuts' = {} /\ ptr' = 1
      BY <1>3 DEF StartSearch
    <2>2. Placed /\ Doc' = Doc
      BY <1>3 DEF Searching, Placed, Doc
    <2>3. Len(Doc) \in Nat
      BY <1>1, <2>2, DocFacts
    <2> QED BY <2>1, <2>2, <2>3
  <1>4. TypeOK'
    BY <1>1, <1>2, <1>3 DEF Types, TypeOK
  <1>5. Placed' => cwd' \in Dirs
    BY <1>1 DEF Types
  <1>6. stamped' \in [Dirs -> STRING \cup {None}] /\ \A d \in torn' : stamped'[d] = None
    BY <1>1 DEF Types
  <1> QED BY <1>4, <1>5, <1>6 DEF Types

LEMMA chdir_KeepsInv == InfoInv /\ chdir_by_identifier => InfoInv'
  <1> SUFFICES ASSUME InfoInv, chdir_by_identifier PROVE InfoInv'
    OBVIOUS
  <1> USE DEF chdir_by_identifier, Fail, Goto, search
  <1>1. Types
    BY DEF InfoInv
  <1>2. UNCHANGED <<plist, stamped, torn, chain, applied, k, runs, consent, ver, have_key>>
    OBVIOUS
  <1>3. at' \in {"open", "failed"} /\ (cwd' \in Dirs \/ (at' = "failed" /\ cwd' = cwd))
    OBVIOUS
  <1>4. Types'
    <2>1. TypeOK'
      BY <1>1, <1>2, <1>3 DEF Types, TypeOK, Searching
    <2> QED BY <1>1, <1>2, <1>3, <2>1 DEF Types, Placed
  <1> QED BY <1>2, <1>3, <1>4, FailKeepsInv

LEMMA OpenPlistKeepsInv == InfoInv /\ OpenPlist => InfoInv'
  <1> SUFFICES ASSUME InfoInv, OpenPlist PROVE InfoInv'
    OBVIOUS
  <1> USE DEF OpenPlist, Fail, Goto
  <1>1. /\ UNCHANGED <<plist, chain, k, cwd, ver, consent, applied, stamped, torn, runs>>
        /\ \/ at' = "failed" /\ UNCHANGED search
           \/ at' = "identifier" /\ StartSearch
    OBVIOUS
  <1>2. Types' /\ WrongPlaceNeedsConsent'
    <2>1. Placed /\ Types /\ (Searching' => StartSearch)
      BY <1>1 DEF Placed, Searching, InfoInv
    <2>2. k' \in DOMAIN chain /\ consent' \in BOOLEAN /\ ver' \in STRING \cup {None, NoText}
          /\ applied' \in Seq(Application)
      BY <1>1, <2>1 DEF Types, TypeOK
    <2>3. WrongPlaceNeedsConsent'
      BY <1>1 DEF InfoInv, WrongPlaceNeedsConsent
    <2> QED BY <1>1, <2>1, <2>2, <2>3, StepKeepsTypes
  <1>3. Identified' /\ ReadBack'
    BY <1>1 DEF Identified, ReadBack
  <1>4. at' \in {"identifier", "version"} => cuts' = {} /\ ptr' = 1 /\ have_key' = FALSE
    BY <1>1 DEF StartSearch
  <1> QED BY <1>1, <1>2, <1>3, <1>4, QuietStep

(* The identifier of the product is that of the plist as it was installed. *)
LEMMA IdentifierKnownKeepsInv == InfoInv /\ IdentifierKnown => InfoInv'
  <1> SUFFICES ASSUME InfoInv, IdentifierKnown PROVE InfoInv'
    OBVIOUS
  <1>1. /\ at = "identifier"
        /\ UNCHANGED <<plist, chain, k, cwd, ver, applied, stamped, torn, runs>>
        /\ \/ at' = "failed" /\ UNCHANGED <<search, consent>>
           \/ at' = "version" /\ StartSearch /\ consent' = TRUE
           \/ at' = "version" /\ StartSearch /\ consent' = consent
              /\ SameProduct(Value(IdKeys), Header.identifier)
    BY DEF IdentifierKnown, Fail, Goto
  <1>2. Types /\ Unaltered /\ KeyNoticed /\ Searching /\ Placed
    BY <1>1 DEF InfoInv, Searching, Placed
  <1>3. Types' /\ WrongPlaceNeedsConsent'
    <2>1. Searching' => StartSearch
      BY <1>1 DEF Searching
    <2>2. k' \in DOMAIN chain /\ consent' \in BOOLEAN /\ ver' \in STRING \cup {None, NoText}
          /\ applied' \in Seq(Application)
      BY <1>1, <1>2 DEF Types, TypeOK
    <2>3. WrongPlaceNeedsConsent'
      BY <1>1 DEF InfoInv, WrongPlaceNeedsConsent
    <2>4. UNCHANGED search \/ StartSearch
      BY <1>1 DEF search
    <2> QED BY <1>1, <1>2, <2>1, <2>2, <2>3, <2>4, StepKeepsTypes
  <1>4. ReadBack'
    BY <1>1 DEF ReadBack
  <1>5. Identified'
    <2>1. CASE SameProduct(Value(IdKeys), Header.identifier) /\ cwd \notin torn
      <3>1. PICK t : t = Value(IdKeys).e.tag
        OBVIOUS
      <3>2. Value(IdKeys).found /\ StringOf(Value(IdKeys).e) = Header.identifier
        BY <2>1 DEF SameProduct
      <3>3. /\ t \in 1..(Len(Doc) - 2) /\ t + 1 \in Texts(Doc, IdKeys)
            /\ Doc[t + 1].v = Header.identifier
        BY <1>1, <1>2, <2>1, <3>1, <3>2, ValueFacts DEF KeysOf
      <3>4. /\ Doc \in Seq(Token) /\ InfoPlists[cwd] \in Seq(Token)
            /\ SameBut(Doc, InfoPlists[cwd])
        BY <1>2, <2>1, DocFacts
      <3>5. t + 1 \in Texts(InfoPlists[cwd], IdKeys)
        BY <3>3, <3>4, SameTexts
      <3>6. t + 1 \notin Texts(InfoPlists[cwd], VersionKeys)
        BY <3>5 DEF Texts, IdKeys, VersionKeys
      <3>7. Doc[t + 1] = InfoPlists[cwd][t + 1]
        <4>1. t + 1 \in 1..Len(Doc)
          BY <3>3, <3>4
        <4> QED BY <3>4, <3>6, <4>1, SameTokens
      <3> QED BY <1>1, <3>3, <3>5, <3>7 DEF Identified, Header
    <2>2. CASE at' = "failed" \/ consent' = TRUE \/ cwd \in torn
      BY <1>1, <2>2 DEF Identified
    <2> QED BY <1>1, <2>1, <2>2
  <1>6. at' \in {"identifier", "version"} => cuts' = {} /\ ptr' = 1 /\ have_key' = FALSE
    BY <1>1 DEF StartSearch
  <1> QED BY <1>1, <1>3, <1>4, <1>5, <1>6, QuietStep

(* What is read of a file that was stamped is the stamp. *)
LEMMA VersionFoundKeepsInv == InfoInv /\ VersionFound => InfoInv'
  <1> SUFFICES ASSUME InfoInv, VersionFound PROVE InfoInv'
    OBVIOUS
  <1>1. /\ at = "version" /\ Value(VersionKeys).found
        /\ UNCHANGED <<plist, chain, k, cwd, consent, applied, stamped, torn, runs, search>>
        /\ \/ at' = "check" /\ ver' = StringOf(Value(VersionKeys).e)
           \/ at' = "aborted" /\ UNCHANGED ver
    BY DEF VersionFound, Goto
  <1>2. Types /\ Unaltered /\ KeyNoticed /\ Searching /\ Placed
    BY <1>1 DEF InfoInv, Searching, Placed
  <1>3. PICK t : t = Value(VersionKeys).e.tag
    OBVIOUS
  <1>4. /\ StringOf(Value(VersionKeys).e) \in STRING \cup {NoText}
        /\ cwd \notin torn => /\ Shows(Doc, Now, t, t + 2)
                           /\ StringOf(Value(VersionKeys).e) = Doc[t + 1].v
    <2>1. VersionKeys = KeysOf
      BY <1>1 DEF KeysOf
    <2> QED BY <1>1, <1>2, <1>3, <2>1, ValueFacts, ValueIsString
  <1>5. Types' /\ WrongPlaceNeedsConsent'
    <2>1. ~Searching'
      BY <1>1 DEF Searching
    <2>2. ver' \in STRING \cup {None, NoText}
      BY <1>1, <1>2, <1>4 DEF Types
    <2>3. k' \in DOMAIN chain /\ consent' \in BOOLEAN /\ applied' \in Seq(Application)
      BY <1>1, <1>2 DEF Types, TypeOK
    <2>4. WrongPlaceNeedsConsent'
      BY <1>1 DEF InfoInv, WrongPlaceNeedsConsent
    <2> QED BY <1>1, <1>2, <2>1, <2>2, <2>3, <2>4, StepKeepsTypes
  <1>6. Identified'
    BY <1>1 DEF InfoInv, Identified, Header
  <1>7. ReadBack'
    <2>1. ASSUME at' = "check", stamped[cwd] # None
          PROVE  ver' = stamped[cwd]
      <3>1. PICK tr : Finds(Doc, tr, stamped[cwd]) /\ \E m \in 1..Len(tr) : tr[m] = Now
        BY <1>1, <2>1 DEF InfoInv, OnTrail
      <3>2. Doc \in Seq(Token)
        BY <1>2, DocFacts
      <3>3. cwd \notin torn
        BY <1>2, <2>1 DEF Types
      <3>4. Doc[t + 1] = Text(stamped[cwd])
        BY <1>4, <3>1, <3>2, <3>3, OnTrailFinds
      <3> QED BY <1>1, <1>4, <2>1, <3>3, <3>4 DEF Text
    <2> QED BY <1>1, <2>1 DEF ReadBack
  <1> QED BY <1>1, <1>5, <1>6, <1>7, QuietStep

(* A version that is to be patched is not the new one. *)
LEMMA check_KeepsInv == InfoInv /\ check_product_version => InfoInv'
  <1> SUFFICES ASSUME InfoInv, check_product_version PROVE InfoInv'
    OBVIOUS
  <1>1. /\ at = "check" /\ UNCHANGED <<plist, chain, cwd, search, applied, stamped, torn, runs>>
        /\ \/ at' = "failed" /\ UNCHANGED <<k, ver, consent>>
           \/ NextPatch
           \/ /\ at' = "operations" /\ UNCHANGED <<k, ver, consent>>
              /\ version_ok(ver, Header.version, Header.newversion) = "yes"
    BY DEF check_product_version, Fail, Goto
  <1>2. Types /\ Placed
    BY <1>1 DEF InfoInv, Placed
  <1>3. /\ at' \in {"failed", "locate", "ended", "operations"}
        /\ k' \in DOMAIN chain /\ consent' \in BOOLEAN /\ ver' \in STRING \cup {None, NoText}
        /\ applied' \in Seq(Application)
    <2>1. k \in 1..Len(chain) /\ DOMAIN chain = 1..Len(chain) /\ Len(chain) \in Nat
      BY <1>2, ChainFacts
    <2>2. at' \in {"failed", "locate", "ended", "operations"} /\ k' \in DOMAIN chain
      BY <1>1, <1>2, <2>1 DEF NextPatch
    <2>3. consent' \in BOOLEAN /\ ver' \in STRING \cup {None, NoText}
      BY <1>1, <1>2 DEF NextPatch, Types, TypeOK
    <2> QED BY <1>1, <1>2, <2>2, <2>3 DEF Types
  <1>4. Types'
    BY <1>1, <1>2, <1>3, StepKeepsTypes DEF Searching
  <1>5. CASE at' = "operations"
    <2>1. /\ UNCHANGED <<k, ver, consent>>
          /\ version_ok(ver, Header.version, Header.newversion) = "yes"
      BY <1>1, <1>5 DEF NextPatch
    <2>2. Header.version.kind = "any" \/ ver # Header.newversion
      <3>1. Header.version.kind \in {"any", "less than", "or"}
        BY <1>2, ChainFacts DEF PatchHeader, Allowed
      <3> QED BY <2>1, <3>1 DEF version_ok
    <2>3. WrongPlaceNeedsConsent' /\ Identified' /\ ReadBack'
      BY <1>1, <1>5, <2>1, <2>2
         DEF InfoInv, WrongPlaceNeedsConsent, Identified, ReadBack, Header
    <2> QED BY <1>1, <1>4, <1>5, <2>3, QuietStep
  <1>6. CASE at' # "operations"
    BY <1>1, <1>3, <1>4, <1>6, FailKeepsInv
  <1> QED BY <1>5, <1>6

(* What is applied is applied in the right place. *)
LEMMA OperationsKeepsInv == InfoInv /\ Operations => InfoInv'
  <1> SUFFICES ASSUME InfoInv, Operations PROVE InfoInv'
    OBVIOUS
  <1>1. CASE Fail
    <2>1. Types'
      BY <1>1, StepKeepsTypes DEF Fail, Goto, Searching, Placed, InfoInv, Types, TypeOK
    <2> QED BY <1>1, <2>1, FailKeepsInv DEF Fail, Goto
  <1>2. CASE ~Fail
    <2>1. PICK a : a = [k |-> k, dir |-> cwd, ver |-> ver, consent |-> consent, run |-> runs]
      OBVIOUS
    <2>2. /\ at = "operations" /\ applied' = Append(applied, a) /\ StartSearch
          /\ at' = IF Header.newversion = "" THEN "unstamped" ELSE "update"
          /\ UNCHANGED <<plist, chain, k, cwd, ver, consent, stamped, torn, runs>>
      BY <1>2, <2>1 DEF Operations
    <2>3. Types /\ Placed /\ cwd \in Dirs /\ chain \in Seq(PatchHeader) /\ k \in 1..Len(chain)
      BY <2>2, ChainFacts DEF InfoInv, Placed, Types
    <2>4. a \in Application /\ applied \in Seq(Application)
      BY <2>1, <2>3, ChainsAssumption DEF Application, Types, TypeOK
    <2>5. /\ applied' \in Seq(Application) /\ Len(applied') = Len(applied) + 1
          /\ \A j \in 1..Len(applied) : applied'[j] = applied[j]
          /\ applied'[Len(applied) + 1] = a
      <3>1. applied' = Append(applied, a)
        BY <2>2
      <3> QED BY <2>4, <3>1, AppendProperties
    <2>6. Types'
      BY <2>2, <2>3, <2>5, StepKeepsTypes DEF Placed, Types, TypeOK
    <2>7. WrongPlaceNeedsConsent'
      <3>1. ASSUME NEW j \in 1..Len(applied)
            PROVE  \/ applied'[j].consent \/ applied'[j].dir \in torn'
                   \/ LET doc == InfoPlists[applied'[j].dir] IN
                      \E i \in Texts(doc, IdKeys) : doc[i].v = chain'[applied'[j].k].identifier
        <4>1. PICK b : b = applied[j]
          OBVIOUS
        <4>2. j \in DOMAIN applied /\ applied'[j] = b /\ chain' = chain
          <5>1. DOMAIN applied = 1..Len(applied)
            BY <2>4
          <5>2. applied'[j] = applied[j]
            BY <2>5
          <5> QED BY <2>2, <4>1, <5>1, <5>2
        <4>3. \/ b.consent \/ b.dir \in torn
              \/ LET doc == InfoPlists[b.dir] IN
                 \E i \in Texts(doc, IdKeys) : doc[i].v = chain[b.k].identifier
          BY <4>1, <4>2 DEF InfoInv, WrongPlaceNeedsConsent
        <4> QED BY <2>2, <4>2, <4>3
      <3>2. \/ a.consent \/ a.dir \in torn'
            \/ LET doc == InfoPlists[a.dir] IN
               \E i \in Texts(doc, IdKeys) : doc[i].v = chain'[a.k].identifier
        BY <2>1, <2>2 DEF InfoInv, Identified, Header
      <3>3. DOMAIN applied' = 1..(Len(applied) + 1) /\ Len(applied) \in Nat
        BY <2>4, <2>5
      <3>4. ASSUME NEW j \in DOMAIN applied'
            PROVE  j \in 1..Len(applied) \/ j = Len(applied) + 1
        BY <3>3
      <3> QED BY <2>5, <3>1, <3>2, <3>4 DEF WrongPlaceNeedsConsent
    <2>8. CASE Header.newversion = ""
      <3>1. Identified' /\ ReadBack'
        BY <2>2, <2>8 DEF Identified, ReadBack
      <3> QED BY <2>2, <2>6, <2>7, <2>8, <3>1, QuietStep
    <2>9. CASE Header.newversion # ""
      <3>1. at' = "update" /\ cuts' = {} /\ ptr' = 1 /\ have_key' = FALSE /\ Header' = Header
        BY <2>2, <2>9 DEF StartSearch, Header
      <3>2. KeyNoticed' /\ Identified' /\ ReadBack' /\ NotPassed'
        BY <2>9, <3>1 DEF KeyNoticed, Identified, ReadBack, NotPassed
      <3>3. Now' = Fresh
        BY <3>1 DEF Now, Fresh
      <3>4. \E tr : Trail(Doc', tr) /\ tr[Len(tr)] = Now'
        <4>1. Trail(Doc', << Fresh >>)
          BY TrailStarts
        <4>2. << Fresh >>[Len(<< Fresh >>)] = Fresh
          OBVIOUS
        <4> QED BY <3>3, <4>1, <4>2
      <3>5. OnTrail'
        BY <2>2, <3>1, <3>4 DEF InfoInv, OnTrail
      <3>6. Unaltered'
        BY <2>2 DEF InfoInv, Unaltered
      <3> QED BY <2>6, <2>7, <3>2, <3>5, <3>6 DEF InfoInv
    <2> QED BY <2>8, <2>9
  <1> QED BY <1>1, <1>2

LEMMA UnstampedKeepsInv == InfoInv /\ Unstamped => InfoInv'
  <1> SUFFICES ASSUME InfoInv, Unstamped PROVE InfoInv'
    OBVIOUS
  <1>1. /\ at = "unstamped" /\ NextPatch
        /\ UNCHANGED <<plist, chain, cwd, search, applied, stamped, torn, runs>>
    BY DEF Unstamped
  <1>2. Types /\ Placed /\ k \in 1..Len(chain) /\ DOMAIN chain = 1..Len(chain) /\ Len(chain) \in Nat
    BY <1>1, ChainFacts DEF InfoInv, Placed
  <1>3. /\ at' \in {"locate", "ended"} /\ k' \in DOMAIN chain
        /\ consent' = FALSE /\ ver' = None
    BY <1>1, <1>2 DEF NextPatch
  <1>4. Types'
    BY <1>1, <1>2, <1>3, StepKeepsTypes DEF Searching, Types
  <1> QED BY <1>1, <1>3, <1>4, FailKeepsInv

(* The stamp is written where the search of this run has found the version, and
   that is where any later one will.  A file that is torn counts as not stamped. *)
LEMMA StampIsWritten ==
    ASSUME InfoInv, at = "update", NEW e, e = Value(VersionKeys).e, Value(VersionKeys).found,
           WriteAll(e) \/ WriteNothing \/ WritePart(e)
    PROVE  /\ Unaltered' /\ torn \subseteq torn' /\ torn' \subseteq Dirs
           /\ stamped' \in [Dirs -> STRING \cup {None}]
           /\ \A d \in torn' : stamped'[d] = None
           /\ \A d \in Dirs : stamped'[d] # None => \E tr : Finds(plist'[d], tr, stamped'[d])
  <1>1. Types /\ Unaltered /\ KeyNoticed /\ Searching /\ Placed
    BY DEF InfoInv, Searching, Placed
  <1>2. cwd \in Dirs /\ Doc \in Seq(Token) /\ Len(Doc) \in Nat /\ torn \subseteq Dirs
    BY <1>1, DocFacts DEF Types, TypeOK
  <1>3. PICK x : x = Header.newversion
    OBVIOUS
  <1>4. x \in STRING /\ Text(x) \in Token /\ Tear \in Token
    <2>1. x \in STRING
      BY <1>1, <1>3, ChainFacts
    <2> QED BY <2>1, ChainsAssumption DEF Text, Token
  <1>5. e.tag \in 1..Len(Doc) /\ e.end \in (e.tag + 1)..Len(Doc)
    BY <1>1, ValueIsString
  <1>6. Stamp(e) \in Seq(Token)
    <2>1. SubSeq(Doc, 1, e.tag) \in Seq(Token) /\ SubSeq(Doc, e.end, Len(Doc)) \in Seq(Token)
      BY <1>2, <1>5
    <2>2. << Text(x) >> \in Seq(Token)
      BY <1>4
    <2> QED BY <1>3, <2>1, <2>2 DEF Stamp, TailOf
  <1>7. ASSUME NEW doc \in Seq(Token), NEW v \in STRING \cup {None}, Writes(doc, v)
        PROVE  /\ plist' \in [Dirs -> Seq(Token)] /\ plist'[cwd] = doc
               /\ stamped' \in [Dirs -> STRING \cup {None}] /\ stamped'[cwd] = v
               /\ \A d \in Dirs \ {cwd} : plist'[d] = plist[d] /\ stamped'[d] = stamped[d]
    BY <1>1, <1>2, <1>7 DEF Writes, Unaltered, Types
  <1>8. CASE WriteNothing
    BY <1>1, <1>2, <1>8 DEF WriteNothing, Unaltered, Types, InfoInv, OnTrail
  <1>9. CASE WritePart(e) \/ (WriteAll(e) /\ cwd \in torn)
    <2>1. /\ plist' \in [Dirs -> Seq(Token)] /\ stamped' \in [Dirs -> STRING \cup {None}]
          /\ stamped'[cwd] = None /\ torn' = torn \cup {cwd}
          /\ \A d \in Dirs \ {cwd} : plist'[d] = plist[d] /\ stamped'[d] = stamped[d]
      <3>1. CASE WritePart(e)
        <4>1. PICK s \in Seams : /\ e.tag + s \in DOMAIN Stamp(e)
                                 /\ Writes([Stamp(e) EXCEPT ![e.tag + s] = Tear], None)
          BY <3>1 DEF WritePart
        <4>2. PICK doc : doc = [Stamp(e) EXCEPT ![e.tag + s] = Tear]
          OBVIOUS
        <4>3. doc \in Seq(Token)
          BY <1>4, <1>6, <4>1, <4>2
        <4> QED BY <1>7, <3>1, <4>1, <4>2, <4>3 DEF WritePart
      <3>2. CASE WriteAll(e) /\ cwd \in torn
        <4>1. Writes(Stamp(e), None) /\ torn' = torn
          BY <3>2 DEF WriteAll
        <4> QED BY <1>6, <1>7, <3>2, <4>1
      <3> QED BY <1>9, <3>1, <3>2
    <2> QED BY <1>1, <1>2, <2>1 DEF Unaltered, Types, InfoInv, OnTrail
  <1>10. CASE WriteAll(e) /\ cwd \notin torn
    <2>1. PICK t : t = e.tag
      OBVIOUS
    <2>2. /\ t \in 1..(Len(Doc) - 2) /\ e.end = t + 2
          /\ Shows(Doc, Now, t, t + 2) /\ Doc[t] = Open("string")
          /\ t + 1 \in Texts(Doc, VersionKeys) /\ Doc[t + 1].t = "text"
      <3>1. VersionKeys = KeysOf
        BY DEF KeysOf
      <3> QED BY <1>1, <1>10, <2>1, <3>1, ValueFacts
    <2>3. /\ InfoPlists[cwd] \in Seq(Token) /\ SameBut(Doc, InfoPlists[cwd])
          /\ Now \in Search
      BY <1>1, <1>10, DocFacts
    <2>4. PICK new : new = [Doc EXCEPT ![t + 1] = Text(x)]
      OBVIOUS
    <2>5. Stamp(e) = new
      <3>1. new = SubSeq(Doc, 1, t) \o << Text(x) >> \o SubSeq(Doc, t + 2, Len(Doc))
        BY <1>2, <1>4, <2>2, <2>4, StampReplaces
      <3> QED BY <1>3, <2>1, <2>2, <3>1 DEF Stamp, TailOf
    <2>6. Writes(new, x) /\ torn' = torn
      BY <1>3, <1>10, <2>5 DEF WriteAll
    <2>7. /\ plist' \in [Dirs -> Seq(Token)] /\ plist'[cwd] = new
          /\ stamped' \in [Dirs -> STRING \cup {None}] /\ stamped'[cwd] = x
          /\ \A d \in Dirs \ {cwd} : plist'[d] = plist[d] /\ stamped'[d] = stamped[d]
      BY <1>4, <1>6, <1>7, <2>5, <2>6
    <2>8. SameBut(new, InfoPlists[cwd])
      BY <1>2, <1>4, <2>2, <2>3, <2>4, StampIsSame
    <2>9. Unaltered'
      BY <1>1, <2>6, <2>7, <2>8 DEF Unaltered
    <2>10. \A d \in torn' : stamped'[d] = None
      BY <1>1, <1>2, <1>10, <2>6, <2>7 DEF Types
    <2>11. PICK tr : Trail(Doc, tr) /\ tr[Len(tr)] = Now
      BY DEF InfoInv, OnTrail
    <2>12. Finds(new, tr, x)
      <3>1. Shows(Doc, tr[Len(tr)], t, t + 2)
        BY <2>2, <2>11
      <3> QED BY <1>2, <1>4, <2>2, <2>4, <2>11, <3>1, StampKeepsTrail
    <2>13. ASSUME NEW d \in Dirs, stamped'[d] # None
           PROVE  \E w : Finds(plist'[d], w, stamped'[d])
      <3>1. CASE d = cwd
        BY <2>7, <2>12, <3>1
      <3>2. CASE d # cwd
        BY <2>7, <2>13, <3>2 DEF InfoInv, OnTrail
      <3> QED BY <3>1, <3>2
    <2> QED BY <1>2, <2>6, <2>7, <2>9, <2>10, <2>13
  <1> QED BY <1>8, <1>9, <1>10

(* After a stamp the search is over. *)
LEMMA AfterStamp ==
    ASSUME InfoInv, at = "update", NEW e, e = Value(VersionKeys).e, Value(VersionKeys).found,
           WriteAll(e) \/ WriteNothing \/ WritePart(e),
           UNCHANGED <<chain, cwd, search, applied, runs>>,
           at' \in {"locate", "ended", "failed"}, k' \in DOMAIN chain,
           consent' \in BOOLEAN, ver' \in STRING \cup {None, NoText}
    PROVE  InfoInv'
  <1>1. /\ Unaltered' /\ torn \subseteq torn' /\ torn' \subseteq Dirs
        /\ stamped' \in [Dirs -> STRING \cup {None}]
        /\ \A d \in torn' : stamped'[d] = None
        /\ \A d \in Dirs : stamped'[d] # None => \E tr : Finds(plist'[d], tr, stamped'[d])
    BY StampIsWritten
  <1>2. ~Searching' /\ ~Placed' /\ Types
    BY DEF Searching, Placed, InfoInv
  <1>3. Types'
    <2>1. have_key' \in BOOLEAN
      BY <1>2 DEF search, Types, TypeOK
    <2>2. TypeOK'
      BY <1>1, <1>2, <2>1 DEF Types, TypeOK
    <2>3. applied' \in Seq(Application)
      BY <1>2 DEF Types
    <2> QED BY <1>1, <1>2, <2>2, <2>3 DEF Types
  <1>4. OnTrail'
    BY <1>1 DEF OnTrail
  <1>5. KeyNoticed' /\ Identified' /\ ReadBack' /\ NotPassed'
    BY <1>2 DEF KeyNoticed, Identified, ReadBack, NotPassed
  <1>6. WrongPlaceNeedsConsent'
    BY <1>1 DEF InfoInv, WrongPlaceNeedsConsent
  <1> QED BY <1>1, <1>3, <1>4, <1>5, <1>6 DEF InfoInv

LEMMA update_version_KeepsInv == InfoInv /\ update_version => InfoInv'
  <1> SUFFICES ASSUME InfoInv, update_version PROVE InfoInv'
    OBVIOUS
  <1>1. /\ at = "update" /\ Value(VersionKeys).found /\ NextPatch
        /\ UNCHANGED <<chain, cwd, search, applied, runs>>
        /\ LET e == Value(VersionKeys).e IN WriteAll(e) \/ WriteNothing \/ WritePart(e)
    BY DEF update_version
  <1>2. k \in 1..Len(chain) /\ DOMAIN chain = 1..Len(chain) /\ Len(chain) \in Nat
    BY ChainFacts DEF InfoInv
  <1>3. /\ at' \in {"locate", "ended"} /\ k' \in DOMAIN chain
        /\ consent' = FALSE /\ ver' = None
    BY <1>1, <1>2 DEF NextPatch
  <1> QED BY <1>1, <1>3, AfterStamp

LEMMA StampWriteFailsKeepsInv == InfoInv /\ StampWriteFails => InfoInv'
  <1> SUFFICES ASSUME InfoInv, StampWriteFails PROVE InfoInv'
    OBVIOUS
  <1>1. /\ at = "update" /\ Value(VersionKeys).found /\ at' = "failed"
        /\ UNCHANGED <<chain, k, cwd, search, ver, consent, applied, runs>>
        /\ LET e == Value(VersionKeys).e IN WriteAll(e) \/ WritePart(e)
    BY DEF StampWriteFails
  <1>2. k \in DOMAIN chain /\ consent \in BOOLEAN /\ ver \in STRING \cup {None, NoText}
    BY DEF InfoInv, Types, TypeOK
  <1> QED BY <1>1, <1>2, AfterStamp

LEMMA RunAgainKeepsInv == InfoInv /\ RunAgain => InfoInv'
  <1> SUFFICES ASSUME InfoInv, RunAgain PROVE InfoInv'
    OBVIOUS
  <1>1. /\ runs < MaxRuns /\ runs' = runs + 1 /\ k' = 1 /\ at' = "locate"
        /\ consent' = FALSE /\ ver' = None /\ cwd' = None /\ have_key' = FALSE
        /\ UNCHANGED <<plist, chain, applied, stamped, torn>>
    BY DEF RunAgain, StartSearch
  <1>2. Types /\ chain \in Seq(PatchHeader) /\ chain # << >>
    BY ChainsAssumption DEF InfoInv, Types, TypeOK
  <1>3. Types'
    <2>1. ~Searching' /\ ~Placed'
      BY <1>1 DEF Searching, Placed
    <2>2. 1 \in DOMAIN chain /\ runs' \in 1..MaxRuns
      BY <1>1, <1>2, ChainsAssumption DEF Types, TypeOK
    <2>3. TypeOK'
      BY <1>1, <1>2, <2>1, <2>2 DEF Types, TypeOK
    <2> QED BY <1>1, <1>2, <2>1, <2>3 DEF Types
  <1> QED BY <1>1, <1>3, FailKeepsInv

LEMMA InfoInvNext == InfoInv /\ [Next]_pvars => InfoInv'
  <1> SUFFICES ASSUME InfoInv, [Next]_pvars PROVE InfoInv'
    OBVIOUS
  <1>1. CASE VersionNotFound \/ StampFails
    <2>1. Fail
      BY <1>1 DEF VersionNotFound, StampFails
    <2>2. Types'
      BY <2>1, StepKeepsTypes DEF Fail, Goto, Searching, Placed, InfoInv, Types, TypeOK
    <2> QED BY <2>1, <2>2, FailKeepsInv DEF Fail, Goto
  <1>2. CASE UNCHANGED pvars
    <2> USE <1>2 DEF pvars
    <2>1. Types' /\ Unaltered' /\ KeyNoticed'
      BY DEF InfoInv, Types, TypeOK, Placed, Searching, Unaltered, KeyNoticed, Doc, KeysOf
    <2>2. Identified' /\ ReadBack' /\ WrongPlaceNeedsConsent'
      BY DEF InfoInv, Identified, ReadBack, WrongPlaceNeedsConsent, Header
    <2>3. OnTrail' /\ NotPassed'
      <3>1. Doc' = Doc /\ Now' = Now
        BY DEF Doc, Now
      <3>2. OnTrail /\ NotPassed
        BY DEF InfoInv
      <3>3. NotPassed'
        BY <3>1, <3>2 DEF NotPassed
      <3>4. OnTrail'
        BY <3>1, <3>2 DEF OnTrail
      <3> QED BY <3>3, <3>4
    <2> QED BY <2>1, <2>2, <2>3 DEF InfoInv
  <1>3. CASE chdir_by_identifier
    BY <1>3, chdir_KeepsInv
  <1>4. CASE OpenPlist
    BY <1>4, OpenPlistKeepsInv
  <1>5. CASE SeekIdentifier
    BY <1>5, SeekIdentifierKeepsInv
  <1>6. CASE IdentifierKnown
    BY <1>6, IdentifierKnownKeepsInv
  <1>7. CASE SeekVersion
    BY <1>7, SeekVersionKeepsInv
  <1>8. CASE VersionFound
    BY <1>8, VersionFoundKeepsInv
  <1>9. CASE check_product_version
    BY <1>9, check_KeepsInv
  <1>10. CASE Operations
    BY <1>10, OperationsKeepsInv
  <1>11. CASE Unstamped
    BY <1>11, UnstampedKeepsInv
  <1>12. CASE SeekStamp
    BY <1>12, SeekStampKeepsInv
  <1>13. CASE update_version
    BY <1>13, update_version_KeepsInv
  <1>14. CASE RunAgain
    BY <1>14, RunAgainKeepsInv
  <1>15. CASE StampWriteFails
    BY <1>15, StampWriteFailsKeepsInv
  <1> QED BY <1>1, <1>2, <1>3, <1>4, <1>5, <1>6, <1>7, <1>8, <1>9, <1>10, <1>11, <1>12,
             <1>13, <1>14, <1>15 DEF Next, Step

----------------------------------------------------------------------------
(* What follows from InfoInv. *)

(* Only texts of versions are not as they were installed. *)
LEMMA OnlyVersionsChanged == InfoInv => OnlyTheVersionChanges
  <1> SUFFICES ASSUME InfoInv, NEW d \in Dirs \ torn
               PROVE  /\ Len(plist[d]) = Len(InfoPlists[d])
                      /\ \A i \in DOMAIN plist[d] \ Texts(plist[d], VersionKeys) :
                            plist[d][i] = InfoPlists[d][i]
    BY DEF OnlyTheVersionChanges
  <1>1. SameBut(plist[d], InfoPlists[d]) /\ InfoPlists[d] \in Seq(Token)
    BY InfoAssumption DEF InfoInv, Unaltered
  <1>2. Texts(plist[d], VersionKeys) = Texts(InfoPlists[d], VersionKeys)
    BY <1>1, SameTexts
  <1>3. DOMAIN plist[d] = 1..Len(plist[d]) /\ Len(plist[d]) = Len(InfoPlists[d])
    BY <1>1 DEF SameBut
  <1> QED BY <1>1, <1>2, <1>3, SameTokens

(* A search that is lost has no next element. *)
LEMMA LostSearch ==
    ASSUME InfoInv, at = "version", Missing(VersionKeys)
    PROVE  ~ \E t, e : Element(Doc, Now, t, e)
  <1>1. /\ Doc \in Seq(Token) /\ cuts \subseteq 1..Len(Doc)
        /\ ptr \in Nat \ {0} /\ have_key \in BOOLEAN
    BY DocFacts DEF InfoInv, Placed, Searching
  <1> QED BY <1>1, ParseIsElement DEF Missing

LEMMA StampedIsRead == InfoInv => VersionReadsBack
  <1> SUFFICES ASSUME InfoInv, cwd # None, stamped[cwd] # None
               PROVE  /\ at = "check" => ver = stamped[cwd]
                      /\ ~(at = "version" /\ Missing(VersionKeys))
    BY DEF VersionReadsBack
  <1>1. at = "check" => ver = stamped[cwd]
    BY DEF InfoInv, ReadBack
  <1>2. ASSUME at = "version", Missing(VersionKeys)
        PROVE  FALSE
    <2>1. PICK tr : Finds(Doc, tr, stamped[cwd]) /\ \E m \in 1..Len(tr) : tr[m] = Now
      BY <1>2 DEF InfoInv, OnTrail
    <2>2. Doc \in Seq(Token)
      BY <1>2, DocFacts DEF InfoInv, Placed
    <2>3. \E t, e : Element(Doc, Now, t, e)
      BY <2>1, <2>2, OnTrailFinds
    <2> QED BY <1>2, <2>3, LostSearch
  <1> QED BY <1>1, <1>2

LEMMA LostIsNested == InfoInv => NotFoundMeansNested
  <1> SUFFICES ASSUME InfoInv, at = "version", Missing(VersionKeys),
                      NEW i \in Texts(Doc, VersionKeys),
                      cwd \notin torn, ~ \E j \in 1..i : Doc[j] = Close("dict")
               PROVE  FALSE
    BY DEF NotFoundMeansNested
  <1>1. /\ Doc \in Seq(Token) /\ Now \in Search
        /\ KeysAreWhole(Doc) /\ VersionsAtTheTop(Doc)
    BY DocFacts DEF InfoInv, Placed, Searching
  <1>2. Ahead(Doc, Now, i) /\ AtTheTop(Doc, i)
    BY <1>1 DEF InfoInv, NotPassed, VersionsAtTheTop
  <1>3. \E t, e : Element(Doc, Now, t, e)
    BY <1>1, <1>2, AheadIsFound
  <1> QED BY <1>3, LostSearch

LEMMA PatchedUpIsNot == InfoInv => PatchedUpIsLeftAlone
  <1> SUFFICES ASSUME InfoInv, at = "operations", Header.version.kind # "any"
               PROVE  stamped[cwd] # Header.newversion
    BY DEF PatchedUpIsLeftAlone
  <1>1. Header.newversion # None
    BY ChainFacts DEF InfoInv
  <1>2. ver # Header.newversion
    BY DEF InfoInv, ReadBack
  <1>3. stamped[cwd] # None => ver = stamped[cwd]
    BY DEF InfoInv, ReadBack
  <1> QED BY <1>1, <1>2, <1>3

(* get_product_version and update_version: a version at the top of an Info.plist
   is found there, a stamp that is written to its end changes nothing but that
   text, and every later run reads it back. *)
THEOREM StampsAreSound == Spec => []StampIsSound
  <1>1. InfoInv => StampIsSound
    BY OnlyVersionsChanged, StampedIsRead, LostIsNested
       DEF StampIsSound, InfoInv, Types
  <1> QED BY <1>1, InfoInvInit, InfoInvNext, PTL DEF Spec

(* chdir_by_identifier, get_product_version and version_ok: a patch is applied to
   the product it names, with consent, or where a stamp was torn, and never to one that was patched up to
   its new version before. *)
THEOREM RightProductIsPatched == Spec => []RightProduct
  <1>1. InfoInv => RightProduct
    BY PatchedUpIsNot DEF RightProduct, InfoInv
  <1> QED BY <1>1, InfoInvInit, InfoInvNext, PTL DEF Spec
=============================================================================
