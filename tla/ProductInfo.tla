---------------------------- MODULE ProductInfo ----------------------------
(***************************************************************************)
(* Finding the product and its version before a patch, and stamping the    *)
(* new version after it: chdir_by_identifier, get_product_version,         *)
(* version_ok and update_version, with the XML reader they share.          *)
(*                                                                         *)
(* An Info.plist is a sequence of tokens: an opening tag, a closing tag,   *)
(* an empty element, a declaration or comment, or a text.  parse_xml works *)
(* in a copy of the file and cuts it with NULs as it goes; a NUL stands at *)
(* a closing tag, and neither strchr nor strstr looks past one.            *)
(***************************************************************************)
EXTENDS Naturals, Sequences, FiniteSets

CONSTANTS
  Dirs,        \* directories a product may be looked for in
  InfoPlists,  \* [Dirs -> sequence of tokens, or <<>> for no Info.plist]
  Chains,      \* archives: sequences of [identifier, version, newversion]
  MaxRuns,     \* runs of the program
  Seams,       \* after how many tokens, from the new version on, a write may end
  Tear         \* what the token there becomes

VARIABLES
  plist,     \* Contents/Info.plist of every directory
  chain,     \* the archive
  k,         \* the patch of it that is being looked at
  at,        \* where in process_patch_header and do_patching
  cwd,       \* the working directory, once chosen
  cuts,      \* where parse_xml has put NULs into the copy
  ptr,       \* where the next call of parse_xml starts
  have_key,  \* the last element was a key that is looked for
  ver,       \* what get_product_version returned
  consent,   \* the user has said that this is the right place
  applied,   \* ghost: what was applied where, in order
  stamped,   \* ghost: the version last stamped into each directory
  torn,      \* ghost: the directories where a stamp was not written to its end
  runs       \* how many runs there have been

pvars == <<plist, chain, k, at, cwd, cuts, ptr, have_key, ver, consent,
           applied, stamped, torn, runs>>
search == <<cuts, ptr, have_key>>

Open(t) == [t |-> "open", v |-> t]
Close(t) == [t |-> "close", v |-> t]
Text(s) == [t |-> "text", v |-> s]
Token == [t : {"open", "close", "empty", "other", "text"}, v : STRING]

None == "none"
VersionKeys == {"CFBundleVersion", "CFBundleShortVersionString"}
IdKeys == {"CFBundleIdentifier"}

-----------------------------------------------------------------------------
(* What an Info.plist looks like, and an archive.                          *)

\* The positions of the texts that stand under one of the keys, by reading the
\* whole plist.
Texts(doc, keys) ==
  {i \in 5..(Len(doc) - 1) :
     /\ doc[i - 1] = Open("string") /\ doc[i + 1] = Close("string")
     /\ doc[i - 2] = Close("key") /\ doc[i - 3].t = "text" /\ doc[i - 3].v \in keys}

\* A key holds one text, and the value of a key that is looked for is a string
\* that holds one.
KeysAreWhole(doc) ==
  \A i \in 2..(Len(doc) - 1) :
    doc[i].t = "text" /\ doc[i + 1] = Close("key") =>
      /\ doc[i - 1] = Open("key")
      /\ doc[i].v \in VersionKeys \cup IdKeys =>
           /\ i + 4 <= Len(doc)
           /\ doc[i + 2] = Open("string") /\ doc[i + 3].t = "text"
           /\ doc[i + 4] = Close("string")

\* The text at i is the value of an entry of the only dict that is open there, in
\* the only plist: all else that begins before the entry ends before it.
AtTheTop(doc, i) ==
  /\ \A j \in 1..(i - 5) : doc[j].t = "open" /\ doc[j].v \notin {"plist", "dict"}
       => \E c \in (j + 1)..(i - 5) : doc[c] = Close(doc[j].v)
  /\ \A j \in 1..i : \A h \in 1..(j - 1) :
       /\ doc[j] = Open("dict") => doc[h] # Open("dict")
       /\ doc[j] = Open("plist") => doc[h] \notin {Open("plist"), Open("dict")}
  /\ \E x \in (i + 2)..Len(doc) :
       /\ doc[x] = Close("dict")
       /\ \E y \in (x + 1)..Len(doc) : doc[y] = Close("plist")
       /\ \A h \in 1..x : doc[h] # Close("plist")

\* Before the end of the first dict a version is only that of the product.
VersionsAtTheTop(doc) ==
  \A i \in Texts(doc, VersionKeys) :
    (\E j \in 1..i : doc[j] = Close("dict")) \/ AtTheTop(doc, i)

ASSUME InfoAssumption ==
  /\ InfoPlists \in [Dirs -> Seq(Token)] /\ None \notin Dirs
  /\ \A d \in Dirs : KeysAreWhole(InfoPlists[d]) /\ VersionsAtTheTop(InfoPlists[d])

\* header.version: any, less than a number, or one of several.
Allowed == [kind : {"any", "less than", "or"}, of : SUBSET STRING, than : STRING]
PatchHeader == [identifier : STRING, version : Allowed, newversion : STRING \ {None}]

ASSUME ChainsAssumption ==
  /\ \A c \in Chains : c \in Seq(PatchHeader) /\ c # <<>>
  /\ MaxRuns \in Nat \ {0} /\ Seams \subseteq Nat \ {0} /\ Tear \in Token

-----------------------------------------------------------------------------
(* The XML reader.                                                         *)

Doc == plist[cwd]

\* Where a string that starts at p ends.
EndOf(p) ==
  LET nul == {c \in cuts : c >= p}
  IN IF nul = {} THEN Len(Doc) + 1 ELSE CHOOSE c \in nul : \A d \in nul : c <= d

FirstIn(S) == CHOOSE i \in S : \A j \in S : i <= j

\* parse_xml from p: the next element that is not empty, and its closing tag.
\* A tag that is not closed before the next NUL ends the search.
parse_xml(p) ==
  LET opens  == {i \in p..(EndOf(p) - 1) : Doc[i].t = "open"}
      tag    == FirstIn(opens)
      closes == {j \in (tag + 1)..(EndOf(p) - 1) : Doc[j] = Close(Doc[tag].v)}
  IN IF opens = {} \/ closes = {}
       THEN [found |-> FALSE, tag |-> 0, end |-> 0]
       ELSE [found |-> TRUE, tag |-> tag, end |-> FirstIn(closes)]

\* The children of an element, as a string that ends at its closing tag.
StringOf(e) == IF e.end = e.tag + 2 /\ Doc[e.tag + 1].t = "text"
                 THEN Doc[e.tag + 1].v ELSE ""

\* Slip: the copy is not read again.
StartInSameCopy == ptr' = 1 /\ have_key' = FALSE /\ UNCHANGED cuts
StartSearch == cuts' = {} /\ ptr' = 1 /\ have_key' = FALSE

\* Slip: a string is taken whatever key it belongs to.
AnyString(keys, e) == e.found /\ Doc[e.tag].v = "string"
\* The element is the string that follows one of the keys.
IsValue(keys, e) == e.found /\ have_key /\ Doc[e.tag].v = "string"

\* Slip: the search steps over a dict.
OverAll(e) == e.end + 1
\* Where it goes on: inside a plist or a dict, behind anything else.
GoOn(e) == IF Doc[e.tag].v \in {"plist", "dict"} THEN e.tag + 1 ELSE e.end + 1

\* One turn of the loop in find_info_plist_version or ..._bundle_id.
TurnOf(keys) ==
  LET e == parse_xml(ptr) IN
  /\ e.found /\ ~IsValue(keys, e)
  /\ cuts' = cuts \cup {e.end}
  /\ ptr' = GoOn(e)
  /\ have_key' = (Doc[e.tag].v = "key" /\ StringOf(e) \in keys)
  /\ UNCHANGED <<plist, chain, k, at, cwd, ver, consent, applied, stamped, torn, runs>>

Value(keys) == LET e == parse_xml(ptr)
               IN [found |-> IsValue(keys, e), e |-> e]
Missing(keys) == ~parse_xml(ptr).found

-----------------------------------------------------------------------------
(* version_ok.  A version is its text and what strtod makes of it; numbers *)
(* that are none are 0.                                                    *)

NumberOf(text) == CASE text = "1" -> 1 [] text = "2" -> 2 [] text = "3" -> 3
                    [] OTHER -> 0

\* Slip: the patched version is not told from one to be patched.
version_ok_open(v, allowed, newver) ==
  IF allowed.kind = "any" \/ v \in allowed.of THEN "yes" ELSE "no"
version_ok(v, allowed, newver) ==
  CASE allowed.kind = "any" -> "yes"
    [] allowed.kind # "any" /\ v = newver -> "matches"
    [] allowed.kind = "less than" /\ v # newver ->
         IF NumberOf(v) = 0 \/ NumberOf(allowed.than) = 0 THEN "error"
         ELSE IF NumberOf(v) < NumberOf(allowed.than) THEN "yes" ELSE "no"
    [] allowed.kind = "or" /\ v # newver ->
         IF v \in allowed.of THEN "yes" ELSE "no"

-----------------------------------------------------------------------------
Header == chain[k]

Init ==
  /\ plist = InfoPlists /\ chain \in Chains /\ k = 1 /\ at = "locate"
  /\ cwd = None /\ cuts = {} /\ ptr = 1 /\ have_key = FALSE
  /\ ver = None /\ consent = FALSE /\ applied = <<>>
  /\ stamped = [d \in Dirs |-> None] /\ torn = {} /\ runs = 1

Goto(where) ==
  /\ at' = where
  /\ UNCHANGED <<plist, chain, k, cwd, ver, consent, applied, stamped, torn, runs>>
Fail == Goto("failed") /\ UNCHANGED search

\* The header is through, or the whole archive.
NextPatch ==
  /\ IF k < Len(chain) THEN k' = k + 1 /\ at' = "locate" ELSE k' = k /\ at' = "ended"
  /\ consent' = FALSE /\ ver' = None

\* chdir_by_identifier: LaunchServices finds a directory, or the user shows
\* one; either may fail, and so may chdir.
chdir_by_identifier ==
  /\ at = "locate"
  /\ \/ \E d \in Dirs :
          /\ cwd' = d /\ at' = "open"
          /\ UNCHANGED <<plist, chain, k, search, ver, consent, applied, stamped, torn, runs>>
     \/ Fail

\* get_product_version opens the file and starts to look for the identifier.
OpenPlist ==
  /\ at = "open"
  /\ IF Doc = <<>> THEN Fail ELSE Goto("identifier") /\ StartSearch

SeekIdentifier == at = "identifier" /\ TurnOf(IdKeys)

\* Slip: a directory without an identifier is not asked about.
TrustsSilence(e, ident) == ~e.found \/ StringOf(e.e) = ident
SameProduct(e, ident) == e.found /\ StringOf(e.e) = ident

\* An identifier that differs, or is missing, on either side, has to be
\* confirmed by the user, who may also stop.
IdentifierKnown ==
  /\ at = "identifier"
  /\ Missing(IdKeys) \/ Value(IdKeys).found
  /\ IF SameProduct(Value(IdKeys), Header.identifier)
       THEN Goto("version") /\ StartSearch
       ELSE \/ /\ at' = "version" /\ consent' = TRUE /\ StartSearch
               /\ UNCHANGED <<plist, chain, k, cwd, ver, applied, stamped, torn, runs>>
            \/ Fail

SeekVersion == at = "version" /\ TurnOf(VersionKeys)

\* The version is found.  The file is closed a second time on the way out, which
\* the C library may notice by aborting the program.
VersionFound ==
  /\ at = "version" /\ Value(VersionKeys).found
  /\ \/ /\ at' = "check" /\ ver' = StringOf(Value(VersionKeys).e)
        /\ UNCHANGED <<plist, chain, k, cwd, search, consent, applied, stamped, torn, runs>>
     \/ Goto("aborted") /\ UNCHANGED search

VersionNotFound ==
  /\ at = "version" /\ Missing(VersionKeys) /\ Fail

check_product_version ==
  /\ at = "check"
  /\ LET rc == version_ok(ver, Header.version, Header.newversion) IN
     \/ rc = "error" /\ Fail
     \/ /\ rc \in {"matches", "no"} /\ NextPatch
        /\ UNCHANGED <<plist, chain, cwd, search, applied, stamped, torn, runs>>
     \/ rc = "yes" /\ Goto("operations") /\ UNCHANGED search

\* do_patch_operations, here in one step: it fails, or the patch is applied.
Operations ==
  /\ at = "operations"
  /\ \/ Fail
     \/ /\ applied' = Append(applied,
             [k |-> k, dir |-> cwd, ver |-> ver, consent |-> consent, run |-> runs])
        /\ at' = IF Header.newversion = "" THEN "unstamped" ELSE "update"
        /\ StartSearch
        /\ UNCHANGED <<plist, chain, k, cwd, ver, consent, stamped, torn, runs>>

Unstamped ==
  /\ at = "unstamped" /\ NextPatch
  /\ UNCHANGED <<plist, chain, cwd, search, applied, stamped, torn, runs>>

SeekStamp == at = "update" /\ TurnOf(VersionKeys)

\* Slip: the copy that parse_xml has cut up is written back.
CutTail(e) == SubSeq(Doc, e.end, EndOf(e.end + 1) - 1)
\* The tail is read again before it is written.
TailOf(e) == SubSeq(Doc, e.end, Len(Doc))

\* The new version, and all that came after the old one.
Stamp(e) == SubSeq(Doc, 1, e.tag) \o << Text(Header.newversion) >> \o TailOf(e)

Writes(doc, version) == /\ plist' = [plist EXCEPT ![cwd] = doc]
                        /\ stamped' = [stamped EXCEPT ![cwd] = version]

WriteAll(e) == /\ Writes(Stamp(e), IF cwd \in torn THEN None ELSE Header.newversion)
               /\ UNCHANGED torn

WriteNothing == UNCHANGED <<plist, stamped, torn>>

\* The new file up to some place and the old one from there.  Where they meet,
\* unless their versions are of one length, bytes are missing or there twice: a
\* token has become something else.
WritePart(e) == /\ \E s \in Seams :
                      /\ e.tag + s \in DOMAIN Stamp(e)
                      /\ Writes([Stamp(e) EXCEPT ![e.tag + s] = Tear], None)
                /\ torn' = torn \cup {cwd}

\* update_version.  Whether fclose can write what the others have buffered is not
\* looked at: it succeeds with anything in the file.
update_version ==
  /\ at = "update" /\ Value(VersionKeys).found
  /\ LET e == Value(VersionKeys).e IN WriteAll(e) \/ WriteNothing \/ WritePart(e)
  /\ NextPatch
  /\ UNCHANGED <<chain, cwd, search, applied, runs>>

\* One of its writes fails; the last ones, of blanks behind the end, matter to no
\* reader.  The patch has been applied by then.
StampWriteFails ==
  /\ at = "update" /\ Value(VersionKeys).found
  /\ LET e == Value(VersionKeys).e IN WriteAll(e) \/ WritePart(e)
  /\ at' = "failed"
  /\ UNCHANGED <<chain, k, cwd, search, ver, consent, applied, runs>>

\* The file is not there any more, or it may not be written to: nothing is written.
StampFails ==
  /\ at = "update" /\ Fail

RunAgain ==
  /\ at \in {"ended", "failed", "aborted"} /\ runs < MaxRuns
  /\ runs' = runs + 1 /\ k' = 1 /\ at' = "locate" /\ consent' = FALSE
  /\ ver' = None /\ cwd' = None /\ StartSearch
  /\ UNCHANGED <<plist, chain, applied, stamped, torn>>

Step == \/ chdir_by_identifier \/ OpenPlist \/ SeekIdentifier \/ IdentifierKnown
        \/ SeekVersion \/ VersionFound \/ VersionNotFound
        \/ check_product_version \/ Operations \/ Unstamped
        \/ SeekStamp \/ update_version \/ StampWriteFails \/ StampFails
Next == Step \/ RunAgain

Spec == Init /\ [][Next]_pvars
-----------------------------------------------------------------------------
Searching == at \in {"identifier", "version", "update"}

\* While a plist is searched its copy is cut only at closing tags, and the search
\* stays inside it: the copy is always one of the file at hand.
TypeOK ==
  /\ chain \in Chains /\ k \in DOMAIN chain /\ cwd \in Dirs \cup {None}
  /\ at \in {"locate", "open", "identifier", "version", "check", "operations",
             "update", "unstamped", "ended", "failed", "aborted"}
  /\ torn \subseteq Dirs /\ have_key \in BOOLEAN /\ consent \in BOOLEAN /\ runs \in 1..MaxRuns
  /\ Searching => /\ ptr \in 1..(Len(Doc) + 1)
                  /\ \A c \in cuts : c \in DOMAIN Doc /\ Doc[c].t = "close"

\* A product that was stamped has the version it was stamped with, for every later
\* run: update_version writes where get_product_version reads, and what it writes
\* can be read again.
VersionReadsBack ==
  cwd # None /\ stamped[cwd] # None =>
     /\ at = "check" => ver = stamped[cwd]
     /\ ~(at = "version" /\ Missing(VersionKeys))

\* All of an Info.plist but the text under a version key is as it was installed:
\* update_version reads the tail again, after the search has cut it up.
OnlyTheVersionChanges ==
  \A d \in Dirs \ torn :
    /\ Len(plist[d]) = Len(InfoPlists[d])
    /\ \A i \in DOMAIN plist[d] \ Texts(plist[d], VersionKeys) :
         plist[d][i] = InfoPlists[d][i]

\* Nothing is applied in a directory that is not known to hold the product that
\* the patch names, unless the user has said that it is the right place, or the
\* Info.plist is torn.
WrongPlaceNeedsConsent ==
  \A i \in DOMAIN applied :
    \/ applied[i].consent \/ applied[i].dir \in torn
    \/ LET doc == InfoPlists[applied[i].dir] IN
       \E j \in Texts(doc, IdKeys) : doc[j].v = chain[applied[i].k].identifier

\* A patch for certain versions is never applied to a product that this patch, or
\* another with the same new version, has stamped already: in no later run, and
\* not when the list of versions it is for holds the new one too.
PatchedUpIsLeftAlone ==
  at = "operations" /\ Header.version.kind # "any" /\ Header.newversion # ""
     => stamped[cwd] # Header.newversion

\* A version that is in the plist is found, but for one that stands behind the end
\* of an inner dict: the first closing tag is taken for that of the outer one.
NotFoundMeansNested ==
  at = "version" /\ Missing(VersionKeys) /\ cwd \notin torn =>
    \A i \in Texts(Doc, VersionKeys) : \E j \in 1..i : Doc[j] = Close("dict")

\* The version in a plist: found where it stands, with the exception named above,
\* stamped without touching anything else, and read back as it was stamped, wherever
\* no write of a stamp was cut short.
StampIsSound ==
  TypeOK /\ NotFoundMeansNested /\ OnlyTheVersionChanges /\ VersionReadsBack

\* A patch is applied only to the product it names, or with consent, and never to
\* one that has its new version already.
RightProduct == WrongPlaceNeedsConsent /\ PatchedUpIsLeftAlone
=============================================================================
