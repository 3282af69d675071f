--------------------------- MODULE MCProductInfo ---------------------------
(* Four directories: the product, with an inner dict behind its version; one *)
(* that has its version behind an inner dict; one without an identifier and  *)
(* with both version keys; and one with no Info.plist.                       *)
EXTENDS ProductInfo

MCTear == Text("torn")
Elem(tag, s) == << Open(tag), Text(s), Close(tag) >>
Entry(key, s) == Elem("key", key) \o Elem("string", s)
Dict(body) == << Open("dict") >> \o body \o << Close("dict") >>
Plist(body) == << [t |-> "other", v |-> "!DOCTYPE"], Open("plist") >>
                  \o Dict(body) \o << Close("plist") >>
Inner == Elem("key", "Types") \o << Open("array") >>
           \o Dict(Entry("Name", "1")) \o << Close("array") >>
Flag == Elem("key", "Flag") \o << [t |-> "empty", v |-> "true"] >>

MCDirs == {"product", "nested", "nameless", "empty"}
MCInfoPlists ==
  [d \in MCDirs |->
     CASE d = "product"  -> Plist(Entry("CFBundleIdentifier", "x") \o Flag
                              \o Entry("CFBundleShortVersionString", "1") \o Inner)
       [] d = "nested"   -> Plist(Entry("CFBundleIdentifier", "y") \o Inner
                              \o Entry("CFBundleVersion", "1"))
       [] d = "nameless" -> Plist(Entry("Name", "x")
                              \o Entry("CFBundleVersion", "2")
                              \o Entry("CFBundleShortVersionString", "1"))
       [] d = "empty"    -> <<>>]

Any == [kind |-> "any", of |-> {}, than |-> "0"]
Less(n) == [kind |-> "less than", of |-> {}, than |-> n]
Or(vs) == [kind |-> "or", of |-> vs, than |-> "0"]
P(i, a, n) == [identifier |-> i, version |-> a, newversion |-> n]
MCChains == { << P("x", Or({"1"}), "2"), P("x", Or({"2"}), "3") >>,
              << P("x", Or({"1", "2"}), "2") >>,
              << P("x", Less("3"), "3") >>, << P("x", Less("beta"), "3") >>,
              << P("", Any, "") >>, << P("y", Any, "2") >> }
=============================================================================
