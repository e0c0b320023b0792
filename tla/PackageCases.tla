---------------------------- MODULE PackageCases ---------------------------
(***************************************************************************)
(* Packages for SynthesizeCommand: a fixture package, a product package    *)
(* for Piper, and one package for each way in which a package can be       *)
(* wrong.                                                                  *)
(***************************************************************************)
EXTENDS SynthesizeCommand, TLC

MCSegments == {"t", "u", "s"}
A  == <<"a">>
Say(segments) == << [segments |-> segments, stress |-> "none"] >>
Item(grapheme, roles, segments) ==
  [mode |-> "fold", grapheme |-> grapheme, roles |-> roles, syllables |-> Say(segments)]
BaseEntries == {Item(A, {"default"}, <<"t">>), Item(A, {"weak", "past"}, <<"u">>)}

-----------------------------------------------------------------------------
(* The contents of payloads; the product's begin with p.                   *)

Lexicon(admission, review, entries) ==
  [type |-> "lexicon", admission |-> admission, inventory |-> "segments", review |-> review,
   entries |-> entries]
Lts(admission, review, lexicon) ==
  [type |-> "lts", admission |-> admission, inventory |-> "segments", review |-> review,
   lexicon |-> lexicon, graph |-> TRUE]
Tokens(admission) ==
  [type |-> "tokens", admission |-> admission, inventory |-> "segments", abi |-> "A",
   complete |-> TRUE]
Overlay(type, rules) ==
  [type |-> type, admission |-> "product", lexicon |-> "p_lexicon", review |-> "R",
   inventory |-> "segments", rules |-> rules, vowels |-> {"u"}, present |-> TRUE]
Heteronym == [id |-> 1, target |-> A, role |-> "past", caps |-> "any", position |-> "any",
              conditions |-> {[offset |-> -1, words |-> {A}]}]
WeakForm  == [id |-> 1, target |-> A, role |-> "weak", caps |-> "any", position |-> "any",
              next |-> "vowel"]
MorphologyRules ==
  [pluralSyllabic |-> {"s"}, pluralUnvoiced |-> {"t"}, pastSyllabic |-> {"t"},
   pastUnvoiced |-> {"s"},
   suffix |-> [x \in Suffixes |-> <<"s">>]]
Projection == [type |-> "projection", tokens |-> "p_tokens", covers |-> TRUE]

Bodies ==
  [ segments   |-> [type |-> "segments", ids |-> <<1, 2, 3>>],
    other      |-> [type |-> "other"],
    empty      |-> [type |-> "graph"],
    graph      |-> [type |-> "graph"],
    onnx       |-> [type |-> "graph"],
    lexicon    |-> Lexicon("test", None, BaseEntries),
    twice      |-> Lexicon("test", None, BaseEntries \cup {Item(A, {"weak"}, <<"s">>)}),
    reviewed   |-> Lexicon("test", "R", BaseEntries),
    bare       |-> Lexicon("test", None, {}),
    lts        |-> Lts("test", None, "lexicon"),
    bare_lts   |-> Lts("test", None, "bare"),
    cycle      |-> [Lts("test", None, "lexicon") EXCEPT !.graph = FALSE],
    stray      |-> Lts("test", None, "p_lexicon"),
    tokens     |-> Tokens("test"),
    abi        |-> [Tokens("test") EXCEPT !.abi = "B"],
    incomplete |-> [Tokens("test") EXCEPT !.complete = FALSE],
    inventory  |-> [Tokens("test") EXCEPT !.inventory = "other"],
    p_lexicon  |-> Lexicon("product", "R", BaseEntries),
    p_lts      |-> Lts("product", "R", "p_lexicon"),
    p_unread   |-> Lts("product", "Q", "p_lexicon"),
    p_tokens   |-> Tokens("product"),
    p_het      |-> Overlay("heteronyms", {Heteronym}),
    p_ruleless |-> Overlay("heteronyms", {}),
    p_roleless |-> Overlay("heteronyms", {[Heteronym EXCEPT !.role = "none"]}),
    p_mor      |-> Overlay("morphology", MorphologyRules),
    p_weak     |-> Overlay("weak", {WeakForm}),
    p_foreign  |-> [Overlay("weak", {WeakForm}) EXCEPT !.lexicon = "lexicon"],
    p_tie      |-> Overlay("weak", {WeakForm, [WeakForm EXCEPT !.id = 2]}),
    p_map      |-> Projection,
    p_partial  |-> [Projection EXCEPT !.covers = FALSE],
    second     |-> Lts("test", None, "lexicon"),
    p_unbound  |-> [Projection EXCEPT !.tokens = "tokens"] ]
SizeOf(content) ==
  CASE content = "empty" -> 0
    [] content \in {"lexicon", "twice", "reviewed", "bare", "p_lexicon"} -> 2
    [] content = "onnx" -> 3
    [] OTHER -> 1

-----------------------------------------------------------------------------
(* Manifests.                                                              *)

In(name) == <<"frontend", name>>
Lists(path, role, content) ==
  [path |-> path, role |-> role, bytes |-> SizeOf(content), sha |-> content]
FixtureFiles ==
  << Lists(<<"fixture.graph">>, "fixture_graph", "graph"),
     Lists(In("seg"), "segment_inventory", "segments"),
     Lists(In("lex"), "pronunciation_lexicon", "lexicon"),
     Lists(In("lts"), "lts_model", "lts"),
     Lists(In("tok"), "model_token_inventory", "tokens") >>
PiperFiles ==
  << Lists(<<"model.onnx">>, "onnx_model", "onnx"),
     Lists(In("seg"), "segment_inventory", "segments"),
     Lists(In("lex"), "pronunciation_lexicon", "p_lexicon"),
     Lists(In("lts"), "lts_model", "p_lts"),
     Lists(In("tok"), "model_token_inventory", "p_tokens"),
     Lists(In("piper_projection.jsonl"), "token_projection", "p_map"),
     Lists(In("het"), "heteronym_rules", "p_het"),
     Lists(In("mor"), "morphology_rules", "p_mor"),
     Lists(In("weak"), "weak_form_rules", "p_weak"),
     Lists(<<"notice">>, "license_notice", "other") >>
Total(list) ==
  LET sum[k \in 0..Len(list)] == IF k = 0 THEN 0 ELSE sum[k - 1] + list[k].bytes
  IN  sum[Len(list)]
Makes(kind, list) ==
  [type |-> "manifest", head |-> "OK", engine |-> kind, files |-> list,
   modelBytes |-> Total(list), notices |-> {}, tail |-> "OK", segmentIds |-> <<1, 2, 3>>,
   inventory |-> "segments", admission |-> IF kind = "fixture" THEN "test" ELSE "product",
   abi |-> "A", vector |-> "V"]
Fixture == Makes("fixture", FixtureFiles)
Piper   == [Makes("piper", PiperFiles) EXCEPT !.notices = {<<"notice">>}]

\* Another payload in the k-th place, another field there, one entry more.
Puts(list, k, content) == [list EXCEPT ![k] = Lists(list[k].path, list[k].role, content)]
FixtureWith(k, content) == Makes("fixture", Puts(FixtureFiles, k, content))
PiperWith(k, content) ==
  [Makes("piper", Puts(PiperFiles, k, content)) EXCEPT !.notices = {<<"notice">>}]
FixtureAlso(file) == Makes("fixture", Append(FixtureFiles, file))

Variants ==
  {"fixture", "piper", "head", "tail", "vector", "total", "notices", "ids", "bound",
   "nofiles", "manyfiles", "norole", "role", "twice", "path", "unsafe", "nograph", "noonnx",
   "nomap", "bytes", "large", "sha", "totals", "f_seg", "f_lexicon", "f_reviewed", "f_other",
   "f_cycle", "f_stray", "f_product", "f_abi", "f_tokens", "f_inv", "p_onnx", "p_unread",
   "p_mapless", "p_partial", "p_unbound", "p_ruleless", "p_roleless", "p_foreign", "p_tie",
   "f_bare"}
ManifestOf(v) ==
  CASE v = "fixture"    -> Fixture
    [] v = "piper"      -> Piper
    [] v = "head"       -> [Fixture EXCEPT !.head = "UNSUPPORTED_CPU"]
    [] v = "tail"       -> [Fixture EXCEPT !.tail = "INVALID_MODEL"]
    [] v = "vector"     -> [Fixture EXCEPT !.vector = "W"]
    [] v = "total"      -> [Fixture EXCEPT !.modelBytes = 7]
    [] v = "notices"    -> [Fixture EXCEPT !.notices = {<<"notice">>}]
    [] v = "ids"        -> [Fixture EXCEPT !.segmentIds = <<1, 2>>]
    [] v = "bound"      -> [Fixture EXCEPT !.inventory = "other"]
    [] v = "nofiles"    -> Makes("fixture", <<>>)
    [] v = "manyfiles"  -> Makes("piper", PiperFiles \o FixtureFiles)
    [] v = "norole"     -> Makes("fixture", SubSeq(FixtureFiles, 1, 4))
    [] v = "role"       -> FixtureAlso(Lists(<<"notice">>, "license_notice", "other"))
    [] v = "twice"      -> FixtureAlso(Lists(<<"notice">>, "lts_model", "lts"))
    [] v = "path"       -> FixtureAlso(Lists(In("lts"), "weak_form_rules", "lts"))
    [] v = "unsafe"     -> FixtureAlso(Lists(ManifestPath, "weak_form_rules", "other"))
    [] v = "nograph"    -> FixtureWith(1, "empty")
    [] v = "noonnx"     -> PiperWith(1, "graph")
    [] v = "nomap"      -> PiperWith(6, "empty")
    [] v = "bytes"      -> [Fixture EXCEPT !.files[3].bytes = 1]
    [] v = "large"      -> [Fixture EXCEPT !.files[3].bytes = 4]
    [] v = "sha"        -> [Fixture EXCEPT !.files[3].sha = "p_lexicon"]
    [] v = "totals"     -> [PiperWith(2, "onnx") EXCEPT !.files[7].sha = "onnx", !.files[7].bytes = 3,
                                                    !.files[8].sha = "onnx", !.files[8].bytes = 3]
    [] v = "f_seg"      -> FixtureWith(2, "other")
    [] v = "f_lexicon"  -> FixtureWith(3, "twice")
    [] v = "f_reviewed" -> FixtureWith(3, "reviewed")
    [] v = "f_other"    -> FixtureWith(3, "other")
    [] v = "f_cycle"    -> FixtureWith(4, "cycle")
    [] v = "f_stray"    -> FixtureWith(4, "stray")
    [] v = "f_product"  -> FixtureWith(4, "p_lts")
    [] v = "f_abi"      -> FixtureWith(5, "abi")
    [] v = "f_tokens"   -> FixtureWith(5, "incomplete")
    [] v = "f_inv"      -> FixtureWith(5, "inventory")
    [] v = "p_onnx"     -> PiperWith(1, "p_lexicon")
    [] v = "p_unread"   -> PiperWith(4, "p_unread")
    [] v = "p_mapless"  -> PiperWith(6, "other")
    [] v = "p_partial"  -> PiperWith(6, "p_partial")
    [] v = "p_unbound"  -> PiperWith(6, "p_unbound")
    [] v = "f_bare"     -> Makes("fixture", Puts(Puts(FixtureFiles, 3, "bare"), 4, "bare_lts"))
    [] v = "p_ruleless" -> PiperWith(7, "p_ruleless")
    [] v = "p_roleless" -> PiperWith(7, "p_roleless")
    [] v = "p_foreign"  -> PiperWith(9, "p_foreign")
    [] v = "p_tie"      -> PiperWith(9, "p_tie")

Man(v) == "manifest " \o v
Rel(v) == "release " \o v
Release(v, size) == [type |-> "release", manifestBytes |-> size, manifestSha |-> Man(v)]
Holds(size, body) == [bytes |-> size, body |-> body]
Manifested == [c \in {Man(v) : v \in Variants} |->
                 Holds(2, ManifestOf(CHOOSE v \in Variants : Man(v) = c))]
Released == [c \in {Rel(v) : v \in Variants} |->
               Holds(1, Release(CHOOSE v \in Variants : Rel(v) = c, 2))]
Payloads == [c \in DOMAIN Bodies |-> Holds(SizeOf(c), Bodies[c])]
MCContents ==
  Payloads @@ Manifested @@ Released
  @@ "release none"  :> Holds(0, Release("fixture", 2))
  @@ "release large" :> Holds(3, Release("fixture", 2))
  @@ "release size"  :> Holds(1, Release("fixture", 1))
  @@ "release zero"  :> Holds(1, Release("fixture", 0))
  @@ "release other" :> Holds(1, [type |-> "other release"])
  @@ "release self"  :> Holds(1, [type |-> "release", manifestBytes |-> 1,
                                  manifestSha |-> "other"])

=============================================================================
