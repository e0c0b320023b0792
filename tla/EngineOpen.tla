----------------------------- MODULE EngineOpen -----------------------------
(***************************************************************************)
(* kgv_engine_open (src/src/runtime/engine.cpp): the package is verified,  *)
(* its front end is loaded and tried on the empty text                     *)
(* (frontend_package.cpp), for Piper the token projection and the ONNX     *)
(* session follow, and only then is there an engine.  From verification on *)
(* everything is made of the bytes that were read, never of the files.     *)
(***************************************************************************)
EXTENDS ModelPackage, FrontendResources

CONSTANT
  SmokeVector   (* fixture_smoke_sha256: the hash of this build's own tone *)

VARIABLES
  frontend,     \* [role -> content] that the resources were loaded from
  engine        \* *out_engine: NoEngine, the null pointer, or what it is made of

NoEngine == [frontend |-> <<>>, payloads |-> <<>>, manifest |-> None]

openVars == <<packageVars, frontend, engine>>

OpenIdle == Idle /\ frontend = <<>> /\ engine = NoEngine

Manifest == Body(manifest)
\* payload_for_role, for every role at once.
Chosen ==
  [role \in {payloads[k].role : k \in DOMAIN payloads} |->
     payloads[CHOOSE k \in DOMAIN payloads : payloads[k].role = role].content]
Has(role)      == role \in DOMAIN Chosen
Of(role)       == Body(Chosen[role])

FailOpen(code) == Fail(code) /\ frontend' = <<>> /\ UNCHANGED engine

-----------------------------------------------------------------------------
(* load_verified_frontend_package.                                         *)

\* parse_segments: the inventory that the manifest is bound to.
SegmentsStatus ==
  LET hash == Chosen["segment_inventory"]
  IN  IF Body(hash).type # "segments" THEN "INVALID_MODEL"
      ELSE IF Body(hash).ids # Manifest.segmentIds \/ hash # Manifest.inventory
      THEN "ABI_MISMATCH" ELSE "OK"

\* How each loader judges its header, and then its entries.
LoadStatus(role, type, bound, loads) ==
  IF ~ Has(role) THEN "OK"
  ELSE IF Of(role).type # type \/ Of(role).admission # Manifest.admission THEN "INVALID_MODEL"
  ELSE IF ~ bound THEN "ABI_MISMATCH"
  ELSE IF ~ loads THEN "INVALID_MODEL" ELSE "OK"

ForInventory(role) == Of(role).inventory = Manifest.inventory
ForLexicon(role)   == Of(role).lexicon = Chosen["pronunciation_lexicon"]
\* A product resource claims a review, a fixture none.
Reviewed(role) == (Of(role).review = None) <=> (Manifest.admission # "product")
\* Nor is a product table empty.
Filled(table) == Manifest.admission = "product" => table # {}

LexiconStatus ==
  LoadStatus("pronunciation_lexicon", "lexicon", ForInventory("pronunciation_lexicon"),
             /\ Filled(Of("pronunciation_lexicon").entries) /\ Reviewed("pronunciation_lexicon")
             /\ LexiconLoads(Of("pronunciation_lexicon").entries))
LtsStatus ==
  LoadStatus("lts_model", "lts", ForInventory("lts_model"),
             Reviewed("lts_model") /\ Of("lts_model").graph)
TokensStatus ==
  LoadStatus("model_token_inventory", "tokens", ForInventory("model_token_inventory"),
             Of("model_token_inventory").complete)
HeteronymsStatus ==
  LoadStatus("heteronym_rules", "heteronyms", ForLexicon("heteronym_rules"),
             /\ Filled(Of("heteronym_rules").rules) /\ Reviewed("heteronym_rules")
             /\ HeteronymRulesLoad(Of("heteronym_rules").rules))
MorphologyStatus ==
  LoadStatus("morphology_rules", "morphology",
             ForLexicon("morphology_rules") /\ ForInventory("morphology_rules"),
             Reviewed("morphology_rules") /\ MorphologyLoads(Of("morphology_rules").rules))
WeakFormsStatus ==
  LoadStatus("weak_form_rules", "weak",
             ForLexicon("weak_form_rules") /\ ForInventory("weak_form_rules"),
             /\ Filled(Of("weak_form_rules").rules) /\ Reviewed("weak_form_rules")
             /\ WeakFormRulesLoad(Of("weak_form_rules").rules, Of("weak_form_rules").vowels))

\* resources(): what run_resolved_frontend is given.  No user dictionary.
Optional(chosen, role) ==
  IF role \in DOMAIN chosen THEN Body(chosen[role]) ELSE [present |-> FALSE]
Resources(chosen, m) ==
  LET lexicon == Body(chosen["pronunciation_lexicon"])
  IN  [base |-> [id |-> chosen["pronunciation_lexicon"], admission |-> lexicon.admission,
                 inventory |-> lexicon.inventory, review |-> lexicon.review,
                 entries |-> lexicon.entries],
       user |-> [present |-> FALSE, entries |-> {}],
       lts |-> Body(chosen["lts_model"]), tokens |-> Body(chosen["model_token_inventory"]),
       heteronyms |-> Optional(chosen, "heteronym_rules"),
       morphology |-> Optional(chosen, "morphology_rules"),
       weak |-> Optional(chosen, "weak_form_rules"),
       admission |-> m.admission, abi |-> m.abi]

\* (faulty: the loaded resources are not tried together.)
Untried == "OK"
\* run_resolved_frontend on "": only the resources can make it fail.
ProbeStatus == BindingStatus(Resources(Chosen, Manifest))

FirstFailure(statuses) ==
  LET failures == {k \in DOMAIN statuses : statuses[k] # "OK"}
  IN  IF failures = {} THEN "OK" ELSE statuses[CHOOSE k \in failures : \A l \in failures : k <= l]

\* required_payload found none; the code answers INVALID_MODEL.
LacksRole == \E role \in Core : ~ Has(role)
LoaderStatus ==
  FirstFailure(<<SegmentsStatus, LexiconStatus, LtsStatus, TokensStatus, HeteronymsStatus,
                 MorphologyStatus, WeakFormsStatus>>)

LoadFrontend ==
  /\ step = "verified"
  /\ IF Manifest.engine = "fixture" /\ Manifest.vector # SmokeVector
     THEN FailOpen("INVALID_MODEL")
     ELSE IF LacksRole THEN FailOpen("LACKS_ROLE")
     ELSE IF LoaderStatus # "OK" THEN FailOpen(LoaderStatus)
     ELSE IF ProbeStatus # "OK" THEN FailOpen(ProbeStatus)
     ELSE /\ frontend' = Chosen
          /\ step' = IF Manifest.engine = "fixture" THEN "ready" ELSE "projection"
          /\ UNCHANGED <<files, progress, status, engine>>

-----------------------------------------------------------------------------
(* Piper.                                                                  *)

\* load_piper_token_projection.
LoadProjection ==
  /\ step = "projection"
  /\ IF ~ Has("token_projection") THEN FailOpen("LACKS_ROLE")
     ELSE LET p == Of("token_projection")
          IN  IF p.type # "projection" THEN FailOpen("INVALID_MODEL")
              ELSE IF p.tokens # Chosen["model_token_inventory"] THEN FailOpen("ABI_MISMATCH")
              ELSE IF ~ p.covers THEN FailOpen("INVALID_MODEL")
              ELSE /\ step' = "session"
                   /\ UNCHANGED <<files, progress, status, frontend, engine>>

\* PiperRuntime::create, up to what ONNX Runtime makes of the graph.
CreateSession ==
  /\ step = "session"
  /\ IF ~ Has("onnx_model") THEN FailOpen("LACKS_ROLE")
     ELSE IF Of("onnx_model").type # "graph" THEN FailOpen("INVALID_MODEL")
     ELSE step' = "ready" /\ UNCHANGED <<files, progress, status, frontend, engine>>
\* The library is missing or has another version, or a call of it fails.
SessionFails ==
  /\ step = "session"
  /\ \E code \in {"IO_ERROR", "ABI_MISMATCH", "INTERNAL_ERROR"} : FailOpen(code)

Publish ==
  /\ step = "ready"
  /\ engine' = [frontend |-> frontend, payloads |-> payloads, manifest |-> manifest]
  /\ step' = "ended" /\ status' = "OK"
  /\ UNCHANGED <<files, progress, frontend>>

\* kgv_engine_open's own std::bad_alloc.
OpenOutOfMemory ==
  step \in {"verified", "projection", "session", "ready"} /\ FailOpen("RESOURCE_EXHAUSTED")

OpenStep == \/ Verify /\ UNCHANGED <<frontend, engine>>
            \/ LoadFrontend \/ LoadProjection \/ CreateSession \/ SessionFails
            \/ Publish \/ OpenOutOfMemory

-----------------------------------------------------------------------------
(* Properties.                                                             *)

\* The files of a payload list are what a manifest promises.
Promised(list, m) ==
  /\ Len(list) = Len(m.files)
  /\ \A k \in DOMAIN list : /\ list[k].content = m.files[k].sha
                            /\ list[k].role = m.files[k].role
                            /\ BytesOf(list[k].content) = m.files[k].bytes
\* Whatever other programs do to the directory meanwhile, an engine is made of
\* exactly what the pinned release commits to, and its resources of exactly
\* those bytes (model_package.cpp:749-815, engine.cpp:371-431).
PinnedBytes ==
  engine # NoEngine =>
    /\ Body(pin).type = "release" /\ engine.manifest = Body(pin).manifestSha
    /\ Promised(engine.payloads, Body(engine.manifest))
    /\ \A role \in DOMAIN engine.frontend : \E k \in DOMAIN Body(engine.manifest).files :
         LET f == Body(engine.manifest).files[k]
         IN  f.role = role /\ f.sha = engine.frontend[role]

\* The resources of an engine are what every run takes them for: each table is
\* one that its loader lets in, and together they fit, so that no run can end
\* with a mismatch between them (frontend_package.cpp:195-291,
\* resolution.cpp:100-279).
EngineBound ==
  engine # NoEngine =>
    LET resources == Resources(engine.frontend, Body(engine.manifest))
    IN  TablesLoaded(resources) /\ BindingStatus(resources) = "OK"

-----------------------------------------------------------------------------
(* What a package should be, said of all its files at once.                *)

Regularly(path, content) == InDirectory(path) /\ disk[path] = File(content)
SoundFile(m, k) ==
  LET f == m.files[k]
  IN  /\ SafePath(f.path) /\ Regularly(f.path, f.sha)
      /\ BytesOf(f.sha) = f.bytes /\ f.bytes <= MaxPayloadBytes
      /\ \A l \in DOMAIN m.files : l # k => m.files[l].path # f.path /\ m.files[l].role # f.role
SumOf(m) == LET sum[k \in 0..Len(m.files)] == IF k = 0 THEN 0 ELSE sum[k - 1] + m.files[k].bytes
            IN  sum[Len(m.files)]
SoundManifest(m) ==
  /\ m.type = "manifest" /\ m.head = "OK" /\ m.tail = "OK"
  /\ Len(m.files) \in 1..MaxPayloadFiles
  /\ \A k \in DOMAIN m.files : SoundFile(m, k)
  /\ SumOf(m) = m.modelBytes /\ m.modelBytes <= MaxTotalBytes
  /\ RequiredRoles(m.engine) \subseteq {m.files[k].role : k \in DOMAIN m.files}
  /\ {m.files[k].role : k \in DOMAIN m.files} \subseteq AllowedRoles(m.engine)
  /\ m.notices \subseteq {m.files[k].path : k \in DOMAIN m.files}
  /\ \A k \in DOMAIN m.files :
       /\ m.files[k].role = "fixture_graph" =>
            m.files[k].path = <<"fixture.graph">> /\ m.files[k].bytes > 0
       /\ m.files[k].role = "onnx_model" =>
            m.files[k].path = <<"model.onnx">> /\ m.files[k].bytes >= MinGraphBytes
       /\ m.files[k].role = "token_projection" =>
            m.files[k].path = <<"frontend", "piper_projection.jsonl">> /\ m.files[k].bytes > 0
SoundPackage ==
  /\ pin \in DOMAIN Contents /\ disk[<<>>] = Directory
  /\ Regularly(ReleasePath, pin) /\ BytesOf(pin) \in 1..MaxReleaseBytes
  /\ Body(pin).type = "release" /\ Body(pin).manifestBytes \in 1..MaxManifestBytes
  /\ Body(pin).manifestSha \in DOMAIN Contents
  /\ Regularly(ManifestPath, Body(pin).manifestSha)
  /\ BytesOf(Body(pin).manifestSha) = Body(pin).manifestBytes
  /\ SoundManifest(Body(Body(pin).manifestSha))

\* The verification of a directory that nobody touches succeeds exactly when it
\* is a sound package and there is memory for it, whatever the order in which
\* the parts are looked at; and a package that verifies, touched or not, has
\* every role that the loaders after it look up, so that their own refusals are
\* for what cannot happen (model_package.cpp:453-565, 703-815,
\* frontend_package.cpp:116-125, engine.cpp:401-407).
AcceptsSoundPackages ==
  [][/\ ~ touched' => /\ step' = "verified" => SoundPackage
                      /\ (Reading \/ step = "pin") /\ step' = "ended" /\ SoundPackage
                           => status' = "RESOURCE_EXHAUSTED"
     /\ status' # "LACKS_ROLE"]_openVars
=============================================================================
