---------------------- MODULE SynthesizeCommandProofs ----------------------
(***************************************************************************)
(* Proofs about SynthesizeCommand, for every set of files, whatever other  *)
(* programs do to them and whenever, and every length of the audio.        *)
(***************************************************************************)
EXTENDS SynthesizeCommand, MorphologyProofs

FileSteps == {"walk", "regular", "size", "read", "judge"}
OwnPaths  == {ReleasePath, ManifestPath}
\* A file that the manifest lists is read; the list is in use.
InPayload == step \in FileSteps /\ target \notin OwnPaths
Verified  == step \in {"verified", "projection", "session", "ready"}
Listing   == step = "entry" \/ InPayload \/ Verified
Idling    == step \in {"idle", "pin"} \/ (step \in FileSteps /\ target \in OwnPaths)

Item == [role : STRING, path : Seq(STRING), content : DOMAIN Contents]

\* The manifest is the one that the pinned release names.
Committed(c) ==
  /\ Body(pin).type = "release" /\ c = Body(pin).manifestSha
  /\ c \in DOMAIN Contents /\ Body(c).type = "manifest"
\* The payloads so far are the first entries of the manifest.
ListOK ==
  /\ Committed(manifest)
  /\ entry \in Nat \ {0} /\ entry <= Len(Manifest.files) + 1
  /\ payloads \in Seq(Item) /\ Len(payloads) = entry - 1
  /\ \A k \in 1..entry - 1 :
       /\ payloads[k].content = Manifest.files[k].sha
       /\ payloads[k].role = Manifest.files[k].role
       /\ payloads[k].path = Manifest.files[k].path
       /\ BytesOf(payloads[k].content) = Manifest.files[k].bytes

PackageInv ==
  /\ Idling => payloads = <<>>
  /\ step \in FileSteps /\ target = ManifestPath => manifest = pin /\ Body(pin).type = "release"
  /\ Listing => ListOK
  /\ InPayload => entry <= Len(Manifest.files)
  /\ InPayload /\ step \in {"read", "judge"} => sized = Entry.bytes
  /\ step \in {"read", "judge"} => sized \in Nat
  /\ step = "judge" => bytes \in DOMAIN Contents /\ BytesOf(bytes) = sized
  /\ Verified => entry = Len(Manifest.files) + 1

-----------------------------------------------------------------------------
(* The verification of the package.                                        *)

LEMMA FilesAreEntries ==
  ASSUME NEW c \in DOMAIN Contents, Body(c).type = "manifest"
  PROVE  Body(c).files \in Seq(FileEntry)
BY ManifestsAssumption DEF Body

LEMMA OwnPathsDiffer == ReleasePath # ManifestPath
<1>1. ReleasePath[1] # ManifestPath[1] BY DEF ReleasePath, ManifestPath
<1> QED BY <1>1

\* A call that ends has promised nothing.
LEMMA EndedKeeps == ASSUME step' = "ended" PROVE PackageInv'
BY DEF PackageInv, Idling, Listing, InPayload, Verified, FileSteps

LEMMA FailKeeps == ASSUME NEW c, Fail(c) PROVE PackageInv'
BY EndedKeeps DEF Fail

\* What ListOK is about.
listed == <<pin, manifest, entry, payloads>>
LEMMA ListKept == ASSUME ListOK, UNCHANGED listed PROVE ListOK'
BY DEF listed, ListOK, Committed, Manifest, Body, BytesOf

LEMMA ChangeKeeps == ASSUME PackageInv, Change PROVE PackageInv'
<1>1. UNCHANGED <<step, target, sized, bytes, manifest, entry, payloads, pin>>
  BY DEF Change, progress
<1> QED
  BY <1>1, ListKept DEF PackageInv, Idling, Listing, InPayload, Verified, listed, Manifest,
     Entry, Body, BytesOf

LEMMA PinKeeps == ASSUME PackageInv, CheckPin PROVE PackageInv'
<1>1. CASE \E c : Fail(c) BY <1>1, FailKeeps
<1>2. CASE Seek(ReleasePath) /\ step = "pin" /\ UNCHANGED payloads
  <2>1. step' = "walk" /\ target' = ReleasePath /\ target' # ManifestPath
    BY <1>2, OwnPathsDiffer DEF Seek
  <2> QED
    BY <1>2, <2>1 DEF PackageInv, Idling, Listing, InPayload, Verified, FileSteps, OwnPaths
<1> QED BY <1>1, <1>2 DEF CheckPin

\* The steps between the inspection of a file and its content.
LEMMA AdvanceKeeps ==
  ASSUME PackageInv, step \in FileSteps, step' \in FileSteps,
         UNCHANGED <<pin, target, manifest, entry, payloads>>,
         InPayload /\ step' \in {"read", "judge"} => sized' = Entry.bytes,
         step' \in {"read", "judge"} => sized' \in Nat,
         step' = "judge" => bytes' \in DOMAIN Contents /\ BytesOf(bytes') = sized'
  PROVE  PackageInv'
<1>1. UNCHANGED listed BY DEF listed
<1>2. InPayload' <=> InPayload BY DEF InPayload
<1>3. UNCHANGED <<Manifest, Entry>> BY DEF Manifest, Entry, Body
<1> QED
  BY <1>1, <1>2, <1>3, ListKept
     DEF PackageInv, Idling, Listing, Verified, FileSteps, InPayload, Body, BytesOf

LEMMA WalkKeeps == ASSUME PackageInv, Walk PROVE PackageInv'
<1>1. CASE \E c : Fail(c) BY <1>1, FailKeeps
<1>2. CASE ~ \E c : Fail(c)
  <2>1. /\ step = "walk" /\ step' \in {"walk", "regular"}
        /\ UNCHANGED <<pin, target, manifest, entry, payloads>>
    BY <1>2 DEF Walk, files
  <2> QED BY <2>1, AdvanceKeeps DEF FileSteps
<1> QED BY <1>1, <1>2

LEMMA RegularKeeps == ASSUME PackageInv, Regular PROVE PackageInv'
<1>1. CASE \E c : Fail(c) BY <1>1, FailKeeps
<1>2. CASE ~ \E c : Fail(c)
  <2>1. /\ step = "regular" /\ step' = "size"
        /\ UNCHANGED <<pin, target, manifest, entry, payloads>>
    BY <1>2 DEF Regular, files, progress
  <2> QED BY <2>1, AdvanceKeeps DEF FileSteps
<1> QED BY <1>1, <1>2

LEMMA SizeKeeps == ASSUME PackageInv, Size PROVE PackageInv'
<1>1. CASE \E c : Fail(c) BY <1>1, FailKeeps
<1>2. CASE ~ \E c : Fail(c)
  <2>1. PICK c \in Found(target) : /\ step = "size" /\ step' = "read" /\ RightSize(BytesOf(c))
                                   /\ sized' = BytesOf(c)
                                   /\ UNCHANGED <<pin, target, manifest, entry, payloads>>
    BY <1>2 DEF Size, files
  <2>2. InPayload => sized' = Entry.bytes
    BY <2>1 DEF InPayload, OwnPaths, RightSize
  <2>3. sized' \in Nat BY <2>1, SizesAssumption DEF Found, BytesOf
  <2> QED BY <2>1, <2>2, <2>3, AdvanceKeeps DEF FileSteps
<1> QED BY <1>1, <1>2

LEMMA ReadKeeps == ASSUME PackageInv, Read PROVE PackageInv'
<1>1. CASE \E c : Fail(c) BY <1>1, FailKeeps
<1>2. CASE ~ \E c : Fail(c)
  <2>1. PICK c \in Found(target) : /\ step = "read" /\ step' = "judge" /\ bytes' = c
                                   /\ ~ BytesOf(c) < sized /\ ~ BytesOf(c) > sized
                                   /\ UNCHANGED <<pin, target, sized, manifest, entry, payloads>>
    BY <1>2 DEF Read, files
  <2>2. BytesOf(c) \in Nat /\ sized \in Nat /\ c \in DOMAIN Contents
    BY <2>1, SizesAssumption DEF Found, BytesOf, PackageInv
  <2>3. bytes' \in DOMAIN Contents /\ BytesOf(bytes') = sized'
    <3>1. BytesOf(c) = sized BY <2>1, <2>2
    <3> QED BY <3>1, <2>1, <2>2
  <2>4. InPayload => sized' = Entry.bytes BY <2>1 DEF PackageInv
  <2> QED BY <2>1, <2>2, <2>3, <2>4, AdvanceKeeps DEF FileSteps
<1> QED BY <1>1, <1>2

LEMMA ReleaseKeeps == ASSUME PackageInv, JudgeRelease PROVE PackageInv'
<1>1. CASE \E c : Fail(c) BY <1>1, FailKeeps
<1>2. CASE ~ \E c : Fail(c)
  <2>1. /\ step = "judge" /\ target = ReleasePath /\ bytes = pin /\ Body(bytes).type = "release"
        /\ step' = "walk" /\ target' = ManifestPath /\ manifest' = bytes
        /\ UNCHANGED <<pin, payloads>>
    BY <1>2 DEF JudgeRelease, Hashed, Seek, files
  <2> QED
    BY <2>1, OwnPathsDiffer
       DEF PackageInv, Idling, Listing, InPayload, Verified, FileSteps, OwnPaths, Body
<1> QED BY <1>1, <1>2

LEMMA ManifestKeeps == ASSUME PackageInv, JudgeManifest PROVE PackageInv'
<1>1. CASE \E c : Fail(c) BY <1>1, FailKeeps
<1>2. CASE ~ \E c : Fail(c)
  <2>1. /\ step = "judge" /\ target = ManifestPath /\ bytes = Body(manifest).manifestSha
        /\ Body(bytes).type = "manifest" /\ Len(Body(bytes).files) \in 1..MaxPayloadFiles
        /\ manifest' = bytes /\ entry' = 1 /\ step' = "entry" /\ UNCHANGED <<pin, payloads>>
    BY <1>2 DEF JudgeManifest, Hashed, files
  <2>2. manifest = pin /\ Body(pin).type = "release" /\ payloads = <<>> /\ bytes \in DOMAIN Contents
    BY <2>1 DEF PackageInv, Idling, FileSteps, OwnPaths
  <2>3. Len(Body(bytes).files) \in Nat BY <2>1, <2>2, FilesAreEntries
  <2>4. ListOK'
    <3>1. payloads' = <<>> /\ <<>> \in Seq(Item) /\ Len(<<>>) = 0 BY <2>1, <2>2
    <3>2. entry' = 1 /\ entry' - 1 = 0 /\ 1..entry' - 1 = {} BY <2>1
    <3>3. Manifest' = Body(bytes) /\ Committed(manifest)'
      BY <2>1, <2>2 DEF Manifest, Committed, Body
    <3>4. 1 <= Len(Body(bytes).files) + 1 BY <2>3
    <3> QED BY <3>1, <3>2, <3>3, <3>4 DEF ListOK
  <2> QED
    BY <2>1, <2>4 DEF PackageInv, Idling, Listing, InPayload, Verified, FileSteps
<1> QED BY <1>1, <1>2

LEMMA EntryKeeps == ASSUME PackageInv, CheckEntry PROVE PackageInv'
<1>1. CASE \E c : Fail(c) BY <1>1, FailKeeps
<1>2. CASE ~ \E c : Fail(c)
  <2>1. /\ step = "entry" /\ entry <= Len(Manifest.files) /\ SafePath(Entry.path)
        /\ step' = "walk" /\ target' = Entry.path
        /\ UNCHANGED <<pin, manifest, entry, payloads>>
    BY <1>2 DEF CheckEntry, Seek, files, Manifest
  <2>2. target' \notin OwnPaths BY <2>1 DEF SafePath, OwnPaths
  <2>3. ListOK' BY <2>1, ListKept DEF PackageInv, Listing, listed
  <2>4. Manifest' = Manifest BY <2>1 DEF Manifest, Body
  <2> QED
    BY <2>1, <2>2, <2>3, <2>4
       DEF PackageInv, Idling, Listing, InPayload, Verified, FileSteps, OwnPaths
<1> QED BY <1>1, <1>2

LEMMA PayloadKeeps == ASSUME PackageInv, JudgePayload PROVE PackageInv'
<1>1. CASE \E c : Fail(c) BY <1>1, FailKeeps
<1>2. CASE ~ \E c : Fail(c)
  <2> DEFINE item == [role |-> Entry.role, path |-> Entry.path, content |-> bytes]
  <2>1. /\ step = "judge" /\ target \notin OwnPaths /\ bytes = Entry.sha
        /\ payloads' = Append(payloads, item) /\ entry' = entry + 1 /\ step' = "entry"
        /\ UNCHANGED <<pin, manifest>>
    BY <1>2 DEF JudgePayload, Hashed, files, OwnPaths
  <2>2. InPayload /\ ListOK /\ entry <= Len(Manifest.files) /\ BytesOf(bytes) = Entry.bytes
        /\ bytes \in DOMAIN Contents
    BY <2>1 DEF PackageInv, InPayload, Listing, FileSteps
  <2>3. Entry \in FileEntry /\ Entry = Manifest.files[entry]
    <3>1. Manifest.files \in Seq(FileEntry)
      BY <2>2, FilesAreEntries DEF ListOK, Committed, Manifest
    <3> QED BY <3>1, <2>2 DEF ListOK, Entry, Manifest
  <2>4. item \in Item BY <2>2, <2>3 DEF FileEntry, Item
  <2>5. item.role = Entry.role /\ item.path = Entry.path /\ item.content = bytes OBVIOUS
  <2> HIDE DEF item
  <2>6. ListOK'
    <3>1. /\ Len(payloads) = entry - 1 /\ entry \in Nat \ {0} /\ payloads \in Seq(Item)
          /\ Len(Manifest.files) \in Nat
      BY <2>2, FilesAreEntries DEF ListOK, Committed, Manifest
    <3>2. /\ payloads' \in Seq(Item) /\ Len(payloads') = entry' - 1 /\ payloads'[entry] = item
          /\ \A k \in 1..entry - 1 : payloads'[k] = payloads[k]
      BY <2>1, <2>4, <3>1
    <3>3. Manifest' = Manifest /\ Committed(manifest)' BY <2>1, <2>2 DEF Manifest, ListOK, Committed, Body
    <3>4. \A k \in 1..entry' - 1 : k \in 1..entry - 1 \/ k = entry BY <2>1, <3>1
    <3>5. \A k \in 1..entry' - 1 :
            /\ payloads'[k].content = Manifest.files[k].sha
            /\ payloads'[k].role = Manifest.files[k].role
            /\ payloads'[k].path = Manifest.files[k].path
            /\ BytesOf(payloads'[k].content) = Manifest.files[k].bytes
      BY <3>2, <3>4, <2>1, <2>2, <2>3, <2>5 DEF ListOK
    <3>6. entry' \in Nat \ {0} /\ entry' <= Len(Manifest.files) + 1 BY <2>1, <2>2, <3>1
    <3> QED BY <3>2, <3>3, <3>5, <3>6 DEF ListOK, BytesOf
  <2> QED
    BY <2>1, <2>6 DEF PackageInv, Idling, Listing, InPayload, Verified, FileSteps
<1> QED BY <1>1, <1>2

LEMMA EndKeeps == ASSUME PackageInv, EndOfFiles PROVE PackageInv'
<1>1. CASE \E c : Fail(c) BY <1>1, FailKeeps
<1>2. CASE ~ \E c : Fail(c)
  <2>1. /\ step = "entry" /\ entry > Len(Manifest.files) /\ step' = "verified"
        /\ UNCHANGED <<pin, manifest, entry, payloads>>
    BY <1>2 DEF EndOfFiles, files, progress, Manifest
  <2>2. ListOK BY <2>1 DEF PackageInv, Listing
  <2>3. ListOK' /\ Manifest' = Manifest BY <2>1, <2>2, ListKept DEF listed, Manifest, Body
  <2>4. entry = Len(Manifest.files) + 1
    <3>1. Len(Manifest.files) \in Nat BY <2>2, FilesAreEntries DEF ListOK, Committed, Manifest
    <3> QED BY <3>1, <2>1, <2>2 DEF ListOK
  <2> QED
    BY <2>1, <2>3, <2>4 DEF PackageInv, Idling, Listing, InPayload, Verified, FileSteps
<1> QED BY <1>1, <1>2

LEMMA VerifyKeeps == ASSUME PackageInv, Verify PROVE PackageInv'
BY ChangeKeeps, PinKeeps, WalkKeeps, RegularKeeps, SizeKeeps, ReadKeeps, ReleaseKeeps,
   ManifestKeeps, EntryKeeps, PayloadKeeps, EndKeeps, FailKeeps DEF Verify, OutOfMemory

-----------------------------------------------------------------------------
(* The opening of the engine.                                              *)

Fitting == /\ TablesLoaded(Resources(frontend, Manifest))
           /\ BindingStatus(Resources(frontend, Manifest)) = "OK"
OpenInv ==
  /\ PackageInv
  /\ step \in {"projection", "session", "ready"} => frontend = Chosen /\ Fitting
  /\ engine # NoEngine => step = "ended" /\ status = "OK"
  /\ PinnedBytes /\ EngineBound

\* Without an engine nothing is claimed of one.
LEMMA NoEngineKeeps ==
  ASSUME PackageInv', engine' = NoEngine, step' \notin {"projection", "session", "ready"}
  PROVE  OpenInv'
BY DEF OpenInv, PinnedBytes, EngineBound, NoEngine

LEMMA VerifySteps ==
  ASSUME Verify
  PROVE  /\ step \notin {"idle", "ended", "verified", "projection", "session", "ready"}
         /\ step' \notin {"projection", "session", "ready"}
<1>1. ASSUME NEW c, Fail(c) PROVE step' = "ended" BY <1>1 DEF Fail
<1>2. CASE Change \/ OutOfMemory BY <1>1, <1>2 DEF Change, OutOfMemory, Reading
<1>3. CASE CheckPin \/ Walk \/ Regular \/ Size \/ Read
  BY <1>1, <1>3 DEF CheckPin, Walk, Regular, Size, Read, Seek
<1>4. CASE JudgeRelease \/ JudgeManifest \/ CheckEntry \/ JudgePayload \/ EndOfFiles
  BY <1>1, <1>4 DEF JudgeRelease, JudgeManifest, CheckEntry, JudgePayload, EndOfFiles, Seek
<1> QED BY <1>2, <1>3, <1>4 DEF Verify

LEMMA FailOpenKeeps ==
  ASSUME NEW c, FailOpen(c), engine = NoEngine PROVE OpenInv'
<1>1. PackageInv' /\ step' = "ended" BY FailKeeps DEF FailOpen, Fail
<1>2. engine' = NoEngine BY DEF FailOpen, NoEngine
<1> QED BY <1>1, <1>2, NoEngineKeeps

\* The steps from the verified package to the engine.
LEMMA PackageStays ==
  ASSUME PackageInv, Verified, step' \in {"projection", "session", "ready"}, UNCHANGED <<files, progress>>
  PROVE  PackageInv' /\ Chosen' = Chosen /\ Manifest' = Manifest
<1>1. UNCHANGED <<listed, payloads, manifest, entry>> BY DEF files, progress, listed
<1>2. Chosen' = Chosen /\ Manifest' = Manifest BY <1>1 DEF Chosen, Manifest, Body
<1>3. ListOK' BY <1>1, ListKept DEF PackageInv, Listing
<1> QED
  BY <1>1, <1>2, <1>3 DEF PackageInv, Idling, Listing, InPayload, Verified, FileSteps

LEMMA FirstFailureIs ==
  ASSUME NEW C, "OK" \in C, NEW s, DOMAIN s \subseteq Nat, \A k \in DOMAIN s : s[k] \in C
  PROVE  /\ FirstFailure(s) \in C
         /\ FirstFailure(s) = "OK" => \A k \in DOMAIN s : s[k] = "OK"
<1> DEFINE failures == {k \in DOMAIN s : s[k] # "OK"}
<1>1. CASE failures = {} BY <1>1 DEF FirstFailure
<1>2. CASE failures # {}
  <2>1. \E k \in failures : \A l \in failures : k <= l
    BY <1>2, LeastElement
  <2>2. (CHOOSE k \in failures : \A l \in failures : k <= l) \in failures
    BY <2>1
  <2>3. FirstFailure(s) = s[CHOOSE k \in failures : \A l \in failures : k <= l]
    BY <1>2 DEF FirstFailure
  <2> HIDE DEF failures
  <2>4. failures \subseteq DOMAIN s /\ \A k \in failures : s[k] # "OK" BY DEF failures
  <2> QED BY <2>2, <2>3, <2>4
<1> QED BY <1>1, <1>2

LoaderCodes == {"OK", "INVALID_MODEL", "ABI_MISMATCH"}
\* No loader has an answer of another kind, and together they are content only
\* if each of them is.
LEMMA LoaderAnswers ==
  /\ LoaderStatus \in LoaderCodes
  /\ LoaderStatus = "OK" => /\ LexiconStatus = "OK" /\ HeteronymsStatus = "OK"
                           /\ MorphologyStatus = "OK" /\ WeakFormsStatus = "OK"
<1>1. SegmentsStatus \in LoaderCodes BY DEF SegmentsStatus, LoaderCodes
<1>2. \A role, type, bound, loads : LoadStatus(role, type, bound, loads) \in LoaderCodes
  BY DEF LoadStatus, LoaderCodes
<1>3. /\ LexiconStatus \in LoaderCodes /\ LtsStatus \in LoaderCodes
      /\ TokensStatus \in LoaderCodes /\ HeteronymsStatus \in LoaderCodes
      /\ MorphologyStatus \in LoaderCodes /\ WeakFormsStatus \in LoaderCodes
  BY <1>2 DEF LexiconStatus, LtsStatus, TokensStatus, HeteronymsStatus, MorphologyStatus,
     WeakFormsStatus
<1> DEFINE s == <<SegmentsStatus, LexiconStatus, LtsStatus, TokensStatus, HeteronymsStatus,
                  MorphologyStatus, WeakFormsStatus>>
<1>4. DOMAIN s = 1..7 /\ \A k \in 1..7 : s[k] \in LoaderCodes
  <2>1. \A k \in 1..7 : k = 1 \/ k = 2 \/ k = 3 \/ k = 4 \/ k = 5 \/ k = 6 \/ k = 7
    OBVIOUS
  <2> QED BY <1>1, <1>3, <2>1
<1>5. DOMAIN s \subseteq Nat BY <1>4
<1> HIDE DEF s
<1>6. "OK" \in LoaderCodes BY DEF LoaderCodes
<1>7. /\ FirstFailure(s) \in LoaderCodes
      /\ FirstFailure(s) = "OK" => \A k \in 1..7 : s[k] = "OK"
  BY <1>4, <1>5, <1>6, FirstFailureIs
<1>8. FirstFailure(s) = "OK" => s[2] = "OK" /\ s[5] = "OK" /\ s[6] = "OK" /\ s[7] = "OK"
  BY <1>7
<1> QED BY <1>7, <1>8 DEF LoaderStatus, s

\* Where no loader objected, every table is one that a run may be given.
LEMMA TablesAreLoaded ==
  ASSUME ~ LacksRole, LoaderStatus = "OK"
  PROVE  TablesLoaded(Resources(Chosen, Manifest))
<1> DEFINE r == Resources(Chosen, Manifest)
<1>1. /\ LexiconStatus = "OK" /\ HeteronymsStatus = "OK"
      /\ MorphologyStatus = "OK" /\ WeakFormsStatus = "OK"
  BY LoaderAnswers
<1>2. /\ r.base.entries = Of("pronunciation_lexicon").entries
      /\ r.user.present = FALSE /\ r.user.entries = {}
      /\ r.heteronyms = Optional(Chosen, "heteronym_rules")
      /\ r.morphology = Optional(Chosen, "morphology_rules")
      /\ r.weak = Optional(Chosen, "weak_form_rules")
  BY DEF Resources, Of
<1>3. \A role : Optional(Chosen, role).present =>
        Has(role) /\ Optional(Chosen, role) = Of(role)
  BY DEF Optional, Has, Of
<1> HIDE DEF r
<1>4. LexiconLoads(r.base.entries)
  <2>1. Has("pronunciation_lexicon") BY DEF LacksRole, Core
  <2> QED BY <1>1, <1>2, <2>1 DEF LexiconStatus, LoadStatus
<1>5. r.heteronyms.present => HeteronymRulesLoad(r.heteronyms.rules)
  BY <1>1, <1>2, <1>3 DEF HeteronymsStatus, LoadStatus
<1>6. r.morphology.present => MorphologyLoads(r.morphology.rules)
  BY <1>1, <1>2, <1>3 DEF MorphologyStatus, LoadStatus
<1>7. r.weak.present => WeakFormRulesLoad(r.weak.rules, r.weak.vowels)
  BY <1>1, <1>2, <1>3 DEF WeakFormsStatus, LoadStatus
<1> QED BY <1>2, <1>4, <1>5, <1>6, <1>7 DEF TablesLoaded, r

LEMMA LoadKeeps == ASSUME OpenInv, LoadFrontend PROVE OpenInv'
<1>1. engine = NoEngine BY DEF OpenInv, LoadFrontend
<1>2. CASE \E c : FailOpen(c) BY <1>1, <1>2, FailOpenKeeps
<1>3. CASE ~ \E c : FailOpen(c)
  <2>1. /\ step = "verified" /\ step' \in {"projection", "ready"} /\ ProbeStatus = "OK"
        /\ ~ LacksRole /\ LoaderStatus = "OK"
        /\ frontend' = Chosen /\ UNCHANGED <<files, progress, status, engine>>
    BY <1>3 DEF LoadFrontend
  <2>2. PackageInv' /\ Chosen' = Chosen /\ Manifest' = Manifest
    BY <2>1, PackageStays DEF OpenInv, Verified
  <2>3. frontend' = Chosen' /\ Fitting'
    BY <2>1, <2>2, TablesAreLoaded DEF Fitting, ProbeStatus
  <2>4. engine' = NoEngine BY <1>1, <2>1 DEF NoEngine
  <2> QED BY <2>2, <2>3, <2>4 DEF OpenInv, PinnedBytes, EngineBound, NoEngine
<1> QED BY <1>2, <1>3

LEMMA PiperKeeps == ASSUME OpenInv, LoadProjection \/ CreateSession \/ SessionFails PROVE OpenInv'
<1>1. engine = NoEngine BY DEF OpenInv, LoadProjection, CreateSession, SessionFails
<1>2. CASE \E c : FailOpen(c) BY <1>1, <1>2, FailOpenKeeps
<1>3. CASE ~ \E c : FailOpen(c)
  <2>1. /\ step \in {"projection", "session"} /\ step' \in {"session", "ready"}
        /\ UNCHANGED <<files, progress, status, frontend, engine>>
    BY <1>3 DEF LoadProjection, CreateSession, SessionFails
  <2>2. PackageInv' /\ Chosen' = Chosen /\ Manifest' = Manifest
    BY <2>1, PackageStays DEF OpenInv, Verified
  <2>3. frontend' = Chosen' /\ Fitting'
    BY <2>1, <2>2 DEF OpenInv, Fitting
  <2>4. engine' = NoEngine BY <1>1, <2>1 DEF NoEngine
  <2> QED BY <2>2, <2>3, <2>4 DEF OpenInv, PinnedBytes, EngineBound, NoEngine
<1> QED BY <1>2, <1>3

\* What the front end was loaded from are files of the manifest.
LEMMA ChosenAreListed ==
  ASSUME ListOK, entry = Len(Manifest.files) + 1
  PROVE  \A role \in DOMAIN Chosen : \E k \in DOMAIN Manifest.files :
           Manifest.files[k].role = role /\ Manifest.files[k].sha = Chosen[role]
<1>1. /\ Len(Manifest.files) \in Nat /\ DOMAIN Manifest.files = 1..Len(Manifest.files)
      /\ payloads \in Seq(Item)
  BY FilesAreEntries DEF ListOK, Committed, Manifest
<1>2. Len(payloads) = Len(Manifest.files) /\ 1..entry - 1 = DOMAIN payloads
      /\ DOMAIN payloads = DOMAIN Manifest.files
  BY <1>1 DEF ListOK
<1> SUFFICES ASSUME NEW role \in DOMAIN Chosen
             PROVE  \E k \in DOMAIN Manifest.files :
                      Manifest.files[k].role = role /\ Manifest.files[k].sha = Chosen[role]
  OBVIOUS
<1> DEFINE k == CHOOSE j \in DOMAIN payloads : payloads[j].role = role
<1>3. \E j \in DOMAIN payloads : payloads[j].role = role BY DEF Chosen
<1>4. k \in DOMAIN payloads /\ payloads[k].role = role BY <1>3
<1>5. Chosen[role] = payloads[k].content BY DEF Chosen
<1> HIDE DEF k
<1> QED BY <1>2, <1>4, <1>5 DEF ListOK

LEMMA PublishKeeps == ASSUME OpenInv, Publish PROVE OpenInv'
<1>1. /\ step = "ready" /\ step' = "ended" /\ status' = "OK" /\ UNCHANGED pin
      /\ engine' = [frontend |-> frontend, payloads |-> payloads, manifest |-> manifest]
  BY DEF Publish, files
<1>2. /\ engine'.frontend = frontend /\ engine'.payloads = payloads
      /\ engine'.manifest = manifest
  BY <1>1
<1>3. /\ ListOK /\ entry = Len(Manifest.files) + 1 /\ frontend = Chosen /\ Fitting
  BY <1>1 DEF OpenInv, PackageInv, Listing, Verified
<1>4. PackageInv' BY <1>1, EndedKeeps
<1>5. /\ Body(pin).type = "release" /\ manifest = Body(pin).manifestSha
      /\ Promised(payloads, Body(manifest))
  <2>1. /\ Len(Manifest.files) \in Nat /\ payloads \in Seq(Item)
    BY <1>3, FilesAreEntries DEF ListOK, Committed, Manifest
  <2>2. Len(payloads) = Len(Manifest.files) /\ 1..entry - 1 = DOMAIN payloads
    BY <2>1, <1>3 DEF ListOK
  <2> QED BY <2>2, <1>3 DEF ListOK, Committed, Promised, Manifest
<1>6. PinnedBytes'
  <2>1. \A role \in DOMAIN frontend : \E k \in DOMAIN Body(manifest).files :
          Body(manifest).files[k].role = role /\ Body(manifest).files[k].sha = frontend[role]
    BY <1>3, ChosenAreListed DEF Manifest
  <2> QED BY <1>1, <1>2, <1>5, <2>1 DEF PinnedBytes, Promised, Body, BytesOf
<1>7. EngineBound' BY <1>1, <1>2, <1>3 DEF EngineBound, Fitting, Manifest
<1> QED BY <1>1, <1>4, <1>6, <1>7 DEF OpenInv

LEMMA OpenStepKeeps == ASSUME OpenInv, OpenStep PROVE OpenInv'
<1>1. CASE Verify /\ UNCHANGED <<frontend, engine>>
  <2>1. PackageInv' BY <1>1, VerifyKeeps DEF OpenInv
  <2>2. engine = NoEngine BY <1>1, VerifySteps DEF OpenInv
  <2>3. engine' = NoEngine BY <1>1, <2>2 DEF NoEngine
  <2> QED BY <1>1, <2>1, <2>3, VerifySteps, NoEngineKeeps
<1>2. CASE OpenOutOfMemory
  <2>1. engine = NoEngine BY <1>2 DEF OpenOutOfMemory, OpenInv
  <2> QED BY <1>2, <2>1, FailOpenKeeps DEF OpenOutOfMemory
<1> QED BY <1>1, <1>2, LoadKeeps, PiperKeeps, PublishKeeps DEF OpenStep

-----------------------------------------------------------------------------
(* The command around it: the engine and the job.                          *)

HandleInv ==
  /\ OpenInv
  /\ pc \in {"start", "check"} => step = "idle"
  /\ pc = "open" => step # "idle"
  /\ pc \in {"create", "file", "run"} => step = "ended"
  /\ pc \in {"header", "judge"} => engine = NoEngine
  /\ pc = "exited" /\ ~ Abandoned => engine = NoEngine /\ job # "live"
  /\ job = "live" => pc \in {"file", "run", "exited"}
  /\ pc \in {"file", "run", "header", "judge"} => job # "none"
  /\ caught => pc = "exited"

LEMMA OpenVarsKept == ASSUME OpenInv, UNCHANGED openVars PROVE OpenInv'
<1>1. UNCHANGED <<disk, budget, touched, pin, step, target, depth, sized, bytes, manifest,
                  entry, payloads, total, status, frontend, engine>>
  BY DEF openVars, packageVars, files, progress
<1>2. Manifest' = Manifest /\ Chosen' = Chosen /\ Entry' = Entry
  BY <1>1 DEF Manifest, Chosen, Entry, Body
<1>3. PackageInv'
  BY <1>1, <1>2, ListKept
     DEF OpenInv, PackageInv, Idling, Listing, InPayload, Verified, listed, Body, BytesOf
<1>4. engine' # NoEngine => engine # NoEngine BY <1>1 DEF NoEngine
<1>5. PinnedBytes' /\ EngineBound'
  BY <1>1, <1>4 DEF OpenInv, PinnedBytes, EngineBound, Promised, Body, BytesOf
<1> QED BY <1>1, <1>2, <1>3, <1>4, <1>5 DEF OpenInv, Fitting

LEMMA StartKeeps ==
  ASSUME OpenInv, step = "idle", OpenEngine
  PROVE  OpenInv' /\ pc' = "open" /\ step' = "pin" /\ UNCHANGED caught
<1>1. /\ step' = "pin" /\ payloads' = payloads /\ engine' = engine /\ pc' = "open"
      /\ UNCHANGED caught
  BY DEF OpenEngine, progress, Goto
<1>2. engine = NoEngine /\ payloads = <<>> BY DEF OpenInv, PackageInv, Idling
<1>3. PackageInv'
  BY <1>1, <1>2 DEF PackageInv, Idling, Listing, InPayload, Verified, FileSteps
<1>4. engine' = NoEngine BY <1>1, <1>2 DEF NoEngine
<1> QED BY <1>1, <1>3, <1>4, NoEngineKeeps

LEMMA CloseKeeps ==
  ASSUME Close, step = "ended" PROVE OpenInv' /\ step' = "ended" /\ engine' = NoEngine
<1>1. step' = "ended" /\ engine' = NoEngine BY DEF Close, packageVars, NoEngine
<1> QED BY <1>1, EndedKeeps, NoEngineKeeps

LEMMA OpenStepGoes == ASSUME OpenStep PROVE step # "idle" /\ step' # "idle"
<1>1. ASSUME NEW c, Fail(c) PROVE step' = "ended" BY <1>1 DEF Fail
<1>2. CASE Change \/ OutOfMemory BY <1>1, <1>2 DEF Change, OutOfMemory, Reading
<1>3. CASE CheckPin \/ Walk \/ Regular \/ Size \/ Read
  BY <1>1, <1>3 DEF CheckPin, Walk, Regular, Size, Read, Seek
<1>4. CASE JudgeRelease \/ JudgeManifest \/ CheckEntry \/ JudgePayload \/ EndOfFiles
  BY <1>1, <1>4 DEF JudgeRelease, JudgeManifest, CheckEntry, JudgePayload, EndOfFiles, Seek
<1>5. CASE LoadFrontend \/ LoadProjection \/ CreateSession \/ SessionFails
  BY <1>1, <1>5 DEF LoadFrontend, LoadProjection, CreateSession, SessionFails, FailOpen
<1>6. CASE Publish \/ OpenOutOfMemory
  BY <1>1, <1>6 DEF Publish, OpenOutOfMemory, FailOpen
<1> QED BY <1>2, <1>3, <1>4, <1>5, <1>6 DEF OpenStep, Verify

LEMMA HandleNext == ASSUME HandleInv, Next PROVE HandleInv'
<1> USE DEF HandleInv, Abandoned
<1>1. UNCHANGED openVars => UNCHANGED <<step, engine>> BY DEF openVars, packageVars
<1>2. engine' = engine => (engine = NoEngine => engine' = NoEngine) BY DEF NoEngine
<1>3. CASE RefuseUsage \/ CheckFails \/ StartThrows
  BY <1>3, <1>1, <1>2, OpenVarsKept DEF RefuseUsage, CheckFails, StartThrows, Exit, Catch, OpenInv
<1>4. CASE StartVerify BY <1>4, StartKeeps DEF StartVerify
<1>5. CASE StartSynthesize BY <1>5, <1>1, OpenVarsKept DEF StartSynthesize, Goto
<1>6. CASE CheckOutput
  <2>1. CASE OpenEngine BY <1>6, <2>1, StartKeeps DEF CheckOutput
  <2>2. CASE ~ OpenEngine
    BY <1>6, <2>2, <1>1, <1>2, OpenVarsKept DEF CheckOutput, Exit, OpenInv
  <2> QED BY <2>1, <2>2
<1>7. CASE Opening BY <1>7, OpenStepKeeps, OpenStepGoes DEF Opening
<1>8. CASE Opened
  <2>1. CASE Close BY <1>8, <2>1, CloseKeeps DEF Opened, Exit, Goto
  <2>2. CASE ~ Close
    BY <1>8, <2>2, <1>1, <1>2, OpenVarsKept DEF Opened, Exit, Goto, OpenInv
  <2> QED BY <2>1, <2>2
<1>9. CASE CreateJob BY <1>9, <1>1, OpenVarsKept DEF CreateJob, Goto
<1>10. CASE CreateFails BY <1>10, CloseKeeps DEF CreateFails, Exit
<1>11. CASE OpenFile \/ OpenFileThrows
  BY <1>11, <1>1, OpenVarsKept DEF OpenFile, OpenFileThrows, Goto, Catch
<1>12. CASE OpenFileFails BY <1>12, CloseKeeps DEF OpenFileFails, Exit, Destroy
<1>13. CASE WriteBlock \/ RefuseBlock \/ EndBlocks
  BY <1>13, <1>1, OpenVarsKept DEF WriteBlock, RefuseBlock, EndBlocks
<1>14. CASE EndJob BY <1>14, CloseKeeps DEF EndJob, Goto, Destroy
<1>15. CASE WriteHeader BY <1>15, <1>1, <1>2, OpenVarsKept DEF WriteHeader, Goto
<1>16. CASE Conclude \/ RemoveThrows
  BY <1>16, <1>1, <1>2, OpenVarsKept DEF Conclude, RemoveThrows, Exit, Catch
<1>17. CASE Intrude
  <2>1. UNCHANGED <<pin, step, target, sized, bytes, manifest, entry, payloads, status,
                    frontend, engine, pc, job, caught>>
    BY <1>17 DEF Intrude, progress
  <2>2. Manifest' = Manifest /\ Chosen' = Chosen /\ Entry' = Entry
    BY <2>1 DEF Manifest, Chosen, Entry, Body
  <2>3. PackageInv'
    BY <2>1, <2>2, ListKept
       DEF OpenInv, PackageInv, Idling, Listing, InPayload, Verified, listed, Body, BytesOf
  <2>4. engine' # NoEngine => engine # NoEngine BY <2>1 DEF NoEngine
  <2>5. PinnedBytes' /\ EngineBound'
    BY <2>1, <2>4 DEF OpenInv, PinnedBytes, EngineBound, Promised, Body, BytesOf
  <2>6. OpenInv' BY <2>1, <2>2, <2>3, <2>4, <2>5 DEF OpenInv, Fitting
  <2> QED BY <2>1, <2>6, <1>2
<1> QED
  BY <1>3, <1>4, <1>5, <1>6, <1>7, <1>8, <1>9, <1>10, <1>11, <1>12, <1>13, <1>14, <1>15,
     <1>16, <1>17 DEF Next

-----------------------------------------------------------------------------
(* The output file.                                                        *)

FileInv ==
  /\ pc \in {"check", "create", "file", "run", "header", "judge"} => command = "synthesize"
  /\ holds = "own" => pc \in {"run", "header", "judge", "exited"}
  /\ holds = "others" => \/ raced \/ pc \in {"start", "check", "exited"}
                         \/ pc = "open" /\ command = "verify"
  /\ pc \in {"run", "header", "judge"} => raced \/ holds = "own"
  /\ pc = "exited" /\ code = 0 /\ command = "synthesize" => raced \/ holds = "own"
  /\ pc = "exited" /\ code # 0 /\ ~ Abandoned => holds # "own" \/ refused
  /\ stray \/ (output = "link" /\ holds = "own") => linked
  /\ pc \in {"start", "check", "open", "create", "file"} => ~ stray
  /\ command \in {"verify", "synthesize"}
  /\ OthersKept

LEMMA FileNext == ASSUME HandleInv, FileInv, Next PROVE FileInv'
<1> USE DEF FileInv, OthersKept, Abandoned, Exit, Goto, wavVars, fileVars
<1>1. CASE RefuseUsage \/ CheckFails \/ StartThrows
  BY <1>1 DEF RefuseUsage, CheckFails, StartThrows, Catch
<1>2. CASE StartVerify BY <1>2 DEF StartVerify, OpenEngine
<1>3. CASE StartSynthesize BY <1>3 DEF StartSynthesize
<1>4. CASE CheckOutput BY <1>4 DEF CheckOutput, OpenEngine
<1>5. CASE Opening BY <1>5 DEF Opening
<1>6. CASE Opened BY <1>6 DEF Opened
<1>7. CASE CreateJob \/ CreateFails BY <1>7 DEF CreateJob, CreateFails
<1>8. CASE OpenFile \/ OpenFileThrows
  <2>1. pc = "file" /\ Truncate /\ UNCHANGED <<command, job, raced>>
    BY <1>8 DEF OpenFile, OpenFileThrows
  <2>2. holds' = "own" /\ UNCHANGED stray /\ (output' = "link" => linked')
    BY <2>1 DEF Truncate
  <2>3. \/ pc' = "run"
        \/ pc' = "exited" /\ code' = 1 /\ Abandoned'
    BY <1>8 DEF OpenFile, OpenFileThrows, Catch, HandleInv
  <2>4. OthersKept'
    <3>1. lost' = (lost \/ holds = "others") BY <2>1 DEF Truncate
    <3>2. holds = "others" => raced BY <2>1
    <3> QED BY <2>1, <3>1, <3>2, Zenon
  <2> QED BY <2>1, <2>2, <2>3, <2>4
<1>9. CASE OpenFileFails BY <1>9 DEF OpenFileFails, Destroy
<1>10. CASE WriteBlock \/ RefuseBlock \/ EndBlocks
  BY <1>10 DEF WriteBlock, RefuseBlock, EndBlocks
<1>11. CASE EndJob BY <1>11 DEF EndJob, Destroy
<1>12. CASE WriteHeader BY <1>12 DEF WriteHeader
<1>13. CASE Conclude
  <2>1. CASE OutputOK
    <3>1. pc' = "exited" /\ code' = 0 /\ UNCHANGED <<fileVars, raced, command>>
      BY <1>13, <2>1 DEF Conclude
    <3> QED BY <1>13, <3>1 DEF Conclude
  <2>2. CASE ~ OutputOK
    <3>1. pc = "judge" /\ pc' = "exited" /\ code' = 1 /\ Remove /\ UNCHANGED <<raced, command>>
      BY <1>13, <2>2 DEF Conclude
    <3>2. CASE output' = "none" /\ holds' = "none" /\ Unlink
      <4>1. raced' = raced /\ (holds = "others" => raced) BY <3>1
      <4>2. /\ lost' = (lost \/ (output = "file" /\ holds = "others"))
            /\ stray' = (stray \/ (output = "link" /\ holds = "own")) /\ linked' = linked
        BY <3>2 DEF Unlink
      <4>3. lost' => raced' BY <4>1, <4>2, Zenon
      <4>4. stray' => linked' BY <4>2, Zenon
      <4> QED BY <3>1, <3>2, <4>3, <4>4
    <3>3. CASE refused' /\ UNCHANGED <<output, holds, linked, stray, lost>> BY <3>1, <3>3
    <3> QED BY <3>1, <3>2, <3>3 DEF Remove
  <2> QED BY <2>1, <2>2
<1>14. CASE RemoveThrows BY <1>14 DEF RemoveThrows, Catch, HandleInv
<1>15. CASE Intrude
  <2>1. /\ pc # "exited" /\ raced' = (raced \/ pc \notin {"start", "check"})
        /\ stray' = (stray \/ (output = "link" /\ holds = "own"))
        /\ command = "synthesize" /\ UNCHANGED <<command, pc, code, caught, job, linked, lost>>
    BY <1>15 DEF Intrude
  <2>2. holds' # "own" BY <1>15 DEF Intrude, Foreign
  <2>3. stray' => linked' BY <2>1, Zenon
  <2>4. pc \in {"start", "check", "open", "create", "file"} => ~ stray' BY <2>1, Zenon
  <2>5. pc \notin {"start", "check"} => raced' BY <2>1, Zenon
  <2>6. lost' => raced' BY <2>1, Zenon
  <2> QED BY <2>1, <2>2, <2>3, <2>4, <2>5, <2>6
<1> QED
  BY <1>1, <1>2, <1>3, <1>4, <1>5, <1>6, <1>7, <1>8, <1>9, <1>10, <1>11, <1>12, <1>13, <1>14,
     <1>15 DEF Next

-----------------------------------------------------------------------------
(* The audio and its header.                                               *)

AudioInv ==
  /\ delivered \in Nat /\ length \in Nat
  /\ frames = BlockFrames * delivered /\ frames <= FrameLimit
  /\ outcome = "OK" => delivered = length
  /\ outcome # "none" => pc \in {"run", "header", "judge", "exited"}
  /\ \/ pc = "judge" /\ OutputOK
     \/ pc = "exited" /\ code = 0 /\ command = "synthesize"
     => OutputOK /\ header = WavHeader((2 * frames) % WordSize)

LEMMA FrameLimitFits ==
  /\ FrameLimit \in Nat /\ 2 * FrameLimit < WordSize
<1>1. \A w \in Nat : w > 36 => (w - 1) \div 2 \in Nat /\ 2 * ((w - 1) \div 2) < w OBVIOUS
<1> QED BY <1>1, WordAssumption DEF FrameLimit

LEMMA OneBlockMore == \A b, d \in Nat : b * d + b = b * (d + 1)
OBVIOUS

LEMMA AudioNext == ASSUME AudioInv, FileInv, Next PROVE AudioInv'
<1> USE DEF AudioInv, Exit, Goto, Catch, wavVars, sinkVars, jobVars, OutputOK, WavHeader
<1>1. CASE RefuseUsage \/ CheckFails \/ StartThrows
  BY <1>1 DEF RefuseUsage, CheckFails, StartThrows
<1>2. CASE StartVerify \/ StartSynthesize BY <1>2 DEF StartVerify, StartSynthesize, OpenEngine
<1>3. CASE CheckOutput BY <1>3 DEF CheckOutput, OpenEngine
<1>4. CASE Opening BY <1>4 DEF Opening
<1>5. CASE Opened BY <1>5 DEF Opened
<1>6. CASE CreateJob
  <2>1. /\ pc = "create" /\ pc' = "file" /\ length' \in 0..MaxBlocks
        /\ UNCHANGED <<delivered, outcome, frames, code, command, failed, good, header>>
    BY <1>6 DEF CreateJob
  <2> QED BY <2>1, BlocksAssumption
<1>7. CASE CreateFails \/ OpenFileFails BY <1>7 DEF CreateFails, OpenFileFails
<1>8. CASE OpenFile \/ OpenFileThrows BY <1>8 DEF OpenFile, OpenFileThrows, Job!Begin
<1>9. CASE WriteBlock
  <2>1. /\ outcome = "none" /\ delivered' = delivered + 1 /\ frames' = frames + BlockFrames
        /\ frames <= FrameLimit - BlockFrames /\ pc = "run"
        /\ UNCHANGED <<pc, length, outcome>>
    BY <1>9 DEF WriteBlock, Job!Deliver, Fits
  <2>2. frames' = BlockFrames * delivered' BY <2>1, OneBlockMore, BlocksAssumption
  <2>3. frames \in Int /\ FrameLimit \in Int /\ BlockFrames \in Int
    BY FrameLimitFits, BlocksAssumption
  <2>4. frames' <= FrameLimit BY <2>1, <2>3
  <2> QED BY <2>1, <2>2, <2>4 DEF FrameLimit
<1>10. CASE RefuseBlock \/ EndBlocks
  BY <1>10 DEF RefuseBlock, EndBlocks, Job!Answer
<1>11. CASE EndJob BY <1>11 DEF EndJob, Job!End
<1>12. CASE WriteHeader BY <1>12 DEF WriteHeader
<1>13. CASE Conclude \/ RemoveThrows BY <1>13 DEF Conclude, RemoveThrows
<1>14. CASE Intrude BY <1>14 DEF Intrude
<1> QED
  BY <1>1, <1>2, <1>3, <1>4, <1>5, <1>6, <1>7, <1>8, <1>9, <1>10, <1>11, <1>12, <1>13, <1>14
     DEF Next

-----------------------------------------------------------------------------
(* What a directory that nobody touches is accepted for.                   *)

RolesOf(m) == {m.files[k].role : k \in DOMAIN m.files}
PathsOf(m) == {m.files[k].path : k \in DOMAIN m.files}
\* The sizes of the first files of a manifest.
Sums(m) == LET sum[k \in 0..Len(m.files)] == IF k = 0 THEN 0 ELSE sum[k - 1] + m.files[k].bytes
           IN  sum

\* What has been verified keeps no loader waiting for a role.
RolesInv ==
  /\ status # "LACKS_ROLE"
  /\ Verified => RolesFit(Manifest.engine, RolesOf(Manifest))
  /\ step \in {"projection", "session"} => Manifest.engine # "fixture"

IsPath(path) == path \in Seq({path[i] : i \in DOMAIN path})

\* The place of the reading, as long as nobody touches the disk.
DiskOK ==
  /\ OwnPaths \subseteq DOMAIN disk
  /\ \A path \in DOMAIN disk : Node(disk[path])
PlaceOK ==
  /\ step = "entry" \/ step \in FileSteps => disk[<<>>] = Directory
  /\ step \in FileSteps =>
       target \in DOMAIN disk /\ IsPath(target) /\ depth \in 1..Len(target)
  /\ step \in FileSteps \ {"walk"} => disk[target].type # "link"
  /\ step = "read" => \E c \in Found(target) : sized = BytesOf(c)
  /\ step \in {"read", "judge"} => RightSize(sized)
  /\ step = "judge" => bytes \in Found(target)
\* What has been read and judged by then is as SoundPackage asks.
ReleaseSound ==
  /\ pin \in DOMAIN Contents /\ Regularly(ReleasePath, pin)
  /\ BytesOf(pin) \in 1..MaxReleaseBytes
  /\ Body(pin).type = "release" /\ Body(pin).manifestBytes \in 1..MaxManifestBytes
HeadSound(c) ==
  /\ Regularly(ManifestPath, c) /\ BytesOf(c) = Body(pin).manifestBytes
  /\ Body(c).head = "OK" /\ Len(Body(c).files) \in 1..MaxPayloadFiles
FileSound(f) == SafePath(f.path) /\ Regularly(f.path, f.sha) /\ f.bytes <= MaxPayloadBytes
Differ(f, g) == f.path # g.path /\ f.role # g.role
\* The last of the entries that have been compared with those before them.
Compared == IF InPayload THEN entry ELSE entry - 1
FilesSound ==
  /\ \A k \in 1..entry - 1 : FileSound(Manifest.files[k])
  /\ \A k, l \in 1..Compared : k # l => Differ(Manifest.files[k], Manifest.files[l])
  /\ total = Sums(Manifest)[entry - 1] /\ total <= MaxTotalBytes
  /\ InPayload => /\ target = Entry.path /\ SafePath(target)
                  /\ step \in {"size", "read", "judge"} => Entry.bytes <= MaxPayloadBytes

UntouchedInv ==
  ~ touched =>
    /\ DiskOK /\ PlaceOK
    /\ Idling => total = 0
    /\ step = "entry" \/ (step \in FileSteps /\ target # ReleasePath) => ReleaseSound
    /\ step = "entry" \/ InPayload => HeadSound(manifest) /\ FilesSound
    /\ step = "verified" => SoundPackage

LEMMA EntriesAre ==
  ASSUME NEW list \in Seq(FileEntry)
  PROVE  /\ Len(list) \in Nat /\ DOMAIN list = 1..Len(list)
         /\ \A k \in 1..Len(list) : /\ list[k] \in FileEntry
                                   /\ list[k].path \in Seq(STRING) /\ list[k].bytes \in Nat
<1>1. \A f \in FileEntry : f.path \in Seq(STRING) /\ f.bytes \in Nat
  BY DEF FileEntry
<1> QED BY <1>1

LEMMA SumsAre ==
  ASSUME NEW m, m.files \in Seq(FileEntry)
  PROVE  /\ Sums(m)[0] = 0 /\ SumOf(m) = Sums(m)[Len(m.files)]
         /\ \A k \in 1..Len(m.files) : Sums(m)[k] = Sums(m)[k - 1] + m.files[k].bytes
         /\ \A k \in 0..Len(m.files) : Sums(m)[k] \in Nat
<1> DEFINE n == Len(m.files)
           F(v, k) == v + m.files[k].bytes
           Good == {k \in Nat : k <= n => Sums(m)[k] \in Nat}
<1>1. n \in Nat /\ \A k \in 1..n : m.files[k].bytes \in Nat
  BY EntriesAre
<1>2. FiniteNatInductiveDefHypothesis(Sums(m), 0, F, 0, n)
  BY DEF FiniteNatInductiveDefHypothesis, Sums
<1>3. SumOf(m) = Sums(m)[n]
  BY DEF SumOf, Sums
<1> HIDE DEF F, n
<1>4. FiniteNatInductiveDefConclusion(Sums(m), 0, F, 0, n)
  BY <1>1, <1>2, FiniteNatInductiveDef
<1>5. Sums(m) = [k \in 0..n |-> IF k = 0 THEN 0 ELSE F(Sums(m)[k - 1], k)]
  BY <1>4 DEF FiniteNatInductiveDefConclusion
<1>6. Sums(m)[0] = 0 /\ \A k \in 1..n : Sums(m)[k] = Sums(m)[k - 1] + m.files[k].bytes
  BY <1>1, <1>5 DEF F
<1>7. 0 \in Good
  BY <1>6
<1>8. \A k \in Nat : k \in Good => k + 1 \in Good
  <2> SUFFICES ASSUME NEW k \in Nat, k \in Good, k + 1 <= n PROVE Sums(m)[k + 1] \in Nat
    OBVIOUS
  <2>1. k + 1 \in 1..n /\ (k + 1) - 1 = k /\ Sums(m)[k] \in Nat
    BY <1>1
  <2>2. m.files[k + 1].bytes \in Nat BY <1>1, <2>1
  <2>3. Sums(m)[k + 1] = Sums(m)[k] + m.files[k + 1].bytes BY <1>6, <2>1
  <2>4. \A a, b \in Nat : a + b \in Nat OBVIOUS
  <2> QED BY <2>1, <2>2, <2>3, <2>4
<1> HIDE DEF Good
<1>9. \A k \in Nat : k \in Good
  BY <1>7, <1>8, SetInduction
<1>10. \A k \in 0..n : Sums(m)[k] \in Nat
  BY <1>1, <1>9 DEF Good
<1> QED BY <1>3, <1>6, <1>10 DEF n

\* A part of the sum is not more than the sum.
LEMMA SumsGrow ==
  ASSUME NEW m, m.files \in Seq(FileEntry), NEW k \in 0..Len(m.files)
  PROVE  Sums(m)[k] <= SumOf(m)
<1> DEFINE n == Len(m.files)
           Less == {d \in Nat : d <= n => Sums(m)[n - d] <= Sums(m)[n]}
<1>1. n \in Nat
  OBVIOUS
<1>2. /\ \A j \in 1..n : Sums(m)[j] = Sums(m)[j - 1] + m.files[j].bytes
      /\ \A j \in 0..n : Sums(m)[j] \in Nat
      /\ \A j \in 1..n : m.files[j].bytes \in Nat
      /\ SumOf(m) = Sums(m)[n]
  BY <1>1, SumsAre, EntriesAre
<1> HIDE DEF n
<1>3. 0 \in Less
  BY <1>1, <1>2
<1>4. \A d \in Nat : d \in Less => d + 1 \in Less
  <2> SUFFICES ASSUME NEW d \in Nat, d \in Less, d + 1 <= n
               PROVE  Sums(m)[n - (d + 1)] <= Sums(m)[n]
    OBVIOUS
  <2>1. n - d \in 1..n /\ (n - d) - 1 = n - (d + 1) /\ n - (d + 1) \in 0..n /\ d <= n
    BY <1>1
  <2>2. Sums(m)[n - d] = Sums(m)[n - (d + 1)] + m.files[n - d].bytes
    BY <1>2, <2>1
  <2>3. Sums(m)[n - (d + 1)] \in Nat /\ Sums(m)[n] \in Nat /\ m.files[n - d].bytes \in Nat
    BY <1>1, <1>2, <2>1
  <2>4. Sums(m)[n - d] <= Sums(m)[n] BY <2>1
  <2>5. \A a, b, c \in Nat : a + b <= c => a <= c OBVIOUS
  <2> HIDE DEF Less
  <2> QED BY <2>2, <2>3, <2>4, <2>5
<1> HIDE DEF Less
<1>5. \A d \in Nat : d \in Less
  BY <1>3, <1>4, SetInduction
<1>6. n - k \in Nat /\ n - k <= n /\ n - (n - k) = k
  BY <1>1 DEF n
<1> QED BY <1>2, <1>5, <1>6 DEF Less

LEMMA PrefixIs ==
  ASSUME NEW S, NEW path \in Seq(S), NEW d \in 1..Len(path)
  PROVE  /\ Prefix(path, d) \in Seq(S) /\ Len(Prefix(path, d)) = d
         /\ \A k \in 1..d - 1 : Prefix(Prefix(path, d), k) = Prefix(path, k)
         /\ Prefix(path, Len(path)) = path
<1> DEFINE part == Prefix(path, d)
<1>1. part \in Seq(S) /\ Len(part) = d /\ \A i \in 1..d : part[i] = path[i]
  BY DEF Prefix
<1>2. ASSUME NEW k \in 1..d - 1 PROVE Prefix(part, k) = Prefix(path, k)
  <2>1. /\ Prefix(part, k) = [i \in 1..k |-> part[i]]
        /\ Prefix(path, k) = [i \in 1..k |-> path[i]]
    BY <1>1 DEF Prefix
  <2>2. \A i \in 1..k : part[i] = path[i]
    BY <1>1
  <2> HIDE DEF part
  <2> QED BY <2>1, <2>2
<1>3. Prefix(path, Len(path)) = path
  BY DEF Prefix
<1> QED BY <1>1, <1>2, <1>3

-----------------------------------------------------------------------------
(* No loader misses a role.                                                *)

LEMMA AllListed ==
  ASSUME ListOK, entry = Len(Manifest.files) + 1
  PROVE  /\ Manifest.files \in Seq(FileEntry) /\ Len(Manifest.files) \in Nat
         /\ DOMAIN payloads = DOMAIN Manifest.files /\ DOMAIN payloads = 1..entry - 1
         /\ {payloads[k].role : k \in DOMAIN payloads} = RolesOf(Manifest)
         /\ {payloads[k].path : k \in DOMAIN payloads} = PathsOf(Manifest)
         /\ DOMAIN Chosen = RolesOf(Manifest)
<1>1. Manifest.files \in Seq(FileEntry)
  BY FilesAreEntries DEF ListOK, Committed, Manifest
<1>2. /\ Len(Manifest.files) \in Nat /\ DOMAIN Manifest.files = 1..Len(Manifest.files)
      /\ payloads \in Seq(Item) /\ Len(payloads) = Len(Manifest.files)
  BY <1>1, EntriesAre DEF ListOK
<1>3. DOMAIN payloads = DOMAIN Manifest.files /\ DOMAIN payloads = 1..entry - 1
  BY <1>2
<1>4. \A k \in DOMAIN payloads : /\ payloads[k].role = Manifest.files[k].role
                                 /\ payloads[k].path = Manifest.files[k].path
  BY <1>3 DEF ListOK
<1>5. {payloads[k].role : k \in DOMAIN payloads} = RolesOf(Manifest)
  BY <1>3, <1>4 DEF RolesOf
<1>6. {payloads[k].path : k \in DOMAIN payloads} = PathsOf(Manifest)
  BY <1>3, <1>4 DEF PathsOf
<1>7. DOMAIN Chosen = {payloads[k].role : k \in DOMAIN payloads}
  BY DEF Chosen
<1> QED BY <1>1, <1>2, <1>3, <1>5, <1>6, <1>7

LEMMA VerdictsAre ==
  ASSUME NEW c \in DOMAIN Contents, Body(c).type = "manifest"
  PROVE  Body(c).head # "LACKS_ROLE" /\ Body(c).tail # "LACKS_ROLE"
BY ManifestsAssumption DEF Body, Verdicts

\* The verification itself never answers so.
LEMMA VerifyAnswers ==
  ASSUME PackageInv, status # "LACKS_ROLE", Verify
  PROVE  status' # "LACKS_ROLE"
<1>1. CASE Change \/ CheckPin \/ Walk \/ Regular \/ OutOfMemory
  BY <1>1 DEF Change, CheckPin, Walk, Regular, OutOfMemory, Fail
<1>2. CASE Size \/ Read \/ JudgeRelease \/ CheckEntry \/ JudgePayload
  BY <1>2 DEF Size, Read, JudgeRelease, CheckEntry, JudgePayload, Fail, WrongSize
<1>3. CASE JudgeManifest
  <2>1. step = "judge" /\ bytes \in DOMAIN Contents
    BY <1>3 DEF JudgeManifest, PackageInv
  <2> QED BY <1>3, <2>1, VerdictsAre DEF JudgeManifest, Fail
<1>4. CASE EndOfFiles
  <2>1. manifest \in DOMAIN Contents /\ Body(manifest).type = "manifest"
    BY <1>4 DEF EndOfFiles, PackageInv, Listing, ListOK, Committed
  <2> QED BY <1>4, <2>1, VerdictsAre DEF EndOfFiles, Fail
<1> QED BY <1>1, <1>2, <1>3, <1>4 DEF Verify

LEMMA RolesKept ==
  ASSUME RolesInv, UNCHANGED <<manifest, status>>, step' = step \/ step' = "pin"
  PROVE  RolesInv'
<1>1. Manifest' = Manifest BY DEF Manifest, Body
<1> QED BY <1>1 DEF RolesInv, Verified

LEMMA RolesOpen ==
  ASSUME PackageInv, RolesInv, OpenStep
  PROVE  RolesInv'
<1>1. ASSUME status' # "LACKS_ROLE", step' \notin {"verified", "projection", "session", "ready"}
      PROVE  RolesInv'
  BY <1>1 DEF RolesInv, Verified
<1>2. CASE Verify
  <2>1. status' # "LACKS_ROLE" BY <1>2, VerifyAnswers DEF RolesInv
  <2>2. step' \notin {"projection", "session", "ready"} BY <1>2, VerifySteps
  <2>3. CASE step' # "verified" BY <1>1, <2>1, <2>2, <2>3
  <2>4. CASE step' = "verified"
    <3>1. ASSUME NEW c, Fail(c) PROVE FALSE BY <2>4, <3>1 DEF Fail
    <3>2. EndOfFiles
      <4>1. ~ Change BY <2>4 DEF Change, Reading
      <4>2. ~ (CheckPin \/ Walk \/ Regular \/ Size \/ Read)
        BY <2>4, <3>1 DEF CheckPin, Walk, Regular, Size, Read, Seek
      <4>3. ~ (JudgeRelease \/ JudgeManifest \/ CheckEntry \/ JudgePayload \/ OutOfMemory)
        BY <2>4, <3>1 DEF JudgeRelease, JudgeManifest, CheckEntry, JudgePayload, OutOfMemory, Seek
      <4> QED BY <1>2, <4>1, <4>2, <4>3 DEF Verify
    <3>3. /\ entry > Len(Manifest.files) /\ step = "entry" /\ UNCHANGED manifest
          /\ RolesFit(Manifest.engine, {payloads[k].role : k \in DOMAIN payloads})
      BY <3>1, <3>2 DEF EndOfFiles, progress, Manifest
    <3>4. ListOK BY <3>3 DEF PackageInv, Listing
    <3>5. entry = Len(Manifest.files) + 1
      <4>1. Len(Manifest.files) \in Nat BY <3>4, FilesAreEntries DEF ListOK, Committed, Manifest
      <4> QED BY <3>3, <3>4, <4>1 DEF ListOK
    <3>6. RolesFit(Manifest.engine, RolesOf(Manifest)) BY <3>3, <3>4, <3>5, AllListed
    <3>7. Manifest' = Manifest BY <3>3 DEF Manifest, Body
    <3>8. (Manifest').engine = Manifest.engine /\ RolesOf(Manifest') = RolesOf(Manifest) BY <3>7
    <3> QED BY <2>1, <2>4, <3>6, <3>8 DEF RolesInv, Verified, RolesOf
  <2> QED BY <2>3, <2>4
<1>3. ASSUME NEW c, c # "LACKS_ROLE", FailOpen(c) PROVE RolesInv'
  BY <1>1, <1>3 DEF FailOpen, Fail
<1>4. ASSUME Verified
      PROVE  DOMAIN Chosen = RolesOf(Manifest) /\ RolesFit(Manifest.engine, RolesOf(Manifest))
  BY <1>4, AllListed DEF PackageInv, Listing, RolesInv
<1>5. ASSUME Verified, UNCHANGED <<files, progress, status>>,
             step' \in {"ready", "session"} \/ Manifest.engine # "fixture",
             step' = "session" => Manifest.engine # "fixture"
      PROVE  RolesInv'
  <2>1. Manifest' = Manifest BY <1>5 DEF Manifest, Body, progress
  <2> QED BY <1>5, <2>1 DEF RolesInv, RolesOf
<1>6. CASE LoadFrontend
  <2>1. Verified BY <1>6 DEF LoadFrontend, Verified
  <2>2. ~ LacksRole
    BY <1>4, <2>1 DEF LacksRole, Has, RolesFit, RequiredRoles
  <2>3. LoaderStatus # "LACKS_ROLE" BY LoaderAnswers DEF LoaderCodes
  <2>4. ProbeStatus # "LACKS_ROLE" BY DEF ProbeStatus, BindingStatus
  <2>5. CASE \E c : c # "LACKS_ROLE" /\ FailOpen(c) BY <1>3, <2>5
  <2>6. CASE ~ \E c : c # "LACKS_ROLE" /\ FailOpen(c)
    <3>1. /\ UNCHANGED <<files, progress, status>>
          /\ step' = IF Manifest.engine = "fixture" THEN "ready" ELSE "projection"
      BY <1>6, <2>2, <2>3, <2>4, <2>6 DEF LoadFrontend
    <3> QED BY <1>5, <2>1, <3>1
  <2> QED BY <2>5, <2>6
<1>7. CASE LoadProjection
  <2>1. Verified /\ Manifest.engine # "fixture"
    BY <1>7 DEF LoadProjection, Verified, RolesInv
  <2>2. Has("token_projection")
    BY <1>4, <2>1 DEF Has, RolesFit, RequiredRoles
  <2>3. CASE \E c : c # "LACKS_ROLE" /\ FailOpen(c) BY <1>3, <2>3
  <2>4. CASE ~ \E c : c # "LACKS_ROLE" /\ FailOpen(c)
    <3>1. UNCHANGED <<files, progress, status>> /\ step' = "session"
      BY <1>7, <2>2, <2>4 DEF LoadProjection
    <3> QED BY <1>5, <2>1, <3>1
  <2> QED BY <2>3, <2>4
<1>8. CASE CreateSession
  <2>1. Verified /\ Manifest.engine # "fixture"
    BY <1>8 DEF CreateSession, Verified, RolesInv
  <2>2. Has("onnx_model")
    BY <1>4, <2>1 DEF Has, RolesFit, RequiredRoles
  <2>3. CASE \E c : c # "LACKS_ROLE" /\ FailOpen(c) BY <1>3, <2>3
  <2>4. CASE ~ \E c : c # "LACKS_ROLE" /\ FailOpen(c)
    <3>1. UNCHANGED <<files, progress, status>> /\ step' = "ready"
      BY <1>8, <2>2, <2>4 DEF CreateSession
    <3> QED BY <1>5, <2>1, <3>1
  <2> QED BY <2>3, <2>4
<1>9. CASE SessionFails \/ OpenOutOfMemory
  BY <1>3, <1>9 DEF SessionFails, OpenOutOfMemory
<1>10. CASE Publish BY <1>1, <1>10 DEF Publish
<1> QED BY <1>2, <1>6, <1>7, <1>8, <1>9, <1>10 DEF OpenStep

-----------------------------------------------------------------------------
(* A directory that nobody touches is read as it is.                       *)

\* What is said of the disk is true of it as long as it does not change.
LEMMA SameDisk ==
  ASSUME UNCHANGED disk
  PROVE  /\ \A p, c : Regularly(p, c)' <=> Regularly(p, c)
         /\ \A p : SafePath(p)' <=> SafePath(p)
         /\ \A f : FileSound(f)' <=> FileSound(f)
         /\ DiskOK' <=> DiskOK
<1>1. \A p : InDirectory(p)' <=> InDirectory(p)
  BY DEF InDirectory, Prefix
<1>2. \A p, c : Regularly(p, c)' <=> Regularly(p, c)
  BY <1>1 DEF Regularly
<1>3. \A p : SafePath(p)' <=> SafePath(p)
  BY DEF SafePath
<1>4. \A f : FileSound(f)' <=> FileSound(f)
  BY <1>2, <1>3 DEF FileSound
<1>5. DiskOK' <=> DiskOK
  BY DEF DiskOK, Node
<1> QED BY <1>2, <1>3, <1>4, <1>5

LEMMA SamePackage ==
  ASSUME UNCHANGED <<disk, pin>>
  PROVE  /\ ReleaseSound' <=> ReleaseSound
         /\ \A c : HeadSound(c)' <=> HeadSound(c)
         /\ SoundPackage' <=> SoundPackage
<1>1. /\ \A p, c : Regularly(p, c)' <=> Regularly(p, c)
      /\ \A p : SafePath(p)' <=> SafePath(p)
  BY SameDisk
<1>2. ReleaseSound' <=> ReleaseSound
  BY <1>1 DEF ReleaseSound, Body, BytesOf
<1>3. \A c : HeadSound(c)' <=> HeadSound(c)
  BY <1>1 DEF HeadSound, Body, BytesOf
<1>4. \A m, k : SoundFile(m, k)' <=> SoundFile(m, k)
  BY <1>1 DEF SoundFile, BytesOf
<1>5. \A m : SoundManifest(m)' <=> SoundManifest(m)
  BY <1>4 DEF SoundManifest, SumOf
<1>6. SoundPackage' <=> SoundPackage
  BY <1>1, <1>5 DEF SoundPackage, Body, BytesOf
<1> QED BY <1>2, <1>3, <1>6

\* What has been read stays read.
LEMMA FilesKept ==
  ASSUME HeadSound(manifest), FilesSound,
         UNCHANGED <<disk, pin, target, manifest, entry, total>>, InPayload' <=> InPayload,
         InPayload /\ step' \in {"size", "read", "judge"} => Entry.bytes <= MaxPayloadBytes
  PROVE  HeadSound(manifest)' /\ FilesSound'
<1>1. Manifest' = Manifest /\ Entry' = Entry /\ Compared' = Compared
  BY DEF Manifest, Entry, Body, Compared
<1>2. \A f : FileSound(f)' <=> FileSound(f)
  BY SameDisk
<1>3. SafePath(target)' <=> SafePath(target)
  BY DEF SafePath
<1>4. \A k \in 1..entry - 1 : FileSound(Manifest.files[k])'
  <2> SUFFICES ASSUME NEW k \in 1..entry - 1 PROVE FileSound(Manifest.files[k])'
    OBVIOUS
  <2>1. FileSound(Manifest.files[k]) BY DEF FilesSound
  <2> QED BY <1>1, <2>1 DEF FileSound, SafePath, Regularly, InDirectory, Prefix
<1>5. HeadSound(manifest)'
  BY DEF HeadSound, Regularly, InDirectory, Prefix, Body, BytesOf
<1>6. Sums(Manifest)' = Sums(Manifest)
  BY <1>1 DEF Sums
<1>7. \A k, l \in 1..Compared' : k # l => Differ((Manifest').files[k], (Manifest').files[l])
  BY <1>1 DEF FilesSound
<1>8. /\ total' = (Sums(Manifest)')[entry' - 1] /\ total' <= MaxTotalBytes
  BY <1>1, <1>6 DEF FilesSound
<1>9. InPayload' => /\ target' = (Entry').path
                    /\ SafePath(target)'
                    /\ step' \in {"size", "read", "judge"} => (Entry').bytes <= MaxPayloadBytes
  BY <1>1, <1>3 DEF FilesSound
<1> QED BY <1>4, <1>5, <1>7, <1>8, <1>9 DEF FilesSound, Differ

\* A regular file is found with its content, and only it is.
LEMMA FoundIsFile ==
  ASSUME DiskOK, NEW path \in DOMAIN disk, disk[path].type # "link", NEW c \in Found(path)
  PROVE  Regularly(path, c) /\ c \in DOMAIN Contents
<1> DEFINE n == disk[path]
<1>1. InDirectory(path) /\ n.type = "file" /\ c = n.content /\ c \in DOMAIN Contents
  BY DEF Found
<1>2. Node(n) BY DEF DiskOK
<1> HIDE DEF n
<1>3. n # Absent /\ n # Directory /\ n # Link(n.content)
  BY <1>1 DEF Absent, Directory, Link
<1>4. n = File(c) BY <1>1, <1>2, <1>3 DEF Node
<1> QED BY <1>1, <1>4 DEF Regularly, n

LEMMA FileIsFound ==
  ASSUME DiskOK, NEW path \in DOMAIN disk, NEW c, Regularly(path, c)
  PROVE  Found(path) = {c} /\ c \in DOMAIN Contents /\ disk[path].type = "file"
<1> DEFINE n == disk[path]
<1>1. InDirectory(path) /\ n = File(c) BY DEF Regularly
<1>2. n.type = "file" /\ n.content = c BY <1>1 DEF File
<1>3. Node(n) BY DEF DiskOK
<1> HIDE DEF n
<1>4. n # Absent /\ n # Directory /\ n # Link(n.content)
  BY <1>2 DEF Absent, Directory, Link
<1>5. c \in DOMAIN Contents BY <1>2, <1>3, <1>4 DEF Node
<1> QED BY <1>1, <1>2, <1>5 DEF Found, n

\* A call that ends, or that goes on to the loaders, has no place any more.
LEMMA EndUntouched ==
  ASSUME UntouchedInv, UNCHANGED files,
         step' \notin {"entry", "idle", "pin", "verified"} \cup FileSteps
  PROVE  UntouchedInv'
<1>1. UNCHANGED <<disk, touched>> BY DEF files
<1>2. DiskOK' <=> DiskOK BY <1>1, SameDisk
<1> QED BY <1>1, <1>2 DEF UntouchedInv, PlaceOK, Idling, InPayload, FileSteps

LEMMA FailUntouched == ASSUME UntouchedInv, NEW c, Fail(c) PROVE UntouchedInv'
BY EndUntouched DEF Fail, FileSteps

\* Between the inspection of a file and its content.
LEMMA AdvanceUntouched ==
  ASSUME UntouchedInv, step \in FileSteps, step' \in FileSteps,
         UNCHANGED <<files, target, manifest, entry, total>>,
         ~ touched => PlaceOK',
         ~ touched /\ InPayload /\ step' \in {"size", "read", "judge"} =>
           Entry.bytes <= MaxPayloadBytes
  PROVE  UntouchedInv'
<1>1. UNCHANGED <<disk, touched, pin>> BY DEF files
<1> SUFFICES ASSUME ~ touched PROVE UntouchedInv'
  BY <1>1 DEF UntouchedInv
<1>2. /\ DiskOK' <=> DiskOK
      /\ ReleaseSound' <=> ReleaseSound
  BY <1>1, SameDisk, SamePackage
<1>3. (InPayload' <=> InPayload) /\ (Idling' <=> Idling)
  BY DEF InPayload, Idling, FileSteps
<1>4. InPayload => HeadSound(manifest)' /\ FilesSound'
  BY <1>1, <1>3, FilesKept DEF UntouchedInv
<1> QED BY <1>1, <1>2, <1>3, <1>4 DEF UntouchedInv, FileSteps

LEMMA ChangeUntouched == Change => UntouchedInv'
BY DEF Change, UntouchedInv

LEMMA OwnPathsAre ==
  /\ IsPath(ReleasePath) /\ Len(ReleasePath) = 1
  /\ IsPath(ManifestPath) /\ Len(ManifestPath) = 1
<1>1. \A x : IsPath(<<x>>) /\ Len(<<x>>) = 1 BY DEF IsPath
<1> QED BY <1>1 DEF ReleasePath, ManifestPath

LEMMA PinUntouched ==
  ASSUME UntouchedInv, CheckPin PROVE UntouchedInv'
<1>1. CASE \E c : Fail(c) BY <1>1, FailUntouched
<1>2. CASE ~ \E c : Fail(c)
  <2>1. /\ step = "pin" /\ disk[<<>>] = Directory
        /\ step' = "walk" /\ target' = ReleasePath /\ depth' = 1
        /\ UNCHANGED <<disk, touched, pin, total>>
    BY <1>2 DEF CheckPin, Seek, files
  <2>2. DiskOK' <=> DiskOK BY <2>1, SameDisk
  <2>3. IsPath(ReleasePath) /\ Len(ReleasePath) = 1 BY OwnPathsAre
  <2>4. ~ touched => PlaceOK'
    BY <2>1, <2>3 DEF PlaceOK, UntouchedInv, DiskOK, OwnPaths, FileSteps
  <2> QED
    BY <2>1, <2>2, <2>4 DEF UntouchedInv, Idling, InPayload, OwnPaths, FileSteps
<1> QED BY <1>1, <1>2

LEMMA WalkUntouched ==
  ASSUME UntouchedInv, Walk PROVE UntouchedInv'
<1>1. CASE \E c : Fail(c) BY <1>1, FailUntouched
<1>2. CASE ~ \E c : Fail(c)
  <2> DEFINE part == Prefix(target, depth)
  <2>1. /\ step = "walk" /\ disk[part].type # "link"
        /\ UNCHANGED <<files, target, manifest, entry, total>>
        /\ \/ depth < Len(target) /\ depth' = depth + 1 /\ step' = "walk"
           \/ ~ depth < Len(target) /\ step' = "regular" /\ UNCHANGED depth
    BY <1>2 DEF Walk
  <2>2. UNCHANGED disk BY <2>1 DEF files
  <2>3. ASSUME ~ touched PROVE PlaceOK'
    <3>1. /\ disk[<<>>] = Directory /\ target \in DOMAIN disk /\ IsPath(target)
          /\ depth \in 1..Len(target)
      BY <2>1, <2>3 DEF UntouchedInv, PlaceOK, FileSteps
    <3>2. Len(target) \in Nat BY <3>1 DEF IsPath
    <3>3. depth' \in 1..Len(target) BY <2>1, <3>1, <3>2
    <3>4. step' = "regular" => disk[target].type # "link"
      <4>1. SUFFICES ASSUME step' = "regular" PROVE disk[target].type # "link"
        OBVIOUS
      <4>2. depth = Len(target) BY <2>1, <3>1, <3>2, <4>1
      <4>3. part = target BY <3>1, <4>2, PrefixIs DEF IsPath
      <4> QED BY <2>1, <4>3
    <3> QED BY <2>1, <2>2, <3>1, <3>3, <3>4 DEF PlaceOK, FileSteps
  <2> QED BY <2>1, <2>3, AdvanceUntouched DEF FileSteps
<1> QED BY <1>1, <1>2

LEMMA RegularUntouched ==
  ASSUME PackageInv, UntouchedInv, Regular PROVE UntouchedInv'
<1>1. CASE \E c : Fail(c) BY <1>1, FailUntouched
<1>2. CASE ~ \E c : Fail(c)
  <2>1. /\ step = "regular" /\ step' = "size"
        /\ UNCHANGED <<files, target, depth, manifest, entry, total>>
        /\ target \notin OwnPaths => ~ (Entry.bytes > MaxPayloadBytes)
    BY <1>2 DEF Regular, progress, OwnPaths
  <2>2. UNCHANGED disk BY <2>1 DEF files
  <2>3. ~ touched => PlaceOK'
    BY <2>1, <2>2 DEF UntouchedInv, PlaceOK, FileSteps
  <2>4. ASSUME InPayload PROVE Entry.bytes <= MaxPayloadBytes
    <3>1. entry \in 1..Len(Manifest.files) /\ Manifest.files \in Seq(FileEntry)
      BY <2>4, FilesAreEntries, EntriesAre DEF PackageInv, Listing, ListOK, Committed, Manifest
    <3>2. Entry.bytes \in Nat BY <3>1, EntriesAre DEF Entry, Manifest
    <3> QED BY <2>1, <2>4, <3>2, LimitsAssumption DEF InPayload
  <2> QED BY <2>1, <2>3, <2>4, AdvanceUntouched DEF FileSteps
<1> QED BY <1>1, <1>2

LEMMA SizeUntouched ==
  ASSUME UntouchedInv, Size PROVE UntouchedInv'
<1>1. CASE \E c : Fail(c) BY <1>1, FailUntouched
<1>2. CASE ~ \E c : Fail(c)
  <2>1. PICK c \in Found(target) : /\ step = "size" /\ step' = "read" /\ RightSize(BytesOf(c))
                                   /\ sized' = BytesOf(c)
                                   /\ UNCHANGED <<files, target, depth, manifest, entry, total>>
    BY <1>2 DEF Size
  <2>2. UNCHANGED disk BY <2>1 DEF files
  <2>3. RightSize(sized)'
    <3>1. RightSize(sized)' <=> RightSize(sized') BY <2>1 DEF RightSize, Entry, Body
    <3> QED BY <2>1, <3>1
  <2>4. Found(target)' = Found(target) BY <2>1, <2>2 DEF Found, InDirectory, Prefix
  <2>5. BytesOf(c)' = BytesOf(c) BY DEF BytesOf
  <2>6. ~ touched => PlaceOK'
    BY <2>1, <2>2, <2>3, <2>4, <2>5 DEF UntouchedInv, PlaceOK, FileSteps, BytesOf
  <2>7. ~ touched /\ InPayload => Entry.bytes <= MaxPayloadBytes
    BY <2>1 DEF UntouchedInv, FilesSound
  <2> QED BY <2>1, <2>6, <2>7, AdvanceUntouched DEF FileSteps
<1> QED BY <1>1, <1>2

LEMMA ReadUntouched ==
  ASSUME UntouchedInv, Read PROVE UntouchedInv'
<1>1. CASE \E c : Fail(c) BY <1>1, FailUntouched
<1>2. CASE ~ \E c : Fail(c)
  <2>1. PICK c \in Found(target) : /\ step = "read" /\ step' = "judge" /\ bytes' = c
                                   /\ UNCHANGED <<files, target, depth, sized, manifest, entry, total>>
    BY <1>2 DEF Read
  <2>2. UNCHANGED disk BY <2>1 DEF files
  <2>3. RightSize(sized)' <=> RightSize(sized) BY <2>1 DEF RightSize, Entry, Body
  <2>4. Found(target)' = Found(target) BY <2>1, <2>2 DEF Found, InDirectory, Prefix
  <2>5. ~ touched => PlaceOK'
    BY <2>1, <2>2, <2>3, <2>4 DEF UntouchedInv, PlaceOK, FileSteps
  <2>6. ~ touched /\ InPayload => Entry.bytes <= MaxPayloadBytes
    BY <2>1 DEF UntouchedInv, FilesSound
  <2> QED BY <2>1, <2>5, <2>6, AdvanceUntouched DEF FileSteps
<1> QED BY <1>1, <1>2

LEMMA ReleaseUntouched ==
  ASSUME PackageInv, UntouchedInv, JudgeRelease PROVE UntouchedInv'
<1>1. CASE \E c : Fail(c) BY <1>1, FailUntouched
<1>2. CASE ~ \E c : Fail(c)
  <2>1. /\ step = "judge" /\ target = ReleasePath /\ bytes = pin
        /\ BytesOf(bytes) # 0 /\ Body(bytes).type = "release"
        /\ Body(bytes).manifestBytes \in 1..MaxManifestBytes
        /\ step' = "walk" /\ target' = ManifestPath /\ depth' = 1
        /\ UNCHANGED <<disk, touched, pin, total>>
    BY <1>2 DEF JudgeRelease, Seek, Hashed, files
  <2> SUFFICES ASSUME ~ touched PROVE UntouchedInv'
    BY <2>1 DEF UntouchedInv
  <2>2. /\ DiskOK /\ PlaceOK /\ total = 0
    BY <2>1 DEF UntouchedInv, Idling, FileSteps, OwnPaths
  <2>3. /\ disk[target].type # "link" /\ target \in DOMAIN disk /\ bytes \in Found(target)
        /\ RightSize(sized) /\ disk[<<>>] = Directory
    BY <2>1, <2>2 DEF PlaceOK, FileSteps
  <2>4. Regularly(ReleasePath, pin) /\ pin \in DOMAIN Contents
    BY <2>1, <2>2, <2>3, FoundIsFile
  <2>5. BytesOf(pin) \in 1..MaxReleaseBytes
    <3>1. BytesOf(pin) = sized /\ sized \in Nat
      BY <2>1 DEF PackageInv
    <3>2. sized <= MaxReleaseBytes
      BY <2>1, <2>3, OwnPathsDiffer DEF RightSize
    <3> QED BY <2>1, <3>1, <3>2, LimitsAssumption
  <2>6. ReleaseSound'
    <3>1. ReleaseSound BY <2>1, <2>4, <2>5 DEF ReleaseSound
    <3> QED BY <2>1, <3>1, SamePackage
  <2>7. DiskOK' BY <2>1, <2>2, SameDisk
  <2>8. PlaceOK'
    BY <2>1, <2>2, <2>3, OwnPathsAre DEF PlaceOK, DiskOK, OwnPaths, FileSteps
  <2> QED
    BY <2>1, <2>2, <2>6, <2>7, <2>8 DEF UntouchedInv, Idling, InPayload, OwnPaths, FileSteps
<1> QED BY <1>1, <1>2

LEMMA ManifestUntouched ==
  ASSUME PackageInv, UntouchedInv, JudgeManifest PROVE UntouchedInv'
<1>1. CASE \E c : Fail(c) BY <1>1, FailUntouched
<1>2. CASE ~ \E c : Fail(c)
  <2>1. /\ step = "judge" /\ target = ManifestPath
        /\ sized = Body(manifest).manifestBytes /\ bytes = Body(manifest).manifestSha
        /\ Body(bytes).type = "manifest" /\ Body(bytes).head = "OK"
        /\ Len(Body(bytes).files) \in 1..MaxPayloadFiles
        /\ manifest' = bytes /\ entry' = 1 /\ step' = "entry"
        /\ UNCHANGED <<disk, touched, pin, total>>
    BY <1>2 DEF JudgeManifest, Hashed, files
  <2>2. manifest = pin /\ bytes \in DOMAIN Contents /\ BytesOf(bytes) = sized
    BY <2>1 DEF PackageInv, FileSteps
  <2> SUFFICES ASSUME ~ touched PROVE UntouchedInv'
    BY <2>1 DEF UntouchedInv
  <2>3. DiskOK /\ PlaceOK /\ total = 0 /\ ReleaseSound
    BY <2>1, OwnPathsDiffer DEF UntouchedInv, Idling, FileSteps, OwnPaths
  <2>4. /\ disk[target].type # "link" /\ target \in DOMAIN disk /\ bytes \in Found(target)
        /\ disk[<<>>] = Directory
    BY <2>1, <2>3 DEF PlaceOK, FileSteps
  <2>5. Regularly(ManifestPath, bytes)
    BY <2>1, <2>3, <2>4, FoundIsFile
  <2>6. HeadSound(bytes)
    BY <2>1, <2>2, <2>5 DEF HeadSound
  <2>7. HeadSound(manifest)'
    BY <2>1, <2>6 DEF HeadSound, Regularly, InDirectory, Prefix, Body, BytesOf
  <2>8. FilesSound'
    <3>1. Manifest' = Body(bytes) BY <2>1 DEF Manifest, Body
    <3>2. Body(bytes).files \in Seq(FileEntry) BY <2>1, <2>2, FilesAreEntries
    <3>3. Sums(Body(bytes))[0] = 0 BY <3>2, SumsAre
    <3>4. Sums(Manifest)' = Sums(Body(bytes)) BY <3>1 DEF Sums
    <3>5. entry' - 1 = 0 /\ 1..entry' - 1 = {} BY <2>1
    <3>6. ~ InPayload' /\ Compared' = 0 /\ 1..Compared' = {}
      BY <2>1, <3>5 DEF InPayload, Compared, FileSteps
    <3>7. total' = 0 /\ 0 <= MaxTotalBytes BY <2>1, <2>3, LimitsAssumption
    <3> QED BY <3>3, <3>4, <3>5, <3>6, <3>7 DEF FilesSound
  <2>9. DiskOK' /\ ReleaseSound' BY <2>1, <2>3, SameDisk, SamePackage
  <2>10. PlaceOK' BY <2>1, <2>4 DEF PlaceOK, FileSteps
  <2> QED
    BY <2>1, <2>7, <2>8, <2>9, <2>10 DEF UntouchedInv, Idling, FileSteps
<1> QED BY <1>1, <1>2

LEMMA EntryUntouched ==
  ASSUME PackageInv, UntouchedInv, CheckEntry PROVE UntouchedInv'
<1>1. CASE \E c : Fail(c) BY <1>1, FailUntouched
<1>2. CASE ~ \E c : Fail(c)
  <2>1. /\ step = "entry" /\ entry <= Len(Manifest.files) /\ SafePath(Entry.path)
        /\ ~ NamedBefore(Entry, "path") /\ ~ NamedBefore(Entry, "role")
        /\ step' = "walk" /\ target' = Entry.path /\ depth' = 1
        /\ UNCHANGED <<disk, touched, pin, manifest, entry, total>>
    BY <1>2 DEF CheckEntry, Seek, files, Manifest
  <2> SUFFICES ASSUME ~ touched PROVE UntouchedInv'
    BY <2>1 DEF UntouchedInv
  <2>2. DiskOK /\ PlaceOK /\ ReleaseSound /\ HeadSound(manifest) /\ FilesSound
    BY <2>1 DEF UntouchedInv
  <2>3. /\ Manifest.files \in Seq(FileEntry) /\ entry \in 1..Len(Manifest.files)
        /\ Entry = Manifest.files[entry]
    <3>1. ListOK BY <2>1 DEF PackageInv, Listing
    <3>2. Manifest.files \in Seq(FileEntry)
      BY <3>1, FilesAreEntries DEF ListOK, Committed, Manifest
    <3> QED BY <2>1, <3>1, <3>2 DEF ListOK, Entry, Manifest
  <2>4. Entry.path \in Seq(STRING) /\ IsPath(Entry.path)
    <3>1. \A S : \A p \in Seq(S) : IsPath(p) BY DEF IsPath
    <3> QED BY <2>3, <3>1, EntriesAre
  <2>5. /\ Entry.path \in DOMAIN disk /\ Entry.path \notin OwnPaths /\ Entry.path # <<>>
        /\ disk[<<>>] = Directory
    BY <2>1, <2>2 DEF SafePath, OwnPaths, PlaceOK
  <2>6. 1 \in 1..Len(Entry.path) BY <2>4, <2>5
  <2>7. Manifest' = Manifest /\ Entry' = Entry /\ Sums(Manifest)' = Sums(Manifest)
    BY <2>1 DEF Manifest, Entry, Body, Sums
  <2>8. InPayload' BY <2>1, <2>5 DEF InPayload, OwnPaths, FileSteps
  <2>9. PlaceOK'
    BY <2>1, <2>4, <2>5, <2>6 DEF PlaceOK, FileSteps
  <2>10. DiskOK' /\ ReleaseSound' BY <2>1, <2>2, SameDisk, SamePackage
  <2>11. HeadSound(manifest)'
    BY <2>1, <2>2 DEF HeadSound, Regularly, InDirectory, Prefix, Body, BytesOf
  <2>12. FilesSound'
    <3>1. ASSUME NEW k \in 1..entry - 1 PROVE FileSound(Manifest.files[k])'
      <4>1. FileSound(Manifest.files[k]) BY <2>2 DEF FilesSound
      <4> QED BY <2>1, <2>7, <4>1 DEF FileSound, SafePath, Regularly, InDirectory, Prefix
    <3>2. ASSUME NEW k \in 1..entry, NEW l \in 1..entry, k # l
          PROVE  Differ(Manifest.files[k], Manifest.files[l])
      <4>1. Compared = entry - 1 BY <2>1 DEF Compared, InPayload, FileSteps
      <4>2. \A j \in 1..entry - 1 : Differ(Manifest.files[j], Entry)
        BY <2>1 DEF NamedBefore, Differ, Manifest
      <4>3. CASE k \in 1..entry - 1 /\ l \in 1..entry - 1
        BY <2>2, <3>2, <4>1, <4>3 DEF FilesSound
      <4>4. CASE k \in 1..entry - 1 /\ l = entry
        BY <2>3, <4>2, <4>4
      <4>5. CASE k = entry /\ l \in 1..entry - 1
        BY <2>3, <4>2, <4>5 DEF Differ
      <4>6. entry \in Nat BY <2>3
      <4> QED BY <3>2, <4>3, <4>4, <4>5, <4>6
    <3>3. Compared' = entry BY <2>1, <2>8 DEF Compared
    <3>4. \A k, l \in 1..Compared' : k # l => Differ((Manifest').files[k], (Manifest').files[l])
      BY <2>7, <3>2, <3>3
    <3>5. total' = (Sums(Manifest)')[entry' - 1] /\ total' <= MaxTotalBytes
      BY <2>1, <2>2, <2>7 DEF FilesSound
    <3>6. target' = (Entry').path /\ SafePath(target)'
      BY <2>1, <2>7 DEF SafePath
    <3> QED BY <2>1, <3>1, <3>4, <3>5, <3>6 DEF FilesSound, Differ
  <2> QED
    BY <2>1, <2>8, <2>9, <2>10, <2>11, <2>12 DEF UntouchedInv, Idling, InPayload, FileSteps
<1> QED BY <1>1, <1>2

LEMMA PayloadUntouched ==
  ASSUME PackageInv, UntouchedInv, JudgePayload PROVE UntouchedInv'
<1>1. CASE \E c : Fail(c) BY <1>1, FailUntouched
<1>2. CASE ~ \E c : Fail(c)
  <2>1. /\ step = "judge" /\ target \notin OwnPaths /\ bytes = Entry.sha
        /\ ~ (total > MaxTotalBytes - Entry.bytes)
        /\ total' = total + Entry.bytes /\ entry' = entry + 1 /\ step' = "entry"
        /\ UNCHANGED <<disk, touched, pin, target, manifest>>
    BY <1>2 DEF JudgePayload, Hashed, files, OwnPaths
  <2> SUFFICES ASSUME ~ touched PROVE UntouchedInv'
    BY <2>1 DEF UntouchedInv
  <2>2. InPayload BY <2>1 DEF InPayload, FileSteps
  <2>3. DiskOK /\ PlaceOK /\ ReleaseSound /\ HeadSound(manifest) /\ FilesSound
    BY <2>1, <2>2 DEF UntouchedInv, InPayload, OwnPaths, FileSteps
  <2>4. /\ Manifest.files \in Seq(FileEntry) /\ entry \in 1..Len(Manifest.files)
        /\ Entry = Manifest.files[entry]
    <3>1. ListOK /\ entry <= Len(Manifest.files) BY <2>2 DEF PackageInv, Listing
    <3>2. Manifest.files \in Seq(FileEntry)
      BY <3>1, FilesAreEntries DEF ListOK, Committed, Manifest
    <3> QED BY <3>1, <3>2, EntriesAre DEF ListOK, Entry, Manifest
  <2>5. /\ disk[target].type # "link" /\ target \in DOMAIN disk /\ bytes \in Found(target)
        /\ disk[<<>>] = Directory
    BY <2>1, <2>3 DEF PlaceOK, FileSteps
  <2>6. /\ target = Entry.path /\ SafePath(target) /\ Entry.bytes <= MaxPayloadBytes
    BY <2>1, <2>2, <2>3 DEF FilesSound
  <2>7. FileSound(Entry)
    BY <2>1, <2>3, <2>5, <2>6, FoundIsFile DEF FileSound
  <2>8. Manifest' = Manifest /\ Sums(Manifest)' = Sums(Manifest)
    BY <2>1 DEF Manifest, Body, Sums
  <2>9. PlaceOK' BY <2>1, <2>5 DEF PlaceOK, FileSteps
  <2>10. DiskOK' /\ ReleaseSound' BY <2>1, <2>3, SameDisk, SamePackage
  <2>11. HeadSound(manifest)'
    BY <2>1, <2>3 DEF HeadSound, Regularly, InDirectory, Prefix, Body, BytesOf
  <2>12. FilesSound'
    <3>1. ASSUME NEW k \in 1..entry PROVE FileSound(Manifest.files[k])'
      <4>1. k \in 1..entry - 1 \/ k = entry BY <2>4
      <4>2. FileSound(Manifest.files[k]) BY <2>3, <2>4, <2>7, <4>1 DEF FilesSound
      <4> QED BY <2>1, <2>8, <4>2 DEF FileSound, SafePath, Regularly, InDirectory, Prefix
    <3>2. ~ InPayload' /\ Compared' = entry' - 1 /\ Compared = entry
      BY <2>1, <2>2 DEF InPayload, Compared, FileSteps
    <3>3. entry' - 1 = entry BY <2>1, <2>4
    <3>4. \A k, l \in 1..Compared' : k # l => Differ((Manifest').files[k], (Manifest').files[l])
      BY <2>3, <2>8, <3>2, <3>3 DEF FilesSound
    <3>5. total' = Sums(Manifest)[entry]
      <4>1. Sums(Manifest)[entry] = Sums(Manifest)[entry - 1] + Manifest.files[entry].bytes
        BY <2>4, SumsAre
      <4> QED BY <2>1, <2>3, <2>4, <4>1 DEF FilesSound
    <3>6. total' <= MaxTotalBytes
      <4>1. total \in Nat
        BY <2>3, <2>4, SumsAre DEF FilesSound
      <4>2. Entry.bytes \in Nat BY <2>4, EntriesAre
      <4> QED BY <2>1, <4>1, <4>2, LimitsAssumption
    <3>7. total' = (Sums(Manifest)')[entry' - 1] BY <2>8, <3>3, <3>5
    <3> QED BY <3>1, <3>2, <3>3, <3>4, <3>6, <3>7 DEF FilesSound, Differ
  <2> QED
    BY <2>1, <2>9, <2>10, <2>11, <2>12 DEF UntouchedInv, Idling, FileSteps
<1> QED BY <1>1, <1>2

\* What GraphFits asks of the payloads is what a sound manifest says of its
\* entries, since each engine has its own roles.
LEMMA GraphIsFit ==
  ASSUME ListOK, entry = Len(Manifest.files) + 1, RolesFit(Manifest.engine, RolesOf(Manifest))
  PROVE  GraphFits(Manifest.engine) <=>
           \A k \in DOMAIN Manifest.files : LET f == Manifest.files[k] IN
             /\ f.role = "fixture_graph" => f.path = <<"fixture.graph">> /\ f.bytes > 0
             /\ f.role = "onnx_model" => f.path = <<"model.onnx">> /\ f.bytes >= MinGraphBytes
             /\ f.role = "token_projection" =>
                  f.path = <<"frontend", "piper_projection.jsonl">> /\ f.bytes > 0
<1> DEFINE D == DOMAIN Manifest.files
           f(k) == Manifest.files[k]
           graph == \A k \in D : f(k).role = "fixture_graph" =>
                      f(k).path = <<"fixture.graph">> /\ f(k).bytes > 0
           onnx  == \A k \in D : f(k).role = "onnx_model" =>
                      f(k).path = <<"model.onnx">> /\ f(k).bytes >= MinGraphBytes
           proj  == \A k \in D : f(k).role = "token_projection" =>
                      f(k).path = <<"frontend", "piper_projection.jsonl">> /\ f(k).bytes > 0
           own   == \A k \in DOMAIN Manifest.files : LET g == Manifest.files[k] IN
             /\ g.role = "fixture_graph" => g.path = <<"fixture.graph">> /\ g.bytes > 0
             /\ g.role = "onnx_model" => g.path = <<"model.onnx">> /\ g.bytes >= MinGraphBytes
             /\ g.role = "token_projection" =>
                  g.path = <<"frontend", "piper_projection.jsonl">> /\ g.bytes > 0
<1>1. D = DOMAIN payloads /\ D = 1..entry - 1 /\ Manifest.files \in Seq(FileEntry)
      /\ D = 1..Len(Manifest.files)
  BY AllListed, EntriesAre
<1>2. \A k \in D : /\ payloads[k].role = f(k).role /\ payloads[k].path = f(k).path
                   /\ BytesOf(payloads[k].content) = f(k).bytes /\ f(k).bytes \in Nat
                   /\ f(k).role \in RolesOf(Manifest)
  BY <1>1, EntriesAre DEF ListOK, RolesOf
<1>3. \A role : Payload(role) = {payloads[k] : k \in {j \in D : f(j).role = role}}
  BY <1>1, <1>2 DEF Payload
<1>4. own <=> graph /\ onnx /\ proj
  OBVIOUS
<1> HIDE DEF D, f
<1>5. (\A p \in Payload("fixture_graph") : p.path = <<"fixture.graph">> /\ BytesOf(p.content) > 0)
        <=> graph
  BY <1>2, <1>3
<1>6. (\A p \in Payload("onnx_model") :
         p.path = <<"model.onnx">> /\ BytesOf(p.content) >= MinGraphBytes) <=> onnx
  BY <1>2, <1>3
<1>7. (\A p \in Payload("token_projection") :
         p.path = <<"frontend", "piper_projection.jsonl">> /\ BytesOf(p.content) > 0) <=> proj
  BY <1>2, <1>3
<1>8. Manifest.engine = "fixture" => onnx /\ proj
  BY <1>2 DEF RolesFit, AllowedRoles, RequiredRoles, Core, Overlays
<1>9. Manifest.engine # "fixture" => graph
  BY <1>2 DEF RolesFit, AllowedRoles, RequiredRoles, Core, Overlays
<1> HIDE DEF graph, onnx, proj, own
<1>10. GraphFits(Manifest.engine) <=> own
  BY <1>4, <1>5, <1>6, <1>7, <1>8, <1>9 DEF GraphFits
<1> QED BY <1>10 DEF own

\* At the end of the list, everything that a sound package has was seen.
LEMMA EndIsSound ==
  ASSUME PackageInv, UntouchedInv, ~ touched, EndOfFiles, ~ \E c : Fail(c)
  PROVE  SoundPackage
<1> DEFINE m == Manifest
           n == Len(Manifest.files)
<1>1. /\ step = "entry" /\ entry > n
      /\ RolesFit(m.engine, {payloads[k].role : k \in DOMAIN payloads})
      /\ GraphFits(m.engine) /\ total = m.modelBytes /\ m.tail = "OK"
      /\ m.notices \subseteq {payloads[k].path : k \in DOMAIN payloads}
  BY DEF EndOfFiles, Manifest
<1>2. /\ DiskOK /\ PlaceOK /\ ReleaseSound /\ HeadSound(manifest) /\ FilesSound /\ ListOK
  BY <1>1 DEF UntouchedInv, PackageInv, Listing
<1>3. m.files \in Seq(FileEntry) /\ n \in Nat /\ DOMAIN m.files = 1..n
  BY <1>2, FilesAreEntries, EntriesAre DEF ListOK, Committed, Manifest
<1>4. entry = n + 1 BY <1>1, <1>2, <1>3 DEF ListOK
<1>5. /\ DOMAIN payloads = DOMAIN m.files /\ DOMAIN payloads = 1..n
      /\ RolesFit(m.engine, RolesOf(m)) /\ m.notices \subseteq PathsOf(m)
  BY <1>1, <1>2, <1>3, <1>4, AllListed
<1>6. Compared = n /\ entry - 1 = n
  BY <1>1, <1>3, <1>4 DEF Compared, InPayload, FileSteps
<1>7. ASSUME NEW k \in DOMAIN m.files PROVE SoundFile(m, k)
  <2>1. FileSound(m.files[k]) /\ BytesOf(m.files[k].sha) = m.files[k].bytes
    BY <1>2, <1>3, <1>6 DEF FilesSound, ListOK
  <2>2. \A l \in DOMAIN m.files : l # k => Differ(m.files[l], m.files[k])
    BY <1>2, <1>3, <1>6 DEF FilesSound
  <2> QED BY <2>1, <2>2 DEF SoundFile, FileSound, Differ
<1>8. SumOf(m) = m.modelBytes /\ m.modelBytes <= MaxTotalBytes
  BY <1>1, <1>2, <1>3, <1>6, SumsAre DEF FilesSound
<1>9. m.type = "manifest" /\ m.head = "OK" /\ n \in 1..MaxPayloadFiles
  BY <1>2 DEF ListOK, Committed, HeadSound, Manifest
<1>10. \A k \in DOMAIN m.files :
         /\ m.files[k].role = "fixture_graph" =>
              m.files[k].path = <<"fixture.graph">> /\ m.files[k].bytes > 0
         /\ m.files[k].role = "onnx_model" =>
              m.files[k].path = <<"model.onnx">> /\ m.files[k].bytes >= MinGraphBytes
         /\ m.files[k].role = "token_projection" =>
              m.files[k].path = <<"frontend", "piper_projection.jsonl">> /\ m.files[k].bytes > 0
  BY <1>1, <1>2, <1>4, <1>5, GraphIsFit
<1>11. SoundManifest(m)
  BY <1>1, <1>5, <1>7, <1>8, <1>9, <1>10 DEF SoundManifest, RolesFit, RolesOf, PathsOf
<1>12. manifest = Body(pin).manifestSha /\ manifest \in DOMAIN Contents
       /\ disk[<<>>] = Directory
  BY <1>1, <1>2 DEF ListOK, Committed, PlaceOK
<1> QED
  BY <1>2, <1>11, <1>12 DEF SoundPackage, ReleaseSound, HeadSound, Manifest

LEMMA EndOfFilesUntouched ==
  ASSUME PackageInv, UntouchedInv, EndOfFiles PROVE UntouchedInv'
<1>1. CASE \E c : Fail(c) BY <1>1, FailUntouched
<1>2. CASE ~ \E c : Fail(c)
  <2>1. step' = "verified" /\ UNCHANGED <<disk, touched, pin>>
    BY <1>2 DEF EndOfFiles, files
  <2>2. ~ touched => SoundPackage BY <1>2, EndIsSound
  <2>3. ~ touched => SoundPackage' /\ DiskOK'
    BY <2>1, <2>2, SameDisk, SamePackage DEF UntouchedInv
  <2> QED
    BY <2>1, <2>3 DEF UntouchedInv, PlaceOK, Idling, InPayload, FileSteps
<1> QED BY <1>1, <1>2

LEMMA OpenUntouched ==
  ASSUME PackageInv, UntouchedInv, OpenStep PROVE UntouchedInv'
<1>1. CASE Verify
  BY <1>1, ChangeUntouched, PinUntouched, WalkUntouched, RegularUntouched, SizeUntouched,
     ReadUntouched, ReleaseUntouched, ManifestUntouched, EntryUntouched, PayloadUntouched,
     EndOfFilesUntouched, FailUntouched DEF Verify, OutOfMemory
<1>2. CASE ~ Verify
  <2>1. CASE \E c : Fail(c) BY <2>1, FailUntouched
  <2>2. CASE ~ \E c : Fail(c)
    <3>1. UNCHANGED files /\ step' \in {"ready", "projection", "session", "ended"}
      BY <1>2, <2>2
         DEF OpenStep, LoadFrontend, LoadProjection, CreateSession, SessionFails, Publish,
             OpenOutOfMemory, FailOpen
    <3> QED BY <3>1, EndUntouched DEF FileSteps
  <2> QED BY <2>1, <2>2
<1> QED BY <1>1, <1>2

\* The steps of the command outside of kgv_engine_open.
LEMMA StaysUntouched ==
  ASSUME UntouchedInv, UNCHANGED <<disk, touched, pin, progress>>,
         step' = step \/ (step = "idle" /\ step' = "pin")
  PROVE  UntouchedInv'
<1>1. UNCHANGED <<target, depth, sized, bytes, manifest, entry, total>>
  BY DEF progress
<1> SUFFICES ASSUME ~ touched PROVE UntouchedInv'
  BY DEF UntouchedInv
<1>2. DiskOK' /\ (ReleaseSound' <=> ReleaseSound) /\ (SoundPackage' <=> SoundPackage)
  BY SameDisk, SamePackage DEF UntouchedInv
<1>3. CASE step = "idle" /\ step' = "pin"
  BY <1>1, <1>2, <1>3 DEF UntouchedInv, PlaceOK, Idling, InPayload, FileSteps
<1>4. CASE step' = step
  <2>1. (InPayload' <=> InPayload) /\ (Idling' <=> Idling)
    BY <1>1, <1>4 DEF InPayload, Idling
  <2>2. step = "entry" \/ InPayload => HeadSound(manifest)' /\ FilesSound'
    <3>1. InPayload /\ step' \in {"size", "read", "judge"} => Entry.bytes <= MaxPayloadBytes
      BY <1>4 DEF UntouchedInv, FilesSound
    <3> QED BY <1>1, <2>1, <3>1, FilesKept DEF UntouchedInv
  <2>3. PlaceOK'
    <3>1. RightSize(sized)' <=> RightSize(sized) BY <1>1 DEF RightSize, Entry, Body
    <3>2. Found(target)' = Found(target) BY <1>1 DEF Found, InDirectory, Prefix
    <3> QED BY <1>1, <1>4, <3>1, <3>2 DEF UntouchedInv, PlaceOK, BytesOf
  <2> QED BY <1>1, <1>2, <1>4, <2>1, <2>2, <2>3 DEF UntouchedInv
<1> QED BY <1>3, <1>4

-----------------------------------------------------------------------------
(* A sound package that nobody touches passes every test.                  *)

LEMMA SoundEntry ==
  ASSUME PackageInv, SoundPackage, step = "entry" \/ InPayload
  PROVE  /\ Manifest.files \in Seq(FileEntry) /\ SoundManifest(Manifest) /\ ListOK
         /\ entry <= Len(Manifest.files) =>
              /\ entry \in DOMAIN Manifest.files /\ entry \in 1..Len(Manifest.files)
              /\ Entry = Manifest.files[entry] /\ SoundFile(Manifest, entry)
<1>1. ListOK BY DEF PackageInv, Listing
<1>2. Manifest.files \in Seq(FileEntry) /\ SoundManifest(Manifest)
  BY <1>1, FilesAreEntries DEF ListOK, Committed, Manifest, SoundPackage
<1>3. DOMAIN Manifest.files = 1..Len(Manifest.files) /\ Len(Manifest.files) \in Nat
  BY <1>2, EntriesAre
<1>4. Entry = Manifest.files[entry] BY DEF Entry, Manifest
<1>5. ASSUME entry <= Len(Manifest.files) PROVE entry \in DOMAIN Manifest.files
  BY <1>1, <1>3, <1>5 DEF ListOK
<1>6. \A k \in DOMAIN Manifest.files : SoundFile(Manifest, k)
  BY <1>2 DEF SoundManifest
<1> QED BY <1>1, <1>2, <1>3, <1>4, <1>5, <1>6

\* The content that the file being read should have.
Expected == IF target = ReleasePath THEN pin
            ELSE IF target = ManifestPath THEN Body(pin).manifestSha ELSE Entry.sha

LEMMA TargetIsSound ==
  ASSUME PackageInv, UntouchedInv, ~ touched, SoundPackage, step \in FileSteps
  PROVE  /\ Regularly(target, Expected) /\ Found(target) = {Expected}
         /\ RightSize(BytesOf(Expected)) /\ BytesOf(Expected) \in Nat
         /\ InPayload => Entry.bytes <= MaxPayloadBytes /\ Entry.bytes \in Nat
<1>1. DiskOK /\ target \in DOMAIN disk
  BY DEF UntouchedInv, PlaceOK
<1> DEFINE Right == /\ Regularly(target, Expected) /\ RightSize(BytesOf(Expected))
                    /\ BytesOf(Expected) \in Nat
                    /\ InPayload => Entry.bytes <= MaxPayloadBytes /\ Entry.bytes \in Nat
<1>2. ASSUME target = ReleasePath PROVE Right
  <2>1. Expected = pin /\ ~ InPayload BY <1>2 DEF Expected, InPayload, OwnPaths
  <2>2. Regularly(target, Expected) /\ BytesOf(Expected) \in 1..MaxReleaseBytes
    BY <1>2, <2>1 DEF SoundPackage
  <2>3. BytesOf(Expected) \in Nat /\ BytesOf(Expected) <= MaxReleaseBytes
    BY <2>2, LimitsAssumption
  <2>4. RightSize(BytesOf(Expected)) BY <1>2, <2>3, OwnPathsDiffer DEF RightSize
  <2> QED BY <2>1, <2>2, <2>3, <2>4
<1>3. ASSUME target = ManifestPath PROVE Right
  <2>1. Expected = Body(pin).manifestSha /\ target # ReleasePath /\ ~ InPayload
    BY <1>3, OwnPathsDiffer DEF Expected, InPayload, OwnPaths
  <2>2. Regularly(target, Expected) /\ BytesOf(Expected) \in 1..MaxManifestBytes
    BY <1>3, <2>1 DEF SoundPackage
  <2>3. BytesOf(Expected) \in Nat /\ BytesOf(Expected) <= MaxManifestBytes
    BY <2>2, LimitsAssumption
  <2>4. RightSize(BytesOf(Expected)) BY <1>3, <2>1, <2>3 DEF RightSize
  <2> QED BY <2>1, <2>2, <2>3, <2>4
<1>4. ASSUME target \notin OwnPaths PROVE Right
  <2>1. InPayload /\ target # ReleasePath /\ target # ManifestPath
    BY <1>4 DEF InPayload, OwnPaths
  <2>2. entry <= Len(Manifest.files) BY <2>1 DEF PackageInv
  <2>3. /\ SoundFile(Manifest, entry) /\ Entry = Manifest.files[entry]
        /\ entry \in 1..Len(Manifest.files) /\ Manifest.files \in Seq(FileEntry)
    BY <2>1, <2>2, SoundEntry
  <2>4. Entry.bytes \in Nat BY <2>3, EntriesAre
  <2>5. target = Entry.path BY <2>1 DEF UntouchedInv, FilesSound
  <2>6. Expected = Entry.sha BY <2>1 DEF Expected
  <2>7. /\ Regularly(target, Expected) /\ BytesOf(Expected) = Entry.bytes
        /\ Entry.bytes <= MaxPayloadBytes
    BY <2>3, <2>5, <2>6 DEF SoundFile
  <2>8. RightSize(BytesOf(Expected)) BY <2>1, <2>7 DEF RightSize
  <2> QED BY <2>4, <2>7, <2>8
<1>5. Right BY <1>2, <1>3, <1>4 DEF OwnPaths
<1> QED BY <1>1, <1>5, FileIsFound

LEMMA PinPasses == ASSUME SoundPackage, CheckPin PROVE step' # "ended"
<1>1. pin # "malformed" /\ disk[<<>>] = Directory
  BY HashesAssumption DEF SoundPackage
<1> QED BY <1>1 DEF CheckPin, Seek

LEMMA WalkPasses ==
  ASSUME PackageInv, UntouchedInv, ~ touched, SoundPackage, Walk
  PROVE  step' # "ended"
<1> DEFINE part == Prefix(target, depth)
           n == disk[part]
<1>1. step = "walk" /\ step \in FileSteps BY DEF Walk, FileSteps
<1>2. target \in DOMAIN disk /\ IsPath(target) /\ depth \in 1..Len(target)
  BY <1>1 DEF UntouchedInv, PlaceOK
<1>3. Regularly(target, Expected) BY <1>1, TargetIsSound
<1>4. /\ Len(part) = depth /\ \A k \in 1..depth - 1 : Prefix(part, k) = Prefix(target, k)
      /\ Prefix(target, Len(target)) = target /\ Len(target) \in Nat
  BY <1>2, PrefixIs DEF IsPath
<1>5. \A k \in 1..Len(target) - 1 : disk[Prefix(target, k)] = Directory
  BY <1>3 DEF Regularly, InDirectory
<1>6. InDirectory(part)
  <2>1. \A k \in 1..depth - 1 : k \in 1..Len(target) - 1 BY <1>2, <1>4
  <2> QED BY <1>4, <1>5, <2>1 DEF InDirectory
<1>7. n = Directory \/ n = File(Expected)
  <2>1. CASE depth \in 1..Len(target) - 1 BY <1>5, <2>1
  <2>2. CASE depth = Len(target) BY <1>3, <1>4, <2>2 DEF Regularly
  <2> QED BY <1>2, <1>4, <2>1, <2>2
<1> HIDE DEF n
<1>8. n.type \in {"directory", "file"} BY <1>7 DEF Directory, File
<1>9. n # Absent /\ n.type # "link" BY <1>8 DEF Absent
<1> HIDE DEF part
<1>10. InDirectory(part) /\ disk[part] # Absent /\ disk[part].type # "link"
  BY <1>6, <1>9 DEF n
<1> QED BY <1>1, <1>10 DEF Walk, part

LEMMA LookPasses ==
  ASSUME PackageInv, UntouchedInv, ~ touched, SoundPackage, Regular \/ Size \/ Read
  PROVE  step' # "ended"
<1>1. step \in {"regular", "size", "read"} /\ step \in FileSteps
  BY DEF Regular, Size, Read, FileSteps
<1>2. /\ Found(target) = {Expected} /\ RightSize(BytesOf(Expected)) /\ BytesOf(Expected) \in Nat
      /\ InPayload => Entry.bytes <= MaxPayloadBytes /\ Entry.bytes \in Nat
  BY <1>1, TargetIsSound
<1>3. CASE Regular
  <2>1. target \notin OwnPaths => ~ (Entry.bytes > MaxPayloadBytes)
    BY <1>1, <1>2, LimitsAssumption DEF InPayload
  <2> QED BY <1>2, <1>3, <2>1 DEF Regular, OwnPaths
<1>4. CASE Size BY <1>2, <1>4 DEF Size
<1>5. CASE Read
  <2>1. step = "read" BY <1>5 DEF Read
  <2>2. sized = BytesOf(Expected)
    BY <1>2, <2>1 DEF UntouchedInv, PlaceOK, FileSteps
  <2>3. ~ BytesOf(Expected) < sized /\ ~ BytesOf(Expected) > sized BY <1>2, <2>2
  <2> QED BY <1>2, <1>5, <2>3 DEF Read
<1> QED BY <1>3, <1>4, <1>5

\* What has been read is the content that was expected.
LEMMA JudgedIsExpected ==
  ASSUME PackageInv, UntouchedInv, ~ touched, SoundPackage, step = "judge"
  PROVE  bytes = Expected /\ sized = BytesOf(bytes)
<1>1. Found(target) = {Expected} BY TargetIsSound DEF FileSteps
<1> QED BY <1>1 DEF UntouchedInv, PlaceOK, FileSteps, PackageInv

LEMMA ReleasePasses ==
  ASSUME PackageInv, UntouchedInv, ~ touched, SoundPackage, JudgeRelease
  PROVE  step' # "ended"
<1>1. step = "judge" /\ target = ReleasePath BY DEF JudgeRelease
<1>2. bytes = pin BY <1>1, JudgedIsExpected DEF Expected
<1>3. /\ BytesOf(bytes) # 0 /\ Body(bytes).type = "release"
      /\ Body(bytes).manifestBytes \in 1..MaxManifestBytes
  BY <1>2, LimitsAssumption DEF SoundPackage
<1> QED BY <1>2, <1>3 DEF JudgeRelease, Hashed, Seek

LEMMA ManifestPasses ==
  ASSUME PackageInv, UntouchedInv, ~ touched, SoundPackage, JudgeManifest
  PROVE  step' # "ended"
<1>1. step = "judge" /\ target = ManifestPath /\ target # ReleasePath
  BY OwnPathsDiffer DEF JudgeManifest
<1>2. bytes = Body(pin).manifestSha /\ sized = BytesOf(bytes)
  BY <1>1, JudgedIsExpected DEF Expected
<1>3. manifest = pin BY <1>1 DEF PackageInv, FileSteps
<1>4. sized = Body(manifest).manifestBytes BY <1>2, <1>3 DEF SoundPackage
<1>5. /\ Body(bytes).type = "manifest" /\ Body(bytes).head = "OK"
      /\ Len(Body(bytes).files) \in 1..MaxPayloadFiles
  BY <1>2 DEF SoundPackage, SoundManifest
<1> QED BY <1>2, <1>3, <1>4, <1>5 DEF JudgeManifest, Hashed

LEMMA EntryPasses ==
  ASSUME PackageInv, SoundPackage, CheckEntry
  PROVE  step' # "ended"
<1>1. step = "entry" /\ entry <= Len(Manifest.files) BY DEF CheckEntry, Manifest
<1>2. /\ entry \in DOMAIN Manifest.files /\ entry \in 1..Len(Manifest.files)
      /\ Entry = Manifest.files[entry] /\ SoundFile(Manifest, entry)
      /\ DOMAIN Manifest.files = 1..Len(Manifest.files)
  BY <1>1, SoundEntry, EntriesAre
<1>3. SafePath(Entry.path) BY <1>2 DEF SoundFile
<1>4. \A k \in 1..entry - 1 : k \in DOMAIN Manifest.files /\ k # entry BY <1>2
<1>5. ~ NamedBefore(Entry, "path") /\ ~ NamedBefore(Entry, "role")
  BY <1>2, <1>4 DEF NamedBefore, SoundFile, Manifest
<1> QED BY <1>3, <1>5 DEF CheckEntry, Seek

LEMMA PayloadPasses ==
  ASSUME PackageInv, UntouchedInv, ~ touched, SoundPackage, JudgePayload
  PROVE  step' # "ended"
<1>1. step = "judge" /\ target # ReleasePath /\ target # ManifestPath /\ InPayload
  BY DEF JudgePayload, InPayload, OwnPaths, FileSteps
<1>2. bytes = Entry.sha BY <1>1, JudgedIsExpected DEF Expected
<1>3. entry <= Len(Manifest.files) BY <1>1 DEF PackageInv
<1>4. /\ Manifest.files \in Seq(FileEntry) /\ SoundManifest(Manifest)
      /\ entry \in 1..Len(Manifest.files) /\ Entry = Manifest.files[entry]
  BY <1>1, <1>3, SoundEntry
<1>5. /\ Sums(Manifest)[entry] = Sums(Manifest)[entry - 1] + Entry.bytes
      /\ entry - 1 \in 0..Len(Manifest.files) /\ entry \in 0..Len(Manifest.files)
      /\ Entry.bytes \in Nat
      /\ \A k \in 0..Len(Manifest.files) : Sums(Manifest)[k] \in Nat
  BY <1>4, SumsAre, EntriesAre
<1>6. total = Sums(Manifest)[entry - 1] BY <1>1 DEF UntouchedInv, FilesSound
<1>7. /\ Sums(Manifest)[entry] <= SumOf(Manifest) /\ SumOf(Manifest) <= MaxTotalBytes
      /\ SumOf(Manifest) \in Nat
  <2>1. SumOf(Manifest) = Sums(Manifest)[Len(Manifest.files)] /\ Len(Manifest.files) \in Nat
    BY <1>4, SumsAre, EntriesAre
  <2> QED BY <1>4, <1>5, <2>1, SumsGrow DEF SoundManifest
<1>8. total \in Nat /\ total + Entry.bytes = Sums(Manifest)[entry] BY <1>5, <1>6
<1>9. total + Entry.bytes <= MaxTotalBytes
  BY <1>5, <1>7, <1>8, LimitsAssumption
<1>10. ~ (total > MaxTotalBytes - Entry.bytes)
  BY <1>5, <1>8, <1>9, LimitsAssumption
<1> QED BY <1>2, <1>10 DEF JudgePayload, Hashed

LEMMA EndPasses ==
  ASSUME PackageInv, UntouchedInv, ~ touched, SoundPackage, EndOfFiles
  PROVE  step' # "ended"
<1> DEFINE m == Manifest
<1>1. step = "entry" /\ entry > Len(m.files) BY DEF EndOfFiles, Manifest
<1>2. m.files \in Seq(FileEntry) /\ SoundManifest(m) /\ ListOK BY <1>1, SoundEntry
<1>3. Len(m.files) \in Nat /\ entry = Len(m.files) + 1
  BY <1>1, <1>2, EntriesAre DEF ListOK
<1>4. /\ RequiredRoles(m.engine) \subseteq RolesOf(m) /\ RolesOf(m) \subseteq AllowedRoles(m.engine)
      /\ m.notices \subseteq PathsOf(m) /\ m.tail = "OK"
  BY <1>2 DEF SoundManifest, RolesOf, PathsOf
<1>5. RolesFit(m.engine, RolesOf(m)) BY <1>4 DEF RolesFit
<1>6. /\ {payloads[k].role : k \in DOMAIN payloads} = RolesOf(m)
      /\ {payloads[k].path : k \in DOMAIN payloads} = PathsOf(m)
  BY <1>2, <1>3, AllListed
<1>7. GraphFits(m.engine)
  BY <1>2, <1>3, <1>5, GraphIsFit DEF SoundManifest
<1>8. total = m.modelBytes
  <2>1. total = Sums(m)[entry - 1] BY <1>1 DEF UntouchedInv, FilesSound
  <2>2. entry - 1 = Len(m.files) BY <1>3
  <2>3. Sums(m)[Len(m.files)] = SumOf(m) /\ SumOf(m) = m.modelBytes
    BY <1>2, SumsAre DEF SoundManifest
  <2> QED BY <2>1, <2>2, <2>3
<1> QED BY <1>4, <1>5, <1>6, <1>7, <1>8 DEF EndOfFiles, Manifest

\* Only for want of memory does the verification fail.
LEMMA SoundPasses ==
  ASSUME PackageInv, UntouchedInv, ~ touched, SoundPackage, OpenStep,
         Reading \/ step = "pin", step' = "ended"
  PROVE  status' = "RESOURCE_EXHAUSTED"
<1>1. Verify
  BY DEF OpenStep, LoadFrontend, LoadProjection, CreateSession, SessionFails, Publish,
         OpenOutOfMemory, Reading
<1>2. ~ Change BY DEF Change, Reading
<1>3. ~ (CheckPin \/ Walk \/ Regular \/ Size \/ Read)
  BY PinPasses, WalkPasses, LookPasses
<1>4. ~ (JudgeRelease \/ JudgeManifest \/ CheckEntry \/ JudgePayload \/ EndOfFiles)
  BY ReleasePasses, ManifestPasses, EntryPasses, PayloadPasses, EndPasses
<1> QED BY <1>1, <1>2, <1>3, <1>4 DEF Verify, OutOfMemory, Fail

-----------------------------------------------------------------------------
(* The command opens one package and leaves it as it is.                   *)

AcceptInv == RolesInv /\ UntouchedInv

Outside == /\ UNCHANGED <<disk, touched, pin, progress, status>>
           /\ step' = step \/ (step = "idle" /\ step' = "pin")

LEMMA CommandSteps == ASSUME HandleInv, Next PROVE OpenStep \/ Outside
<1>1. ASSUME UNCHANGED openVars PROVE Outside
  BY <1>1 DEF Outside, openVars, packageVars, files
<1>2. ASSUME Close PROVE Outside
  BY <1>2 DEF Close, Outside, packageVars, files
<1>3. ASSUME OpenEngine, pc \in {"start", "check"} PROVE Outside
  BY <1>3 DEF OpenEngine, Outside, HandleInv, files
<1>4. CASE RefuseUsage \/ StartThrows \/ StartVerify \/ StartSynthesize \/ CheckOutput
           \/ CheckFails
  BY <1>1, <1>3, <1>4
     DEF RefuseUsage, StartThrows, StartVerify, StartSynthesize, CheckOutput, CheckFails
<1>5. CASE Opening \/ Opened
  BY <1>1, <1>2, <1>5 DEF Opening, Opened
<1>6. CASE CreateJob \/ CreateFails \/ OpenFile \/ OpenFileFails \/ OpenFileThrows
  BY <1>1, <1>2, <1>6 DEF CreateJob, CreateFails, OpenFile, OpenFileFails, OpenFileThrows
<1>7. CASE WriteBlock \/ RefuseBlock \/ EndBlocks \/ EndJob
  BY <1>1, <1>2, <1>7 DEF WriteBlock, RefuseBlock, EndBlocks, EndJob
<1>8. CASE WriteHeader \/ Conclude \/ RemoveThrows
  BY <1>1, <1>8 DEF WriteHeader, Conclude, RemoveThrows
<1>9. CASE Intrude
  BY <1>9 DEF Intrude, Outside
<1> QED BY <1>4, <1>5, <1>6, <1>7, <1>8, <1>9 DEF Next

\* Who changes the disk has touched it.
LEMMA UntouchedStays ==
  ASSUME OpenStep, ~ touched' PROVE UNCHANGED <<disk, touched, pin>>
<1>1. ~ Change BY DEF Change
<1>2. ASSUME UNCHANGED files PROVE UNCHANGED <<disk, touched, pin>>
  BY <1>2 DEF files
<1>3. ASSUME NEW c, Fail(c) PROVE UNCHANGED files BY <1>3 DEF Fail
<1>4. CASE CheckPin \/ Walk \/ Regular \/ Size \/ Read \/ OutOfMemory
  BY <1>2, <1>3, <1>4 DEF CheckPin, Walk, Regular, Size, Read, OutOfMemory
<1>5. CASE JudgeRelease \/ JudgeManifest \/ CheckEntry \/ JudgePayload \/ EndOfFiles
  BY <1>2, <1>3, <1>5 DEF JudgeRelease, JudgeManifest, CheckEntry, JudgePayload, EndOfFiles
<1>6. CASE LoadFrontend \/ LoadProjection \/ CreateSession \/ SessionFails
  BY <1>2, <1>3, <1>6 DEF LoadFrontend, LoadProjection, CreateSession, SessionFails, FailOpen
<1>7. CASE Publish \/ OpenOutOfMemory
  BY <1>2, <1>3, <1>7 DEF Publish, OpenOutOfMemory, FailOpen
<1> QED BY <1>1, <1>4, <1>5, <1>6, <1>7 DEF OpenStep, Verify

LEMMA AcceptStays == ASSUME AcceptInv, Outside PROVE AcceptInv'
<1>1. RolesInv' BY RolesKept DEF AcceptInv, Outside, progress
<1>2. UntouchedInv' BY StaysUntouched DEF AcceptInv, Outside
<1> QED BY <1>1, <1>2 DEF AcceptInv

LEMMA AcceptNext == ASSUME HandleInv, AcceptInv, Next PROVE AcceptInv'
<1>1. PackageInv BY DEF HandleInv, OpenInv
<1>2. CASE OpenStep BY <1>1, <1>2, RolesOpen, OpenUntouched DEF AcceptInv
<1>3. CASE Outside BY <1>3, AcceptStays
<1> QED BY <1>2, <1>3, CommandSteps

LEMMA InitAccepts == Init => AcceptInv
<1> SUFFICES ASSUME Init PROVE AcceptInv OBVIOUS
<1>1. /\ step = "idle" /\ total = 0 /\ status = None BY DEF Init, OpenIdle, Idle
<1>2. RolesInv BY <1>1 DEF RolesInv, Verified, None
<1>3. DiskOK
  <2>1. PICK case \in Cases : disk = case[1] BY DEF Init
  <2>2. /\ {ReleasePath, ManifestPath} \subseteq DOMAIN disk
        /\ \A path \in DOMAIN disk : Node(disk[path])
    BY <2>1, DisksAssumption
  <2> QED BY <2>2 DEF DiskOK, OwnPaths
<1>4. UntouchedInv
  BY <1>1, <1>3 DEF UntouchedInv, PlaceOK, InPayload, FileSteps
<1> QED BY <1>2, <1>4 DEF AcceptInv

\* The action that AcceptsSoundPackages asks of each step.
Accepting ==
  /\ ~ touched' => /\ step' = "verified" => SoundPackage
                   /\ (Reading \/ step = "pin") /\ step' = "ended" /\ SoundPackage
                        => status' = "RESOURCE_EXHAUSTED"
  /\ status' # "LACKS_ROLE"

LEMMA NextAccepts == ASSUME HandleInv, AcceptInv, Next PROVE Accepting
<1>1. AcceptInv' BY AcceptNext
<1>2. status' # "LACKS_ROLE" BY <1>1 DEF AcceptInv, RolesInv
<1> SUFFICES ASSUME ~ touched'
             PROVE  /\ step' = "verified" => SoundPackage
                    /\ (Reading \/ step = "pin") /\ step' = "ended" /\ SoundPackage
                         => status' = "RESOURCE_EXHAUSTED"
  BY <1>2 DEF Accepting
<1>3. UNCHANGED <<disk, touched, pin>>
  BY CommandSteps, UntouchedStays DEF Outside
<1>4. step' = "verified" => SoundPackage
  BY <1>1, <1>3, SamePackage DEF AcceptInv, UntouchedInv
<1>5. ASSUME Reading \/ step = "pin", step' = "ended", SoundPackage
      PROVE  status' = "RESOURCE_EXHAUSTED"
  <2>1. PackageInv /\ UntouchedInv /\ ~ touched BY <1>3 DEF HandleInv, OpenInv, AcceptInv
  <2>2. OpenStep BY <1>5, CommandSteps DEF Outside, Reading
  <2> QED BY <1>5, <2>1, <2>2, SoundPasses
<1> QED BY <1>4, <1>5

-----------------------------------------------------------------------------
(* The theorems.                                                           *)

IInv == HandleInv /\ FileInv /\ AudioInv /\ AcceptInv

LEMMA InitHolds == Init => IInv
<1> SUFFICES ASSUME Init PROVE IInv OBVIOUS
<1>1. /\ step = "idle" /\ payloads = <<>> /\ status = None /\ frontend = <<>> /\ engine = NoEngine
      /\ pc = "start" /\ code = 0 /\ job = "none" /\ command \in {"verify", "synthesize"}
      /\ holds # "own" /\ lost = FALSE /\ stray = FALSE /\ caught = FALSE
      /\ length = 0 /\ delivered = 0 /\ outcome = "none" /\ frames = 0
  BY DEF Init, OpenIdle, Idle, Job!Init
<1>2. PackageInv
  BY <1>1 DEF PackageInv, Idling, Listing, InPayload, Verified, FileSteps
<1>3. HandleInv BY <1>1, <1>2 DEF HandleInv, Abandoned, OpenInv, PinnedBytes, EngineBound
<1>4. FileInv BY <1>1 DEF FileInv, OthersKept
<1>5. AudioInv
  <2>1. BlockFrames * 0 = 0 BY BlocksAssumption
  <2> QED BY <1>1, <2>1, FrameLimitFits DEF AudioInv
<1> QED BY <1>3, <1>4, <1>5, InitAccepts DEF IInv

LEMMA NextKeeps == IInv /\ [Next]_vars => IInv'
<1> SUFFICES ASSUME IInv, [Next]_vars PROVE IInv' OBVIOUS
<1>1. CASE Next BY <1>1, HandleNext, FileNext, AudioNext, AcceptNext DEF IInv
<1>2. CASE UNCHANGED vars
  <2>1. UNCHANGED <<openVars, command, pc, code, caught, length, delivered, outcome, job,
                    output, holds, linked, stray, header, frames, failed, good, lost, raced,
                    refused>>
    BY <1>2 DEF vars, jobVars, wavVars, fileVars, sinkVars
  <2>2. HandleInv'
    <3>1. UNCHANGED <<step, engine>> BY <2>1 DEF openVars, packageVars
    <3>2. engine = NoEngine => engine' = NoEngine BY <3>1 DEF NoEngine
    <3> QED BY <2>1, <3>1, <3>2, OpenVarsKept DEF IInv, HandleInv, Abandoned
  <2>3. FileInv' BY <2>1 DEF IInv, FileInv, OthersKept, Abandoned
  <2>4. AudioInv' BY <2>1 DEF IInv, AudioInv, OutputOK, WavHeader, FrameLimit
  <2>5. AcceptInv'
    <3>1. Outside BY <2>1 DEF Outside, openVars, packageVars, files
    <3> QED BY <3>1, AcceptStays DEF IInv
  <2> QED BY <2>2, <2>3, <2>4, <2>5 DEF IInv
<1> QED BY <1>1, <1>2

\* The inductive invariant: what the package, the handle, the job and the output
\* file are at each step of the command (model_package.cpp:641-815,
\* cli/main.cpp:281-383).
THEOREM Invariance == Spec => []IInv
<1> QED BY InitHolds, NextKeeps, PTL DEF Spec

\* An engine is made of the bytes that the pinned release commits to, whatever
\* happens to the files meanwhile (model_package.cpp:749-815).
THEOREM EnginePinned == Spec => []PinnedBytes
<1>1. IInv => PinnedBytes BY DEF IInv, HandleInv, OpenInv
<1> QED BY <1>1, Invariance, PTL

\* The resources of an engine are tables that loaded, and they fit each other
\* (frontend_package.cpp:195-291).
THEOREM EngineFits == Spec => []EngineBound
<1>1. IInv => EngineBound BY DEF IInv, HandleInv, OpenInv
<1> QED BY <1>1, Invariance, PTL

\* A file of somebody else is lost only if it came after the check
\* (cli/main.cpp:310-319, 346-353).
THEOREM OthersAlwaysKept == Spec => []OthersKept
<1>1. IInv => OthersKept BY DEF IInv, FileInv
<1> QED BY <1>1, Invariance, PTL

\* A command that memory does not leave with a job at hand gives back its engine
\* and its job; if it fails, the output path leads to nothing of its own unless the
\* removal was refused, and what it wrote is elsewhere only if the path was a link
\* when it was opened (cli/main.cpp:327-383, 422-432).
THEOREM NothingStays == Spec => []NothingLeftBehind
<1>1. IInv => NothingLeftBehind BY DEF IInv, HandleInv, FileInv, NothingLeftBehind
<1> QED BY <1>1, Invariance, PTL

\* An exit with 0 means a whole file under a header that tells its size, for
\* every length of the audio below the limit of 32 bits (cli/main.cpp:163-213).
THEOREM WavAlwaysWhole == Spec => []WavWhole
<1>1. ASSUME IInv PROVE WavWhole
  <2> SUFFICES ASSUME pc = "exited", code = 0, command = "synthesize"
               PROVE  /\ outcome = "OK" /\ delivered = length
                      /\ header.data = 2 * BlockFrames * length
                      /\ header.data < WordSize - 36 => header.riff = 36 + header.data
                      /\ raced \/ holds = "own"
    BY DEF WavWhole
  <2> DEFINE data == 2 * frames
  <2>1. /\ OutputOK /\ header = WavHeader(data % WordSize)
        /\ delivered = length /\ frames = BlockFrames * length /\ frames <= FrameLimit
        /\ length \in Nat
    BY <1>1 DEF IInv, AudioInv, OutputOK
  <2>2. frames \in Nat /\ BlockFrames * length \in Nat
    <3>1. \A b, d \in Nat : b * d \in Nat OBVIOUS
    <3> QED BY <2>1, <3>1, BlocksAssumption
  <2>3. data \in Nat /\ data < WordSize BY <2>1, <2>2, FrameLimitFits, WordAssumption
  <2>4. data = 2 * BlockFrames * length
    <3>1. \A b, d \in Nat : 2 * (b * d) = 2 * b * d OBVIOUS
    <3> QED BY <2>1, <3>1, BlocksAssumption
  <2> HIDE DEF data
  <2>5. \A x, w \in Nat : x < w => x % w = x OBVIOUS
  <2>6. data % WordSize = data BY <2>3, <2>5, WordAssumption
  <2>7. header.data = data /\ header.riff = (36 + data) % WordSize
    BY <2>1, <2>6 DEF WavHeader
  <2>8. data < WordSize - 36 => 36 + data \in Nat /\ 36 + data < WordSize
    BY <2>3, WordAssumption
  <2>9. data < WordSize - 36 => header.riff = 36 + data
    BY <2>5, <2>7, <2>8, WordAssumption
  <2>10. raced \/ holds = "own" BY <1>1 DEF IInv, FileInv
  <2> QED BY <2>1, <2>4, <2>7, <2>9, <2>10 DEF OutputOK
<1> QED BY <1>1, Invariance, PTL

\* The verification of a package that nobody touches succeeds only for a sound one,
\* and fails for a sound one only for want of memory, whatever files there are and
\* in whatever order their parts are looked at; and no loader is ever asked for a
\* role that the verification has not seen (model_package.cpp:453-565, 703-815,
\* frontend_package.cpp:116-125, engine.cpp:401-407).
THEOREM SoundPackagesAccepted == Spec => AcceptsSoundPackages
<1>1. ASSUME IInv, [Next]_vars PROVE [Accepting]_openVars
  <2>1. CASE Next BY <1>1, <2>1, NextAccepts DEF IInv
  <2>2. CASE UNCHANGED vars BY <2>2 DEF vars
  <2> QED BY <1>1, <2>1, <2>2
<1>2. AcceptsSoundPackages <=> [][Accepting]_openVars
  BY DEF AcceptsSoundPackages, Accepting
<1> QED BY <1>1, <1>2, Invariance, PTL DEF Spec
=============================================================================
