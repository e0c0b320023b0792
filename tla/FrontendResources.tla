------------------------- MODULE FrontendResources -------------------------
(***************************************************************************)
(* The resources that a front end runs with, and validate_resources        *)
(* (src/src/frontend/resolution.cpp), which every run and the opening of a *)
(* package ask whether they were made for each other.  A resource is known *)
(* by its hash: base.id is the lexicon's.                                  *)
(***************************************************************************)
EXTENDS Heteronyms, WeakForms, Morphology

\* What LtsModel promises of its syllables: it counts the segments of a word
\* but not those of one syllable.
Spoken(syllables) ==
  /\ syllables \in Seq(Syllable) /\ Len(syllables) \in 1..MaxSyllables
  /\ SegmentCount(syllables) <= MaxPerWord
  /\ \A i \in DOMAIN syllables : syllables[i].segments # <<>>
  /\ \A i, j \in DOMAIN syllables :
       syllables[i].stress = "primary" /\ syllables[j].stress = "primary" => i = j

\* The answers of pronounce; INVALID_TEXT is either of its refusals of a spelling.
LtsStatuses == {"OK", "INVALID_TEXT", "LTS_PRONUNCIATION_LIMIT",
                "LTS_INVALID_EMISSION_SEQUENCE", "LTS_RESOURCE_GRAPH"}

\* What the loaders publish of the tables, where an absent resource has no entries,
\* and of the letter-to-sound model.
TablesLoaded(r) ==
  /\ LexiconLoads(r.base.entries)
  /\ r.user.present => LexiconLoads(r.user.entries)
  /\ r.user.present \/ r.user.entries = {}
  /\ r.heteronyms.present => HeteronymRulesLoad(r.heteronyms.rules)
  /\ r.weak.present => WeakFormRulesLoad(r.weak.rules, r.weak.vowels)
  /\ r.morphology.present => MorphologyLoads(r.morphology.rules)
Loaded(r) ==
  /\ TablesLoaded(r)
  /\ \A key \in DOMAIN r.lts.answer :
       /\ r.lts.answer[key].status \in LtsStatuses
       /\ r.lts.answer[key].status = "OK" => Spoken(r.lts.answer[key].syllables)

-----------------------------------------------------------------------------
(* One admission, one inventory, one lexicon, one review.                  *)

CoreShared(r) ==
  /\ {r.base.admission, r.lts.admission, r.tokens.admission} = {r.admission}
  /\ {r.lts.inventory, r.tokens.inventory} = {r.base.inventory}
CoreBound(r) ==
  /\ CoreShared(r)
  /\ r.lts.lexicon = r.base.id
  /\ r.tokens.abi = r.abi
  /\ r.admission = "product" => r.lts.review = r.base.review
UserBound(r) ==
  r.user.present => /\ r.user.admission = "local-user" /\ r.user.review = "none"
                    /\ r.user.inventory = r.base.inventory
OverlayBound(r, overlay) ==
  overlay.present => /\ overlay.admission = r.admission
                     /\ overlay.lexicon = r.base.id
                     /\ r.admission = "product" => overlay.review = r.base.review
HeteronymsBound(r) ==
  /\ OverlayBound(r, r.heteronyms)
  /\ r.heteronyms.present => HeteronymsCompatible(r.heteronyms.rules, r.base.entries)
MorphologyBound(r) ==
  /\ OverlayBound(r, r.morphology)
  /\ r.morphology.present => r.morphology.inventory = r.base.inventory
WeakFormsBound(r) ==
  /\ OverlayBound(r, r.weak)
  /\ r.weak.present => /\ r.weak.inventory = r.base.inventory
                       /\ WeakFormsCompatible(r.weak.rules, r.base.entries)

Bound(r) == CoreBound(r) /\ UserBound(r) /\ HeteronymsBound(r) /\ MorphologyBound(r)
            /\ WeakFormsBound(r)

\* The loaders let in a lexicon without entries, which is not enough here.
Unloaded(r) == \/ r.base.entries = {}
               \/ CoreShared(r) /\ r.user.present /\ r.user.entries = {}
BindingStatus(r) ==
  IF Unloaded(r) THEN "INVALID_STATE" ELSE IF ~ Bound(r) THEN "ABI_MISMATCH" ELSE "OK"
=============================================================================
