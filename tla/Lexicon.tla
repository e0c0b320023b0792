------------------------------ MODULE Lexicon ------------------------------
(***************************************************************************)
(* The pronunciation lexicon (src/src/frontend/pronunciation.cpp): a set   *)
(* of entries, each for a grapheme in one of two case modes and a set of   *)
(* roles, indexed by (mode, grapheme, role).                               *)
(***************************************************************************)
EXTENDS Graphemes, FiniteSets

CONSTANTS
  Segments,        (* IDs of the installed segment inventory               *)
  MaxSyllables,    (* kMaximumSyllables, 16 in the code                    *)
  MaxPerSyllable,  (* kMaximumSegmentsPerSyllable, 32 in the code          *)
  MaxPerWord       (* kMaximumSegmentsPerEntry, 128 in the code            *)

ASSUME BoundsAssumption == {MaxSyllables, MaxPerSyllable, MaxPerWord} \subseteq Nat

Stresses == {"none", "primary", "secondary"}
Syllable == [segments : Seq(Segments), stress : Stresses]

\* A pronunciation is a sequence of syllables.
SegmentCount(syllables) ==
  LET count[k \in 0..Len(syllables)] ==
        IF k = 0 THEN 0 ELSE count[k - 1] + Len(syllables[k].segments)
  IN  count[Len(syllables)]

\* What every consumer of a pronunciation asks of it.
ValidPronunciation(syllables) ==
  /\ syllables \in Seq(Syllable) /\ Len(syllables) \in 1..MaxSyllables
  /\ \A i \in DOMAIN syllables : Len(syllables[i].segments) \in 1..MaxPerSyllable
  /\ \A i, j \in DOMAIN syllables :
       syllables[i].stress = "primary" /\ syllables[j].stress = "primary" => i = j
  /\ SegmentCount(syllables) <= MaxPerWord

\* parse_entry, as far as a lookup can tell.
ValidEntry(e) ==
  /\ e.grapheme # <<>> /\ e.roles # {}
  /\ e.mode = "fold" => Fold(e.grapheme) = e.grapheme
  /\ ValidPronunciation(e.syllables)

SameKey(d, e) == d.mode = e.mode /\ d.grapheme = e.grapheme /\ d.roles \cap e.roles # {}

\* The entries that load_pronunciation_lexicon lets into one lexicon, which
\* may have none.
LexiconLoads(entries) ==
  /\ \A e \in entries : ValidEntry(e)
  /\ \A d, e \in entries : d # e => ~ SameKey(d, e)

Keyed(entries, mode, grapheme, role) ==
  {e \in entries : e.mode = mode /\ e.grapheme = grapheme /\ role \in e.roles}

\* find: a variant for the role before the default, the exact spelling before
\* the folded one; the entry found, or no element.
Find(entries, word, role) ==
  LET tries == << Keyed(entries, "exact", word, role),
                  Keyed(entries, "fold", Fold(word), role),
                  Keyed(entries, "exact", word, "default"),
                  Keyed(entries, "fold", Fold(word), "default") >>
      hits  == {i \in 1..4 : tries[i] # {}}
  IN  IF hits = {} THEN {}
      ELSE tries[CHOOSE i \in hits : \A j \in hits : i <= j]

ContainsGrapheme(entries, word) ==
  \E e \in entries : \/ e.mode = "exact" /\ e.grapheme = word
                     \/ e.mode = "fold" /\ e.grapheme = Fold(word)

ContainsRole(entries, word, role) ==
  Keyed(entries, "exact", word, role) \cup Keyed(entries, "fold", Fold(word), role) # {}
=============================================================================
