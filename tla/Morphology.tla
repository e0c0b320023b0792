----------------------------- MODULE Morphology -----------------------------
(***************************************************************************)
(* Productive morphology (src/src/frontend/morphology.cpp): the stems that *)
(* a plural, past or progressive spelling may have, and the suffix that    *)
(* the last segment of a stem's pronunciation takes.                       *)
(***************************************************************************)
EXTENDS Lexicon

CONSTANT
  MaxSuffix  (* kMaximumSuffixSegments, 4 in the code                      *)

ASSUME SuffixAssumption == MaxSuffix \in 1..MaxPerSyllable

AsciiWord(w) == w # <<>> /\ \A i \in DOMAIN w : w[i] \in Letters
EndsWith(w, suffix) ==
  /\ Len(w) >= Len(suffix)
  /\ \A i \in DOMAIN suffix : FoldedLetter(w[Len(w) - Len(suffix) + i]) = suffix[i]
Without(w, n) == SubSeq(w, 1, Len(w) - n)

\* replacement_y: the case of the letter that the y stood in for.
WithY(w) == Append(Without(w, 3), IF w[Len(w) - 2] \in UpperLetters THEN "Y" ELSE "y")

\* (faulty: "ck" is not a double c.)
DoubledAlike(w, k) == FoldedLetter(w[Len(w) - k]) = FoldedLetter(w[Len(w) - k - 1])

\* The letters k and k + 1 from the end are the same, or "ck".
Doubled(w, k) ==
  LET c == FoldedLetter(w[Len(w) - k])
      b == FoldedLetter(w[Len(w) - k - 1])
  IN  b = c \/ (b = "c" /\ c = "k")

PluralStems(w) ==
  IF EndsWith(w, <<"'", "s">>) \/ EndsWith(w, <<"curly apostrophe", "s">>)
  THEN {Without(w, 2)}
  ELSE IF ~ AsciiWord(w) \/ ~ EndsWith(w, <<"s">>) \/ EndsWith(w, <<"s", "s">>) THEN {}
  ELSE {Without(w, 1)}
       \cup (IF EndsWith(w, <<"e", "s">>) /\ Len(w) > 3 THEN {Without(w, 2)} ELSE {})
       \cup (IF EndsWith(w, <<"i", "e", "s">>) /\ Len(w) > 4 THEN {WithY(w)} ELSE {})

PastStems(w) ==
  IF ~ AsciiWord(w) \/ Len(w) < 4 \/ ~ EndsWith(w, <<"e", "d">>) THEN {}
  ELSE {Without(w, 1)}
       \cup (IF EndsWith(w, <<"e", "e", "d">>) THEN {} ELSE {Without(w, 2)})
       \cup (IF EndsWith(w, <<"i", "e", "d">>) /\ Len(w) > 4 THEN {WithY(w)} ELSE {})
       \cup (IF Len(w) > 5 /\ Doubled(w, 2) THEN {Without(w, 3)} ELSE {})

ProgressiveStems(w) ==
  IF ~ AsciiWord(w) \/ Len(w) < 5 \/ ~ EndsWith(w, <<"i", "n", "g">>) THEN {}
  ELSE {Without(w, 3), Append(Without(w, 3), "e")}
       \cup (IF Len(w) > 6 /\ Doubled(w, 3) THEN {Without(w, 4)} ELSE {})

\* morphology_candidates; add_candidate lets in stems of two letters or more.
\* No two candidates of a kind fold alike, so there is none to drop.
Kinds == {"plural", "past", "progressive"}
Candidates(w) ==
  IF Len(w) < 3 THEN {}
  ELSE LET stems == [plural |-> PluralStems(w), past |-> PastStems(w),
                     progressive |-> ProgressiveStems(w)]
       IN  {c \in UNION {{[kind |-> k, stem |-> s] : s \in stems[k]} : k \in Kinds} :
              Len(c.stem) >= 2 /\ AsciiWord(c.stem)}

-----------------------------------------------------------------------------
(* The rules: [pluralSyllabic, pluralUnvoiced, pastSyllabic, pastUnvoiced, *)
(* suffix], classes of final segments and the suffix of each case.         *)

\* The suffixes: of which kind, and how they are spoken.
Suffixes == ({"plural", "past"} \X {"syllabic", "unvoiced", "voiced"})
            \cup {<<"progressive", "syllabic">>}

\* load_morphology_rules.
MorphologyLoads(rules) ==
  /\ \A class \in {"pluralSyllabic", "pluralUnvoiced", "pastSyllabic", "pastUnvoiced"} :
       rules[class] # {} /\ rules[class] \subseteq Segments
  /\ \A s \in Suffixes :
       LET suffix == rules.suffix[s]
       IN  /\ suffix \in Seq(Segments) /\ Len(suffix) \in 1..MaxSuffix
           /\ \A k, l \in DOMAIN suffix : suffix[k] = suffix[l] => k = l
  /\ rules.pluralSyllabic \cap rules.pluralUnvoiced = {}
  /\ rules.pastSyllabic \cap rules.pastUnvoiced = {}

\* How the suffix is spoken after the stem's last segment.
Manner(rules, kind, final) ==
  LET syllabic == IF kind = "plural" THEN rules.pluralSyllabic ELSE rules.pastSyllabic
      unvoiced == IF kind = "plural" THEN rules.pluralUnvoiced ELSE rules.pastUnvoiced
  IN  CASE kind = "progressive" -> "syllabic"
        [] kind # "progressive" /\ final \in syllabic -> "syllabic"
        [] kind # "progressive" /\ final \in unvoiced \ syllabic -> "unvoiced"
        [] OTHER -> "voiced"

\* (faulty: a long last syllable is not noticed.)
ApplyUnbounded(rules, kind, stem) ==
  LET last   == stem[Len(stem)]
      manner == Manner(rules, kind, last.segments[Len(last.segments)])
      suffix == rules.suffix[<<kind, manner>>]
  IN  [status |-> "OK", syllables |->
         IF manner = "syllabic" THEN Append(stem, [segments |-> suffix, stress |-> "none"])
         ELSE [stem EXCEPT ![Len(stem)].segments = @ \o suffix]]

\* apply: the stem's syllables with the suffix as a syllable of its own or at
\* the end of the last one; a status other than "OK" comes without syllables.
Apply(rules, kind, stem) ==
  IF ~ ValidPronunciation(stem)
  THEN [status |-> "INVALID_MORPHOLOGY_STEM", syllables |-> <<>>]
  ELSE
    LET last   == stem[Len(stem)]
        manner == Manner(rules, kind, last.segments[Len(last.segments)])
        suffix == rules.suffix[<<kind, manner>>]
    IN  IF \/ SegmentCount(stem) + Len(suffix) > MaxPerWord
           \/ manner = "syllabic" /\ Len(stem) >= MaxSyllables
           \/ manner # "syllabic" /\ Len(last.segments) + Len(suffix) > MaxPerSyllable
        THEN [status |-> "MORPHOLOGY_RESULT_TOO_LARGE", syllables |-> <<>>]
        ELSE [status |-> "OK", syllables |->
                IF manner = "syllabic"
                THEN Append(stem, [segments |-> suffix, stress |-> "none"])
                ELSE [stem EXCEPT ![Len(stem)].segments = @ \o suffix]]

-----------------------------------------------------------------------------
(* What the candidates are meant to be: the regular inflections of English *)
(* spelling, said forwards, and without the shortest words.                *)

\* word, all in lower case, is how stem is spelled with the suffix.
Inflects(kind, stem, word) ==
  LET suffix == [plural |-> <<"e", "s">>, past |-> <<"e", "d">>,
                 progressive |-> <<"i", "n", "g">>][kind]
      last   == stem[Len(stem)]
      long   == Len(stem) > 2
  IN  \/ word = stem \o suffix /\ ~ (kind = "past" /\ last = "e")
      \/ long /\ kind = "past" /\ last = "e" /\ word = stem \o <<"d">>
      \/ kind = "plural" /\ last # "s" /\ word = stem \o <<"s">>
      \/ kind = "plural" /\ \E a \in {"'", "curly apostrophe"} : word = stem \o <<a, "s">>
      \/ /\ long /\ kind = "progressive" /\ last = "e"
         /\ word = Without(stem, 1) \o suffix
      \/ /\ long /\ kind # "progressive" /\ last = "y"
         /\ word = Without(stem, 1) \o <<"i">> \o suffix
      \/ long /\ kind # "plural" /\ word = stem \o <<last>> \o suffix
      \/ long /\ kind # "plural" /\ last = "c" /\ word = stem \o <<"k">> \o suffix
=============================================================================
