-------------------------- MODULE MorphologyProofs --------------------------
(***************************************************************************)
(* Proofs about the operators of Morphology, for every inventory, every    *)
(* rule table that loads and every pronunciation: the number of segments   *)
(* that they keep, and that a suffixed pronunciation is one again.  And    *)
(* that the candidates of any word are the stems it is inflected from.     *)
(***************************************************************************)
EXTENDS Morphology, SequenceTheorems, FiniteSetTheorems, NaturalsInduction,
        WellFoundedInduction, TLAPS

-----------------------------------------------------------------------------
(* Induction, said of sets: the theorems of the library speak of operators. *)

LessThan == {p \in Nat \X Nat : p[1] < p[2]}

\* A set of naturals that is not empty has a least element.
LEMMA LeastElement ==
  ASSUME NEW S, S \subseteq Nat, S # {}
  PROVE  \E x \in S : \A y \in S : x <= y
<1>1. IsWellFoundedOn(LessThan, Nat)
  BY NatLessThanWellFounded DEF OpToRel, LessThan
<1>2. \E x \in S : \A y \in S : ~ (<<y, x>> \in LessThan)
  BY <1>1, WFMin
<1>3. \A x, y \in Nat : <<y, x>> \in LessThan <=> y < x
  BY DEF LessThan
<1>4. \A x, y \in Nat : ~ (y < x) => x <= y
  OBVIOUS
<1> QED BY <1>2, <1>3, <1>4

\* A set that has zero and the successor of every member has all naturals.
LEMMA SetInduction ==
  ASSUME NEW S, 0 \in S, \A n \in Nat : n \in S => n + 1 \in S
  PROVE  \A n \in Nat : n \in S
<1> SUFFICES ASSUME Nat \ S # {} PROVE FALSE
  OBVIOUS
<1>1. PICK n \in Nat \ S : \A m \in Nat \ S : n <= m
  BY LeastElement
<1>2. n - 1 \in Nat /\ n - 1 + 1 = n /\ ~ (n <= n - 1)
  BY <1>1
<1> QED BY <1>1, <1>2

-----------------------------------------------------------------------------
(* The number of segments.                                                 *)

LEMMA SyllableIs ==
  \A x \in Syllable : /\ x.segments \in Seq(Segments) /\ x.stress \in Stresses
                      /\ Len(x.segments) \in Nat
BY DEF Syllable

\* c counts the segments of the first syllables of s.
Counts(c, s) ==
  /\ c[0] = 0
  /\ \A k \in 1..Len(s) : c[k] = c[k - 1] + Len(s[k].segments)

LEMMA SegmentCountIs ==
  ASSUME NEW s \in Seq(Syllable)
  PROVE  \E c : Counts(c, s) /\ SegmentCount(s) = c[Len(s)]
<1> DEFINE count[k \in 0..Len(s)] ==
             IF k = 0 THEN 0 ELSE count[k - 1] + Len(s[k].segments)
           F(v, k) == v + Len(s[k].segments)
<1>1. Len(s) \in Nat
  OBVIOUS
<1>2. FiniteNatInductiveDefHypothesis(count, 0, F, 0, Len(s))
  BY DEF FiniteNatInductiveDefHypothesis
<1>3. SegmentCount(s) = count[Len(s)]
  BY DEF SegmentCount
<1> HIDE DEF F, count
<1>4. FiniteNatInductiveDefConclusion(count, 0, F, 0, Len(s))
  BY <1>1, <1>2, FiniteNatInductiveDef
<1>5. count = [k \in 0..Len(s) |-> IF k = 0 THEN 0 ELSE F(count[k - 1], k)]
  BY <1>4 DEF FiniteNatInductiveDefConclusion
<1>6. count[0] = 0 /\ \A k \in 1..Len(s) : count[k] = F(count[k - 1], k)
  BY <1>1, <1>5
<1>7. Counts(count, s)
  BY <1>6 DEF Counts, F
<1> QED BY <1>3, <1>7

\* As far as two pronunciations agree, so do their counts.
LEMMA CountsAgree ==
  ASSUME NEW c, NEW d, NEW s \in Seq(Syllable), NEW t \in Seq(Syllable),
         Counts(c, s), Counts(d, t), NEW n \in Nat, n <= Len(s), n <= Len(t),
         \A k \in 1..n : s[k] = t[k]
  PROVE  c[n] = d[n] /\ c[n] \in Nat
<1> DEFINE Agreed == {k \in Nat : k <= n => c[k] = d[k] /\ c[k] \in Nat}
<1>1. 0 \in Agreed
  BY DEF Counts
<1>2. \A k \in Nat : k \in Agreed => k + 1 \in Agreed
  <2> SUFFICES ASSUME NEW k \in Nat, k \in Agreed, k + 1 <= n
               PROVE  c[k + 1] = d[k + 1] /\ c[k + 1] \in Nat
    OBVIOUS
  <2>1. /\ k <= n /\ k + 1 \in 1..n /\ k + 1 \in 1..Len(s) /\ k + 1 \in 1..Len(t)
        /\ (k + 1) - 1 = k
    OBVIOUS
  <2>2. c[k + 1] = c[k] + Len(s[k + 1].segments) /\ d[k + 1] = d[k] + Len(t[k + 1].segments)
    BY <2>1 DEF Counts
  <2>3. s[k + 1] = t[k + 1] /\ Len(s[k + 1].segments) \in Nat
    BY <2>1 DEF Syllable
  <2> QED BY <2>1, <2>2, <2>3
<1> HIDE DEF Agreed
<1>3. \A k \in Nat : k \in Agreed
  BY <1>1, <1>2, SetInduction
<1> QED BY <1>3 DEF Agreed

\* A syllable more counts for what it has.
LEMMA CountOfAppend ==
  ASSUME NEW s \in Seq(Syllable), NEW x \in Syllable
  PROVE  /\ SegmentCount(s) \in Nat
         /\ SegmentCount(Append(s, x)) = SegmentCount(s) + Len(x.segments)
<1> DEFINE n == Len(s)
           t == Append(s, x)
<1>1. /\ t \in Seq(Syllable) /\ n \in Nat /\ Len(t) = n + 1 /\ t[n + 1] = x
      /\ \A k \in 1..n : s[k] = t[k]
  OBVIOUS
<1>2. PICK c : Counts(c, s) /\ SegmentCount(s) = c[n]
  BY SegmentCountIs
<1>3. PICK d : Counts(d, t) /\ SegmentCount(t) = d[n + 1]
  BY <1>1, SegmentCountIs
<1> HIDE DEF t
<1>4. c[n] = d[n] /\ c[n] \in Nat
  BY <1>1, <1>2, <1>3, CountsAgree
<1>5. n + 1 \in 1..Len(t) /\ (n + 1) - 1 = n
  BY <1>1
<1>6. d[n + 1] = d[n] + Len(x.segments)
  BY <1>1, <1>3, <1>5 DEF Counts
<1> QED BY <1>2, <1>3, <1>4, <1>6 DEF t

\* So do segments added to the last syllable.
LEMMA CountOfLonger ==
  ASSUME NEW s \in Seq(Syllable), s # <<>>, NEW suffix \in Seq(Segments),
         NEW t \in Seq(Syllable), Len(t) = Len(s),
         \A k \in 1..Len(s) - 1 : t[k] = s[k],
         t[Len(s)].segments = s[Len(s)].segments \o suffix
  PROVE  SegmentCount(t) = SegmentCount(s) + Len(suffix)
<1> DEFINE n == Len(s)
<1>1. /\ n \in Nat \ {0} /\ n - 1 \in Nat /\ n \in 1..n
      /\ n - 1 <= Len(s) /\ n - 1 <= Len(t)
  OBVIOUS
<1>2. PICK c : Counts(c, s) /\ SegmentCount(s) = c[n]
  BY SegmentCountIs
<1>3. PICK d : Counts(d, t) /\ SegmentCount(t) = d[n]
  BY SegmentCountIs
<1>4. c[n - 1] = d[n - 1] /\ c[n - 1] \in Nat
  <2>1. \A k \in 1..n - 1 : s[k] = t[k]
    OBVIOUS
  <2> HIDE DEF n
  <2> QED BY <1>1, <1>2, <1>3, <2>1, CountsAgree
<1>5. /\ c[n] = c[n - 1] + Len(s[n].segments)
      /\ d[n] = d[n - 1] + Len(t[n].segments)
  BY <1>1, <1>2, <1>3 DEF Counts
<1>6. s[n] \in Syllable /\ s[n].segments \in Seq(Segments)
  BY <1>1, SyllableIs
<1>7. Len(t[n].segments) = Len(s[n].segments) + Len(suffix) /\ Len(s[n].segments) \in Nat
      /\ Len(suffix) \in Nat
  BY <1>6
<1> HIDE DEF n
<1> QED BY <1>2, <1>3, <1>4, <1>5, <1>7

-----------------------------------------------------------------------------
(* The suffix.                                                             *)

LEMMA MannerHasSuffix ==
  ASSUME NEW rules, NEW kind \in Kinds, NEW final
  PROVE  <<kind, Manner(rules, kind, final)>> \in Suffixes
<1>1. CASE kind = "progressive"
  <2>1. Manner(rules, kind, final) = "syllabic"
    BY <1>1 DEF Manner
  <2> QED BY <1>1, <2>1 DEF Suffixes
<1>2. CASE kind # "progressive"
  <2>1. Manner(rules, kind, final) \in {"syllabic", "unvoiced", "voiced"}
    BY <1>2 DEF Manner
  <2>2. kind \in {"plural", "past"}
    BY <1>2 DEF Kinds
  <2> QED BY <2>1, <2>2 DEF Suffixes
<1> QED BY <1>1, <1>2

\* A pronunciation with a suffix is a pronunciation or refused for its length,
\* whatever the rules that were loaded say: apply's other refusal is never met
\* (morphology.cpp:289-373).
THEOREM SuffixKeepsPronunciation ==
  ASSUME NEW rules, MorphologyLoads(rules), NEW kind \in Kinds,
         NEW stem, ValidPronunciation(stem)
  PROVE  LET applied == Apply(rules, kind, stem)
         IN  \/ applied.status = "OK" /\ ValidPronunciation(applied.syllables)
             \/ applied.status = "MORPHOLOGY_RESULT_TOO_LARGE"
<1> DEFINE n      == Len(stem)
           last   == stem[n]
           manner == Manner(rules, kind, last.segments[Len(last.segments)])
           suffix == rules.suffix[<<kind, manner>>]
           large  == \/ SegmentCount(stem) + Len(suffix) > MaxPerWord
                     \/ manner = "syllabic" /\ n >= MaxSyllables
                     \/ manner # "syllabic" /\ Len(last.segments) + Len(suffix) > MaxPerSyllable
<1>1. /\ stem \in Seq(Syllable) /\ n \in 1..MaxSyllables /\ n \in Nat /\ n > 0
      /\ \A i \in 1..n : Len(stem[i].segments) \in 1..MaxPerSyllable
      /\ \A i, j \in 1..n : stem[i].stress = "primary" /\ stem[j].stress = "primary" => i = j
      /\ SegmentCount(stem) <= MaxPerWord
  BY DEF ValidPronunciation
<1>2. suffix \in Seq(Segments) /\ Len(suffix) \in 1..MaxSuffix
  BY MannerHasSuffix DEF MorphologyLoads
<1>3. /\ MaxSyllables \in Nat /\ MaxPerSyllable \in Nat /\ MaxPerWord \in Nat
      /\ Len(suffix) \in Nat /\ Len(suffix) \in 1..MaxPerSyllable
  BY <1>2, BoundsAssumption, SuffixAssumption
<1>4. /\ n \in 1..n /\ last \in Syllable /\ last.segments \in Seq(Segments)
      /\ last.stress \in Stresses /\ Len(last.segments) \in 1..MaxPerSyllable
  BY <1>1, SyllableIs
<1>5. SegmentCount(stem) \in Nat
  BY <1>1, <1>4, CountOfAppend
<1>6. CASE large
  <2>1. Apply(rules, kind, stem)
          = [status |-> "MORPHOLOGY_RESULT_TOO_LARGE", syllables |-> <<>>]
    BY <1>6 DEF Apply
  <2> QED BY <2>1
<1>7. CASE ~ large /\ manner = "syllabic"
  <2> DEFINE x == [segments |-> suffix, stress |-> "none"]
             t == Append(stem, x)
  <2>1. Apply(rules, kind, stem) = [status |-> "OK", syllables |-> t]
    BY <1>7 DEF Apply
  <2>2. x \in Syllable /\ x.segments = suffix /\ x.stress = "none"
    BY <1>2 DEF Syllable, Stresses
  <2> HIDE DEF x
  <2>3. /\ t \in Seq(Syllable) /\ Len(t) = n + 1 /\ DOMAIN t = 1..n + 1
        /\ t[n + 1] = x /\ \A k \in 1..n : t[k] = stem[k]
    BY <1>1, <2>2
  <2>4. SegmentCount(t) = SegmentCount(stem) + Len(suffix)
    BY <1>1, <2>2, CountOfAppend
  <2> HIDE DEF t
  <2>5. SegmentCount(t) <= MaxPerWord /\ n + 1 \in 1..MaxSyllables
    BY <1>1, <1>2, <1>3, <1>5, <1>7, <2>4
  <2>6. \A i \in 1..n + 1 : i \in 1..n \/ i = n + 1
    BY <1>1
  <2>7. \A i \in DOMAIN t : Len(t[i].segments) \in 1..MaxPerSyllable
    BY <1>1, <1>3, <2>2, <2>3, <2>6
  <2>8. \A i, j \in DOMAIN t : t[i].stress = "primary" /\ t[j].stress = "primary" => i = j
    BY <1>1, <2>2, <2>3, <2>6
  <2>9. ValidPronunciation(t)
    BY <2>3, <2>5, <2>7, <2>8 DEF ValidPronunciation
  <2> QED BY <2>1, <2>9
<1>8. CASE ~ large /\ manner # "syllabic"
  <2> DEFINE x == [last EXCEPT !.segments = @ \o suffix]
             t == [stem EXCEPT ![n] = x]
  <2>1. Apply(rules, kind, stem) = [status |-> "OK", syllables |-> t]
    BY <1>8 DEF Apply
  <2>2. x \in Syllable /\ x.segments = last.segments \o suffix /\ x.stress = last.stress
    <3>1. last.segments \o suffix \in Seq(Segments)
      BY <1>2, <1>4
    <3>2. \A y \in Syllable, list \in Seq(Segments) :
            LET z == [y EXCEPT !.segments = list]
            IN  z \in Syllable /\ z.segments = list /\ z.stress = y.stress
      BY DEF Syllable
    <3> HIDE DEF last, suffix
    <3> QED BY <1>4, <3>1, <3>2
  <2> HIDE DEF x
  <2>3. /\ t \in Seq(Syllable) /\ Len(t) = n /\ DOMAIN t = 1..n
        /\ t[n] = x /\ \A k \in 1..n : k # n => t[k] = stem[k]
    BY <1>1, <2>2
  <2> HIDE DEF t
  <2>4. SegmentCount(t) = SegmentCount(stem) + Len(suffix)
    <3>1. \A k \in 1..n - 1 : k \in 1..n /\ k # n
      BY <1>1
    <3>2. \A k \in 1..n - 1 : t[k] = stem[k]
      BY <2>3, <3>1
    <3>3. stem # <<>>
      BY <1>1
    <3> QED BY <1>1, <1>2, <2>2, <2>3, <3>2, <3>3, CountOfLonger
  <2>5. SegmentCount(t) <= MaxPerWord
    <3> HIDE DEF n, last, suffix
    <3> QED BY <1>1, <1>3, <1>5, <1>8, <2>4
  <2>6. Len(x.segments) \in 1..MaxPerSyllable
    <3>1. Len(x.segments) = Len(last.segments) + Len(suffix) /\ Len(last.segments) \in Nat
      BY <1>2, <1>4, <2>2
    <3>2. ~ Len(last.segments) + Len(suffix) > MaxPerSyllable
      BY <1>8
    <3> HIDE DEF last, suffix
    <3> QED BY <1>3, <1>4, <3>1, <3>2
  <2>7. \A i \in DOMAIN t : Len(t[i].segments) \in 1..MaxPerSyllable
    BY <1>1, <2>3, <2>6
  <2>8. \A i \in 1..n : t[i].stress = stem[i].stress
    BY <2>2, <2>3
  <2>9. ValidPronunciation(t)
    BY <1>1, <2>3, <2>5, <2>7, <2>8 DEF ValidPronunciation
  <2> QED BY <2>1, <2>9
<1> QED BY <1>6, <1>7, <1>8

-----------------------------------------------------------------------------
(* The candidates.                                                         *)

LEMMA FewAreFinite == \A a, b, c, d : IsFiniteSet({a, b, c, d})
<1> SUFFICES ASSUME NEW a, NEW b, NEW c, NEW d PROVE IsFiniteSet({a, b, c, d})
  OBVIOUS
<1>1. IsFiniteSet({a})
  BY FS_Singleton
<1>2. IsFiniteSet({a} \cup {b})
  BY <1>1, FS_AddElement
<1>3. IsFiniteSet(({a} \cup {b}) \cup {c})
  BY <1>2, FS_AddElement
<1>4. IsFiniteSet((({a} \cup {b}) \cup {c}) \cup {d})
  BY <1>3, FS_AddElement
<1>5. (({a} \cup {b}) \cup {c}) \cup {d} = {a, b, c, d}
  OBVIOUS
<1> QED BY <1>4, <1>5

\* A spelling has a handful of candidates.
LEMMA CandidatesAreFew == ASSUME NEW w PROVE IsFiniteSet(Candidates(w))
<1> DEFINE C(k, s) == [kind |-> k, stem |-> s]
           plural == {C("plural", Without(w, 1)), C("plural", Without(w, 2)),
                      C("plural", WithY(w)), C("plural", WithY(w))}
           past == {C("past", Without(w, 1)), C("past", Without(w, 2)),
                    C("past", WithY(w)), C("past", Without(w, 3))}
           progressive == {C("progressive", Without(w, 3)),
                           C("progressive", Append(Without(w, 3), "e")),
                           C("progressive", Without(w, 4)), C("progressive", Without(w, 4))}
<1>1. IsFiniteSet(plural) /\ IsFiniteSet(past) /\ IsFiniteSet(progressive)
  BY FewAreFinite
<1>2. IsFiniteSet((plural \cup past) \cup progressive)
  <2> HIDE DEF plural, past, progressive
  <2>1. IsFiniteSet(plural \cup past)
    BY <1>1, FS_Union
  <2> QED BY <1>1, <2>1, FS_Union
<1>3. Candidates(w) \subseteq (plural \cup past) \cup progressive
  <2> SUFFICES ASSUME NEW c \in Candidates(w)
               PROVE  c \in plural \/ c \in past \/ c \in progressive
    OBVIOUS
  <2> DEFINE stems == [plural |-> PluralStems(w), past |-> PastStems(w),
                       progressive |-> ProgressiveStems(w)]
  <2>1. PICK k \in Kinds : c \in {C(k, s) : s \in stems[k]}
    BY DEF Candidates
  <2>2. PICK s \in stems[k] : c = C(k, s)
    BY <2>1
  <2>3. CASE k = "plural"
    <3>1. s \in PluralStems(w)
      BY <2>2, <2>3
    <3>2. s \in {Without(w, 1), Without(w, 2), WithY(w)}
      BY <3>1 DEF PluralStems
    <3> QED BY <2>2, <2>3, <3>2
  <2>4. CASE k = "past"
    <3>1. s \in PastStems(w)
      BY <2>2, <2>4
    <3>2. s \in {Without(w, 1), Without(w, 2), WithY(w), Without(w, 3)}
      BY <3>1 DEF PastStems
    <3> QED BY <2>2, <2>4, <3>2
  <2>5. CASE k = "progressive"
    <3>1. s \in ProgressiveStems(w)
      BY <2>2, <2>5
    <3>2. s \in {Without(w, 3), Append(Without(w, 3), "e"), Without(w, 4)}
      BY <3>1 DEF ProgressiveStems
    <3> QED BY <2>2, <2>5, <3>2
  <2> QED BY <2>3, <2>4, <2>5 DEF Kinds
<1> QED BY <1>2, <1>3, FS_Subset

-----------------------------------------------------------------------------
(* The candidates, for words over any set S of characters that holds the   *)
(* letters and the apostrophes.                                            *)

Signs    == {"'", "curly apostrophe"}
Alphabet == Letters \cup Signs

\* The letters, and the signs that are none.
LEMMA LetterFacts ==
  /\ {"c", "d", "e", "g", "i", "k", "n", "s", "y", "Y"} \subseteq Letters
  /\ Signs \cap Letters = {} /\ Signs \subseteq Alphabet /\ Letters \subseteq Alphabet
  /\ FoldedLetter("y") = "y" /\ FoldedLetter("Y") = "y" /\ FoldedLetter("e") = "e"
  /\ \A c : FoldedLetter(c) \in Letters <=> c \in Letters
  /\ \A c : FoldedLetter(c) \in Letters \cup {c}
<1>1. UpperLetters = {"A", "B", "C", "D", "E", "F", "G", "H", "I", "J", "K", "L", "M", "N", "O",
                      "P", "Q", "R", "S", "T", "U", "V", "W", "X", "Y", "Z"}
  BY DEF UpperLetters, Lower
<1>2. LowerLetters = {"a", "b", "c", "d", "e", "f", "g", "h", "i", "j", "k", "l", "m", "n", "o",
                      "p", "q", "r", "s", "t", "u", "v", "w", "x", "y", "z"}
  BY <1>1 DEF LowerLetters, Lower
<1>3. \A c \in UpperLetters : Lower[c] \in LowerLetters
  BY DEF LowerLetters
<1>4. Lower["Y"] = "y"
  BY DEF Lower
<1>5. \A c : FoldedLetter(c) \in Letters <=> c \in Letters
  BY <1>3 DEF FoldedLetter, Letters
<1>6. \A c : FoldedLetter(c) \in Letters \cup {c}
  BY <1>3 DEF FoldedLetter, Letters
<1>7. FoldedLetter("y") = "y" /\ FoldedLetter("Y") = "y" /\ FoldedLetter("e") = "e"
  BY <1>1, <1>4 DEF FoldedLetter
<1>8. "'" \notin Letters /\ "curly apostrophe" \notin Letters
  BY <1>1, <1>2, Zenon DEF Letters
<1>9. Signs \cap Letters = {} /\ Signs \subseteq Alphabet /\ Letters \subseteq Alphabet
  BY <1>8, Zenon DEF Signs, Alphabet
<1> QED BY <1>1, <1>2, <1>5, <1>6, <1>7, <1>9 DEF Letters

LEMMA CutIs ==
  ASSUME NEW S, NEW f \in Seq(S), NEW m \in 0..Len(f)
  PROVE  /\ Without(f, m) \in Seq(S) /\ Len(Without(f, m)) = Len(f) - m
         /\ \A i \in 1..Len(f) - m : Without(f, m)[i] = f[i]
<1>1. PICK l : l = Len(f) - m
  OBVIOUS
<1>2. l \in 0..Len(f)
  BY <1>1
<1>3. SubSeq(f, 1, l) \in Seq(S) /\ Len(SubSeq(f, 1, l)) = l
      /\ \A i \in 1..l : SubSeq(f, 1, l)[i] = f[i]
  BY <1>2, SubSeqProperties
<1> QED BY <1>1, <1>3 DEF Without

LEMMA SameWord ==
  ASSUME NEW S, NEW s \in Seq(S), NEW t \in Seq(S), Len(s) = Len(t),
         \A i \in 1..Len(s) : s[i] = t[i]
  PROVE  s = t
OBVIOUS

\* What a word ends with, and what is before it.
Closes(f, t) == \A i \in 1..Len(t) : f[Len(f) - Len(t) + i] = t[i]

LEMMA Glue ==
  ASSUME NEW S, NEW f \in Seq(S), NEW s \in Seq(S), NEW t \in Seq(S)
  PROVE  f = s \o t <=> Len(f) = Len(s) + Len(t) /\ s = Without(f, Len(t)) /\ Closes(f, t)
<1> DEFINE l == Len(s)
           m == Len(t)
           u == s \o t
<1>1. /\ l \in Nat /\ m \in Nat /\ u \in Seq(S) /\ Len(u) = l + m
      /\ \A i \in 1..l + m : u[i] = IF i <= l THEN s[i] ELSE t[i - l]
  OBVIOUS
<1> HIDE DEF l, m, u
<1>2. ASSUME f = u
      PROVE  Len(f) = l + m /\ s = Without(f, m) /\ \A i \in 1..m : f[l + i] = t[i]
  <2>1. Len(f) = l + m /\ m \in 0..Len(f)
    BY <1>1, <1>2
  <2>2. \A i \in 1..m : f[l + i] = t[i]
    <3> SUFFICES ASSUME NEW i \in 1..m PROVE f[l + i] = t[i]
      OBVIOUS
    <3>1. PICK k : k = l + i
      OBVIOUS
    <3>2. k \in 1..l + m /\ ~ k <= l /\ k - l = i
      BY <1>1, <3>1
    <3> QED BY <1>1, <1>2, <3>1, <3>2
  <2>3. /\ Without(f, m) \in Seq(S) /\ Len(Without(f, m)) = l
        /\ \A i \in 1..l : Without(f, m)[i] = f[i]
    <3>1. Len(f) - m = l
      BY <1>1, <2>1
    <3> QED BY <2>1, <3>1, CutIs
  <2>4. \A i \in 1..l : f[i] = s[i]
    BY <1>1, <1>2
  <2>5. s = Without(f, m)
    BY <2>3, <2>4, SameWord DEF l
  <2> QED BY <2>1, <2>2, <2>5
<1>3. ASSUME Len(f) = l + m, s = Without(f, m), \A i \in 1..m : f[l + i] = t[i]
      PROVE  f = u
  <2>1. m \in 0..Len(f) /\ Len(f) - m = l
    BY <1>1, <1>3
  <2>2. \A i \in 1..l : s[i] = f[i]
    BY <1>3, <2>1, CutIs
  <2>3. \A i \in 1..l + m : f[i] = u[i]
    <3> SUFFICES ASSUME NEW i \in 1..l + m PROVE f[i] = u[i]
      OBVIOUS
    <3>1. CASE i <= l
      BY <1>1, <2>2, <3>1
    <3>2. CASE ~ i <= l
      <4>1. PICK k : k = i - l
        OBVIOUS
      <4>2. k \in 1..m /\ l + k = i
        BY <1>1, <3>2, <4>1
      <4> QED BY <1>1, <1>3, <3>2, <4>1, <4>2
    <3> QED BY <3>1, <3>2
  <2> QED BY <1>1, <1>3, <2>3, SameWord
<1>4. ASSUME Len(f) = l + m
      PROVE  Closes(f, t) <=> \A i \in 1..m : f[l + i] = t[i]
  <2>1. Len(f) - m = l
    BY <1>1, <1>4
  <2> QED BY <2>1 DEF Closes, m
<1>5. f = u <=> Len(f) = l + m /\ s = Without(f, m) /\ Closes(f, t)
  BY <1>2, <1>3, <1>4
<1> QED BY <1>5, Zenon DEF l, m, u

LEMMA FoldIs ==
  ASSUME NEW S, Letters \subseteq S, NEW w \in Seq(S)
  PROVE  /\ FoldedWord(w) \in Seq(S) /\ Len(FoldedWord(w)) = Len(w)
         /\ \A i \in 1..Len(w) : FoldedWord(w)[i] = FoldedLetter(w[i])
         /\ AsciiWord(FoldedWord(w)) <=> AsciiWord(w)
<1>1. Len(w) \in Nat /\ DOMAIN w = 1..Len(w) /\ \A i \in 1..Len(w) : w[i] \in S
  OBVIOUS
<1>2. PICK n : n = Len(w)
  OBVIOUS
<1>3. FoldedWord(w) = [i \in 1..n |-> FoldedLetter(w[i])]
  BY <1>1, <1>2 DEF FoldedWord
<1>4. \A i \in 1..n : FoldedLetter(w[i]) \in S
  <2>1. \A c \in S : FoldedLetter(c) \in S
    BY LetterFacts
  <2> QED BY <1>1, <1>2, <2>1
<1>5. FoldedWord(w) \in Seq(S) /\ Len(FoldedWord(w)) = n /\ DOMAIN FoldedWord(w) = 1..n
      /\ \A i \in 1..n : FoldedWord(w)[i] = FoldedLetter(w[i])
  BY <1>1, <1>2, <1>3, <1>4
<1>6. w # <<>> <=> n # 0
  BY <1>1, <1>2
<1>7. FoldedWord(w) # <<>> <=> n # 0
  BY <1>5
<1>8. AsciiWord(FoldedWord(w)) <=> AsciiWord(w)
  <2>1. \A i \in 1..n : FoldedWord(w)[i] \in Letters <=> w[i] \in Letters
    <3>1. \A c : FoldedLetter(c) \in Letters <=> c \in Letters
      BY LetterFacts
    <3> QED BY <1>5, <3>1
  <2> QED BY <1>1, <1>2, <1>5, <1>6, <1>7, <2>1 DEF AsciiWord
<1> QED BY <1>2, <1>5, <1>8

\* A word of letters is one of letters that ends with letters.
LEMMA AsciiCut ==
  ASSUME NEW S, NEW f \in Seq(S), NEW m \in 0..Len(f) - 1
  PROVE  AsciiWord(f) <=> /\ AsciiWord(Without(f, m))
                          /\ \A i \in Len(f) - m + 1..Len(f) : f[i] \in Letters
<1>1. PICK n, l : n = Len(f) /\ l = n - m
  OBVIOUS
<1>2. n \in Nat /\ l \in 1..n /\ m \in 0..n
  BY <1>1
<1>3. /\ Without(f, m) \in Seq(S) /\ Len(Without(f, m)) = l
      /\ \A i \in 1..l : Without(f, m)[i] = f[i]
  BY <1>1, <1>2, CutIs
<1>4. DOMAIN f = 1..n /\ DOMAIN Without(f, m) = 1..l /\ f # <<>> /\ Without(f, m) # <<>>
  BY <1>1, <1>2, <1>3
<1>5. AsciiWord(f) <=> \A i \in 1..n : f[i] \in Letters
  BY <1>4 DEF AsciiWord
<1>6. AsciiWord(Without(f, m)) <=> \A i \in 1..l : f[i] \in Letters
  BY <1>3, <1>4 DEF AsciiWord
<1>7. \A i : i \in 1..n <=> i \in 1..l \/ i \in l + 1..n
  BY <1>2
<1> QED BY <1>1, <1>5, <1>6, <1>7

\* Cutting, and adding a letter, commute with folding.
LEMMA FoldCut ==
  ASSUME NEW S, Letters \subseteq S, NEW w \in Seq(S), NEW m \in 0..Len(w)
  PROVE  FoldedWord(Without(w, m)) = Without(FoldedWord(w), m)
<1>1. PICK f : f = FoldedWord(w)
  OBVIOUS
<1>2. PICK l : l = Len(w) - m
  OBVIOUS
<1>3. /\ f \in Seq(S) /\ Len(f) = Len(w) /\ m \in 0..Len(f) /\ l \in 0..Len(w)
      /\ \A i \in 1..Len(w) : f[i] = FoldedLetter(w[i])
  BY <1>1, <1>2, FoldIs
<1>4. /\ Without(w, m) \in Seq(S) /\ Len(Without(w, m)) = l
      /\ \A i \in 1..l : Without(w, m)[i] = w[i]
  BY <1>2, CutIs
<1>5. /\ Without(f, m) \in Seq(S) /\ Len(Without(f, m)) = l
      /\ \A i \in 1..l : Without(f, m)[i] = f[i]
  BY <1>2, <1>3, CutIs
<1>6. /\ FoldedWord(Without(w, m)) \in Seq(S) /\ Len(FoldedWord(Without(w, m))) = l
      /\ \A i \in 1..l : FoldedWord(Without(w, m))[i] = FoldedLetter(Without(w, m)[i])
  BY <1>4, FoldIs
<1>7. \A i \in 1..l : FoldedWord(Without(w, m))[i] = Without(f, m)[i]
  BY <1>3, <1>4, <1>5, <1>6
<1>8. FoldedWord(Without(w, m)) = Without(f, m)
  BY <1>5, <1>6, <1>7, SameWord
<1> QED BY <1>1, <1>8

LEMMA FoldAppend ==
  ASSUME NEW S, Letters \subseteq S, NEW w \in Seq(S), NEW x \in S
  PROVE  FoldedWord(Append(w, x)) = Append(FoldedWord(w), FoldedLetter(x))
<1>1. PICK n, f, y : n = Len(w) /\ f = FoldedWord(w) /\ y = FoldedLetter(x)
  OBVIOUS
<1>2. /\ n \in Nat /\ f \in Seq(S) /\ Len(f) = n /\ y \in S
      /\ \A i \in 1..n : f[i] = FoldedLetter(w[i])
  <2>1. \A c \in S : FoldedLetter(c) \in S
    BY LetterFacts
  <2> QED BY <1>1, <2>1, FoldIs
<1>3. /\ Append(w, x) \in Seq(S) /\ Len(Append(w, x)) = n + 1 /\ Append(w, x)[n + 1] = x
      /\ \A i \in 1..n : Append(w, x)[i] = w[i]
  BY <1>1, AppendProperties
<1>4. /\ Append(f, y) \in Seq(S) /\ Len(Append(f, y)) = n + 1 /\ Append(f, y)[n + 1] = y
      /\ \A i \in 1..n : Append(f, y)[i] = f[i]
  BY <1>2, AppendProperties
<1>5. /\ FoldedWord(Append(w, x)) \in Seq(S) /\ Len(FoldedWord(Append(w, x))) = n + 1
      /\ \A i \in 1..n + 1 : FoldedWord(Append(w, x))[i] = FoldedLetter(Append(w, x)[i])
  BY <1>3, FoldIs
<1>6. \A i \in 1..n + 1 : i \in 1..n \/ i = n + 1
  BY <1>2
<1>7. \A i \in 1..n + 1 : FoldedWord(Append(w, x))[i] = Append(f, y)[i]
  BY <1>1, <1>2, <1>3, <1>4, <1>5, <1>6
<1>8. FoldedWord(Append(w, x)) = Append(f, y)
  BY <1>4, <1>5, <1>7, SameWord
<1> QED BY <1>1, <1>8

\* A stem that got back a letter for the end of the word.
Patched(s, c, x) == s = Append(c, x)

LEMMA PatchedIs ==
  ASSUME NEW S, NEW f \in Seq(S), NEW s \in Seq(S), NEW m \in 0..Len(f), NEW x \in S, Len(s) > 0
  PROVE  Patched(s, Without(f, m), x)
           <=> /\ Len(s) = Len(f) - m + 1 /\ Without(s, 1) = Without(f, m) /\ s[Len(s)] = x
<1>1. PICK c, l : c = Without(f, m) /\ l = Len(f) - m
  OBVIOUS
<1>2. l \in Nat /\ c \in Seq(S) /\ Len(c) = l
  <2>1. Without(f, m) \in Seq(S) /\ Len(Without(f, m)) = Len(f) - m
    BY CutIs
  <2> QED BY <1>1, <2>1
<1>3. Len(s) \in Nat \ {0} /\ 1 \in 0..Len(s)
  OBVIOUS
<1>4. /\ Append(c, x) \in Seq(S) /\ Len(Append(c, x)) = l + 1 /\ Append(c, x)[l + 1] = x
      /\ \A i \in 1..l : Append(c, x)[i] = c[i]
  BY <1>2, AppendProperties
<1>5. /\ Without(s, 1) \in Seq(S) /\ Len(Without(s, 1)) = Len(s) - 1
      /\ \A i \in 1..Len(s) - 1 : Without(s, 1)[i] = s[i]
  BY <1>3, CutIs
<1>6. ASSUME s = Append(c, x)
      PROVE  Len(s) = l + 1 /\ Without(s, 1) = c /\ s[Len(s)] = x
  <2>1. Len(s) = l + 1 /\ Len(s) - 1 = l /\ s[Len(s)] = x
    BY <1>2, <1>4, <1>6
  <2>2. \A i \in 1..l : Without(s, 1)[i] = c[i]
    BY <1>4, <1>5, <1>6, <2>1
  <2> QED BY <1>2, <1>5, <2>1, <2>2, SameWord
<1>7. ASSUME Len(s) = l + 1, Without(s, 1) = c, s[Len(s)] = x
      PROVE  s = Append(c, x)
  <2>1. \A i \in 1..l : s[i] = Append(c, x)[i]
    BY <1>2, <1>4, <1>5, <1>7
  <2>2. \A i \in 1..l + 1 : s[i] = Append(c, x)[i]
    <3>1. \A i \in 1..l + 1 : i \in 1..l \/ i = l + 1
      BY <1>2
    <3> QED BY <1>4, <1>7, <2>1, <3>1
  <2> QED BY <1>4, <1>7, <2>2, SameWord
<1> QED BY <1>1, <1>6, <1>7 DEF Patched

LEMMA ClosesIs ==
  ASSUME NEW S, NEW f \in Seq(S), NEW n, n = Len(f)
  PROVE  /\ \A a : Closes(f, <<a>>) <=> f[n] = a
         /\ \A a, b : Closes(f, <<a, b>>) <=> f[n - 1] = a /\ f[n] = b
         /\ \A a, b, c : Closes(f, <<a, b, c>>) <=> f[n - 2] = a /\ f[n - 1] = b /\ f[n] = c
         /\ \A a, b, c, d : Closes(f, <<a, b, c, d>>)
              <=> f[n - 3] = a /\ f[n - 2] = b /\ f[n - 1] = c /\ f[n] = d
<1>1. ASSUME NEW a
      PROVE  Closes(f, <<a>>) <=> f[n] = a
  <2>1. PICK t : t = <<a>>
    OBVIOUS
  <2>2. Len(t) = 1 /\ t[1] = a
    BY <2>1
  <2>3. Closes(f, t) <=> \A i \in {1} : f[n - 1 + i] = t[i]
    <3>1. 1..1 = {1}
      OBVIOUS
    <3> QED BY <2>2, <3>1 DEF Closes
  <2>4. n - 1 + 1 = n
    OBVIOUS
  <2> QED BY <2>1, <2>2, <2>3, <2>4
<1>2. ASSUME NEW a, NEW b
      PROVE  Closes(f, <<a, b>>) <=> f[n - 1] = a /\ f[n] = b
  <2>1. PICK t : t = <<a, b>>
    OBVIOUS
  <2>2. Len(t) = 2 /\ t[1] = a /\ t[2] = b
    BY <2>1
  <2>3. Closes(f, t) <=> \A i \in {1, 2} : f[n - 2 + i] = t[i]
    <3>1. 1..2 = {1, 2}
      OBVIOUS
    <3> QED BY <2>2, <3>1 DEF Closes
  <2>4. n - 2 + 1 = n - 1 /\ n - 2 + 2 = n
    OBVIOUS
  <2> QED BY <2>1, <2>2, <2>3, <2>4
<1>3. ASSUME NEW a, NEW b, NEW c
      PROVE  Closes(f, <<a, b, c>>) <=> f[n - 2] = a /\ f[n - 1] = b /\ f[n] = c
  <2>1. PICK t : t = <<a, b, c>>
    OBVIOUS
  <2>2. Len(t) = 3 /\ t[1] = a /\ t[2] = b /\ t[3] = c
    BY <2>1
  <2>3. Closes(f, t) <=> \A i \in {1, 2, 3} : f[n - 3 + i] = t[i]
    <3>1. 1..3 = {1, 2, 3}
      OBVIOUS
    <3> QED BY <2>2, <3>1 DEF Closes
  <2>4. n - 3 + 1 = n - 2 /\ n - 3 + 2 = n - 1 /\ n - 3 + 3 = n
    OBVIOUS
  <2> QED BY <2>1, <2>2, <2>3, <2>4
<1>4. ASSUME NEW a, NEW b, NEW c, NEW d
      PROVE  Closes(f, <<a, b, c, d>>) <=> f[n - 3] = a /\ f[n - 2] = b /\ f[n - 1] = c /\ f[n] = d
  <2>1. PICK t : t = <<a, b, c, d>>
    OBVIOUS
  <2>2. Len(t) = 4 /\ t[1] = a /\ t[2] = b /\ t[3] = c /\ t[4] = d
    BY <2>1
  <2>3. Closes(f, t) <=> \A i \in {1, 2, 3, 4} : f[n - 4 + i] = t[i]
    <3>1. 1..4 = {1, 2, 3, 4}
      OBVIOUS
    <3> QED BY <2>2, <3>1 DEF Closes
  <2>4. n - 4 + 1 = n - 3 /\ n - 4 + 2 = n - 2 /\ n - 4 + 3 = n - 1 /\ n - 4 + 4 = n
    OBVIOUS
  <2> QED BY <2>1, <2>2, <2>3, <2>4
<1> QED BY <1>1, <1>2, <1>3, <1>4

\* How a word ends, read off its folded letters.
LEMMA EndsAre ==
  ASSUME NEW S, Letters \subseteq S, NEW w \in Seq(S), NEW f, f = FoldedWord(w), NEW t \in Seq(S)
  PROVE  EndsWith(w, t) <=> Len(w) >= Len(t) /\ Closes(f, t)
<1>1. PICK n, m : n = Len(w) /\ m = Len(t)
  OBVIOUS
<1>2. /\ n \in Nat /\ m \in Nat /\ DOMAIN t = 1..m /\ Len(f) = n
      /\ \A i \in 1..n : f[i] = FoldedLetter(w[i])
  BY <1>1, FoldIs
<1>3. ASSUME n >= m
      PROVE  \A i \in 1..m : f[n - m + i] = FoldedLetter(w[n - m + i])
  <2> SUFFICES ASSUME NEW i \in 1..m PROVE f[n - m + i] = FoldedLetter(w[n - m + i])
    OBVIOUS
  <2>1. PICK k : k = n - m + i
    OBVIOUS
  <2>2. k \in 1..n
    BY <1>2, <1>3, <2>1
  <2> QED BY <1>2, <2>1, <2>2
<1> QED BY <1>1, <1>2, <1>3 DEF EndsWith, Closes

\* A stem that is cut from the word, and one that got a y back, as folded.
LEMMA StemsFolded ==
  ASSUME NEW S, Letters \subseteq S, NEW w \in Seq(S), NEW f, f = FoldedWord(w),
         NEW m \in 0..Len(w), NEW s
  PROVE  /\ /\ Len(Without(w, m)) >= 2 /\ AsciiWord(Without(w, m))
            /\ s = FoldedWord(Without(w, m))
            <=> Len(s) >= 2 /\ AsciiWord(s) /\ s = Without(f, m)
         /\ \A x \in S : /\ Len(Append(Without(w, m), x)) >= 2 /\ AsciiWord(Append(Without(w, m), x))
                         /\ s = FoldedWord(Append(Without(w, m), x))
                         <=> /\ Len(s) >= 2 /\ AsciiWord(s)
                             /\ s = Append(Without(f, m), FoldedLetter(x))
<1>1. PICK c : c = Without(w, m)
  OBVIOUS
<1>2. c \in Seq(S) /\ FoldedWord(c) = Without(f, m)
  BY <1>1, CutIs, FoldCut
<1>3. Len(FoldedWord(c)) = Len(c) /\ (AsciiWord(FoldedWord(c)) <=> AsciiWord(c))
  BY <1>2, FoldIs
<1>4. ASSUME NEW x \in S
      PROVE  /\ FoldedWord(Append(c, x)) = Append(Without(f, m), FoldedLetter(x))
             /\ Len(FoldedWord(Append(c, x))) = Len(Append(c, x))
             /\ AsciiWord(FoldedWord(Append(c, x))) <=> AsciiWord(Append(c, x))
  <2>1. Append(c, x) \in Seq(S)
    BY <1>2
  <2> QED BY <1>2, <2>1, FoldAppend, FoldIs
<1> QED BY <1>1, <1>2, <1>3, <1>4

LEMMA StemsWithY ==
  ASSUME NEW S, Letters \subseteq S, NEW w \in Seq(S), NEW f, f = FoldedWord(w), 3 \in 0..Len(w),
         NEW s
  PROVE  /\ Len(WithY(w)) >= 2 /\ AsciiWord(WithY(w)) /\ s = FoldedWord(WithY(w))
         <=> Len(s) >= 2 /\ AsciiWord(s) /\ s = Append(Without(f, 3), "y")
<1>1. PICK x \in {"y", "Y"} : WithY(w) = Append(Without(w, 3), x)
  BY DEF WithY
<1>2. x \in S /\ FoldedLetter(x) = "y"
  BY <1>1, LetterFacts
<1>3. PICK c : c = Append(Without(w, 3), x)
  OBVIOUS
<1>4. /\ Len(c) >= 2 /\ AsciiWord(c) /\ s = FoldedWord(c)
      <=> Len(s) >= 2 /\ AsciiWord(s) /\ s = Append(Without(f, 3), FoldedLetter(x))
  BY <1>2, <1>3, StemsFolded
<1> QED BY <1>1, <1>2, <1>3, <1>4

LEMMA EndingIs ==
  ASSUME NEW S, Letters \subseteq S, NEW w \in Seq(S), NEW f, f = FoldedWord(w),
         NEW n, n = Len(w)
  PROVE  /\ \A a \in S : EndsWith(w, <<a>>) <=> n >= 1 /\ f[n] = a
         /\ \A a, b \in S : EndsWith(w, <<a, b>>) <=> n >= 2 /\ f[n - 1] = a /\ f[n] = b
         /\ \A a, b, c \in S : EndsWith(w, <<a, b, c>>)
              <=> n >= 3 /\ f[n - 2] = a /\ f[n - 1] = b /\ f[n] = c
<1>1. f \in Seq(S) /\ Len(f) = n
  BY FoldIs
<1>2. ASSUME NEW a \in S PROVE EndsWith(w, <<a>>) <=> n >= 1 /\ f[n] = a
  <2>1. <<a>> \in Seq(S) /\ Len(<<a>>) = 1
    OBVIOUS
  <2>2. EndsWith(w, <<a>>) <=> Len(w) >= Len(<<a>>) /\ Closes(f, <<a>>)
    BY <2>1, EndsAre, Zenon
  <2> QED BY <1>1, <2>1, <2>2, ClosesIs
<1>3. ASSUME NEW a \in S, NEW b \in S
      PROVE  EndsWith(w, <<a, b>>) <=> n >= 2 /\ f[n - 1] = a /\ f[n] = b
  <2>1. <<a, b>> \in Seq(S) /\ Len(<<a, b>>) = 2
    OBVIOUS
  <2>2. EndsWith(w, <<a, b>>) <=> Len(w) >= Len(<<a, b>>) /\ Closes(f, <<a, b>>)
    BY <2>1, EndsAre, Zenon
  <2> QED BY <1>1, <2>1, <2>2, ClosesIs
<1>4. ASSUME NEW a \in S, NEW b \in S, NEW c \in S
      PROVE  EndsWith(w, <<a, b, c>>) <=> n >= 3 /\ f[n - 2] = a /\ f[n - 1] = b /\ f[n] = c
  <2>1. <<a, b, c>> \in Seq(S) /\ Len(<<a, b, c>>) = 3
    OBVIOUS
  <2>2. EndsWith(w, <<a, b, c>>) <=> Len(w) >= Len(<<a, b, c>>) /\ Closes(f, <<a, b, c>>)
    BY <2>1, EndsAre, Zenon
  <2> QED BY <1>1, <2>1, <2>2, ClosesIs
<1> QED BY <1>2, <1>3, <1>4

\* One more letter between a word and its ending.
LEMMA GlueTwice ==
  ASSUME NEW S, NEW f \in Seq(S), NEW s \in Seq(S), NEW u \in Seq(S), NEW t \in Seq(S),
         Len(u) = 1
  PROVE  f = (s \o u) \o t
           <=> /\ Len(f) = Len(s) + Len(t) + 1 /\ s = Without(f, Len(t) + 1)
               /\ f[Len(f) - Len(t)] = u[1] /\ Closes(f, t)
<1>1. PICK v : v = u \o t
  OBVIOUS
<1>2. PICK m, n : m = Len(t) /\ n = Len(f)
  OBVIOUS
<1>3. m \in Nat /\ n \in Nat /\ Len(s) \in Nat
  BY <1>2
<1>4. /\ v \in Seq(S) /\ Len(v) = m + 1 /\ v[1] = u[1]
      /\ \A i \in 1..m : v[i + 1] = t[i]
  <2>1. /\ v \in Seq(S) /\ Len(v) = Len(u) + Len(t)
        /\ \A i \in 1..Len(u) + Len(t) : v[i] = IF i <= Len(u) THEN u[i] ELSE t[i - Len(u)]
    BY <1>1, ConcatProperties
  <2>2. \A i \in 1..m + 1 : v[i] = IF i <= 1 THEN u[i] ELSE t[i - 1]
    BY <1>2, <1>3, <2>1
  <2>3. \A i \in 1..m : i + 1 \in 1..m + 1 /\ ~ i + 1 <= 1 /\ (i + 1) - 1 = i
    BY <1>3
  <2> QED BY <1>2, <1>3, <2>1, <2>2, <2>3
<1>5. f = s \o v <=> Len(f) = Len(s) + Len(v) /\ s = Without(f, Len(v)) /\ Closes(f, v)
  BY <1>4, Glue, Zenon
<1>6. (s \o u) \o t = s \o v
  <2>1. (s \o u) \o t = s \o (u \o t)
    BY ConcatAssociative, SMTT(30)
  <2> QED BY <1>1, <2>1, Zenon
<1>7. Closes(f, v) <=> f[n - m] = u[1] /\ Closes(f, t)
  <2>1. Closes(f, v) <=> \A i \in 1..m + 1 : f[n - (m + 1) + i] = v[i]
    BY <1>2, <1>4 DEF Closes
  <2>2. Closes(f, t) <=> \A i \in 1..m : f[n - m + i] = t[i]
    BY <1>2 DEF Closes
  <2>3. n - (m + 1) + 1 = n - m /\ \A i \in 1..m : n - (m + 1) + (i + 1) = n - m + i
    BY <1>3
  <2>4. \A i \in 1..m : i + 1 \in 1..m + 1
    BY <1>3
  <2>5. \A i \in 1..m + 1 : i = 1 \/ (i - 1 \in 1..m /\ i = (i - 1) + 1)
    BY <1>3
  <2>6. 1 \in 1..m + 1
    BY <1>3
  <2>7. ASSUME Closes(f, v) PROVE f[n - m] = u[1] /\ Closes(f, t)
    BY <1>4, <2>1, <2>2, <2>3, <2>4, <2>6, <2>7
  <2>8. ASSUME f[n - m] = u[1], Closes(f, t) PROVE Closes(f, v)
    <3> SUFFICES ASSUME NEW i \in 1..m + 1 PROVE f[n - (m + 1) + i] = v[i]
      BY <2>1
    <3>1. CASE i = 1
      BY <1>4, <2>3, <2>8, <3>1
    <3>2. CASE i # 1
      <4>1. PICK k : k = i - 1
        OBVIOUS
      <4>2. k \in 1..m /\ i = k + 1
        BY <2>5, <3>2, <4>1
      <4> QED BY <1>4, <2>2, <2>3, <2>8, <4>2
    <3> QED BY <3>1, <3>2
  <2> QED BY <2>7, <2>8
<1>8. Len(s) + Len(v) = Len(s) + m + 1
  BY <1>3, <1>4
<1>9. f = s \o v <=> /\ n = Len(s) + m + 1 /\ s = Without(f, m + 1)
                     /\ f[n - m] = u[1] /\ Closes(f, t)
  BY <1>2, <1>4, <1>5, <1>7, <1>8, Zenon
<1> QED BY <1>2, <1>6, <1>9, Zenon

\* The endings of the regular inflections.
One(a)         == <<a>>
Two(a, b)      == <<a, b>>
Three(a, b, c) == <<a, b, c>>

After(f, s, t)      == f = s \o t
Between(f, s, x, t) == f = (s \o <<x>>) \o t

LEMMA EndingsAre ==
  ASSUME NEW S, NEW f \in Seq(S), NEW s \in Seq(S)
  PROVE  /\ \A a \in S : After(f, s, One(a))
               <=> Len(f) = Len(s) + 1 /\ s = Without(f, 1) /\ f[Len(f)] = a
         /\ \A a, b \in S : After(f, s, Two(a, b))
               <=> /\ Len(f) = Len(s) + 2 /\ s = Without(f, 2)
                   /\ f[Len(f) - 1] = a /\ f[Len(f)] = b
         /\ \A a, b, c \in S : After(f, s, Three(a, b, c))
               <=> /\ Len(f) = Len(s) + 3 /\ s = Without(f, 3)
                   /\ f[Len(f) - 2] = a /\ f[Len(f) - 1] = b /\ f[Len(f)] = c
         /\ \A x, a, b \in S : Between(f, s, x, Two(a, b))
               <=> /\ Len(f) = Len(s) + 3 /\ s = Without(f, 3)
                   /\ f[Len(f) - 2] = x /\ f[Len(f) - 1] = a /\ f[Len(f)] = b
         /\ \A x, a, b, c \in S : Between(f, s, x, Three(a, b, c))
               <=> /\ Len(f) = Len(s) + 4 /\ s = Without(f, 4) /\ f[Len(f) - 3] = x
                   /\ f[Len(f) - 2] = a /\ f[Len(f) - 1] = b /\ f[Len(f)] = c
<1>1. PICK n, l : n = Len(f) /\ l = Len(s)
  OBVIOUS
<1>2. n \in Nat /\ l \in Nat
  BY <1>1
<1>3. ASSUME NEW t \in Seq(S)
      PROVE  After(f, s, t) <=> Len(f) = Len(s) + Len(t) /\ s = Without(f, Len(t)) /\ Closes(f, t)
  BY Glue, Zenon DEF After
<1>4. ASSUME NEW x \in S, NEW t \in Seq(S)
      PROVE  Between(f, s, x, t)
               <=> /\ Len(f) = Len(s) + Len(t) + 1 /\ s = Without(f, Len(t) + 1)
                   /\ f[Len(f) - Len(t)] = x /\ Closes(f, t)
  <2>1. PICK u : u = <<x>>
    OBVIOUS
  <2>2. u \in Seq(S) /\ Len(u) = 1 /\ u[1] = x
    BY <2>1
  <2>3. f = (s \o u) \o t
          <=> /\ Len(f) = Len(s) + Len(t) + 1 /\ s = Without(f, Len(t) + 1)
              /\ f[Len(f) - Len(t)] = u[1] /\ Closes(f, t)
    BY <2>2, GlueTwice, ZenonT(40)
  <2> QED BY <2>1, <2>2, <2>3, Zenon DEF Between
<1>5. ASSUME NEW a \in S
      PROVE  After(f, s, One(a)) <=> n = l + 1 /\ s = Without(f, 1) /\ f[n] = a
  <2>1. One(a) \in Seq(S) /\ Len(One(a)) = 1
    BY DEF One
  <2>2. Closes(f, One(a)) <=> f[n] = a
    BY <1>1, ClosesIs DEF One
  <2> QED BY <1>1, <1>3, <2>1, <2>2, Zenon
<1>6. ASSUME NEW a \in S, NEW b \in S
      PROVE  /\ After(f, s, Two(a, b))
                  <=> n = l + 2 /\ s = Without(f, 2) /\ f[n - 1] = a /\ f[n] = b
             /\ \A x \in S : Between(f, s, x, Two(a, b))
                  <=> n = l + 3 /\ s = Without(f, 3) /\ f[n - 2] = x /\ f[n - 1] = a /\ f[n] = b
  <2>1. Two(a, b) \in Seq(S) /\ Len(Two(a, b)) = 2
    BY DEF Two
  <2>2. Closes(f, Two(a, b)) <=> f[n - 1] = a /\ f[n] = b
    BY <1>1, ClosesIs DEF Two
  <2>3. Len(s) + 2 + 1 = l + 3 /\ 2 + 1 = 3
    BY <1>1, <1>2
  <2>4. After(f, s, Two(a, b)) <=> n = l + 2 /\ s = Without(f, 2) /\ f[n - 1] = a /\ f[n] = b
    BY <1>1, <1>3, <2>1, <2>2, Zenon
  <2>5. ASSUME NEW x \in S
        PROVE  Between(f, s, x, Two(a, b))
                 <=> n = l + 3 /\ s = Without(f, 3) /\ f[n - 2] = x /\ f[n - 1] = a /\ f[n] = b
    <3>1. Between(f, s, x, Two(a, b))
            <=> /\ Len(f) = Len(s) + Len(Two(a, b)) + 1 /\ s = Without(f, Len(Two(a, b)) + 1)
                /\ f[Len(f) - Len(Two(a, b))] = x /\ Closes(f, Two(a, b))
      BY <1>4, <2>1, Zenon
    <3> QED BY <1>1, <1>2, <2>1, <2>2, <3>1
  <2> QED BY <2>4, <2>5, Zenon
<1>7. ASSUME NEW a \in S, NEW b \in S, NEW c \in S
      PROVE  /\ After(f, s, Three(a, b, c))
                  <=> n = l + 3 /\ s = Without(f, 3) /\ f[n - 2] = a /\ f[n - 1] = b /\ f[n] = c
             /\ \A x \in S : Between(f, s, x, Three(a, b, c))
                  <=> /\ n = l + 4 /\ s = Without(f, 4) /\ f[n - 3] = x
                      /\ f[n - 2] = a /\ f[n - 1] = b /\ f[n] = c
  <2>1. Three(a, b, c) \in Seq(S) /\ Len(Three(a, b, c)) = 3
    BY DEF Three
  <2>2. Closes(f, Three(a, b, c)) <=> f[n - 2] = a /\ f[n - 1] = b /\ f[n] = c
    BY <1>1, ClosesIs DEF Three
  <2>3. Len(s) + 3 + 1 = l + 4 /\ 3 + 1 = 4
    BY <1>1, <1>2
  <2>4. After(f, s, Three(a, b, c))
          <=> n = l + 3 /\ s = Without(f, 3) /\ f[n - 2] = a /\ f[n - 1] = b /\ f[n] = c
    BY <1>1, <1>3, <2>1, <2>2, Zenon
  <2>5. ASSUME NEW x \in S
        PROVE  Between(f, s, x, Three(a, b, c))
                 <=> /\ n = l + 4 /\ s = Without(f, 4) /\ f[n - 3] = x
                     /\ f[n - 2] = a /\ f[n - 1] = b /\ f[n] = c
    <3>1. Between(f, s, x, Three(a, b, c))
            <=> /\ Len(f) = Len(s) + Len(Three(a, b, c)) + 1 /\ s = Without(f, Len(Three(a, b, c)) + 1)
                /\ f[Len(f) - Len(Three(a, b, c))] = x /\ Closes(f, Three(a, b, c))
      BY <1>4, <2>1, Zenon
    <3> QED BY <1>1, <1>2, <2>1, <2>2, <3>1
  <2> QED BY <2>4, <2>5, Zenon
<1> QED BY <1>1, <1>5, <1>6, <1>7

-----------------------------------------------------------------------------
(* Plurals and possessives.                                                *)

\* s is what PluralStems cuts from a word with the folded letters f.
PluralCut(f, s) ==
  LET n == Len(f)
  IN  /\ f[n] = "s"
      /\ \/ f[n - 1] \in Signs /\ s = Without(f, 2)
         \/ /\ f[n - 1] \notin Signs /\ f[n - 1] # "s" /\ AsciiWord(f)
            /\ \/ s = Without(f, 1)
               \/ f[n - 1] = "e" /\ n > 3 /\ s = Without(f, 2)
               \/ f[n - 2] = "i" /\ f[n - 1] = "e" /\ n > 4 /\ s = Append(Without(f, 3), "y")
Stem(stems, s) == \E t \in stems : Len(t) >= 2 /\ AsciiWord(t) /\ s = FoldedWord(t)

LEMMA PluralStemsAre ==
  ASSUME NEW S, Alphabet \subseteq S, NEW w \in Seq(S), Len(w) >= 3, NEW f, f = FoldedWord(w),
         NEW s
  PROVE  Stem(PluralStems(w), s) <=> Len(s) >= 2 /\ AsciiWord(s) /\ PluralCut(f, s)
<1>1. PICK n : n = Len(w)
  OBVIOUS
<1>2. /\ n \in Nat /\ n >= 3 /\ f \in Seq(S) /\ Len(f) = n /\ Letters \subseteq S
      /\ AsciiWord(f) <=> AsciiWord(w)
  <2>1. Letters \subseteq S
    BY DEF Alphabet
  <2> QED BY <1>1, <2>1, FoldIs
<1>3. /\ EndsWith(w, <<"'", "s">>) <=> f[n - 1] = "'" /\ f[n] = "s"
      /\ EndsWith(w, <<"curly apostrophe", "s">>) <=> f[n - 1] = "curly apostrophe" /\ f[n] = "s"
      /\ EndsWith(w, <<"s">>) <=> f[n] = "s"
      /\ EndsWith(w, <<"s", "s">>) <=> f[n - 1] = "s" /\ f[n] = "s"
      /\ EndsWith(w, <<"e", "s">>) <=> f[n - 1] = "e" /\ f[n] = "s"
      /\ EndsWith(w, <<"i", "e", "s">>) <=> f[n - 2] = "i" /\ f[n - 1] = "e" /\ f[n] = "s"
  <2>1. /\ "s" \in S /\ "e" \in S /\ "i" \in S
        /\ "'" \in S /\ "curly apostrophe" \in S
    <3>1. "s" \in S /\ "e" \in S /\ "i" \in S
      BY LetterFacts
    <3>2. "'" \in Signs /\ "curly apostrophe" \in Signs
      BY Zenon DEF Signs
    <3> QED BY <3>1, <3>2, LetterFacts, Zenon
  <2>2. /\ \A a \in S : EndsWith(w, <<a>>) <=> f[n] = a
        /\ \A a, b \in S : EndsWith(w, <<a, b>>) <=> f[n - 1] = a /\ f[n] = b
        /\ \A a, b, c \in S : EndsWith(w, <<a, b, c>>)
             <=> f[n - 2] = a /\ f[n - 1] = b /\ f[n] = c
    BY <1>1, <1>2, EndingIs
  <2> QED BY <2>1, <2>2
<1>4. 1 \in 0..Len(w) /\ 2 \in 0..Len(w) /\ 3 \in 0..Len(w)
  BY <1>1, <1>2
<1> DEFINE Good(t) == Len(t) >= 2 /\ AsciiWord(t) /\ s = FoldedWord(t)
           whole   == Len(s) >= 2 /\ AsciiWord(s)
<1>5. /\ Good(Without(w, 1)) <=> whole /\ s = Without(f, 1)
      /\ Good(Without(w, 2)) <=> whole /\ s = Without(f, 2)
      /\ Good(WithY(w)) <=> whole /\ s = Append(Without(f, 3), "y")
  BY <1>2, <1>4, StemsFolded, StemsWithY
<1> HIDE DEF Good, whole
<1>6. Stem(PluralStems(w), s) <=> \E t \in PluralStems(w) : Good(t)
  BY DEF Stem, Good
<1>7. CASE f[n] = "s" /\ f[n - 1] \in Signs
  <2>1. PluralStems(w) = {Without(w, 2)}
    BY <1>3, <1>7 DEF PluralStems, Signs
  <2>2. PluralCut(f, s) <=> s = Without(f, 2)
    BY <1>2, <1>7 DEF PluralCut
  <2> QED BY <1>5, <1>6, <2>1, <2>2 DEF whole
<1>8. CASE ~ (f[n] = "s" /\ f[n - 1] \in Signs) /\ (~ AsciiWord(f) \/ f[n] # "s" \/ f[n - 1] = "s")
  <2>1. PluralStems(w) = {}
    BY <1>2, <1>3, <1>8 DEF PluralStems, Signs
  <2>2. ~ PluralCut(f, s)
    BY <1>2, <1>8 DEF PluralCut
  <2> QED BY <1>6, <2>1, <2>2
<1>9. CASE /\ f[n] = "s" /\ f[n - 1] \notin Signs /\ AsciiWord(f) /\ f[n - 1] # "s"
  <2>1. PluralStems(w) = {Without(w, 1)}
          \cup (IF f[n - 1] = "e" /\ n > 3 THEN {Without(w, 2)} ELSE {})
          \cup (IF f[n - 2] = "i" /\ f[n - 1] = "e" /\ n > 4 THEN {WithY(w)} ELSE {})
    BY <1>1, <1>2, <1>3, <1>9 DEF PluralStems, Signs
  <2>2. PluralCut(f, s) <=> \/ s = Without(f, 1)
                            \/ f[n - 1] = "e" /\ n > 3 /\ s = Without(f, 2)
                            \/ /\ f[n - 2] = "i" /\ f[n - 1] = "e" /\ n > 4
                               /\ s = Append(Without(f, 3), "y")
    BY <1>2, <1>9 DEF PluralCut
  <2>3. (\E t \in PluralStems(w) : Good(t))
          <=> \/ Good(Without(w, 1))
              \/ f[n - 1] = "e" /\ n > 3 /\ Good(Without(w, 2))
              \/ f[n - 2] = "i" /\ f[n - 1] = "e" /\ n > 4 /\ Good(WithY(w))
    BY <2>1
  <2> QED BY <1>5, <1>6, <2>2, <2>3 DEF whole
<1> QED BY <1>7, <1>8, <1>9

LEMMA PluralIs ==
  ASSUME NEW S, Alphabet \subseteq S, NEW f \in Seq(S), NEW s \in Seq(S), Len(s) >= 2,
         AsciiWord(s)
  PROVE  Inflects("plural", s, f) <=> Len(f) >= 3 /\ PluralCut(f, s)
<1>1. PICK n, l, last, stem :
        n = Len(f) /\ l = Len(s) /\ last = s[Len(s)] /\ stem = Without(s, 1)
  OBVIOUS
<1>2. /\ n \in Nat /\ l \in Nat /\ l >= 2 /\ s # <<>> /\ 1 \in 0..l /\ last \in S
      /\ last \in Letters /\ stem \in Seq(S) /\ Len(stem) = l - 1
  <2>1. n \in Nat /\ l \in Nat /\ l >= 2 /\ s # <<>> /\ 1 \in 0..l /\ l \in DOMAIN s /\ last \in S
    BY <1>1
  <2> QED BY <1>1, <2>1, CutIs DEF AsciiWord
<1>3. /\ "s" \in S /\ "e" \in S /\ "i" \in S /\ "y" \in S
      /\ \A a \in Signs : a \in S
  BY LetterFacts
<1>4. Inflects("plural", s, f)
        <=> \/ After(f, s, Two("e", "s"))
            \/ last # "s" /\ After(f, s, One("s"))
            \/ \E a \in Signs : After(f, s, Two(a, "s"))
            \/ l > 2 /\ last = "y" /\ Between(f, stem, "i", Two("e", "s"))
  BY <1>1 DEF Inflects, Signs, One, Two, After, Between
<1>5. /\ After(f, s, Two("e", "s")) <=> n = l + 2 /\ s = Without(f, 2) /\ f[n - 1] = "e" /\ f[n] = "s"
      /\ After(f, s, One("s")) <=> n = l + 1 /\ s = Without(f, 1) /\ f[n] = "s"
      /\ \A a \in Signs : After(f, s, Two(a, "s"))
           <=> n = l + 2 /\ s = Without(f, 2) /\ f[n - 1] = a /\ f[n] = "s"
  <2>1. /\ \A a \in S : After(f, s, One(a))
              <=> Len(f) = Len(s) + 1 /\ s = Without(f, 1) /\ f[Len(f)] = a
        /\ \A a, b \in S : After(f, s, Two(a, b))
              <=> /\ Len(f) = Len(s) + 2 /\ s = Without(f, 2)
                  /\ f[Len(f) - 1] = a /\ f[Len(f)] = b
    BY EndingsAre, Zenon
  <2> QED BY <1>1, <1>3, <2>1
<1>6. Between(f, stem, "i", Two("e", "s"))
        <=> /\ n = l + 2 /\ stem = Without(f, 3)
            /\ f[n - 2] = "i" /\ f[n - 1] = "e" /\ f[n] = "s"
  <2>1. Between(f, stem, "i", Two("e", "s"))
          <=> /\ n = Len(stem) + 3 /\ stem = Without(f, 3)
              /\ f[n - 2] = "i" /\ f[n - 1] = "e" /\ f[n] = "s"
    <3>1. \A x, a, b \in S : Between(f, stem, x, Two(a, b))
            <=> /\ Len(f) = Len(stem) + 3 /\ stem = Without(f, 3)
                /\ f[Len(f) - 2] = x /\ f[Len(f) - 1] = a /\ f[Len(f)] = b
      BY <1>2, EndingsAre, Zenon
    <3> QED BY <1>1, <1>3, <3>1
  <2>2. n = Len(stem) + 3 <=> n = l + 2
    BY <1>2
  <2> QED BY <2>1, <2>2, Zenon
<1> DEFINE E1 == n = l + 2 /\ s = Without(f, 2) /\ f[n - 1] = "e" /\ f[n] = "s"
           E2 == last # "s" /\ n = l + 1 /\ s = Without(f, 1) /\ f[n] = "s"
           E3 == n = l + 2 /\ s = Without(f, 2) /\ f[n - 1] \in Signs /\ f[n] = "s"
           E4 == /\ l > 2 /\ last = "y" /\ n = l + 2 /\ stem = Without(f, 3)
                 /\ f[n - 2] = "i" /\ f[n - 1] = "e" /\ f[n] = "s"
<1>7. Inflects("plural", s, f) <=> E1 \/ E2 \/ E3 \/ E4
  BY <1>4, <1>5, <1>6, Zenon
<1>8. ASSUME 3 \in 0..n PROVE s = Append(Without(f, 3), "y") <=> n = l + 2 /\ stem = Without(f, 3) /\ last = "y"
  <2>1. Patched(s, Without(f, 3), "y")
           <=> /\ Len(s) = Len(f) - 3 + 1 /\ Without(s, 1) = Without(f, 3) /\ s[Len(s)] = "y"
    <3>1. 3 \in 0..Len(f)
      BY <1>1, <1>8
    <3> QED BY <1>2, <1>3, <3>1, PatchedIs
  <2> QED BY <1>1, <1>2, <2>1 DEF Patched
<1>9. ASSUME NEW m \in 1..3, m < n
      PROVE  AsciiWord(f) <=> AsciiWord(Without(f, m)) /\ \A i \in n - m + 1..n : f[i] \in Letters
  BY <1>1, <1>2, <1>9, AsciiCut
<1>10. ASSUME NEW m \in 0..n PROVE Len(Without(f, m)) = n - m /\ \A i \in 1..n - m : Without(f, m)[i] = f[i]
  BY <1>1, <1>10, CutIs
<1>11. Signs \cap Letters = {} /\ "s" \notin Signs /\ "e" \notin Signs /\ {"s", "e", "i", "y"} \subseteq Letters
  BY LetterFacts
<1>12. ASSUME E1 PROVE n >= 3 /\ PluralCut(f, s)
  <2>1. n >= 4 /\ f[n - 1] \in Letters /\ f[n] \in Letters
    BY <1>2, <1>11, <1>12
  <2>2. AsciiWord(f)
    <3>1. \A i \in n - 2 + 1..n : i = n - 1 \/ i = n
      BY <1>2
    <3>2. AsciiWord(f) <=> AsciiWord(Without(f, 2)) /\ \A i \in n - 2 + 1..n : f[i] \in Letters
      BY <1>2, <1>9, <2>1
    <3> QED BY <1>12, <2>1, <3>1, <3>2
  <2> QED BY <1>1, <1>11, <1>12, <2>1, <2>2 DEF PluralCut
<1>13. ASSUME E2 PROVE n >= 3 /\ PluralCut(f, s)
  <2>1. n >= 3 /\ n - 1 = l /\ f[n] \in Letters
    BY <1>2, <1>11, <1>13
  <2>2. AsciiWord(f)
    <3>1. \A i \in n - 1 + 1..n : i = n
      BY <1>2
    <3> QED BY <1>9, <1>13, <2>1, <3>1
  <2>3. f[n - 1] = last
    <3>1. l \in 1..n - 1 /\ 1 \in 0..n
      BY <1>2, <2>1
    <3> QED BY <1>1, <1>10, <1>13, <2>1, <3>1
  <2> QED BY <1>1, <1>2, <1>11, <1>13, <2>1, <2>2, <2>3 DEF PluralCut
<1>14. ASSUME E3 PROVE n >= 3 /\ PluralCut(f, s)
  BY <1>1, <1>2, <1>14 DEF PluralCut
<1>15. ASSUME E4 PROVE n >= 3 /\ PluralCut(f, s)
  <2>1. n >= 5 /\ f[n - 2] \in Letters /\ f[n - 1] \in Letters /\ f[n] \in Letters
    BY <1>2, <1>11, <1>15
  <2>2. AsciiWord(stem)
    <3>1. 1 \in 0..Len(s) - 1
      BY <1>1, <1>2
    <3> QED BY <1>1, <3>1, AsciiCut
  <2>3. AsciiWord(f)
    <3>1. \A i \in n - 3 + 1..n : i = n - 2 \/ i = n - 1 \/ i = n
      BY <1>2
    <3> QED BY <1>9, <1>15, <2>1, <2>2, <3>1
  <2>4. s = Append(Without(f, 3), "y")
    BY <1>8, <1>15, <2>1
  <2> QED BY <1>1, <1>11, <1>15, <2>1, <2>3, <2>4 DEF PluralCut
<1>16. ASSUME n >= 3, PluralCut(f, s) PROVE E1 \/ E2 \/ E3 \/ E4
  <2>1. f[n] = "s"
    BY <1>1, <1>16 DEF PluralCut
  <2>2. CASE f[n - 1] \in Signs /\ s = Without(f, 2)
    <3>1. n = l + 2
      BY <1>1, <1>2, <1>10, <1>16, <2>2
    <3> QED BY <2>1, <2>2, <3>1
  <2>3. CASE s = Without(f, 1) /\ f[n - 1] # "s"
    <3>1. n = l + 1 /\ last = f[n - 1]
        <4>1. 1 \in 0..n
        BY <1>2, <1>16
      <4>2. Len(s) = n - 1 /\ \A i \in 1..n - 1 : s[i] = f[i]
        BY <1>10, <2>3, <4>1
      <4>3. n = l + 1 /\ n - 1 = l /\ l \in 1..n - 1
        BY <1>1, <1>2, <4>2
      <4> QED BY <1>1, <4>2, <4>3
    <3> QED BY <2>1, <2>3, <3>1
  <2>4. CASE f[n - 1] = "e" /\ s = Without(f, 2)
    <3>1. n = l + 2
      BY <1>1, <1>2, <1>10, <1>16, <2>4
    <3> QED BY <2>1, <2>4, <3>1
  <2>5. CASE f[n - 2] = "i" /\ f[n - 1] = "e" /\ n > 4 /\ s = Append(Without(f, 3), "y")
    <3>1. n = l + 2 /\ stem = Without(f, 3) /\ last = "y"
      BY <1>2, <1>8, <1>16, <2>5
    <3>2. l > 2
      BY <1>2, <2>5, <3>1
    <3> QED BY <2>1, <2>5, <3>1, <3>2
  <2> QED BY <1>1, <1>16, <2>2, <2>3, <2>4, <2>5 DEF PluralCut
<1> HIDE DEF E1, E2, E3, E4
<1> QED BY <1>1, <1>7, <1>12, <1>13, <1>14, <1>15, <1>16

-----------------------------------------------------------------------------
(* The past and the progressive.                                           *)

\* Letter k from the end of f doubles the one before it, or is the k of "ck".
Twin(f, k) ==
  \/ f[Len(f) - k - 1] = f[Len(f) - k]
  \/ f[Len(f) - k - 1] = "c" /\ f[Len(f) - k] = "k"

LEMMA DoubledIs ==
  ASSUME NEW S, Letters \subseteq S, NEW w \in Seq(S), NEW f, f = FoldedWord(w),
         NEW k \in Nat, k + 1 < Len(w)
  PROVE  Doubled(w, k) <=> Twin(f, k)
<1>1. PICK n : n = Len(w)
  OBVIOUS
<1>2. Len(f) = n /\ \A i \in 1..n : f[i] = FoldedLetter(w[i])
  BY <1>1, FoldIs
<1>3. n - k \in 1..n /\ n - k - 1 \in 1..n
  BY <1>1
<1> QED BY <1>1, <1>2, <1>3 DEF Doubled, Twin

\* s is what PastStems cuts from a word with the folded letters f.
PastCut(f, s) ==
  LET n == Len(f)
  IN  /\ n >= 4 /\ AsciiWord(f) /\ f[n - 1] = "e" /\ f[n] = "d"
      /\ \/ s = Without(f, 1)
         \/ f[n - 2] # "e" /\ s = Without(f, 2)
         \/ f[n - 2] = "i" /\ n > 4 /\ Patched(s, Without(f, 3), "y")
         \/ n > 5 /\ Twin(f, 2) /\ s = Without(f, 3)

LEMMA PastStemsAre ==
  ASSUME NEW S, Alphabet \subseteq S, NEW w \in Seq(S), Len(w) >= 3, NEW f, f = FoldedWord(w),
         NEW s
  PROVE  Stem(PastStems(w), s) <=> Len(s) >= 2 /\ AsciiWord(s) /\ PastCut(f, s)
<1>1. PICK n : n = Len(w)
  OBVIOUS
<1>2. /\ n \in Nat /\ n >= 3 /\ f \in Seq(S) /\ Len(f) = n /\ Letters \subseteq S
      /\ AsciiWord(f) <=> AsciiWord(w)
  <2>1. Letters \subseteq S
    BY LetterFacts
  <2> QED BY <1>1, <2>1, FoldIs
<1>3. /\ EndsWith(w, <<"e", "d">>) <=> f[n - 1] = "e" /\ f[n] = "d"
      /\ EndsWith(w, <<"e", "e", "d">>) <=> f[n - 2] = "e" /\ f[n - 1] = "e" /\ f[n] = "d"
      /\ EndsWith(w, <<"i", "e", "d">>) <=> f[n - 2] = "i" /\ f[n - 1] = "e" /\ f[n] = "d"
  <2>1. "d" \in S /\ "e" \in S /\ "i" \in S
    BY <1>2, LetterFacts
  <2>2. /\ \A a, b \in S : EndsWith(w, <<a, b>>) <=> f[n - 1] = a /\ f[n] = b
        /\ \A a, b, c \in S : EndsWith(w, <<a, b, c>>)
             <=> f[n - 2] = a /\ f[n - 1] = b /\ f[n] = c
    BY <1>1, <1>2, EndingIs
  <2> QED BY <2>1, <2>2
<1>4. 1 \in 0..Len(w) /\ 2 \in 0..Len(w) /\ 3 \in 0..Len(w)
  BY <1>1, <1>2
<1>5. n > 5 => (Doubled(w, 2) <=> Twin(f, 2))
  BY <1>1, <1>2, DoubledIs
<1> DEFINE Good(t) == Len(t) >= 2 /\ AsciiWord(t) /\ s = FoldedWord(t)
           whole   == Len(s) >= 2 /\ AsciiWord(s)
<1>6. /\ Good(Without(w, 1)) <=> whole /\ s = Without(f, 1)
      /\ Good(Without(w, 2)) <=> whole /\ s = Without(f, 2)
      /\ Good(Without(w, 3)) <=> whole /\ s = Without(f, 3)
      /\ Good(WithY(w)) <=> whole /\ Patched(s, Without(f, 3), "y")
  <2>1. /\ Good(Without(w, 1)) <=> whole /\ s = Without(f, 1)
        /\ Good(Without(w, 2)) <=> whole /\ s = Without(f, 2)
        /\ Good(Without(w, 3)) <=> whole /\ s = Without(f, 3)
    BY <1>2, <1>4, StemsFolded
  <2>2. Good(WithY(w)) <=> whole /\ Patched(s, Without(f, 3), "y")
    BY <1>2, <1>4, StemsWithY DEF Patched
  <2> QED BY <2>1, <2>2
<1> HIDE DEF Good, whole
<1>7. Stem(PastStems(w), s) <=> \E t \in PastStems(w) : Good(t)
  BY DEF Stem, Good
<1>8. CASE ~ (n >= 4 /\ AsciiWord(f) /\ f[n - 1] = "e" /\ f[n] = "d")
  <2>1. PastStems(w) = {}
    BY <1>1, <1>2, <1>3, <1>8 DEF PastStems
  <2>2. ~ PastCut(f, s)
    BY <1>2, <1>8 DEF PastCut
  <2> QED BY <1>7, <2>1, <2>2
<1>9. CASE n >= 4 /\ AsciiWord(f) /\ f[n - 1] = "e" /\ f[n] = "d"
  <2>1. PastStems(w) = {Without(w, 1)}
          \cup (IF f[n - 2] = "e" THEN {} ELSE {Without(w, 2)})
          \cup (IF f[n - 2] = "i" /\ n > 4 THEN {WithY(w)} ELSE {})
          \cup (IF n > 5 /\ Twin(f, 2) THEN {Without(w, 3)} ELSE {})
    BY <1>1, <1>2, <1>3, <1>5, <1>9 DEF PastStems
  <2>2. PastCut(f, s) <=> \/ s = Without(f, 1)
                          \/ f[n - 2] # "e" /\ s = Without(f, 2)
                          \/ f[n - 2] = "i" /\ n > 4 /\ Patched(s, Without(f, 3), "y")
                          \/ n > 5 /\ Twin(f, 2) /\ s = Without(f, 3)
    BY <1>2, <1>9 DEF PastCut
  <2>3. (\E t \in PastStems(w) : Good(t))
          <=> \/ Good(Without(w, 1))
              \/ f[n - 2] # "e" /\ Good(Without(w, 2))
              \/ f[n - 2] = "i" /\ n > 4 /\ Good(WithY(w))
              \/ n > 5 /\ Twin(f, 2) /\ Good(Without(w, 3))
    BY <2>1
  <2> QED BY <1>6, <1>7, <2>2, <2>3 DEF whole
<1> QED BY <1>8, <1>9

LEMMA PastIs ==
  ASSUME NEW S, Alphabet \subseteq S, NEW f \in Seq(S), NEW s \in Seq(S), Len(s) >= 2,
         AsciiWord(s)
  PROVE  Inflects("past", s, f) <=> PastCut(f, s)
<1>1. PICK n, l, last, stem :
        n = Len(f) /\ l = Len(s) /\ last = s[Len(s)] /\ stem = Without(s, 1)
  OBVIOUS
<1>2. /\ n \in Nat /\ l \in Nat /\ l >= 2 /\ s # <<>> /\ 1 \in 0..l /\ last \in S
      /\ last \in Letters /\ stem \in Seq(S) /\ Len(stem) = l - 1
  <2>1. n \in Nat /\ l \in Nat /\ l >= 2 /\ s # <<>> /\ 1 \in 0..l /\ l \in DOMAIN s /\ last \in S
    BY <1>1
  <2> QED BY <1>1, <2>1, CutIs DEF AsciiWord
<1>3. "d" \in S /\ "e" \in S /\ "i" \in S /\ "k" \in S /\ "y" \in S
  BY LetterFacts
<1>4. Inflects("past", s, f)
        <=> \/ last # "e" /\ After(f, s, Two("e", "d"))
            \/ l > 2 /\ last = "e" /\ After(f, s, One("d"))
            \/ l > 2 /\ last = "y" /\ Between(f, stem, "i", Two("e", "d"))
            \/ l > 2 /\ Between(f, s, last, Two("e", "d"))
            \/ l > 2 /\ last = "c" /\ Between(f, s, "k", Two("e", "d"))
  BY <1>1 DEF Inflects, One, Two, After, Between
<1>5. /\ After(f, s, Two("e", "d"))
           <=> n = l + 2 /\ s = Without(f, 2) /\ f[n - 1] = "e" /\ f[n] = "d"
      /\ After(f, s, One("d")) <=> n = l + 1 /\ s = Without(f, 1) /\ f[n] = "d"
      /\ \A x \in S : Between(f, s, x, Two("e", "d"))
           <=> n = l + 3 /\ s = Without(f, 3) /\ f[n - 2] = x /\ f[n - 1] = "e" /\ f[n] = "d"
  <2>1. /\ \A a \in S : After(f, s, One(a))
              <=> Len(f) = Len(s) + 1 /\ s = Without(f, 1) /\ f[Len(f)] = a
        /\ \A a, b \in S : After(f, s, Two(a, b))
              <=> /\ Len(f) = Len(s) + 2 /\ s = Without(f, 2)
                  /\ f[Len(f) - 1] = a /\ f[Len(f)] = b
        /\ \A x, a, b \in S : Between(f, s, x, Two(a, b))
              <=> /\ Len(f) = Len(s) + 3 /\ s = Without(f, 3)
                  /\ f[Len(f) - 2] = x /\ f[Len(f) - 1] = a /\ f[Len(f)] = b
    BY EndingsAre, Zenon
  <2> QED BY <1>1, <1>3, <2>1
<1>6. Between(f, stem, "i", Two("e", "d"))
        <=> /\ n = l + 2 /\ stem = Without(f, 3)
            /\ f[n - 2] = "i" /\ f[n - 1] = "e" /\ f[n] = "d"
  <2>1. \A x, a, b \in S : Between(f, stem, x, Two(a, b))
          <=> /\ Len(f) = Len(stem) + 3 /\ stem = Without(f, 3)
              /\ f[Len(f) - 2] = x /\ f[Len(f) - 1] = a /\ f[Len(f)] = b
    BY <1>2, EndingsAre, Zenon
  <2> QED BY <1>1, <1>2, <1>3, <2>1
<1> DEFINE Ed == f[n - 1] = "e" /\ f[n] = "d"
           E1 == last # "e" /\ n = l + 2 /\ s = Without(f, 2) /\ Ed
           E2 == l > 2 /\ last = "e" /\ n = l + 1 /\ s = Without(f, 1) /\ f[n] = "d"
           E3 == l > 2 /\ last = "y" /\ n = l + 2 /\ stem = Without(f, 3) /\ f[n - 2] = "i" /\ Ed
           E4 == /\ l > 2 /\ n = l + 3 /\ s = Without(f, 3) /\ Ed
                 /\ f[n - 2] = last \/ (last = "c" /\ f[n - 2] = "k")
<1>7. Inflects("past", s, f) <=> E1 \/ E2 \/ E3 \/ E4
  BY <1>2, <1>3, <1>4, <1>5, <1>6
<1>8. ASSUME 3 \in 0..n
      PROVE  Patched(s, Without(f, 3), "y") <=> n = l + 2 /\ stem = Without(f, 3) /\ last = "y"
  <2>1. Patched(s, Without(f, 3), "y")
           <=> /\ Len(s) = Len(f) - 3 + 1 /\ Without(s, 1) = Without(f, 3) /\ s[Len(s)] = "y"
    <3>1. 3 \in 0..Len(f)
      BY <1>1, <1>8
    <3> QED BY <1>2, <1>3, <3>1, PatchedIs
  <2> QED BY <1>1, <1>2, <2>1
<1>9. ASSUME NEW m \in 1..3, m < n
      PROVE  AsciiWord(f) <=> AsciiWord(Without(f, m)) /\ \A i \in n - m + 1..n : f[i] \in Letters
  BY <1>1, <1>2, <1>9, AsciiCut
<1>10. ASSUME NEW m \in 1..3, n = l + m, s = Without(f, m)
       PROVE  f[n - m] = last
  <2>1. m \in 0..Len(f) /\ Len(f) - m = l /\ l \in 1..l
    BY <1>1, <1>2, <1>10
  <2>2. \A i \in 1..Len(f) - m : s[i] = f[i]
    BY <1>10, <2>1, CutIs
  <2> QED BY <1>1, <2>1, <2>2
<1>11. {"c", "d", "e", "i", "k", "y"} \subseteq Letters
  BY LetterFacts
<1>12. ASSUME E1 PROVE PastCut(f, s)
  <2>1. n >= 4 /\ f[n - 1] \in Letters /\ f[n] \in Letters
    BY <1>2, <1>11, <1>12
  <2>2. AsciiWord(f)
    <3>1. \A i \in n - 2 + 1..n : i = n - 1 \/ i = n
      BY <1>2
    <3>2. AsciiWord(f) <=> AsciiWord(Without(f, 2)) /\ \A i \in n - 2 + 1..n : f[i] \in Letters
      BY <1>2, <1>9, <2>1
    <3> QED BY <1>12, <2>1, <3>1, <3>2
  <2> QED BY <1>1, <1>10, <1>12, <2>1, <2>2 DEF PastCut
<1>13. ASSUME E2 PROVE PastCut(f, s)
  <2>1. n >= 4 /\ f[n] \in Letters /\ f[n - 1] = "e"
    BY <1>2, <1>10, <1>11, <1>13
  <2>2. AsciiWord(f)
    <3>1. \A i \in n - 1 + 1..n : i = n
      BY <1>2
    <3> QED BY <1>9, <1>13, <2>1, <3>1
  <2> QED BY <1>1, <1>13, <2>1, <2>2 DEF PastCut
<1>14. ASSUME E3 PROVE PastCut(f, s)
  <2>1. n > 4 /\ f[n - 2] \in Letters /\ f[n - 1] \in Letters /\ f[n] \in Letters
    BY <1>2, <1>11, <1>14
  <2>2. AsciiWord(stem)
    <3>1. 1 \in 0..Len(s) - 1
      BY <1>1, <1>2
    <3> QED BY <1>1, <3>1, AsciiCut
  <2>3. AsciiWord(f)
    <3>1. \A i \in n - 3 + 1..n : i = n - 2 \/ i = n - 1 \/ i = n
      BY <1>2
    <3> QED BY <1>9, <1>14, <2>1, <2>2, <3>1
  <2>4. Patched(s, Without(f, 3), "y")
    BY <1>8, <1>14, <2>1
  <2> QED BY <1>1, <1>14, <2>1, <2>3, <2>4 DEF PastCut
<1>15. ASSUME E4 PROVE PastCut(f, s)
  <2>1. /\ n > 5 /\ f[n - 2] \in Letters /\ f[n - 1] \in Letters /\ f[n] \in Letters
        /\ f[n - 3] = last
    BY <1>2, <1>10, <1>11, <1>15
  <2>2. AsciiWord(f)
    <3>1. \A i \in n - 3 + 1..n : i = n - 2 \/ i = n - 1 \/ i = n
      BY <1>2
    <3> QED BY <1>9, <1>15, <2>1, <3>1
  <2>3. Twin(f, 2)
    <3>1. n - 2 - 1 = n - 3
      BY <1>2
    <3> QED BY <1>1, <1>15, <2>1, <3>1 DEF Twin
  <2> QED BY <1>1, <1>15, <2>1, <2>2, <2>3 DEF PastCut
<1>16. ASSUME PastCut(f, s) PROVE E1 \/ E2 \/ E3 \/ E4
  <2>1. n >= 4 /\ Ed
    BY <1>1, <1>16 DEF PastCut
  <2>2. ASSUME NEW m \in 1..3, s = Without(f, m)
        PROVE  n = l + m /\ f[n - m] = last
    <3>1. n = l + m
      <4>1. m \in 0..Len(f)
        BY <1>1, <1>2, <2>1
      <4>2. Len(Without(f, m)) = Len(f) - m
        BY <4>1, CutIs
      <4> QED BY <1>1, <1>2, <2>2, <4>2
    <3> QED BY <1>10, <2>2, <3>1
  <2>3. CASE s = Without(f, 1)
    BY <1>2, <2>1, <2>2, <2>3
  <2>4. CASE f[n - 2] # "e" /\ s = Without(f, 2)
    BY <1>2, <2>1, <2>2, <2>4
  <2>5. CASE f[n - 2] = "i" /\ n > 4 /\ Patched(s, Without(f, 3), "y")
    <3>1. n = l + 2 /\ stem = Without(f, 3) /\ last = "y" /\ l > 2
      BY <1>2, <1>8, <2>5
    <3> QED BY <2>1, <2>5, <3>1
  <2>6. CASE n > 5 /\ Twin(f, 2) /\ s = Without(f, 3)
    <3>1. n = l + 3 /\ l > 2 /\ f[n - 3] = last /\ n - 2 - 1 = n - 3
      BY <1>2, <2>2, <2>6
    <3>2. f[n - 2] = last \/ (last = "c" /\ f[n - 2] = "k")
      BY <1>1, <2>6, <3>1 DEF Twin
    <3> QED BY <2>1, <2>6, <3>1, <3>2
  <2> QED BY <1>1, <1>16, <2>3, <2>4, <2>5, <2>6 DEF PastCut
<1> HIDE DEF E1, E2, E3, E4
<1> QED BY <1>7, <1>12, <1>13, <1>14, <1>15, <1>16

\* s is what ProgressiveStems cuts from a word with the folded letters f.
ProgressiveCut(f, s) ==
  LET n == Len(f)
  IN  /\ n >= 5 /\ AsciiWord(f) /\ f[n - 2] = "i" /\ f[n - 1] = "n" /\ f[n] = "g"
      /\ \/ s = Without(f, 3)
         \/ Patched(s, Without(f, 3), "e")
         \/ n > 6 /\ Twin(f, 3) /\ s = Without(f, 4)

LEMMA ProgressiveStemsAre ==
  ASSUME NEW S, Alphabet \subseteq S, NEW w \in Seq(S), Len(w) >= 3, NEW f, f = FoldedWord(w),
         NEW s
  PROVE  Stem(ProgressiveStems(w), s) <=> Len(s) >= 2 /\ AsciiWord(s) /\ ProgressiveCut(f, s)
<1>1. PICK n : n = Len(w)
  OBVIOUS
<1>2. /\ n \in Nat /\ n >= 3 /\ f \in Seq(S) /\ Len(f) = n /\ Letters \subseteq S
      /\ AsciiWord(f) <=> AsciiWord(w)
  <2>1. Letters \subseteq S
    BY LetterFacts
  <2> QED BY <1>1, <2>1, FoldIs
<1>3. EndsWith(w, <<"i", "n", "g">>) <=> f[n - 2] = "i" /\ f[n - 1] = "n" /\ f[n] = "g"
  <2>1. "i" \in S /\ "n" \in S /\ "g" \in S
    BY <1>2, LetterFacts
  <2>2. /\ \A a, b \in S : EndsWith(w, <<a, b>>) <=> f[n - 1] = a /\ f[n] = b
        /\ \A a, b, c \in S : EndsWith(w, <<a, b, c>>)
             <=> f[n - 2] = a /\ f[n - 1] = b /\ f[n] = c
    BY <1>1, <1>2, EndingIs
  <2> QED BY <2>1, <2>2
<1>4. 3 \in 0..Len(w) /\ (n > 6 => 4 \in 0..Len(w))
  BY <1>1, <1>2
<1>5. n > 6 => (Doubled(w, 3) <=> Twin(f, 3))
  BY <1>1, <1>2, DoubledIs
<1> DEFINE Good(t) == Len(t) >= 2 /\ AsciiWord(t) /\ s = FoldedWord(t)
           whole   == Len(s) >= 2 /\ AsciiWord(s)
<1>6. /\ Good(Without(w, 3)) <=> whole /\ s = Without(f, 3)
      /\ Good(Append(Without(w, 3), "e")) <=> whole /\ Patched(s, Without(f, 3), "e")
      /\ n > 6 => (Good(Without(w, 4)) <=> whole /\ s = Without(f, 4))
  <2>1. Good(Without(w, 3)) <=> whole /\ s = Without(f, 3)
    BY <1>2, <1>4, StemsFolded
  <2>2. n > 6 => (Good(Without(w, 4)) <=> whole /\ s = Without(f, 4))
    BY <1>2, <1>4, StemsFolded
  <2>3. Good(Append(Without(w, 3), "e")) <=> whole /\ Patched(s, Without(f, 3), "e")
    <3>1. "e" \in S /\ FoldedLetter("e") = "e"
      BY <1>2, LetterFacts
    <3> QED BY <1>2, <1>4, <3>1, StemsFolded DEF Patched
  <2> QED BY <2>1, <2>2, <2>3
<1> HIDE DEF Good, whole
<1>7. Stem(ProgressiveStems(w), s) <=> \E t \in ProgressiveStems(w) : Good(t)
  BY DEF Stem, Good
<1>8. CASE ~ (n >= 5 /\ AsciiWord(f) /\ f[n - 2] = "i" /\ f[n - 1] = "n" /\ f[n] = "g")
  <2>1. ProgressiveStems(w) = {}
    BY <1>1, <1>2, <1>3, <1>8 DEF ProgressiveStems
  <2>2. ~ ProgressiveCut(f, s)
    BY <1>2, <1>8 DEF ProgressiveCut
  <2> QED BY <1>7, <2>1, <2>2
<1>9. CASE n >= 5 /\ AsciiWord(f) /\ f[n - 2] = "i" /\ f[n - 1] = "n" /\ f[n] = "g"
  <2>1. ProgressiveStems(w) = {Without(w, 3), Append(Without(w, 3), "e")}
          \cup (IF n > 6 /\ Twin(f, 3) THEN {Without(w, 4)} ELSE {})
    BY <1>1, <1>2, <1>3, <1>5, <1>9 DEF ProgressiveStems
  <2>2. ProgressiveCut(f, s) <=> \/ s = Without(f, 3)
                                 \/ Patched(s, Without(f, 3), "e")
                                 \/ n > 6 /\ Twin(f, 3) /\ s = Without(f, 4)
    BY <1>2, <1>9 DEF ProgressiveCut
  <2>3. (\E t \in ProgressiveStems(w) : Good(t))
          <=> \/ Good(Without(w, 3))
              \/ Good(Append(Without(w, 3), "e"))
              \/ n > 6 /\ Twin(f, 3) /\ Good(Without(w, 4))
    BY <2>1
  <2> QED BY <1>6, <1>7, <2>2, <2>3 DEF whole
<1> QED BY <1>8, <1>9

LEMMA ProgressiveIs ==
  ASSUME NEW S, Alphabet \subseteq S, NEW f \in Seq(S), NEW s \in Seq(S), Len(s) >= 2,
         AsciiWord(s)
  PROVE  Inflects("progressive", s, f) <=> ProgressiveCut(f, s)
<1>1. PICK n, l, last, stem :
        n = Len(f) /\ l = Len(s) /\ last = s[Len(s)] /\ stem = Without(s, 1)
  OBVIOUS
<1>2. /\ n \in Nat /\ l \in Nat /\ l >= 2 /\ s # <<>> /\ 1 \in 0..l /\ last \in S
      /\ last \in Letters /\ stem \in Seq(S) /\ Len(stem) = l - 1
  <2>1. n \in Nat /\ l \in Nat /\ l >= 2 /\ s # <<>> /\ 1 \in 0..l /\ l \in DOMAIN s /\ last \in S
    BY <1>1
  <2> QED BY <1>1, <2>1, CutIs DEF AsciiWord
<1>3. "i" \in S /\ "n" \in S /\ "g" \in S /\ "e" \in S /\ "k" \in S
  BY LetterFacts
<1>4. Inflects("progressive", s, f)
        <=> \/ After(f, s, Three("i", "n", "g"))
            \/ l > 2 /\ last = "e" /\ After(f, stem, Three("i", "n", "g"))
            \/ l > 2 /\ Between(f, s, last, Three("i", "n", "g"))
            \/ l > 2 /\ last = "c" /\ Between(f, s, "k", Three("i", "n", "g"))
  BY <1>1 DEF Inflects, One, Three, After, Between
<1> DEFINE Ing == f[n - 2] = "i" /\ f[n - 1] = "n" /\ f[n] = "g"
<1>5. /\ After(f, s, Three("i", "n", "g")) <=> n = l + 3 /\ s = Without(f, 3) /\ Ing
      /\ \A x \in S : Between(f, s, x, Three("i", "n", "g"))
           <=> n = l + 4 /\ s = Without(f, 4) /\ f[n - 3] = x /\ Ing
  <2>1. /\ \A a, b, c \in S : After(f, s, Three(a, b, c))
              <=> /\ Len(f) = Len(s) + 3 /\ s = Without(f, 3)
                  /\ f[Len(f) - 2] = a /\ f[Len(f) - 1] = b /\ f[Len(f)] = c
        /\ \A x, a, b, c \in S : Between(f, s, x, Three(a, b, c))
              <=> /\ Len(f) = Len(s) + 4 /\ s = Without(f, 4) /\ f[Len(f) - 3] = x
                  /\ f[Len(f) - 2] = a /\ f[Len(f) - 1] = b /\ f[Len(f)] = c
    BY EndingsAre, Zenon
  <2> QED BY <1>1, <1>3, <2>1
<1>6. After(f, stem, Three("i", "n", "g")) <=> n = l + 2 /\ stem = Without(f, 3) /\ Ing
  <2>1. \A a, b, c \in S : After(f, stem, Three(a, b, c))
          <=> /\ Len(f) = Len(stem) + 3 /\ stem = Without(f, 3)
              /\ f[Len(f) - 2] = a /\ f[Len(f) - 1] = b /\ f[Len(f)] = c
    BY <1>2, EndingsAre, Zenon
  <2> QED BY <1>1, <1>2, <1>3, <2>1
<1> DEFINE E1 == n = l + 3 /\ s = Without(f, 3) /\ Ing
           E2 == l > 2 /\ last = "e" /\ n = l + 2 /\ stem = Without(f, 3) /\ Ing
           E3 == /\ l > 2 /\ n = l + 4 /\ s = Without(f, 4) /\ Ing
                 /\ f[n - 3] = last \/ (last = "c" /\ f[n - 3] = "k")
<1>7. Inflects("progressive", s, f) <=> E1 \/ E2 \/ E3
  BY <1>2, <1>3, <1>4, <1>5, <1>6
<1>8. ASSUME 3 \in 0..n
      PROVE  Patched(s, Without(f, 3), "e") <=> n = l + 2 /\ stem = Without(f, 3) /\ last = "e"
  <2>1. Patched(s, Without(f, 3), "e")
           <=> /\ Len(s) = Len(f) - 3 + 1 /\ Without(s, 1) = Without(f, 3) /\ s[Len(s)] = "e"
    <3>1. 3 \in 0..Len(f)
      BY <1>1, <1>8
    <3> QED BY <1>2, <1>3, <3>1, PatchedIs
  <2> QED BY <1>1, <1>2, <2>1
<1>9. ASSUME NEW m \in 3..4, m < n, AsciiWord(Without(f, m)),
             f[n - 2] \in Letters, f[n - 1] \in Letters, f[n] \in Letters,
             m = 4 => f[n - 3] \in Letters
      PROVE  AsciiWord(f)
  <2>1. m \in 0..Len(f) - 1
    BY <1>1, <1>2, <1>9
  <2>2. AsciiWord(f) <=> /\ AsciiWord(Without(f, m))
                         /\ \A i \in Len(f) - m + 1..Len(f) : f[i] \in Letters
    BY <2>1, AsciiCut
  <2>3. \A i \in n - m + 1..n : i = n - 2 \/ i = n - 1 \/ i = n \/ (m = 4 /\ i = n - 3)
    BY <1>2
  <2> QED BY <1>1, <1>9, <2>2, <2>3
<1>10. ASSUME NEW m \in 3..4, n = l + m, s = Without(f, m)
       PROVE  f[n - m] = last
  <2>1. m \in 0..Len(f) /\ Len(f) - m = l /\ l \in 1..l
    BY <1>1, <1>2, <1>10
  <2>2. \A i \in 1..Len(f) - m : s[i] = f[i]
    BY <1>10, <2>1, CutIs
  <2> QED BY <1>1, <2>1, <2>2
<1>11. {"c", "e", "g", "i", "k", "n"} \subseteq Letters
  BY LetterFacts
<1>12. ASSUME E1 PROVE ProgressiveCut(f, s)
  <2>1. n >= 5 /\ f[n - 2] \in Letters /\ f[n - 1] \in Letters /\ f[n] \in Letters
    BY <1>2, <1>11, <1>12
  <2>2. AsciiWord(f)
    BY <1>2, <1>9, <1>12, <2>1
  <2> QED BY <1>1, <1>12, <2>1, <2>2 DEF ProgressiveCut
<1>13. ASSUME E2 PROVE ProgressiveCut(f, s)
  <2>1. n >= 5 /\ f[n - 2] \in Letters /\ f[n - 1] \in Letters /\ f[n] \in Letters
    BY <1>2, <1>11, <1>13
  <2>2. AsciiWord(stem)
    <3>1. 1 \in 0..Len(s) - 1
      BY <1>1, <1>2
    <3> QED BY <1>1, <3>1, AsciiCut
  <2>3. AsciiWord(f)
    BY <1>2, <1>9, <1>13, <2>1, <2>2
  <2>4. Patched(s, Without(f, 3), "e")
    BY <1>8, <1>13, <2>1
  <2> QED BY <1>1, <1>13, <2>1, <2>3, <2>4 DEF ProgressiveCut
<1>14. ASSUME E3 PROVE ProgressiveCut(f, s)
  <2>1. /\ n > 6 /\ f[n - 3] \in Letters /\ f[n - 2] \in Letters /\ f[n - 1] \in Letters
        /\ f[n] \in Letters /\ f[n - 4] = last
    BY <1>2, <1>10, <1>11, <1>14
  <2>2. AsciiWord(f)
    BY <1>2, <1>9, <1>14, <2>1
  <2>3. Twin(f, 3)
    <3>1. n - 3 - 1 = n - 4
      BY <1>2
    <3> QED BY <1>1, <1>14, <2>1, <3>1 DEF Twin
  <2> QED BY <1>1, <1>14, <2>1, <2>2, <2>3 DEF ProgressiveCut
<1>15. ASSUME ProgressiveCut(f, s) PROVE E1 \/ E2 \/ E3
  <2>1. n >= 5 /\ Ing
    BY <1>1, <1>15 DEF ProgressiveCut
  <2>2. ASSUME NEW m \in 3..4, s = Without(f, m)
        PROVE  n = l + m /\ f[n - m] = last
    <3>1. n = l + m
      <4>1. m \in 0..Len(f)
        BY <1>1, <1>2, <2>1
      <4>2. Len(Without(f, m)) = Len(f) - m
        BY <4>1, CutIs
      <4> QED BY <1>1, <1>2, <2>2, <4>2
    <3> QED BY <1>10, <2>2, <3>1
  <2>3. CASE s = Without(f, 3)
    BY <1>2, <2>1, <2>2, <2>3
  <2>4. CASE Patched(s, Without(f, 3), "e")
    <3>1. n = l + 2 /\ stem = Without(f, 3) /\ last = "e" /\ l > 2
      BY <1>2, <1>8, <2>1, <2>4
    <3> QED BY <2>1, <2>4, <3>1
  <2>5. CASE n > 6 /\ Twin(f, 3) /\ s = Without(f, 4)
    <3>1. n = l + 4 /\ l > 2 /\ f[n - 4] = last /\ n - 3 - 1 = n - 4
      BY <1>2, <2>2, <2>5
    <3>2. f[n - 3] = last \/ (last = "c" /\ f[n - 3] = "k")
      BY <1>1, <2>5, <3>1 DEF Twin
    <3> QED BY <2>1, <2>5, <3>1, <3>2
  <2> QED BY <1>1, <1>15, <2>3, <2>4, <2>5 DEF ProgressiveCut
<1> HIDE DEF E1, E2, E3
<1> QED BY <1>7, <1>12, <1>13, <1>14, <1>15

-----------------------------------------------------------------------------
(* The candidates are the inflections.                                     *)

Cut(kind, f, s) ==
  \/ kind = "plural" /\ Len(f) >= 3 /\ PluralCut(f, s)
  \/ kind = "past" /\ PastCut(f, s)
  \/ kind = "progressive" /\ ProgressiveCut(f, s)

LEMMA CandidatesCut ==
  ASSUME NEW S, Alphabet \subseteq S, NEW w \in Seq(S), NEW f, f = FoldedWord(w),
         NEW kind \in Kinds, NEW s
  PROVE  (\E c \in Candidates(w) : c.kind = kind /\ s = FoldedWord(c.stem))
           <=> Len(s) >= 2 /\ AsciiWord(s) /\ Cut(kind, f, s)
<1> DEFINE stems == [plural |-> PluralStems(w), past |-> PastStems(w),
                     progressive |-> ProgressiveStems(w)]
           whole == Len(s) >= 2 /\ AsciiWord(s)
<1>1. Len(f) = Len(w) /\ Len(w) \in Nat
  BY FoldIs, LetterFacts
<1>2. CASE Len(w) < 3
  <2>1. Candidates(w) = {}
    BY <1>2 DEF Candidates
  <2>2. ~ Cut(kind, f, s)
    BY <1>1, <1>2 DEF Cut, PastCut, ProgressiveCut
  <2> QED BY <2>1, <2>2
<1>3. CASE Len(w) >= 3
  <2>1. (\E c \in Candidates(w) : c.kind = kind /\ s = FoldedWord(c.stem)) <=> Stem(stems[kind], s)
    <3>1. Candidates(w) = {c \in UNION {{[kind |-> k, stem |-> t] : t \in stems[k]} : k \in Kinds} :
                             Len(c.stem) >= 2 /\ AsciiWord(c.stem)}
      BY <1>1, <1>3 DEF Candidates
    <3> HIDE DEF stems
    <3>2. ASSUME NEW c \in Candidates(w), c.kind = kind, s = FoldedWord(c.stem)
          PROVE  Stem(stems[kind], s)
      <4>1. PICK k \in Kinds : \E t \in stems[k] : c = [kind |-> k, stem |-> t]
        BY <3>1
      <4> PICK t \in stems[k] : c = [kind |-> k, stem |-> t]
        BY <4>1
      <4>2. k = kind /\ t = c.stem /\ Len(c.stem) >= 2 /\ AsciiWord(c.stem)
        BY <3>1, <3>2, <4>1
      <4> QED BY <3>2, <4>1, <4>2 DEF Stem
    <3>3. ASSUME NEW t \in stems[kind], Len(t) >= 2, AsciiWord(t), s = FoldedWord(t)
          PROVE  \E c \in Candidates(w) : c.kind = kind /\ s = FoldedWord(c.stem)
      <4>1. [kind |-> kind, stem |-> t] \in Candidates(w)
        BY <3>1, <3>3
      <4> QED BY <3>3, <4>1
    <3> QED BY <3>2, <3>3 DEF Stem
  <2>2. CASE kind = "plural"
    <3>1. Stem(PluralStems(w), s) <=> whole /\ PluralCut(f, s)
      BY <1>3, PluralStemsAre
    <3>2. stems[kind] = PluralStems(w)
      BY <2>2
    <3>3. Cut(kind, f, s) <=> PluralCut(f, s)
      BY <1>1, <1>3, <2>2 DEF Cut
    <3> QED BY <2>1, <3>1, <3>2, <3>3
  <2>3. CASE kind = "past"
    <3>1. Stem(PastStems(w), s) <=> whole /\ PastCut(f, s)
      BY <1>3, PastStemsAre
    <3>2. stems[kind] = PastStems(w)
      BY <2>3
    <3>3. Cut(kind, f, s) <=> PastCut(f, s)
      BY <2>3 DEF Cut
    <3> QED BY <2>1, <3>1, <3>2, <3>3
  <2>4. CASE kind = "progressive"
    <3>1. Stem(ProgressiveStems(w), s) <=> whole /\ ProgressiveCut(f, s)
      BY <1>3, ProgressiveStemsAre
    <3>2. stems[kind] = ProgressiveStems(w)
      BY <2>4
    <3>3. Cut(kind, f, s) <=> ProgressiveCut(f, s)
      BY <2>4 DEF Cut
    <3> QED BY <2>1, <3>1, <3>2, <3>3
  <2> QED BY <2>2, <2>3, <2>4 DEF Kinds
<1> QED BY <1>1, <1>2, <1>3

LEMMA CutsInflect ==
  ASSUME NEW S, Alphabet \subseteq S, NEW f \in Seq(S), NEW kind \in Kinds, NEW s \in Seq(S),
         Len(s) >= 2, AsciiWord(s)
  PROVE  Inflects(kind, s, f) <=> Cut(kind, f, s)
<1>1. CASE kind = "plural"
  <2>1. Inflects("plural", s, f) <=> Len(f) >= 3 /\ PluralCut(f, s)
    BY PluralIs
  <2> QED BY <1>1, <2>1 DEF Cut
<1>2. CASE kind = "past"
  <2>1. Inflects("past", s, f) <=> PastCut(f, s)
    BY PastIs
  <2> QED BY <1>2, <2>1 DEF Cut
<1>3. CASE kind = "progressive"
  <2>1. Inflects("progressive", s, f) <=> ProgressiveCut(f, s)
    BY ProgressiveIs
  <2> QED BY <1>3, <2>1 DEF Cut
<1> QED BY <1>1, <1>2, <1>3 DEF Kinds

\* The words among which stems are looked for: what begins f, and that with a
\* letter more.
Beginnings(f) == {SubSeq(f, 1, n) : n \in 1..Len(f)}
                 \cup {Append(SubSeq(f, 1, n), c) : n \in 1..Len(f), c \in {"e", "y"}}

LEMMA CutsAreBeginnings ==
  ASSUME NEW S, NEW f \in Seq(S), NEW kind, NEW s, Cut(kind, f, s)
  PROVE  s \in Beginnings(f)
<1>1. PICK n : n = Len(f)
  OBVIOUS
<1> DEFINE short   == \E m \in 1..4 : m < n /\ s = Without(f, m)
           patched == 3 < n /\ \E c \in {"e", "y"} : s = Append(Without(f, 3), c)
<1>2. short \/ patched
  <2>1. ASSUME n >= 3, PluralCut(f, s) PROVE short \/ patched
    BY <1>1, <2>1 DEF PluralCut
  <2>2. ASSUME PastCut(f, s) PROVE short \/ patched
    BY <1>1, <2>2 DEF PastCut, Patched
  <2>3. ASSUME ProgressiveCut(f, s) PROVE short \/ patched
    BY <1>1, <2>3 DEF ProgressiveCut, Patched
  <2> QED BY <1>1, <2>1, <2>2, <2>3 DEF Cut
<1>3. ASSUME NEW m \in 1..4, m < n
      PROVE  \E k \in 1..Len(f) : Without(f, m) = SubSeq(f, 1, k)
  <2>1. n - m \in 1..Len(f)
    BY <1>1, <1>3
  <2> QED BY <1>1, <2>1 DEF Without
<1>4. CASE short
  BY <1>3, <1>4 DEF Beginnings
<1>5. CASE patched
  <2>1. PICK c \in {"e", "y"} : s = Append(Without(f, 3), c)
    BY <1>5
  <2>2. PICK k \in 1..Len(f) : Without(f, 3) = SubSeq(f, 1, k)
    BY <1>3, <1>5
  <2>3. s = Append(SubSeq(f, 1, k), c)
    BY <2>1, <2>2
  <2> QED BY <2>3 DEF Beginnings
<1> QED BY <1>2, <1>4, <1>5

LEMMA BeginningsAre ==
  ASSUME NEW S, Alphabet \subseteq S, NEW f \in Seq(S)
  PROVE  Beginnings(f) \subseteq Seq(S)
<1>1. "e" \in S /\ "y" \in S
  BY LetterFacts
<1>2. \A n \in 1..Len(f) : SubSeq(f, 1, n) \in Seq(S)
  BY SubSeqProperties
<1>3. \A n \in 1..Len(f) : \A c \in {"e", "y"} : Append(SubSeq(f, 1, n), c) \in Seq(S)
  BY <1>1, <1>2, AppendProperties
<1>4. ASSUME NEW s \in Beginnings(f) PROVE s \in Seq(S)
  <2>1. CASE \E n \in 1..Len(f) : s = SubSeq(f, 1, n)
    BY <1>2, <2>1
  <2>2. CASE \E n \in 1..Len(f) : \E c \in {"e", "y"} : s = Append(SubSeq(f, 1, n), c)
    BY <1>3, <2>2
  <2> QED BY <1>4, <2>1, <2>2 DEF Beginnings
<1> QED BY <1>4

\* Whatever the spelling, the stems that are cut and patched from its end are
\* those among its beginnings of which it is a regular inflection, in lower
\* case (morphology.cpp:599-702).
THEOREM CandidatesExact ==
  ASSUME NEW S, Alphabet \subseteq S, NEW w \in Seq(S), NEW f, f = FoldedWord(w)
  PROVE  {[kind |-> c.kind, stem |-> FoldedWord(c.stem)] : c \in Candidates(w)}
           = {c \in [kind : Kinds, stem : {s \in Beginnings(f) : AsciiWord(s) /\ Len(s) >= 2}] :
                Inflects(c.kind, c.stem, f)}
<1> DEFINE found == {[kind |-> c.kind, stem |-> FoldedWord(c.stem)] : c \in Candidates(w)}
           asked == {c \in [kind : Kinds, stem : {s \in Beginnings(f) : AsciiWord(s) /\ Len(s) >= 2}] :
                       Inflects(c.kind, c.stem, f)}
<1>1. f \in Seq(S)
  BY FoldIs, LetterFacts
<1>2. \A c \in Candidates(w) : c.kind \in Kinds
  BY DEF Candidates
<1>3. ASSUME NEW c \in Candidates(w)
      PROVE  [kind |-> c.kind, stem |-> FoldedWord(c.stem)] \in asked
  <2>1. PICK k, s : k = c.kind /\ s = FoldedWord(c.stem)
    OBVIOUS
  <2>2. k \in Kinds /\ Len(s) >= 2 /\ AsciiWord(s) /\ Cut(k, f, s)
    BY <1>2, <1>3, <2>1, CandidatesCut
  <2>3. s \in Beginnings(f)
    BY <1>1, <2>2, CutsAreBeginnings
  <2>4. Inflects(k, s, f)
    BY <1>1, <2>2, <2>3, BeginningsAre, CutsInflect
  <2> QED BY <2>1, <2>2, <2>3, <2>4
<1>4. ASSUME NEW c \in asked
      PROVE  c \in found
  <2>1. PICK k, s : k = c.kind /\ s = c.stem
    OBVIOUS
  <2>2. /\ c = [kind |-> k, stem |-> s] /\ k \in Kinds /\ s \in Beginnings(f)
        /\ AsciiWord(s) /\ Len(s) >= 2 /\ Inflects(k, s, f)
    BY <2>1
  <2>3. Cut(k, f, s)
    BY <1>1, <2>2, BeginningsAre, CutsInflect
  <2>4. \E d \in Candidates(w) : d.kind = k /\ s = FoldedWord(d.stem)
    BY <2>2, <2>3, CandidatesCut
  <2> QED BY <2>2, <2>4
<1> QED BY <1>3, <1>4

=============================================================================
