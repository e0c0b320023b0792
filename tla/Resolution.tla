----------------------------- MODULE Resolution -----------------------------
(***************************************************************************)
(* Resolution of words (src/src/frontend/resolution.cpp): every word of    *)
(* the expanded text gets a role and a pronunciation from the first layer  *)
(* that has one - request override, user dictionary, base lexicon,         *)
(* morphology, letter-to-sound model - and then, from right to left, the   *)
(* weak-form rules may replace a pronunciation of the base lexicon.        *)
(*                                                                         *)
(* The resources, how they must fit together and what their tables match   *)
(* are FrontendResources'; the letter-to-sound model is what LtsModel      *)
(* answers; the words come from the lexical pipeline and the override      *)
(* front end.  A status is the code of the failure, "OK" or, while there   *)
(* is none, "none".                                                        *)
(***************************************************************************)
EXTENDS FrontendResources

CONSTANTS
  Bundles,        (* the resources of each installed package, by its name  *)
  Requests,       (* <<package, text>>: a text is [words, phrases, roles],
                     a word [norm, kind, phone], with <<>> for no override *)
  StableRoles     (* the role names that stable_role accepts               *)

VARIABLES
  bundle, text,   \* the arguments of run_resolved_frontend
  pc,
  cursor,         \* the word that is being resolved, in either direction
  words,          \* result->words
  diagnostics, weakDiagnostics,
  status

input == <<bundle, text>>
vars  == <<input, pc, cursor, words, diagnostics, weakDiagnostics, status>>

resources == Bundles[bundle]
base == resources.base
user == resources.user

ASSUME BundlesLoaded == \A name \in DOMAIN Bundles : Loaded(Bundles[name])

\* The phrases of a text are disjoint and, if there are any, hold every word.
Phrased(t) ==
  /\ \A p \in DOMAIN t.phrases : /\ t.phrases[p].first \in Int
                                 /\ t.phrases[p].last \in 0..Len(t.words)
  /\ \A p, q \in DOMAIN t.phrases : \A i \in DOMAIN t.words :
       /\ i \in t.phrases[p].first..t.phrases[p].last
       /\ i \in t.phrases[q].first..t.phrases[q].last
       => p = q
  /\ t.phrases # <<>> => \A i \in DOMAIN t.words : \E p \in DOMAIN t.phrases :
                            i \in t.phrases[p].first..t.phrases[p].last
ASSUME RequestsAssumption ==
  \A request \in Requests :
    /\ request[1] \in DOMAIN Bundles
    /\ Len(request[2].words) \in Nat
    /\ DOMAIN request[2].words = 1..Len(request[2].words)
    /\ DOMAIN request[2].phrases \subseteq Nat
    /\ Phrased(request[2])
    /\ \A i \in DOMAIN request[2].words :
         LET phone == request[2].words[i].phone
             norm  == request[2].words[i].norm
         IN  /\ phone = <<>> \/ ValidPronunciation(phone)
             /\ norm \in Seq({norm[k] : k \in DOMAIN norm})

Init ==
  /\ \E request \in Requests : bundle = request[1] /\ text = request[2]
  /\ pc = "validate" /\ cursor = 0
  /\ words = <<>> /\ diagnostics = <<>> /\ weakDiagnostics = <<>>
  /\ status = "none"

\* Nothing of the result is kept.
Reject(code) ==
  /\ pc' = "rejected" /\ status' = code
  /\ words' = <<>> /\ diagnostics' = <<>> /\ weakDiagnostics' = <<>>
  /\ UNCHANGED <<input, cursor>>

Validate ==
  /\ pc = "validate"
  /\ IF BindingStatus(resources) # "OK" THEN Reject(BindingStatus(resources))
     ELSE IF text.roles # <<>> /\ Len(text.roles) # Len(text.words)
     THEN Reject("FRONTEND_ROLE_COUNT_MISMATCH")
     ELSE /\ pc' = "words" /\ cursor' = 1
          /\ UNCHANGED <<input, words, diagnostics, weakDiagnostics, status>>

\* run_override_lexical_frontend refuses the text.
LexicalFails ==
  /\ pc = "validate" /\ BindingStatus(resources) = "OK"
  /\ Reject("LEXICAL")

-----------------------------------------------------------------------------
(* The role of a word.                                                     *)

Norm(i) == text.words[i].norm
Spellings == [i \in DOMAIN text.words |-> Norm(i)]

\* clause_bounds: the phrase of a word, or the whole text.
Clause(i) ==
  LET inside == {p \in DOMAIN text.phrases :
                   i \in text.phrases[p].first..text.phrases[p].last}
  IN  IF inside = {} THEN [first |-> 1, last |-> Len(text.words)]
      ELSE text.phrases[CHOOSE p \in inside : \A q \in inside : q <= p]

Explicit(i) == text.roles # <<>> /\ text.roles[i] # ""
Spelled(i)  == text.words[i].phone # <<>>
Asked(i)    == ~ Explicit(i) /\ ~ Spelled(i) /\ resources.heteronyms.present
Contexts(i) == IF Asked(i)
               THEN HeteronymMatches(resources.heteronyms.rules, Spellings, i, Clause(i))
               ELSE {}
RoleOf(matches) == (CHOOSE r \in matches : TRUE).role
Role(i) ==
  IF Explicit(i) THEN text.roles[i]
  ELSE IF Cardinality(Contexts(i)) = 1 THEN RoleOf(Contexts(i))
  ELSE "default"
RoleSource(i) == IF Explicit(i) THEN "explicit"
                 ELSE IF Cardinality(Contexts(i)) = 1 THEN "contextual" ELSE "default"

\* A diagnostic is <<code, word>>; those of the lexical pipeline are left out.
RoleDiagnostics(i) ==
  IF ~ Asked(i) \/ ~ IsHeteronym(resources.heteronyms.rules, Norm(i)) THEN <<>>
  ELSE CASE Cardinality(Contexts(i)) = 0 -> << <<"HETERONYM_DEFAULTED", i>> >>
         [] Cardinality(Contexts(i)) = 1 -> <<>>
         [] OTHER -> << <<"HETERONYM_RULE_AMBIGUOUS", i>>, <<"HETERONYM_DEFAULTED", i>> >>

-----------------------------------------------------------------------------
(* The layers, each an action: its guard is that no layer before it had a  *)
(* pronunciation.                                                          *)

Resolving == pc = "words" /\ cursor <= Len(text.words)

BadRole == Resolving /\ Role(cursor) \notin StableRoles /\ Reject("INVALID_FRONTEND_WORD_ROLE")

\* The word is resolved; more are the diagnostics of its layer.
Resolved(source, syllables, more) ==
  /\ words' = Append(words, [role |-> Role(cursor), roleSource |-> RoleSource(cursor),
                             source |-> source, syllables |-> syllables])
  /\ diagnostics' = diagnostics \o RoleDiagnostics(cursor) \o more
  /\ cursor' = cursor + 1
  /\ UNCHANGED <<input, pc, weakDiagnostics, status>>

Unmet(role, entry) == role # "default" /\ role \notin entry.roles
IfUnmet(role, entry) ==
  IF Unmet(role, entry) THEN << <<"HETERONYM_DEFAULTED", cursor>> >> ELSE <<>>

ByOverride ==
  /\ Resolving /\ Role(cursor) \in StableRoles
  /\ Spelled(cursor)
  /\ Resolved("override", text.words[cursor].phone, <<>>)

\* The user dictionary before the base lexicon; at most one entry.
FromUser(word, role) == Find(user.entries, word, role)
FromBase(word, role) == Find(base.entries, word, role)
Entry(word, role) == IF FromUser(word, role) # {} THEN FromUser(word, role)
                     ELSE FromBase(word, role)

LexiconSource(i) ==
  IF FromUser(Norm(i), Role(i)) # {} THEN "user"
  ELSE IF text.words[i].kind = "SPELLING" THEN "spelling"
  ELSE IF resources.admission = "product" THEN "product" ELSE "base"

ByLexicon ==
  /\ Resolving /\ Role(cursor) \in StableRoles
  /\ ~ Spelled(cursor)
  /\ \E e \in Entry(Norm(cursor), Role(cursor)) :
       Resolved(LexiconSource(cursor), e.syllables, IfUnmet(Role(cursor), e))

\* (faulty: the user dictionary is not asked.)
KnownToBase(word) == ContainsGrapheme(base.entries, word)

KnownGrapheme(word) == \/ user.present /\ ContainsGrapheme(user.entries, word)
                       \/ ContainsGrapheme(base.entries, word)
Unlisted == /\ Resolving /\ Role(cursor) \in StableRoles /\ ~ Spelled(cursor)
            /\ Entry(Norm(cursor), Role(cursor)) = {}

RefuseKnown ==
  Unlisted /\ KnownGrapheme(Norm(cursor)) /\ Reject("AMBIGUOUS_PRONUNCIATION_ROLE")
RefuseSpelling ==
  /\ Unlisted /\ ~ KnownGrapheme(Norm(cursor))
  /\ text.words[cursor].kind = "SPELLING"
  /\ Reject("UNKNOWN_PRONUNCIATION")

Guessing == Unlisted /\ ~ KnownGrapheme(Norm(cursor)) /\ text.words[cursor].kind # "SPELLING"

\* stem_resolutions: the candidate stems that a lexicon has.
Stems(i) ==
  IF ~ resources.morphology.present THEN {}
  ELSE {c \in Candidates(Norm(i)) : Entry(c.stem, Role(i)) # {}}

ByMorphology ==
  /\ Guessing /\ Cardinality(Stems(cursor)) = 1
  /\ \E c \in Stems(cursor) : \E e \in Entry(c.stem, Role(cursor)) :
       LET applied == Apply(resources.morphology.rules, c.kind, e.syllables)
       IN  IF applied.status # "OK" THEN Reject(applied.status)
           ELSE Resolved("morphology", applied.syllables, IfUnmet(Role(cursor), e))

\* pronounce, external here: LtsModel says which words it answers.
Pronounce(key) ==
  IF key \in DOMAIN resources.lts.answer THEN resources.lts.answer[key]
  ELSE [status |-> "INVALID_TEXT", syllables |-> <<>>]

ByLts ==
  /\ Guessing /\ Cardinality(Stems(cursor)) # 1
  /\ LET key    == LtsKey(Norm(cursor))
         answer == Pronounce(key)
     IN  IF key = <<>> \/ answer.status = "INVALID_TEXT" THEN Reject("UNKNOWN_PRONUNCIATION")
         ELSE IF answer.status # "OK" THEN Reject(answer.status)
         ELSE Resolved("lts", answer.syllables,
                       IF Stems(cursor) = {} THEN <<>>
                       ELSE << <<"MORPHOLOGY_AMBIGUOUS", cursor>> >>)

WordsEnd ==
  /\ pc = "words" /\ cursor > Len(text.words)
  /\ pc' = IF resources.weak.present THEN "weak" ELSE "serialize"
  /\ cursor' = Len(text.words)
  /\ UNCHANGED <<input, words, diagnostics, weakDiagnostics, status>>

-----------------------------------------------------------------------------
(* The weak forms, from right to left: words[cursor + 1] is final.         *)

Weakening == pc = "weak" /\ cursor > 0
Eligible(w) == /\ w.source \in {"base", "product"}
               /\ w.roleSource = "default" /\ w.role = "default"

\* (faulty: looks at the strong form, as a pass from left to right would.)
NextSegmentStrong(i) ==
  IF i >= Clause(i).last THEN NoSegment
  ELSE LET strong == Entry(Norm(i + 1), Role(i + 1))
           next   == IF strong = {} THEN words[i + 1].syllables
                     ELSE (CHOOSE e \in strong : TRUE).syllables
       IN  next[1].segments[1]

\* The segment spoken after word i, within its phrase.
NextSegment(i) ==
  IF i < Clause(i).last THEN words[i + 1].syllables[1].segments[1] ELSE NoSegment

\* A word after i in its phrase has no segment to look at.
ContextBroken(i) ==
  /\ i < Clause(i).last
  /\ words[i + 1].syllables = <<>> \/ words[i + 1].syllables[1].segments = <<>>

WeakMatches(i) ==
  WeakFormMatches(resources.weak.rules, resources.weak.vowels, Norm(i), i, Clause(i),
                  NextSegment(i))

KeepStrong ==
  /\ Weakening
  /\ \/ ~ Eligible(words[cursor])
     \/ ~ ContextBroken(cursor) /\ Cardinality(WeakMatches(cursor)) # 1
  /\ weakDiagnostics' =
       IF Eligible(words[cursor]) /\ WeakMatches(cursor) # {}
       THEN Append(weakDiagnostics, <<"WEAK_FORM_RULE_AMBIGUOUS", cursor>>)
       ELSE weakDiagnostics
  /\ cursor' = cursor - 1
  /\ UNCHANGED <<input, pc, words, diagnostics, status>>

\* The entry is sought for the spelling of the word, not for the rule's target.
Weaken ==
  /\ Weakening /\ Eligible(words[cursor])
  /\ IF ContextBroken(cursor) THEN Reject("FRONTEND_WEAK_FORM_CONTEXT_INVALID")
     ELSE /\ Cardinality(WeakMatches(cursor)) = 1
          /\ \E r \in WeakMatches(cursor) :
               LET available == {e \in FromBase(Norm(cursor), r.role) : r.role \in e.roles}
               IN  IF available = {} THEN Reject("FRONTEND_WEAK_FORM_ROLE_UNAVAILABLE")
                   ELSE \E e \in available :
                     /\ words' = [words EXCEPT ![cursor] =
                          [role |-> r.role, roleSource |-> "postlexical",
                           source |-> @.source, syllables |-> e.syllables]]
                     /\ cursor' = cursor - 1
                     /\ UNCHANGED <<input, pc, diagnostics, weakDiagnostics, status>>

\* (faulty: not reversed.)
AsTold(list) == list
Backwards(list) == [k \in DOMAIN list |-> list[Len(list) + 1 - k]]

WeakEnd ==
  /\ pc = "weak" /\ cursor = 0
  /\ pc' = "serialize"
  /\ diagnostics' = diagnostics \o Backwards(weakDiagnostics)
  /\ weakDiagnostics' = <<>>
  /\ UNCHANGED <<input, cursor, words, status>>

\* serialize_model_tokens takes the words; how it packs them, and that it may
\* run out of room, is TokenChunking's.
Serialize ==
  /\ pc = "serialize"
  /\ IF \E i \in DOMAIN words : ~ ValidPronunciation(words[i].syllables)
     THEN Reject("MODEL_TOKEN_INVALID_WORD")
     ELSE /\ pc' = "done" /\ status' = "OK"
          /\ UNCHANGED <<input, cursor, words, diagnostics, weakDiagnostics>>
SerializeFails == pc = "serialize" /\ Reject("MODEL_TOKENS")

Next == \/ Validate \/ LexicalFails
        \/ BadRole \/ ByOverride \/ ByLexicon \/ RefuseKnown \/ RefuseSpelling
        \/ ByMorphology \/ ByLts \/ WordsEnd
        \/ KeepStrong \/ Weaken \/ WeakEnd
        \/ Serialize \/ SerializeFails

Spec == Init /\ [][Next]_vars

-----------------------------------------------------------------------------
(* Properties.                                                             *)

Unlike(i, j) == \E p, q \in DOMAIN text.phrases :
                  /\ p # q /\ i \in text.phrases[p].first..text.phrases[p].last
                  /\ j \in text.phrases[q].first..text.phrases[q].last
\* What is spoken right after word i in the phrase, once all words are final.
Heard(i) == IF i = Len(words) \/ Unlike(i, i + 1) THEN NoSegment
            ELSE words[i + 1].syllables[1].segments[1]

Settled(i) ==
  LET w       == words[i]
      matches == WeakFormMatches(resources.weak.rules, resources.weak.vowels, Norm(i), i,
                                 Clause(i), Heard(i))
  IN  IF w.source \in {"base", "product"} /\ Role(i) = "default" /\ RoleSource(i) = "default"
      THEN IF Cardinality(matches) = 1
           THEN \E r \in matches :
                  \E e \in Keyed(base.entries, "exact", Norm(i), r.role)
                             \cup Keyed(base.entries, "fold", Fold(Norm(i)), r.role) :
                    w.role = r.role /\ w.syllables = e.syllables
           ELSE \E e \in FromBase(Norm(i), "default") :
                  w.role = "default" /\ w.syllables = e.syllables
      ELSE w.role = Role(i) /\ w.roleSource = RoleSource(i)

\* The weak forms have settled: whatever the words after it turned into, every
\* word of the base lexicon has the form that its rules ask for before the
\* segment finally spoken after it, and no other word was touched
\* (resolution.cpp:607-673, README.md:224-236).
WeakFormsSettled == pc \in {"serialize", "done"} /\ resources.weak.present =>
                      \A i \in DOMAIN words : Settled(i)

\* A word that either lexicon lists, under whatever role, is never pronounced
\* by morphology or by letter-to-sound rules (resolution.cpp:476-489,
\* README.md:187-188).
KnownNotGuessed ==
  \A i \in DOMAIN words : words[i].source \in {"morphology", "lts"} =>
    \A e \in user.entries \cup base.entries :
      /\ ~ (e.mode = "exact" /\ e.grapheme = Norm(i))
      /\ ~ (e.mode = "fold" /\ e.grapheme = Fold(Norm(i)))

\* The entries whose pronunciation word i has, or has with a suffix.
Consulted(i) ==
  LET spelling == IF words[i].source = "morphology"
                  THEN (CHOOSE c \in Stems(i) : TRUE).stem ELSE Norm(i)
      entries  == IF FromUser(spelling, Role(i)) # {} THEN user.entries ELSE base.entries
  IN  {e \in entries : \/ e.mode = "exact" /\ e.grapheme = spelling
                       \/ e.mode = "fold" /\ e.grapheme = Fold(spelling)}
\* A role was wanted for word i and it has another pronunciation.
Forgone(i) ==
  \/ Asked(i) /\ IsHeteronym(resources.heteronyms.rules, Norm(i)) /\ Cardinality(Contexts(i)) # 1
  \/ /\ words[i].source \notin {"override", "lts"} /\ Role(i) # "default"
     /\ \A e \in Consulted(i) : Role(i) \notin e.roles

\* The warnings tell the truth, once and in the order of the words: a heteronym
\* whose rules do not settle on one role, and a word that a lexicon or an
\* inflection speaks in another role than the one it was to have, is reported as
\* defaulted exactly once and no other word is, so that what an override or the
\* letter-to-sound model speaks is not reported for its role; and the weak forms'
\* warnings, found from the end, come after the others and in word order too
\* (resolution.cpp:388-405, 452-457, 556-562, 674-678).
DiagnosticsTrue ==
  pc \in {"serialize", "done"} =>
    /\ \A i \in DOMAIN words :
         Cardinality({k \in DOMAIN diagnostics : diagnostics[k] = <<"HETERONYM_DEFAULTED", i>>})
           = (IF Forgone(i) THEN 1 ELSE 0)
    /\ \A k \in 1..Len(diagnostics) - 1 :
         LET weak(n) == diagnostics[n][1] = "WEAK_FORM_RULE_AMBIGUOUS"
         IN  /\ weak(k) => weak(k + 1)
             /\ weak(k) <=> weak(k + 1) => diagnostics[k][2] <= diagnostics[k + 1][2]

\* The serializer may refuse a word only for what the letter-to-sound model
\* made of it; whatever the other layers and the weak forms hand over is within
\* its limits, and the checks that the code keeps for what cannot happen are
\* never met (resolution.cpp:631-640, morphology.cpp:300-330,
\* tokenization.cpp:655-696).
OnlyGuessesRefused ==
  /\ \A i \in DOMAIN words : words[i].source # "lts" => ValidPronunciation(words[i].syllables)
  /\ status \notin {"INVALID_MORPHOLOGY_STEM", "FRONTEND_WEAK_FORM_CONTEXT_INVALID"}

\* The stems proposed for a spelling, by cutting off and patching its end, are
\* exactly the words of which it is a regular inflection (morphology.cpp:599-702).
CandidatesAreInflections ==
  pc = "validate" => \A i \in DOMAIN text.words :
    LET w     == FoldedWord(Norm(i))
        stems == {s \in {SubSeq(w, 1, n) : n \in 1..Len(w)}
                        \cup {Append(SubSeq(w, 1, n), c) : n \in 1..Len(w), c \in {"e", "y"}} :
                    AsciiWord(s) /\ Len(s) >= 2}
    IN  {[kind |-> c.kind, stem |-> FoldedWord(c.stem)] : c \in Candidates(Norm(i))}
          = {c \in [kind : Kinds, stem : stems] : Inflects(c.kind, c.stem, w)}

\* What README.md:228 says of the rules, "Rules name an existing reviewed lexicon
\* role": the role of a rule that matched is there for the word it matched.
MatchedRoleAvailable == status # "FRONTEND_WEAK_FORM_ROLE_UNAVAILABLE"
=============================================================================
