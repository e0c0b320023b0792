----------------------------- MODULE WeakForms -----------------------------
(***************************************************************************)
(* The weak-form rules (src/src/frontend/weak_forms.cpp): which of them    *)
(* match a word at its place in a phrase, given the segment that is spoken *)
(* after it.                                                               *)
(***************************************************************************)
EXTENDS Lexicon

CONSTANT
  MaxRulesPerTarget  (* kMaximumRulesPerTarget, 64 in the code             *)

NoSegment == "no segment"

\* parse_rule: a rule is [id, target, role, caps, position, next].
ValidWeakFormRule(r) ==
  /\ r.target # <<>> /\ FoldRuleWord(r.target) = r.target
  /\ r.role # "default"
  /\ ~ (r.next = "absent" /\ r.position = "medial")
  /\ ~ (r.next \in {"vowel", "non-vowel"} /\ r.position \in {"final", "single"})

\* load_weak_form_rules.
WeakFormRulesLoad(rules, vowels) ==
  /\ \A r \in rules : ValidWeakFormRule(r)
  /\ \A q, r \in rules : q.id = r.id => q = r
  /\ \A r \in rules : Cardinality({q \in rules : q.target = r.target}) <= MaxRulesPerTarget
  /\ vowels # {} /\ vowels \subseteq Segments /\ vowels # Segments

\* compatible_with.
WeakFormsCompatible(rules, entries) ==
  \A r \in rules : /\ ContainsRole(entries, r.target, "default")
                   /\ ContainsRole(entries, r.target, r.role)

MatchesPosition(position, i, clause) ==
  CASE position = "any"    -> TRUE
    [] position = "medial" -> i < clause.last
    [] position = "final"  -> i = clause.last
    [] position = "single" -> i = clause.first /\ i = clause.last

MatchesNext(condition, next, vowels) ==
  CASE condition = "any"       -> TRUE
    [] condition = "vowel"     -> next \in vowels
    [] condition = "non-vowel" -> next # NoSegment /\ next \notin vowels
    [] condition = "absent"    -> next = NoSegment

\* decide: one match selects its role, more are ambiguous.
WeakFormMatches(rules, vowels, word, i, clause, next) ==
  {r \in rules :
     /\ r.target = FoldRuleWord(word)
     /\ r.caps \in {"any", Capitalization(word)}
     /\ MatchesPosition(r.position, i, clause)
     /\ MatchesNext(r.next, next, vowels)}
=============================================================================
