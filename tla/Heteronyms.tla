----------------------------- MODULE Heteronyms -----------------------------
(***************************************************************************)
(* The contextual heteronym rules (src/src/frontend/heteronyms.cpp): which *)
(* rules match a word among its neighbours in the clause.                  *)
(***************************************************************************)
EXTENDS Lexicon

CONSTANTS
  MaxDistance,            (* kMaximumContextDistance, 3 in the code        *)
  MaxHeteronymsPerTarget  (* kMaximumRulesPerTarget, 64 in the code        *)

\* parse_rule: a rule is [id, target, role, caps, position, conditions], its
\* conditions a set of [offset, words].
ValidHeteronymRule(r) ==
  /\ r.target # <<>> /\ FoldRuleWord(r.target) = r.target
  /\ r.role # "default"
  /\ \A c \in r.conditions : /\ c.offset # 0 /\ c.offset \in -MaxDistance..MaxDistance
                             /\ c.words # {}
  /\ \A c, d \in r.conditions : c.offset = d.offset => c = d

\* load_heteronym_rules.
HeteronymRulesLoad(rules) ==
  /\ \A r \in rules : ValidHeteronymRule(r)
  /\ \A q, r \in rules : q.id = r.id => q = r
  /\ \A r \in rules :
       Cardinality({q \in rules : q.target = r.target}) <= MaxHeteronymsPerTarget

\* compatible_with.
HeteronymsCompatible(rules, entries) ==
  \A r \in rules : /\ ContainsRole(entries, r.target, r.role)
                   /\ ContainsRole(entries, r.target, "default")

MatchesClausePosition(position, i, clause) ==
  CASE position = "any"    -> TRUE
    [] position = "start"  -> i = clause.first
    [] position = "end"    -> i = clause.last
    [] position = "single" -> i = clause.first /\ i = clause.last

\* A word at the offset, inside the clause, is one of those listed.
MatchesCondition(c, spellings, i, clause) ==
  /\ i + c.offset \in clause.first..clause.last
  /\ FoldRuleWord(spellings[i + c.offset]) \in c.words

IsHeteronym(rules, word) == \E r \in rules : r.target = FoldRuleWord(word)

\* decide: the rules of the word that match at its place.
HeteronymMatches(rules, spellings, i, clause) ==
  {r \in rules :
     /\ r.target = FoldRuleWord(spellings[i])
     /\ r.caps \in {"any", Capitalization(spellings[i])}
     /\ MatchesClausePosition(r.position, i, clause)
     /\ \A c \in r.conditions : MatchesCondition(c, spellings, i, clause)}
=============================================================================
