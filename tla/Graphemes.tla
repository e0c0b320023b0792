----------------------------- MODULE Graphemes -----------------------------
(***************************************************************************)
(* Written words, as the lexicon, the rule tables and the letter-to-sound  *)
(* model compare them.  A word is a sequence of one-character strings; the *)
(* empty sequence stands for "no word".                                    *)
(***************************************************************************)
EXTENDS Integers, Sequences

Lower ==
  [A |-> "a", B |-> "b", C |-> "c", D |-> "d", E |-> "e", F |-> "f", G |-> "g",
   H |-> "h", I |-> "i", J |-> "j", K |-> "k", L |-> "l", M |-> "m", N |-> "n",
   O |-> "o", P |-> "p", Q |-> "q", R |-> "r", S |-> "s", T |-> "t", U |-> "u",
   V |-> "v", W |-> "w", X |-> "x", Y |-> "y", Z |-> "z"]
UpperLetters == DOMAIN Lower
LowerLetters == {Lower[c] : c \in UpperLetters}
Letters      == UpperLetters \cup LowerLetters
Separators   == {"'", "-"}

FoldedLetter(c) == IF c \in UpperLetters THEN Lower[c] ELSE c
FoldedWord(w)   == [i \in DOMAIN w |-> FoldedLetter(w[i])]

\* ascii_fold: ASCII letters, with separators only inside the word.
Fold(w) ==
  IF /\ w # <<>>
     /\ \A i \in DOMAIN w : \/ w[i] \in Letters
                            \/ w[i] \in Separators /\ i \notin {1, Len(w)}
  THEN FoldedWord(w) ELSE <<>>

\* ascii_fold_word of the rule tables: no two separators side by side.
FoldRuleWord(w) ==
  IF \A i \in 1..Len(w) - 1 : ~ (w[i] \in Separators /\ w[i + 1] \in Separators)
  THEN Fold(w) ELSE <<>>

\* lts_key of the resolution.
LtsKey(w) == Fold(w)

Capitalization(w) ==
  LET letters == {i \in DOMAIN w : w[i] \in Letters}
      upper   == {i \in letters : w[i] \in UpperLetters}
  IN  CASE upper = {}       -> "lower"
        [] upper = letters  -> "upper"
        [] \E i \in upper : upper = {i} /\ \A j \in letters : i <= j -> "title"
        [] OTHER            -> "mixed"
=============================================================================
