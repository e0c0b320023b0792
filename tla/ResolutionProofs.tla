-------------------------- MODULE ResolutionProofs --------------------------
(***************************************************************************)
(* Proofs about Resolution, for all resources and texts of any length: the *)
(* words after the cursor of the second pass are final, so the segment a   *)
(* rule looks at is the one that will be heard.                            *)
(***************************************************************************)
EXTENDS Resolution, MorphologyProofs

Size == Len(text.words)
InputOK ==
  /\ bundle \in DOMAIN Bundles
  /\ Size \in Nat /\ DOMAIN text.words = 1..Size
  /\ DOMAIN text.phrases \subseteq Nat /\ Phrased(text)
  /\ \A i \in 1..Size : Spelled(i) => ValidPronunciation(text.words[i].phone)
  /\ \A i \in 1..Size : Norm(i) \in Seq({Norm(i)[k] : k \in DOMAIN Norm(i)})

-----------------------------------------------------------------------------
(* Phrases.                                                                *)

LEMMA ClauseIs ==
  ASSUME InputOK, NEW i \in 1..Size
  PROVE  /\ text.phrases = <<>> => Clause(i).last = Size
         /\ text.phrases # <<>> => \E p \in DOMAIN text.phrases :
              /\ i \in text.phrases[p].first..text.phrases[p].last
              /\ Clause(i) = text.phrases[p]
<1> DEFINE inside == {p \in DOMAIN text.phrases :
                        i \in text.phrases[p].first..text.phrases[p].last}
<1>1. CASE text.phrases = <<>>
  <2>1. inside = {} BY <1>1
  <2>2. Clause(i) = [first |-> 1, last |-> Len(text.words)] BY <2>1 DEF Clause
  <2> QED BY <1>1, <2>2 DEF Size
<1>2. CASE text.phrases # <<>>
  <2>1. PICK p \in DOMAIN text.phrases : i \in text.phrases[p].first..text.phrases[p].last
    BY <1>2 DEF InputOK, Phrased
  <2>2. inside = {p}
    <3>1. \A q \in inside : q = p BY <2>1 DEF InputOK, Phrased
    <3> QED BY <2>1, <3>1
  <2>3. p \in Nat /\ p <= p BY DEF InputOK
  <2>4. \A r : r \in inside /\ (\A q \in inside : q <= r) => r = p BY <2>2
  <2>5. (CHOOSE r \in inside : \A q \in inside : q <= r) = p
    <3>1. \E r \in inside : \A q \in inside : q <= r BY <2>2, <2>3
    <3> QED BY <2>4, <3>1
  <2>6. Clause(i) = text.phrases[p] BY <2>2, <2>5 DEF Clause
  <2> QED BY <1>2, <2>1, <2>6
<1> QED BY <1>1, <1>2

\* What the second pass looks at is what is heard.
LEMMA NextIsHeard ==
  ASSUME InputOK, Len(words) = Size, NEW i \in 1..Size
  PROVE  Heard(i) = NextSegment(i) /\ (i < Clause(i).last => i < Size)
<1>1. CASE text.phrases = <<>>
  <2>1. Clause(i).last = Size BY <1>1, ClauseIs
  <2>2. ~ Unlike(i, i + 1) BY <1>1 DEF Unlike
  <2>3. i < Size <=> i # Size BY DEF InputOK
  <2> QED BY <2>1, <2>2, <2>3 DEF Heard, NextSegment
<1>2. CASE text.phrases # <<>>
  <2>1. PICK p \in DOMAIN text.phrases :
          /\ i \in text.phrases[p].first..text.phrases[p].last
          /\ Clause(i) = text.phrases[p]
    BY <1>2, ClauseIs
  <2>2. /\ text.phrases[p].first \in Int /\ text.phrases[p].last \in 0..Size /\ Size \in Nat
    BY DEF InputOK, Phrased, Size
  <2>3. CASE i < Clause(i).last
    <3>1. i < Size /\ i + 1 \in text.phrases[p].first..text.phrases[p].last /\ i + 1 \in 1..Size
      BY <2>1, <2>2, <2>3
    <3>2. ~ Unlike(i, i + 1)
      <4> SUFFICES ASSUME NEW q \in DOMAIN text.phrases, NEW r \in DOMAIN text.phrases, q # r,
                          i \in text.phrases[q].first..text.phrases[q].last,
                          i + 1 \in text.phrases[r].first..text.phrases[r].last
                   PROVE  FALSE
        BY DEF Unlike
      <4>1. q = p BY <2>1 DEF InputOK, Phrased
      <4>2. r = p BY <3>1 DEF InputOK, Phrased
      <4> QED BY <4>1, <4>2
    <3>3. i # Len(words) BY <3>1, <2>2
    <3> QED BY <2>3, <3>1, <3>2, <3>3 DEF Heard, NextSegment
  <2>4. CASE ~ i < Clause(i).last
    <3>1. Clause(i).last = i BY <2>1, <2>2, <2>4
    <3>2. i = Size \/ Unlike(i, i + 1)
      <4> SUFFICES ASSUME i # Size PROVE Unlike(i, i + 1) OBVIOUS
      <4>1. i + 1 \in DOMAIN text.words BY <2>2 DEF InputOK
      <4>2. PICK q \in DOMAIN text.phrases :
              i + 1 \in text.phrases[q].first..text.phrases[q].last
        BY <1>2, <4>1 DEF InputOK, Phrased
      <4>3. q # p BY <2>1, <2>2, <3>1, <4>2
      <4> QED BY <2>1, <4>2, <4>3 DEF Unlike
    <3> QED BY <2>4, <3>2 DEF Heard, NextSegment
  <2> QED BY <2>3, <2>4
<1> QED BY <1>1, <1>2

-----------------------------------------------------------------------------
(* The invariant.                                                          *)

Tuple(s) == \E S : s \in Seq(S)

\* What the first pass made of a word, before the weak forms.
Default(i) == FromBase(Norm(i), "default")
Known(i) == KnownGrapheme(Norm(i))
Strong(i) ==
  /\ words[i].role = Role(i) /\ words[i].roleSource = RoleSource(i)
  /\ words[i].source \in {"base", "product"} /\ Role(i) = "default" =>
       \E e \in Default(i) : words[i].syllables = e.syllables
Guessed(i) == words[i].source \in {"morphology", "lts"} => ~ Known(i)

IInv ==
  /\ InputOK /\ Tuple(words) /\ Len(words) \in 0..Size
  /\ \A i \in 1..Len(words) : Guessed(i)
  /\ pc \in {"validate", "rejected"} => words = <<>>
  /\ pc = "words" => /\ cursor \in 1..Size + 1 /\ Len(words) = cursor - 1
                     /\ \A i \in 1..Len(words) : Strong(i)
  /\ pc \in {"weak", "serialize", "done"} => Len(words) = Size
  /\ pc = "weak" => /\ cursor \in 0..Size
                    /\ \A i \in 1..cursor : Strong(i)
                    /\ \A i \in cursor + 1..Size : Settled(i)
  /\ pc \in {"serialize", "done"} /\ resources.weak.present => \A i \in 1..Size : Settled(i)

LEMMA EmptyTuple == Tuple(<<>>) /\ Len(<<>>) = 0 /\ DOMAIN <<>> = {}
<1>1. <<>> \in Seq({}) BY EmptySeq
<1> QED BY <1>1 DEF Tuple

LEMMA TupleDomain ==
  ASSUME NEW s, Tuple(s) PROVE Len(s) \in Nat /\ DOMAIN s = 1..Len(s)
BY DEF Tuple

LEMMA TupleAppend ==
  ASSUME NEW s, Tuple(s), NEW x
  PROVE  /\ Tuple(Append(s, x)) /\ Len(Append(s, x)) = Len(s) + 1
         /\ \A i \in 1..Len(s) : Append(s, x)[i] = s[i]
         /\ Append(s, x)[Len(s) + 1] = x
<1>1. PICK S : s \in Seq(S) BY DEF Tuple
<1>2. s \in Seq(S \cup {x}) BY <1>1, SeqMonotonic
<1>3. Append(s, x) \in Seq(S \cup {x}) BY <1>2, AppendProperties
<1>4. /\ Len(Append(s, x)) = Len(s) + 1
      /\ \A i \in 1..Len(s) : Append(s, x)[i] = s[i]
      /\ Append(s, x)[Len(s) + 1] = x
  BY <1>2, AppendProperties
<1> QED BY <1>3, <1>4 DEF Tuple

\* One word is changed.
LEMMA WordChanged ==
  ASSUME Tuple(words), NEW k \in 1..Len(words), NEW x, words' = [words EXCEPT ![k] = x]
  PROVE  /\ Tuple(words') /\ Len(words') = Len(words)
         /\ \A i \in 1..Len(words) : i # k => words'[i] = words[i]
         /\ words'[k] = x
<1>1. PICK S : words \in Seq(S) BY DEF Tuple
<1>2. words \in Seq(S \cup {x}) BY <1>1, SeqMonotonic
<1>3. /\ words' \in Seq(S \cup {x}) /\ Len(words') = Len(words)
      /\ \A i \in 1..Len(words) : words'[i] = IF i = k THEN x ELSE words[i]
  BY <1>2, ExceptSeq
<1> QED BY <1>3 DEF Tuple

\* The arguments do not change, and nothing that depends only on them.
LEMMA InputKept ==
  ASSUME UNCHANGED input
  PROVE  /\ (InputOK => InputOK') /\ Size' = Size /\ resources' = resources
         /\ \A i : Role(i)' = Role(i)
         /\ \A i : RoleSource(i)' = RoleSource(i)
         /\ \A i : Norm(i)' = Norm(i)
         /\ \A i : Clause(i)' = Clause(i)
         /\ \A i : Default(i)' = Default(i)
         /\ \A i : Known(i)' <=> Known(i)
         /\ \A i, j : Unlike(i, j)' <=> Unlike(i, j)
<1>1. text' = text /\ bundle' = bundle BY DEF input
<1>2. resources' = resources /\ Size' = Size BY <1>1 DEF resources, Size
<1>3. \A i : /\ Norm(i)' = Norm(i) /\ Clause(i)' = Clause(i)
             /\ Explicit(i)' = Explicit(i) /\ Spelled(i)' = Spelled(i)
  BY <1>1 DEF Norm, Clause, Explicit, Spelled
<1>4. Spellings' = Spellings BY <1>1 DEF Spellings, Norm
<1>5. \A i : Asked(i)' = Asked(i) BY <1>2, <1>3 DEF Asked
<1>6. \A i : Contexts(i)' = Contexts(i) BY <1>2, <1>3, <1>4, <1>5 DEF Contexts
<1>7. \A i : Role(i)' = Role(i) BY <1>1, <1>3, <1>6 DEF Role
<1>8. \A i : RoleSource(i)' = RoleSource(i) BY <1>3, <1>6 DEF RoleSource
<1>9. \A i, j : Unlike(i, j)' <=> Unlike(i, j)
  <2> SUFFICES ASSUME NEW i, NEW j PROVE Unlike(i, j)' <=> Unlike(i, j) OBVIOUS
  <2> QED BY <1>1 DEF Unlike
<1>10. InputOK => InputOK' BY <1>1, <1>2, <1>3 DEF InputOK, Phrased, Spelled
<1>11. base' = base /\ user' = user BY <1>2 DEF base, user
<1>12. \A i : Default(i)' = Default(i) BY <1>3, <1>11 DEF Default, FromBase
<1>13. \A i : Known(i)' <=> Known(i)
  <2> SUFFICES ASSUME NEW i PROVE Known(i)' <=> Known(i) OBVIOUS
  <2> QED BY <1>3, <1>11 DEF Known, KnownGrapheme
<1> QED BY <1>2, <1>3, <1>7, <1>8, <1>9, <1>10, <1>12, <1>13

LEMMA SettledKept ==
  ASSUME UNCHANGED input, NEW i \in 1..Len(words), Len(words') = Len(words),
         words'[i] = words[i], i # Len(words) => words'[i + 1] = words[i + 1], Settled(i)
  PROVE  Settled(i)'
<1>1. Heard(i)' = Heard(i) BY InputKept DEF Heard
<1>2. resources' = resources /\ base' = base BY InputKept DEF base
<1>3. /\ Norm(i)' = Norm(i) /\ Clause(i)' = Clause(i) /\ Role(i)' = Role(i)
      /\ RoleSource(i)' = RoleSource(i)
  BY InputKept
<1>4. \A w, r : FromBase(w, r)' = FromBase(w, r) BY <1>2 DEF FromBase
<1> QED BY <1>1, <1>2, <1>3, <1>4 DEF Settled, FromBase

LEMMA StrongKept ==
  ASSUME UNCHANGED input, NEW i, words'[i] = words[i]
  PROVE  (Strong(i) => Strong(i)') /\ (Guessed(i) => Guessed(i)')
<1>1. /\ Role(i)' = Role(i) /\ RoleSource(i)' = RoleSource(i) /\ Default(i)' = Default(i)
      /\ (Known(i)' <=> Known(i))
  BY InputKept
<1>2. Strong(i) => Strong(i)' BY <1>1 DEF Strong
<1>3. Guessed(i) => Guessed(i)' BY <1>1 DEF Guessed
<1> QED BY <1>2, <1>3

LEMMA RejectKeeps == ASSUME IInv, NEW c, Reject(c) PROVE IInv'
<1>1. InputOK' /\ Size' = Size /\ Size \in Nat BY InputKept DEF Reject, IInv, InputOK
<1>2. words' = <<>> /\ pc' = "rejected" BY DEF Reject
<1> QED BY <1>1, <1>2, EmptyTuple DEF IInv

\* A layer speaks the next word.
LEMMA ResolvedKeeps ==
  ASSUME IInv, Resolving, NEW k, k = cursor, NEW source, NEW syllables, NEW more,
         Resolved(source, syllables, more),
         source \in {"base", "product"} /\ Role(k) = "default" =>
           \E e \in Default(k) : syllables = e.syllables,
         source \in {"morphology", "lts"} => ~ Known(k)
  PROVE  IInv'
<1> DEFINE word == [role |-> Role(k), roleSource |-> RoleSource(k),
                    source |-> source, syllables |-> syllables]
<1>1. /\ pc = "words" /\ k \in 1..Size /\ Len(words) = k - 1 /\ Tuple(words)
      /\ InputOK /\ Size \in Nat
      /\ \A i \in 1..Len(words) : Guessed(i) /\ Strong(i)
  BY DEF IInv, Resolving, Size, InputOK
<1>2. /\ words' = Append(words, word) /\ cursor' = k + 1 /\ pc' = pc /\ UNCHANGED input
  BY DEF Resolved
<1>3. /\ word.role = Role(k) /\ word.roleSource = RoleSource(k)
      /\ word.source = source /\ word.syllables = syllables
  OBVIOUS
<1> HIDE DEF word
<1>4. /\ Tuple(words') /\ Len(words') = k /\ words'[k] = word
      /\ \A i \in 1..Len(words) : words'[i] = words[i]
  BY <1>1, <1>2, TupleAppend
<1>5. InputOK' /\ Size' = Size BY <1>1, <1>2, InputKept
<1>6. /\ Role(k)' = Role(k) /\ RoleSource(k)' = RoleSource(k) /\ Default(k)' = Default(k)
      /\ (Known(k)' <=> Known(k))
  BY <1>2, InputKept
<1>7. Guessed(k)' BY <1>3, <1>4, <1>6 DEF Guessed
<1>8. Strong(k)' BY <1>3, <1>4, <1>6 DEF Strong
<1>9. \A i \in 1..k - 1 : Guessed(i)' /\ Strong(i)'
  <2> SUFFICES ASSUME NEW i \in 1..k - 1 PROVE Guessed(i)' /\ Strong(i)' OBVIOUS
  <2>1. Guessed(i) /\ Strong(i) /\ words'[i] = words[i] BY <1>1, <1>4
  <2> QED BY <1>2, <2>1, StrongKept
<1>10. \A i \in 1..k : Guessed(i)' /\ Strong(i)'
  <2>1. \A i \in 1..k : i = k \/ i \in 1..k - 1 BY <1>1
  <2> QED BY <1>7, <1>8, <1>9, <2>1
<1>11. (\A i \in 1..Len(words) : Guessed(i))' /\ (\A i \in 1..Len(words) : Strong(i))'
  BY <1>4, <1>10
<1>12. Len(words)' \in 0..Size' /\ cursor' \in 1..Size' + 1 /\ Len(words)' = cursor' - 1
  BY <1>1, <1>2, <1>4, <1>5
<1> QED BY <1>1, <1>2, <1>4, <1>5, <1>11, <1>12 DEF IInv

-----------------------------------------------------------------------------
(* The actions of the first pass.                                          *)

LEMMA InitIInv == Init => IInv
<1> SUFFICES ASSUME Init PROVE IInv OBVIOUS
<1>1. InputOK
  <2>1. PICK request \in Requests : bundle = request[1] /\ text = request[2] BY DEF Init
  <2>2. \A i \in 1..Size : Norm(i) \in Seq({Norm(i)[k] : k \in DOMAIN Norm(i)})
    <3> DEFINE ok(w) == w.norm \in Seq({w.norm[k] : k \in DOMAIN w.norm})
    <3>1. \A i \in DOMAIN request[2].words : ok(request[2].words[i])
      BY RequestsAssumption
    <3>2. \A i \in 1..Size : ok(text.words[i])
      <4> HIDE DEF ok
      <4> QED BY <2>1, <3>1, RequestsAssumption DEF Size
    <3> QED BY <3>2 DEF Norm
  <2> QED BY <2>1, <2>2, RequestsAssumption DEF InputOK, Size, Spelled
<1>2. words = <<>> /\ pc = "validate" BY DEF Init
<1>3. Size \in Nat BY <1>1 DEF InputOK
<1> QED BY <1>1, <1>2, <1>3, EmptyTuple DEF IInv

LEMMA ValidateKeeps == ASSUME IInv, Validate PROVE IInv'
<1>1. CASE \E c : Reject(c) BY <1>1, RejectKeeps
<1>2. CASE ~ \E c : Reject(c)
  <2>1. pc' = "words" /\ cursor' = 1 /\ UNCHANGED <<input, words>> BY <1>2 DEF Validate
  <2>2. InputOK' /\ Size' = Size /\ Size \in Nat BY <2>1, InputKept DEF IInv, InputOK
  <2>3. words = <<>> BY DEF IInv, Validate
  <2> QED BY <2>1, <2>2, <2>3, EmptyTuple DEF IInv
<1> QED BY <1>1, <1>2

LEMMA OverrideKeeps == ASSUME IInv, ByOverride PROVE IInv'
<1>1. PICK k : k = cursor OBVIOUS
<1> QED BY <1>1, ResolvedKeeps DEF ByOverride

LEMMA LexiconKeeps == ASSUME IInv, ByLexicon PROVE IInv'
<1>1. PICK k : k = cursor OBVIOUS
<1>2. PICK e \in Entry(Norm(k), Role(k)) :
        Resolved(LexiconSource(k), e.syllables, IfUnmet(Role(k), e))
  BY <1>1 DEF ByLexicon
<1>3. LexiconSource(k) \in {"base", "product"} => e \in FromBase(Norm(k), Role(k))
  BY <1>2 DEF LexiconSource, Entry
<1>4. LexiconSource(k) \notin {"morphology", "lts"} BY DEF LexiconSource
<1>5. LexiconSource(k) \in {"base", "product"} /\ Role(k) = "default" =>
        \E d \in Default(k) : e.syllables = d.syllables
  BY <1>3 DEF Default
<1>6. Resolving BY DEF ByLexicon
<1> HIDE DEF Resolving
<1> QED BY <1>1, <1>2, <1>4, <1>5, <1>6, ResolvedKeeps

LEMMA MorphologyKeeps == ASSUME IInv, ByMorphology PROVE IInv'
<1>1. PICK k : k = cursor OBVIOUS
<1>2. CASE \E c : Reject(c) BY <1>2, RejectKeeps
<1>3. CASE ~ \E c : Reject(c)
  <2>1. PICK syllables, more : Resolved("morphology", syllables, more)
    BY <1>3 DEF ByMorphology
  <2>2. Resolving /\ ~ Known(k) BY <1>1 DEF ByMorphology, Guessing, Unlisted, Known
  <2> QED BY <1>1, <2>1, <2>2, ResolvedKeeps
<1> QED BY <1>2, <1>3

LEMMA LtsKeeps == ASSUME IInv, ByLts PROVE IInv'
<1>1. PICK k : k = cursor OBVIOUS
<1>2. CASE \E c : Reject(c) BY <1>2, RejectKeeps
<1>3. CASE ~ \E c : Reject(c)
  <2>1. PICK syllables, more : Resolved("lts", syllables, more) BY <1>3 DEF ByLts
  <2>2. Resolving /\ ~ Known(k) BY <1>1 DEF ByLts, Guessing, Unlisted, Known
  <2> QED BY <1>1, <2>1, <2>2, ResolvedKeeps
<1> QED BY <1>2, <1>3

\* A strong word that the rules do not touch is settled when they are not asked.
LEMMA WordsEndKeeps == ASSUME IInv, WordsEnd PROVE IInv'
<1>1. /\ pc = "words" /\ cursor = Size + 1 /\ Len(words) = Size /\ Tuple(words)
      /\ InputOK /\ Size \in Nat
      /\ \A i \in 1..Len(words) : Guessed(i) /\ Strong(i)
  BY DEF IInv, WordsEnd, Size, InputOK
<1>2. /\ words' = words /\ cursor' = Size /\ UNCHANGED input
      /\ pc' = IF resources.weak.present THEN "weak" ELSE "serialize"
  BY DEF WordsEnd, Size
<1>3. InputOK' /\ Size' = Size /\ resources' = resources BY <1>1, <1>2, InputKept
<1>4. \A i \in 1..Size : Guessed(i)' /\ Strong(i)' BY <1>1, <1>2, StrongKept
<1>5. (\A i \in 1..Len(words) : Guessed(i))' /\ (\A i \in 1..cursor : Strong(i))'
  BY <1>1, <1>2, <1>4
<1>6. (\A i \in cursor + 1..Size : Settled(i))' BY <1>1, <1>2, <1>3
<1> QED BY <1>1, <1>2, <1>3, <1>5, <1>6 DEF IInv

-----------------------------------------------------------------------------
(* The weak forms.                                                         *)

\* The second pass leaves word k, or changes it, and moves on.
LEMMA WeakStep ==
  ASSUME IInv, pc = "weak", pc' = "weak", NEW k, k = cursor, k # 0, cursor' = k - 1,
         UNCHANGED input, Tuple(words'), Len(words') = Len(words),
         \A i \in 1..Len(words) : i # k => words'[i] = words[i],
         Guessed(k)', Settled(k)'
  PROVE  IInv'
<1>1. /\ InputOK /\ Size \in Nat /\ k \in 1..Size /\ Len(words) = Size
      /\ \A i \in 1..Size : Guessed(i)
      /\ \A i \in 1..k : Strong(i)
      /\ \A i \in k + 1..Size : Settled(i)
  BY DEF IInv, InputOK
<1>2. InputOK' /\ Size' = Size BY <1>1, InputKept
<1>3. \A i \in 1..Size : Guessed(i)'
  <2> SUFFICES ASSUME NEW i \in 1..Size, i # k PROVE Guessed(i)' OBVIOUS
  <2>1. words'[i] = words[i] BY <1>1
  <2> QED BY <1>1, <2>1, StrongKept
<1>4. \A i \in 1..k - 1 : Strong(i)'
  <2> SUFFICES ASSUME NEW i \in 1..k - 1 PROVE Strong(i)' OBVIOUS
  <2>1. words'[i] = words[i] /\ Strong(i) BY <1>1
  <2> QED BY <2>1, StrongKept
<1>5. \A i \in k..Size : Settled(i)'
  <2> SUFFICES ASSUME NEW i \in k + 1..Size PROVE Settled(i)' BY <1>1
  <2>1. i \in 1..Len(words) /\ words'[i] = words[i] /\ Settled(i) BY <1>1
  <2>2. i # Len(words) => words'[i + 1] = words[i + 1] BY <1>1
  <2> QED BY <2>1, <2>2, SettledKept
<1>6. (\A i \in 1..Len(words) : Guessed(i))' /\ (\A i \in 1..cursor : Strong(i))'
  BY <1>1, <1>3, <1>4
<1>7. (\A i \in cursor + 1..Size : Settled(i))'
  <2>1. (k - 1) + 1 = k BY <1>1
  <2> QED BY <1>2, <1>5, <2>1
<1> QED BY <1>1, <1>2, <1>6, <1>7 DEF IInv

\* What is heard after word k is the next segment, whatever happens to k.
LEMMA HeardAgain ==
  ASSUME InputOK, UNCHANGED input, Len(words) = Size, Len(words') = Size,
         NEW k \in 1..Size, \A i \in 1..Size : i # k => words'[i] = words[i]
  PROVE  Heard(k)' = NextSegment(k)
<1>1. Size \in Nat BY DEF InputOK
<1>2. k # Size => words'[k + 1] = words[k + 1] BY <1>1
<1>3. Heard(k)' = Heard(k) BY <1>2, InputKept DEF Heard
<1> QED BY <1>3, NextIsHeard

LEMMA WeakMatchesAre ==
  ASSUME NEW k, Heard(k)' = NextSegment(k), UNCHANGED input
  PROVE  WeakFormMatches(resources.weak.rules, resources.weak.vowels, Norm(k), k, Clause(k),
                         Heard(k))' = WeakMatches(k)
BY InputKept DEF WeakMatches, WeakFormMatches

LEMMA KeepStrongKeeps == ASSUME IInv, KeepStrong PROVE IInv'
<1>1. PICK k : k = cursor OBVIOUS
<1>2. /\ pc = "weak" /\ k # 0 /\ k \in 1..Size /\ InputOK /\ Size \in Nat
      /\ Len(words) = Size /\ Tuple(words) /\ Guessed(k) /\ Strong(k)
  BY <1>1 DEF IInv, KeepStrong, Weakening, InputOK
<1>3. /\ words' = words /\ cursor' = k - 1 /\ pc' = "weak" /\ UNCHANGED input
      /\ Eligible(words[k]) => Cardinality(WeakMatches(k)) # 1
  BY <1>1, <1>2 DEF KeepStrong
<1>4. Guessed(k)' /\ Strong(k)' BY <1>2, <1>3, StrongKept
<1>5. Heard(k)' = NextSegment(k) BY <1>2, <1>3, HeardAgain
<1>6. Settled(k)'
  <2>1. WeakFormMatches(resources.weak.rules, resources.weak.vowels, Norm(k), k, Clause(k),
                        Heard(k))' = WeakMatches(k)
    BY <1>3, <1>5, WeakMatchesAre
  <2>2. Role(k)' = Role(k) /\ RoleSource(k)' = RoleSource(k) /\ Default(k)' = Default(k)
    BY <1>3, InputKept
  <2>3. words[k].role = Role(k) /\ words[k].roleSource = RoleSource(k) BY <1>2 DEF Strong
  <2>4. CASE words[k].source \in {"base", "product"} /\ Role(k) = "default"
                /\ RoleSource(k) = "default"
    <3>1. Cardinality(WeakMatches(k)) # 1 BY <1>3, <2>3, <2>4 DEF Eligible
    <3>2. \E e \in Default(k) : words[k].syllables = e.syllables BY <1>2, <2>4 DEF Strong
    <3>3. \E e \in FromBase(Norm(k), "default")' :
             words'[k].role = "default" /\ words'[k].syllables = e.syllables
      BY <1>3, <2>2, <2>3, <2>4, <3>2 DEF Default
    <3> QED BY <1>3, <2>1, <2>2, <2>4, <3>1, <3>3 DEF Settled
  <2>5. CASE ~ (words[k].source \in {"base", "product"} /\ Role(k) = "default"
                /\ RoleSource(k) = "default")
    BY <1>3, <2>2, <2>3, <2>5 DEF Settled
  <2> QED BY <2>4, <2>5
<1> QED BY <1>1, <1>2, <1>3, <1>4, <1>6, WeakStep

\* find returns an entry of the word, for the role unless there is none for it.
LEMMA Found ==
  ASSUME NEW entries, NEW word, NEW role, NEW e \in Find(entries, word, role)
  PROVE  \/ e \in Keyed(entries, "exact", word, role)
         \/ e \in Keyed(entries, "fold", Fold(word), role)
         \/ /\ e \in Keyed(entries, "exact", word, "default")
                       \cup Keyed(entries, "fold", Fold(word), "default")
            /\ Keyed(entries, "exact", word, role) = {}
            /\ Keyed(entries, "fold", Fold(word), role) = {}
<1> DEFINE tries == << Keyed(entries, "exact", word, role),
                       Keyed(entries, "fold", Fold(word), role),
                       Keyed(entries, "exact", word, "default"),
                       Keyed(entries, "fold", Fold(word), "default") >>
           hits  == {i \in 1..4 : tries[i] # {}}
           first == CHOOSE i \in hits : \A j \in hits : i <= j
<1>1. /\ tries[1] = Keyed(entries, "exact", word, role)
      /\ tries[2] = Keyed(entries, "fold", Fold(word), role)
      /\ tries[3] = Keyed(entries, "exact", word, "default")
      /\ tries[4] = Keyed(entries, "fold", Fold(word), "default")
  OBVIOUS
<1>2. hits # {} /\ e \in tries[first] BY DEF Find
<1>3. first \in hits /\ \A j \in hits : first <= j
  <2>1. \E i \in hits : \A j \in hits : i <= j
    <3>1. hits \subseteq Nat OBVIOUS
    <3>2. hits # {} BY <1>2
    <3> HIDE DEF hits
    <3> QED BY <3>1, <3>2, LeastElement
  <2> HIDE DEF hits
  <2> QED BY <2>1
<1>4. first \in 1..4 /\ (first \in {3, 4} => 1 \notin hits /\ 2 \notin hits)
  <2>1. hits \subseteq 1..4 OBVIOUS
  <2> HIDE DEF hits, first
  <2> QED BY <1>3, <2>1
<1>5. first \in {3, 4} => tries[1] = {} /\ tries[2] = {}
  <2> HIDE DEF first, tries
  <2> QED BY <1>4
<1> HIDE DEF first, hits, tries
<1> QED BY <1>1, <1>2, <1>4, <1>5

LEMMA FoundIn ==
  ASSUME NEW entries, NEW word, NEW role, NEW e \in Find(entries, word, role)
  PROVE  e \in entries
<1>1. \E mode, grapheme, r : e \in Keyed(entries, mode, grapheme, r)
  BY Found
<1> QED BY <1>1 DEF Keyed

LEMMA FoundIsKeyed ==
  ASSUME NEW entries, NEW word, NEW role, NEW e \in Find(entries, word, role), role \in e.roles
  PROVE  e \in Keyed(entries, "exact", word, role)
               \cup Keyed(entries, "fold", Fold(word), role)
<1>1. e \in entries
  BY FoundIn
<1> QED BY <1>1, Found DEF Keyed

LEMMA WeakenKeeps == ASSUME IInv, Weaken PROVE IInv'
<1>1. PICK k : k = cursor OBVIOUS
<1>2. CASE \E c : Reject(c) BY <1>2, RejectKeeps
<1>3. CASE ~ \E c : Reject(c)
  <2>1. /\ pc = "weak" /\ k # 0 /\ k \in 1..Size /\ InputOK /\ Size \in Nat
        /\ Len(words) = Size /\ Tuple(words) /\ Guessed(k) /\ Strong(k)
    BY <1>1 DEF IInv, Weaken, Weakening, InputOK
  <2>2. Eligible(words[k]) /\ Cardinality(WeakMatches(k)) = 1 BY <1>1, <1>3 DEF Weaken
  <2>3. PICK r \in WeakMatches(k) : \E e \in FromBase(Norm(k), r.role) :
          /\ r.role \in e.roles
          /\ words' = [words EXCEPT ![k] = [role |-> r.role, roleSource |-> "postlexical",
                                            source |-> words[k].source,
                                            syllables |-> e.syllables]]
          /\ cursor' = k - 1 /\ pc' = "weak" /\ UNCHANGED input
    BY <1>1, <1>3, <2>1 DEF Weaken
  <2>4. PICK e \in FromBase(Norm(k), r.role) :
          /\ r.role \in e.roles
          /\ words' = [words EXCEPT ![k] = [role |-> r.role, roleSource |-> "postlexical",
                                            source |-> words[k].source,
                                            syllables |-> e.syllables]]
          /\ cursor' = k - 1 /\ pc' = "weak" /\ UNCHANGED input
    BY <2>3
  <2> DEFINE word == [role |-> r.role, roleSource |-> "postlexical",
                      source |-> words[k].source, syllables |-> e.syllables]
  <2>5. /\ Tuple(words') /\ Len(words') = Len(words)
        /\ \A i \in 1..Len(words) : i # k => words'[i] = words[i]
        /\ words'[k] = word
    <3>1. words' = [words EXCEPT ![k] = word] BY <2>4, Zenon
    <3>2. PICK x : x = word OBVIOUS
    <3>3. words' = [words EXCEPT ![k] = x] BY <3>1, <3>2, Zenon
    <3>4. Tuple(words) /\ k \in 1..Len(words) BY <2>1
    <3> HIDE DEF word
    <3> QED BY <3>2, <3>3, <3>4, WordChanged
  <2>6. /\ words'[k].role = r.role /\ words'[k].source = words[k].source
        /\ words'[k].syllables = e.syllables
    BY <2>5
  <2>7. Guessed(k)' BY <2>2, <2>6 DEF Guessed, Eligible
  <2>8. Settled(k)'
    <3>1. Heard(k)' = NextSegment(k) BY <2>1, <2>4, <2>5, HeardAgain
    <3>2. WeakFormMatches(resources.weak.rules, resources.weak.vowels, Norm(k), k, Clause(k),
                          Heard(k))' = WeakMatches(k)
      BY <2>4, <3>1, WeakMatchesAre
    <3>3. Role(k) = "default" /\ RoleSource(k) = "default"
          /\ words[k].source \in {"base", "product"}
      BY <2>1, <2>2 DEF Strong, Eligible
    <3>4. /\ Role(k)' = Role(k) /\ RoleSource(k)' = RoleSource(k) /\ Norm(k)' = Norm(k)
          /\ base' = base
      BY <2>4, InputKept DEF base
    <3>5. e \in Keyed(base.entries, "exact", Norm(k), r.role)
                \cup Keyed(base.entries, "fold", Fold(Norm(k)), r.role)
      BY <2>4, FoundIsKeyed DEF FromBase
    <3>6. \E d \in (Keyed(base.entries, "exact", Norm(k), r.role)
                    \cup Keyed(base.entries, "fold", Fold(Norm(k)), r.role))' :
             words'[k].role = r.role /\ words'[k].syllables = d.syllables
      BY <2>6, <3>4, <3>5 DEF Keyed
    <3> QED BY <2>2, <2>4, <2>6, <3>2, <3>3, <3>4, <3>6 DEF Settled
  <2> QED BY <1>1, <2>1, <2>4, <2>5, <2>7, <2>8, WeakStep
<1> QED BY <1>2, <1>3

\* The words are as they were, and the second pass is over or was not wanted.
LEMMA WordsKept ==
  ASSUME IInv, UNCHANGED <<input, words>>, pc' \in {"serialize", "done"},
         \/ pc = "weak" /\ cursor = 0
         \/ pc \in {"serialize", "done"}
  PROVE  IInv'
<1>1. /\ InputOK /\ Size \in Nat /\ Len(words) = Size /\ Tuple(words)
      /\ \A i \in 1..Size : Guessed(i)
      /\ resources.weak.present => \A i \in 1..Size : Settled(i)
  BY DEF IInv, InputOK
<1>2. InputOK' /\ Size' = Size /\ resources' = resources BY <1>1, InputKept
<1>3. \A i \in 1..Size : Guessed(i)' BY <1>1, StrongKept
<1>4. resources.weak.present => \A i \in 1..Size : Settled(i)' BY <1>1, SettledKept
<1>5. (\A i \in 1..Len(words) : Guessed(i))' BY <1>1, <1>3
<1>6. (resources.weak.present => \A i \in 1..Size : Settled(i))' BY <1>2, <1>4
<1> QED BY <1>1, <1>2, <1>5, <1>6 DEF IInv

LEMMA StutterKeeps == ASSUME IInv, UNCHANGED vars PROVE IInv'
<1>1. UNCHANGED input /\ words' = words /\ pc' = pc /\ cursor' = cursor BY DEF vars
<1>2. InputOK' /\ Size' = Size /\ resources' = resources /\ Size \in Nat
  BY <1>1, InputKept DEF IInv, InputOK
<1>3. \A i : (Guessed(i) => Guessed(i)') /\ (Strong(i) => Strong(i)') BY <1>1, StrongKept
<1>4. \A i \in 1..Len(words) : Settled(i) => Settled(i)' BY <1>1, SettledKept
<1>5. (\A i \in 1..Len(words) : Guessed(i))' BY <1>1, <1>3 DEF IInv
<1>6. pc = "words" => (\A i \in 1..Len(words) : Strong(i))' BY <1>1, <1>3 DEF IInv
<1>7. pc = "weak" => (\A i \in 1..cursor : Strong(i))' BY <1>1, <1>3 DEF IInv
<1>8. pc = "weak" => (\A i \in cursor + 1..Size : Settled(i))'
  <2> SUFFICES ASSUME pc = "weak", NEW i \in cursor + 1..Size PROVE Settled(i)' BY <1>1, <1>2
  <2>1. i \in 1..Len(words) /\ Settled(i) BY <1>2 DEF IInv
  <2> QED BY <1>4, <2>1
<1>9. pc \in {"serialize", "done"} /\ resources.weak.present =>
        (\A i \in 1..Size : Settled(i))'
  <2> SUFFICES ASSUME pc \in {"serialize", "done"}, resources.weak.present, NEW i \in 1..Size
               PROVE  Settled(i)'
    BY <1>2
  <2>1. i \in 1..Len(words) /\ Settled(i) BY DEF IInv
  <2> QED BY <1>4, <2>1
<1>10. InputOK' /\ Tuple(words)' /\ (Len(words) \in 0..Size)' BY <1>1, <1>2 DEF IInv
<1> QED BY <1>1, <1>2, <1>5, <1>6, <1>7, <1>8, <1>9, <1>10 DEF IInv

-----------------------------------------------------------------------------
(* The theorems.                                                           *)

LEMMA NextKeeps == IInv /\ [Next]_vars => IInv'
<1> SUFFICES ASSUME IInv, [Next]_vars PROVE IInv' OBVIOUS
<1>1. CASE Validate BY <1>1, ValidateKeeps
<1>2. CASE LexicalFails BY <1>2, RejectKeeps DEF LexicalFails
<1>3. CASE BadRole BY <1>3, RejectKeeps DEF BadRole
<1>4. CASE ByOverride BY <1>4, OverrideKeeps
<1>5. CASE ByLexicon BY <1>5, LexiconKeeps
<1>6. CASE RefuseKnown BY <1>6, RejectKeeps DEF RefuseKnown
<1>7. CASE RefuseSpelling BY <1>7, RejectKeeps DEF RefuseSpelling
<1>8. CASE ByMorphology BY <1>8, MorphologyKeeps
<1>9. CASE ByLts BY <1>9, LtsKeeps
<1>10. CASE WordsEnd BY <1>10, WordsEndKeeps
<1>11. CASE KeepStrong BY <1>11, KeepStrongKeeps
<1>12. CASE Weaken BY <1>12, WeakenKeeps
<1>13. CASE WeakEnd BY <1>13, WordsKept DEF WeakEnd
<1>14. CASE Serialize
  <2>1. CASE \E c : Reject(c) BY <2>1, RejectKeeps
  <2>2. CASE ~ \E c : Reject(c) BY <1>14, <2>2, WordsKept DEF Serialize
  <2> QED BY <2>1, <2>2
<1>15. CASE SerializeFails BY <1>15, RejectKeeps DEF SerializeFails
<1>16. CASE UNCHANGED vars BY <1>16, StutterKeeps
<1> QED BY <1>1, <1>2, <1>3, <1>4, <1>5, <1>6, <1>7, <1>8, <1>9, <1>10, <1>11, <1>12,
           <1>13, <1>14, <1>15, <1>16 DEF Next

\* The inductive invariant of both passes: the words before the cursor have the
\* strong form the first pass gave them, those after it are final
\* (resolution.cpp:372-680).
THEOREM Invariance == Spec => []IInv
BY InitIInv, NextKeeps, PTL DEF Spec

\* A word that a lexicon lists is not guessed, in any text and with any
\* resources that load together (resolution.cpp:476-489).
THEOREM KnownNeverGuessed == Spec => []KnownNotGuessed
<1>1. IInv => KnownNotGuessed
  <2> SUFFICES ASSUME IInv, NEW i \in DOMAIN words, words[i].source \in {"morphology", "lts"},
                      NEW e \in user.entries \cup base.entries
               PROVE  /\ ~ (e.mode = "exact" /\ e.grapheme = Norm(i))
                      /\ ~ (e.mode = "fold" /\ e.grapheme = Fold(Norm(i)))
    BY DEF KnownNotGuessed
  <2>1. ~ Known(i) BY TupleDomain DEF IInv, Guessed
  <2>2. user.present \/ user.entries = {}
    BY BundlesLoaded DEF IInv, InputOK, user, resources, Loaded, TablesLoaded
  <2> QED BY <2>1, <2>2 DEF Known, KnownGrapheme, ContainsGrapheme
<1> QED BY <1>1, Invariance, PTL

\* The weak forms have settled when the second pass is over, in any text and
\* with any rules: each looked at the segment that is spoken after the word in
\* the end (resolution.cpp:607-673).
THEOREM WeakFormsAlwaysSettle == Spec => []WeakFormsSettled
<1>1. IInv => WeakFormsSettled
  <2> SUFFICES ASSUME IInv, pc \in {"serialize", "done"}, resources.weak.present,
                      NEW i \in DOMAIN words
               PROVE  Settled(i)
    BY DEF WeakFormsSettled
  <2>1. i \in 1..Size BY TupleDomain DEF IInv
  <2> QED BY <2>1 DEF IInv
<1> QED BY <1>1, Invariance, PTL

-----------------------------------------------------------------------------
(* What the layers hand over.                                              *)

Never == {"INVALID_MORPHOLOGY_STEM", "FRONTEND_WEAK_FORM_CONTEXT_INVALID"}

\* Only the letter-to-sound model may make a syllable too long.
Sound(i) == IF words[i].source = "lts" THEN Spoken(words[i].syllables)
            ELSE ValidPronunciation(words[i].syllables)
SoundInv == (\A i \in 1..Len(words) : Sound(i)) /\ status \notin Never

LEMMA ListedIsValid ==
  ASSUME InputOK, NEW word, NEW role
  PROVE  /\ \A e \in Entry(word, role) : ValidPronunciation(e.syllables)
         /\ \A e \in FromBase(word, role) : ValidPronunciation(e.syllables)
<1>1. Loaded(resources)
  BY BundlesLoaded DEF InputOK, resources
<1>2. \A e \in base.entries \cup user.entries : ValidPronunciation(e.syllables)
  BY <1>1 DEF Loaded, TablesLoaded, LexiconLoads, ValidEntry, base, user
<1>3. FromUser(word, role) \subseteq user.entries /\ FromBase(word, role) \subseteq base.entries
  BY FoundIn DEF FromUser, FromBase
<1> QED BY <1>2, <1>3 DEF Entry

LEMMA RejectSound == ASSUME NEW code, code \notin Never, Reject(code) PROVE SoundInv'
BY EmptyTuple DEF Reject, SoundInv

\* The layer that speaks the next word hands over what it may.
LEMMA ResolvedSound ==
  ASSUME IInv, SoundInv, NEW source, NEW syllables, NEW more, Resolved(source, syllables, more),
         source = "lts" => Spoken(syllables),
         source # "lts" => ValidPronunciation(syllables)
  PROVE  SoundInv'
<1> DEFINE word == [role |-> Role(cursor), roleSource |-> RoleSource(cursor),
                    source |-> source, syllables |-> syllables]
<1>1. words' = Append(words, word) /\ status' = status
  BY DEF Resolved
<1>2. word.source = source /\ word.syllables = syllables
  OBVIOUS
<1> HIDE DEF word
<1>3. PICK k : k = Len(words) + 1
  OBVIOUS
<1>4. /\ Tuple(words) /\ Len(words) \in Nat /\ Len(words') = k /\ words'[k] = word
      /\ \A i \in 1..Len(words) : words'[i] = words[i]
  BY <1>1, <1>3, TupleAppend, TupleDomain DEF IInv
<1>5. \A i \in 1..k : i \in 1..Len(words) \/ i = k
  BY <1>4, <1>3
<1>6. \A i \in 1..Len(words) : Sound(i)'
  BY <1>4 DEF SoundInv, Sound
<1>7. Sound(k)'
  BY <1>2, <1>4 DEF Sound
<1> QED BY <1>1, <1>4, <1>5, <1>6, <1>7 DEF SoundInv

LEMMA WordsSound ==
  ASSUME SoundInv, UNCHANGED <<words, status>>
  PROVE  SoundInv'
BY DEF SoundInv, Sound

LEMMA OverrideSound == ASSUME IInv, SoundInv, ByOverride PROVE SoundInv'
<1>1. cursor \in 1..Size /\ Spelled(cursor) /\ InputOK
  BY DEF ByOverride, Resolving, IInv, InputOK, Size
<1>2. ValidPronunciation(text.words[cursor].phone)
  BY <1>1 DEF InputOK
<1> QED BY <1>2, ResolvedSound DEF ByOverride

LEMMA LexiconSound == ASSUME IInv, SoundInv, ByLexicon PROVE SoundInv'
<1>1. PICK e \in Entry(Norm(cursor), Role(cursor)) :
        Resolved(LexiconSource(cursor), e.syllables, IfUnmet(Role(cursor), e))
  BY DEF ByLexicon
<1>2. LexiconSource(cursor) # "lts"
  BY DEF LexiconSource
<1>3. ValidPronunciation(e.syllables)
  BY ListedIsValid DEF IInv
<1> QED BY <1>1, <1>2, <1>3, ResolvedSound

LEMMA MorphologySound == ASSUME IInv, SoundInv, ByMorphology PROVE SoundInv'
<1>1. PICK c \in Stems(cursor) : \E e \in Entry(c.stem, Role(cursor)) :
        LET applied == Apply(resources.morphology.rules, c.kind, e.syllables)
        IN  IF applied.status # "OK" THEN Reject(applied.status)
            ELSE Resolved("morphology", applied.syllables, IfUnmet(Role(cursor), e))
  BY DEF ByMorphology
<1>2. PICK e \in Entry(c.stem, Role(cursor)) :
        LET applied == Apply(resources.morphology.rules, c.kind, e.syllables)
        IN  IF applied.status # "OK" THEN Reject(applied.status)
            ELSE Resolved("morphology", applied.syllables, IfUnmet(Role(cursor), e))
  BY <1>1
<1> DEFINE applied == Apply(resources.morphology.rules, c.kind, e.syllables)
<1>3. resources.morphology.present /\ c \in Candidates(Norm(cursor))
  BY DEF Stems
<1>4. c.kind \in Kinds
  BY <1>3 DEF Candidates
<1>5. MorphologyLoads(resources.morphology.rules)
  BY <1>3, BundlesLoaded DEF IInv, InputOK, resources, Loaded, TablesLoaded
<1>6. ValidPronunciation(e.syllables)
  BY ListedIsValid DEF IInv
<1>7. \/ applied.status = "OK" /\ ValidPronunciation(applied.syllables)
      \/ applied.status = "MORPHOLOGY_RESULT_TOO_LARGE"
  BY <1>4, <1>5, <1>6, SuffixKeepsPronunciation
<1>8. CASE applied.status = "OK"
  BY <1>2, <1>7, <1>8, ResolvedSound
<1>9. CASE applied.status # "OK"
  BY <1>2, <1>7, <1>9, RejectSound DEF Never
<1> QED BY <1>8, <1>9

LEMMA LtsSound == ASSUME IInv, SoundInv, ByLts PROVE SoundInv'
<1> DEFINE key    == LtsKey(Norm(cursor))
           answer == Pronounce(key)
<1>1. Loaded(resources)
  BY BundlesLoaded DEF IInv, InputOK, resources
<1>2. answer.status \in LtsStatuses /\ (answer.status = "OK" => Spoken(answer.syllables))
  BY <1>1 DEF Loaded, Pronounce, LtsStatuses
<1>3. PICK more : \/ Reject("UNKNOWN_PRONUNCIATION")
                  \/ answer.status # "OK" /\ Reject(answer.status)
                  \/ answer.status = "OK" /\ Resolved("lts", answer.syllables, more)
  BY DEF ByLts
<1>4. answer.status \notin Never
  BY <1>2 DEF LtsStatuses, Never
<1>5. CASE \E code : code \notin Never /\ Reject(code)
  BY <1>5, RejectSound
<1>6. CASE answer.status = "OK" /\ Resolved("lts", answer.syllables, more)
  BY <1>2, <1>6, ResolvedSound
<1> QED BY <1>3, <1>4, <1>5, <1>6 DEF Never

\* Each word has a first segment for the rules to look at.
LEMMA ContextNeverBroken ==
  ASSUME IInv, SoundInv, pc = "weak", NEW i \in 1..Size
  PROVE  ~ ContextBroken(i)
<1> SUFFICES ASSUME i < Clause(i).last
             PROVE  words[i + 1].syllables # <<>> /\ words[i + 1].syllables[1].segments # <<>>
  BY DEF ContextBroken
<1>1. InputOK /\ Len(words) = Size /\ Size \in Nat
  BY DEF IInv, InputOK
<1>2. i + 1 \in 1..Len(words)
  BY <1>1, NextIsHeard
<1> DEFINE s == words[i + 1].syllables
<1>3. Spoken(s) \/ ValidPronunciation(s)
  BY <1>2 DEF SoundInv, Sound
<1>4. s \in Seq(Syllable) /\ Len(s) \in 1..MaxSyllables
  BY <1>3 DEF Spoken, ValidPronunciation
<1>5. Len(s) > 0 /\ 1 \in DOMAIN s /\ s # <<>>
  BY <1>4
<1>6. s[1] \in Syllable /\ s[1].segments \in Seq(Segments)
  BY <1>4, <1>5, SyllableIs
<1>7. CASE Spoken(s)
  BY <1>5, <1>7 DEF Spoken
<1>8. CASE ValidPronunciation(s)
  <2>1. Len(s[1].segments) > 0
    BY <1>5, <1>8, BoundsAssumption DEF ValidPronunciation
  <2>2. s[1].segments # <<>>
    BY <2>1, EmptyTuple
  <2> QED BY <1>5, <2>2
<1> QED BY <1>3, <1>7, <1>8

LEMMA WeakenSound == ASSUME IInv, SoundInv, Weaken PROVE SoundInv'
<1>1. PICK k : k = cursor
  OBVIOUS
<1>2. /\ pc = "weak" /\ k \in 1..Size /\ Len(words) = Size /\ Tuple(words) /\ InputOK
  BY <1>1 DEF IInv, Weaken, Weakening, InputOK
<1>3. ~ ContextBroken(k)
  BY <1>2, ContextNeverBroken
<1>4. CASE Reject("FRONTEND_WEAK_FORM_ROLE_UNAVAILABLE")
  BY <1>4, RejectSound DEF Never
<1>5. CASE ~ Reject("FRONTEND_WEAK_FORM_ROLE_UNAVAILABLE")
  <2>1. PICK r : \E e \in FromBase(Norm(k), r.role) :
          /\ words' = [words EXCEPT ![k] = [role |-> r.role, roleSource |-> "postlexical",
                                            source |-> words[k].source,
                                            syllables |-> e.syllables]]
          /\ status' = status
    BY <1>1, <1>3, <1>5 DEF Weaken
  <2>2. PICK e \in FromBase(Norm(k), r.role) :
          /\ words' = [words EXCEPT ![k] = [role |-> r.role, roleSource |-> "postlexical",
                                            source |-> words[k].source,
                                            syllables |-> e.syllables]]
          /\ status' = status
    BY <2>1
  <2> DEFINE word == [role |-> r.role, roleSource |-> "postlexical",
                      source |-> words[k].source, syllables |-> e.syllables]
  <2>3. PICK x : x = word
    OBVIOUS
  <2>4. words' = [words EXCEPT ![k] = x]
    BY <2>2, <2>3, Zenon
  <2>5. x.source = words[k].source /\ x.syllables = e.syllables
    BY <2>3
  <2> HIDE DEF word
  <2>6. /\ Len(words') = Len(words) /\ words'[k] = x
        /\ \A i \in 1..Len(words) : i # k => words'[i] = words[i]
    BY <1>2, <2>4, WordChanged
  <2>7. words[k].source # "lts"
    BY <1>1 DEF Weaken, Eligible
  <2>8. ValidPronunciation(e.syllables)
    BY <1>2, ListedIsValid
  <2>9. Sound(k)'
    BY <2>5, <2>6, <2>7, <2>8 DEF Sound
  <2>10. \A i \in 1..Len(words) : i # k => Sound(i)'
    BY <2>6 DEF SoundInv, Sound
  <2> QED BY <2>2, <2>6, <2>9, <2>10 DEF SoundInv
<1> QED BY <1>4, <1>5

\* Only words of the letter-to-sound model can be refused by the serializer,
\* for all resources that load and all texts, and the refusals that the code
\* keeps for a broken stem or context are never met (resolution.cpp:631-640,
\* morphology.cpp:300-330, tokenization.cpp:655-696).
THEOREM OnlyGuessesEverRefused == Spec => []OnlyGuessesRefused
<1>1. Init => SoundInv
  BY EmptyTuple DEF Init, SoundInv, Never
<1>2. IInv /\ SoundInv /\ [Next]_vars => SoundInv'
  <2> SUFFICES ASSUME IInv, SoundInv, [Next]_vars PROVE SoundInv'
    OBVIOUS
  <2>1. CASE \E code : code \notin Never /\ Reject(code)
    BY <2>1, RejectSound
  <2>2. CASE UNCHANGED <<words, status>>
    BY <2>2, WordsSound
  <2>3. CASE Validate
    BY <2>1, <2>2, <2>3 DEF Validate, BindingStatus, Never
  <2>4. CASE LexicalFails \/ BadRole \/ RefuseKnown \/ RefuseSpelling \/ SerializeFails
    BY <2>1, <2>4 DEF LexicalFails, BadRole, RefuseKnown, RefuseSpelling, SerializeFails, Never
  <2>5. CASE WordsEnd \/ KeepStrong \/ WeakEnd
    BY <2>2, <2>5 DEF WordsEnd, KeepStrong, WeakEnd
  <2>6. CASE Serialize
    <3>1. CASE Reject("MODEL_TOKEN_INVALID_WORD")
      BY <2>1, <3>1 DEF Never
    <3>2. CASE ~ Reject("MODEL_TOKEN_INVALID_WORD")
      BY <2>6, <3>2 DEF Serialize, SoundInv, Sound, Never
    <3> QED BY <3>1, <3>2
  <2>7. CASE UNCHANGED vars
    BY <2>2, <2>7 DEF vars
  <2> QED BY <2>3, <2>4, <2>5, <2>6, <2>7, OverrideSound, LexiconSound, MorphologySound,
             LtsSound, WeakenSound DEF Next
<1>3. IInv /\ SoundInv => OnlyGuessesRefused
  BY TupleDomain DEF IInv, SoundInv, Sound, OnlyGuessesRefused, Never
<1> QED BY <1>1, <1>2, <1>3, Invariance, PTL DEF Spec

-----------------------------------------------------------------------------
(* The warnings.                                                           *)

\* Where s says that word i was defaulted.
Places(s, i) == {k \in DOMAIN s : s[k] = <<"HETERONYM_DEFAULTED", i>>}
Once(s, i)   == \E k \in DOMAIN s : Places(s, i) = {k}
Silent(s, i) == Places(s, i) = {}
InOrder(s)   == \A k \in 1..Len(s) - 1 : s[k][2] <= s[k + 1][2]

FirstPass == {"HETERONYM_DEFAULTED", "HETERONYM_RULE_AMBIGUOUS", "MORPHOLOGY_AMBIGUOUS"}
About(I)  == FirstPass \X I

Reported(i) == IF Forgone(i) THEN Once(diagnostics, i) ELSE Silent(diagnostics, i)
FirstTold   == /\ diagnostics \in Seq(About(1..Len(words))) /\ InOrder(diagnostics)
               /\ \A i \in 1..Len(words) : Reported(i)
WeakTold ==
  /\ weakDiagnostics \in Seq({"WEAK_FORM_RULE_AMBIGUOUS"} \X (cursor + 1..Size))
  /\ \A k \in 1..Len(weakDiagnostics) - 1 : weakDiagnostics[k][2] >= weakDiagnostics[k + 1][2]
\* What DiagnosticsTrue says of the order.
Sorted ==
  \A k \in 1..Len(diagnostics) - 1 :
    LET weak(n) == diagnostics[n][1] = "WEAK_FORM_RULE_AMBIGUOUS"
    IN  /\ weak(k) => weak(k + 1)
        /\ weak(k) <=> weak(k + 1) => diagnostics[k][2] <= diagnostics[k + 1][2]
DiagnosticsInv ==
  /\ pc \in {"validate", "words"} => weakDiagnostics = <<>>
  /\ pc = "validate" => diagnostics = <<>>
  /\ pc \in {"words", "weak"} => FirstTold
  /\ pc = "weak" => WeakTold
  /\ pc \in {"serialize", "done"} => Sorted /\ \A i \in 1..Len(words) : Reported(i)
\* Forgone, of a word that source would speak.
ConsultedBy(i, source) ==
  LET spelling == IF source = "morphology" THEN (CHOOSE c \in Stems(i) : TRUE).stem ELSE Norm(i)
      entries  == IF FromUser(spelling, Role(i)) # {} THEN user.entries ELSE base.entries
  IN  {e \in entries : \/ e.mode = "exact" /\ e.grapheme = spelling
                       \/ e.mode = "fold" /\ e.grapheme = Fold(spelling)}
RoleLost(i) ==
  Asked(i) /\ IsHeteronym(resources.heteronyms.rules, Norm(i)) /\ Cardinality(Contexts(i)) # 1
VariantLost(i, source) ==
  /\ source \notin {"override", "lts"} /\ Role(i) # "default"
  /\ \A e \in ConsultedBy(i, source) : Role(i) \notin e.roles

LEMMA ForgoneIs ==
  ASSUME NEW i
  PROVE  Forgone(i) <=> RoleLost(i) \/ VariantLost(i, words[i].source)
<1>1. Consulted(i) = ConsultedBy(i, words[i].source)
  BY DEF Consulted, ConsultedBy
<1> QED BY <1>1 DEF Forgone, RoleLost, VariantLost

LEMMA ForgoneNext ==
  ASSUME NEW i
  PROVE  Forgone(i)' <=> RoleLost(i)' \/ VariantLost(i, words[i].source)'
<1>1. Consulted(i)' = ConsultedBy(i, words[i].source)'
  BY DEF Consulted, ConsultedBy
<1> QED BY <1>1 DEF Forgone, RoleLost, VariantLost

LEMMA LostKept ==
  ASSUME UNCHANGED input, NEW i
  PROVE  /\ RoleLost(i)' <=> RoleLost(i)
         /\ \A source : VariantLost(i, source)' <=> VariantLost(i, source)
<1>1. text' = text /\ bundle' = bundle
  BY DEF input
<1>2. resources' = resources
  BY <1>1 DEF resources
<1>3. base' = base /\ user' = user
  BY <1>2 DEF base, user
<1>4. Norm(i)' = Norm(i) /\ Role(i)' = Role(i) /\ Clause(i)' = Clause(i)
  BY InputKept
<1>5. Spellings' = Spellings
  BY <1>1 DEF Spellings, Norm
<1>6. Asked(i)' = Asked(i)
  BY <1>1, <1>2 DEF Asked, Explicit, Spelled
<1>7. Contexts(i)' = Contexts(i)
  BY <1>2, <1>4, <1>5, <1>6 DEF Contexts
<1>8. RoleLost(i)' <=> RoleLost(i)
  BY <1>2, <1>4, <1>6, <1>7 DEF RoleLost
<1>9. \A word, role : FromUser(word, role)' = FromUser(word, role)
                      /\ Entry(word, role)' = Entry(word, role)
  BY <1>3 DEF FromUser, FromBase, Entry
<1>10. Stems(i)' = Stems(i)
  BY <1>2, <1>4, <1>9 DEF Stems
<1>11. ASSUME NEW source PROVE VariantLost(i, source)' <=> VariantLost(i, source)
  <2>1. ConsultedBy(i, source)' = ConsultedBy(i, source)
    BY <1>3, <1>4, <1>9, <1>10 DEF ConsultedBy
  <2> QED BY <1>4, <2>1 DEF VariantLost
<1> QED BY <1>8, <1>11

LEMMA PlacesOfConcat ==
  ASSUME NEW S, NEW s \in Seq(S), NEW t \in Seq(S), NEW i
  PROVE  /\ Silent(s, i) /\ Silent(t, i) => Silent(s \o t, i)
         /\ Once(s, i) /\ Silent(t, i) => Once(s \o t, i)
         /\ Silent(s, i) /\ Once(t, i) => Once(s \o t, i)
<1> DEFINE u == s \o t
           m == Len(s)
           n == Len(t)
<1>1. /\ m \in Nat /\ n \in Nat /\ DOMAIN s = 1..m /\ DOMAIN t = 1..n /\ DOMAIN u = 1..m + n
      /\ \A k \in 1..m + n : u[k] = IF k <= m THEN s[k] ELSE t[k - m]
  OBVIOUS
<1>2. \A k \in 1..m : k \in 1..m + n /\ u[k] = s[k]
  BY <1>1
<1>3. \A k \in 1..n : k + m \in 1..m + n /\ u[k + m] = t[k]
  BY <1>1
<1>4. \A k \in 1..m + n : k \in 1..m \/ (k - m \in 1..n /\ u[k] = t[k - m] /\ k = (k - m) + m)
  BY <1>1
<1> HIDE DEF u, m, n
<1>5. \A k \in Places(u, i) : k \in Places(s, i) \/ (k - m \in Places(t, i) /\ k = (k - m) + m)
  BY <1>1, <1>2, <1>4 DEF Places
<1>6. \A k \in Places(s, i) : k \in Places(u, i)
  BY <1>1, <1>2 DEF Places
<1>7. \A k \in Places(t, i) : k + m \in Places(u, i)
  BY <1>1, <1>3 DEF Places
<1>8. Silent(s, i) /\ Silent(t, i) => Silent(u, i)
  BY <1>5 DEF Silent
<1>9. Once(s, i) /\ Silent(t, i) => Once(u, i)
  <2> SUFFICES ASSUME NEW k, Places(s, i) = {k}, Silent(t, i) PROVE Places(u, i) = {k}
    BY DEF Once, Places
  <2> QED BY <1>5, <1>6 DEF Silent
<1>10. Silent(s, i) /\ Once(t, i) => Once(u, i)
  <2> SUFFICES ASSUME NEW k, Places(t, i) = {k}, Silent(s, i) PROVE Places(u, i) = {k + m}
    BY DEF Once, Places
  <2> QED BY <1>5, <1>7 DEF Silent
<1> QED BY <1>8, <1>9, <1>10 DEF u

LEMMA OrderOfConcat ==
  ASSUME NEW S, NEW s \in Seq(S), NEW t \in Seq(S), InOrder(s), InOrder(t),
         \A k \in DOMAIN s, l \in DOMAIN t : s[k][2] <= t[l][2]
  PROVE  InOrder(s \o t)
<1> DEFINE u == s \o t
           m == Len(s)
           n == Len(t)
<1>1. /\ m \in Nat /\ n \in Nat /\ DOMAIN s = 1..m /\ DOMAIN t = 1..n /\ Len(u) = m + n
      /\ \A k \in 1..m + n : u[k] = IF k <= m THEN s[k] ELSE t[k - m]
  OBVIOUS
<1> SUFFICES ASSUME NEW k \in 1..(m + n) - 1 PROVE u[k][2] <= u[k + 1][2]
  BY <1>1 DEF InOrder
<1> HIDE DEF u, m, n
<1>2. k \in 1..m + n /\ k + 1 \in 1..m + n
  BY <1>1
<1>3. CASE k + 1 <= m
  <2>1. k \in 1..m - 1 /\ u[k] = s[k] /\ u[k + 1] = s[k + 1]
    BY <1>1, <1>2, <1>3
  <2> QED BY <2>1 DEF InOrder, m
<1>4. CASE k = m
  <2>1. k \in 1..m /\ 1 \in 1..n /\ u[k] = s[k] /\ u[k + 1] = t[1]
    BY <1>1, <1>2, <1>4
  <2> QED BY <1>1, <2>1
<1>5. CASE k > m
  <2>1. /\ k - m \in 1..n - 1 /\ u[k] = t[k - m]
        /\ u[k + 1] = t[(k - m) + 1]
    BY <1>1, <1>2, <1>5
  <2> QED BY <2>1 DEF InOrder, n
<1> QED BY <1>1, <1>2, <1>3, <1>4, <1>5

\* Warnings about word k are added to those about the words before it.
LEMMA WordTold ==
  ASSUME NEW k \in Nat \ {0}, NEW d \in Seq(About(1..k - 1)), InOrder(d),
         NEW r \in Seq(About({k})), NEW m \in Seq(About({k}))
  PROVE  LET s == (d \o r) \o m
         IN  /\ s \in Seq(About(1..k)) /\ InOrder(s)
             /\ \A i \in 1..k - 1 : /\ Once(d, i) => Once(s, i)
                                    /\ Silent(d, i) => Silent(s, i)
             /\ Once(r, k) /\ Silent(m, k) => Once(s, k)
             /\ Silent(r, k) /\ Once(m, k) => Once(s, k)
             /\ Silent(r, k) /\ Silent(m, k) => Silent(s, k)
<1> DEFINE A == About(1..k)
<1>1. About(1..k - 1) \subseteq A /\ About({k}) \subseteq A
  BY DEF About
<1>2. d \in Seq(A) /\ r \in Seq(A) /\ m \in Seq(A)
  BY <1>1, SeqMonotonic
<1>3. /\ \A j \in DOMAIN d : d[j] \in About(1..k - 1)
      /\ \A j \in DOMAIN r : r[j] \in About({k})
      /\ \A j \in DOMAIN m : m[j] \in About({k})
  BY LenProperties
<1>4. /\ \A j \in DOMAIN d : d[j][2] \in 1..k - 1
      /\ \A j \in DOMAIN r : r[j][2] = k
      /\ \A j \in DOMAIN m : m[j][2] = k
  BY <1>3 DEF About
<1>5. \A i \in 1..k - 1 : Silent(r, i) /\ Silent(m, i)
  <2> SUFFICES ASSUME NEW i \in 1..k - 1 PROVE Silent(r, i) /\ Silent(m, i)
    OBVIOUS
  <2>1. i # k /\ <<"HETERONYM_DEFAULTED", i>>[2] = i
    OBVIOUS
  <2> QED BY <1>4, <2>1 DEF Silent, Places
<1>6. Silent(d, k)
  <2>1. k \notin 1..k - 1 /\ <<"HETERONYM_DEFAULTED", k>>[2] = k
    OBVIOUS
  <2> QED BY <1>4, <2>1 DEF Silent, Places
<1>7. InOrder(r) /\ InOrder(m)
  <2>1. \A j \in 1..Len(r) - 1 : j \in DOMAIN r /\ j + 1 \in DOMAIN r
    OBVIOUS
  <2>2. \A j \in 1..Len(m) - 1 : j \in DOMAIN m /\ j + 1 \in DOMAIN m
    OBVIOUS
  <2> QED BY <1>4, <2>1, <2>2 DEF InOrder
<1> HIDE DEF A
<1>8. d \o r \in Seq(A) /\ InOrder(d \o r)
  <2>1. \A j \in DOMAIN d, l \in DOMAIN r : d[j][2] <= r[l][2]
    BY <1>4
  <2> QED BY <1>2, <1>7, <2>1, OrderOfConcat, ConcatProperties
<1> DEFINE e == d \o r
           s == e \o m
<1>9. \A j \in DOMAIN e : e[j][2] <= k
  <2>1. /\ Len(d) \in Nat /\ Len(r) \in Nat /\ DOMAIN d = 1..Len(d) /\ DOMAIN r = 1..Len(r)
        /\ DOMAIN e = 1..Len(d) + Len(r)
        /\ \A j \in 1..Len(d) + Len(r) : e[j] = IF j <= Len(d) THEN d[j] ELSE r[j - Len(d)]
    BY <1>2
  <2> HIDE DEF e
  <2> SUFFICES ASSUME NEW j \in 1..Len(d) + Len(r) PROVE e[j][2] <= k
    BY <2>1
  <2>2. CASE j <= Len(d)
    <3>1. j \in DOMAIN d /\ e[j] = d[j]
      BY <2>1, <2>2
    <3> QED BY <1>4, <3>1
  <2>3. CASE ~ j <= Len(d)
    <3>1. j - Len(d) \in DOMAIN r /\ e[j] = r[j - Len(d)]
      BY <2>1, <2>3
    <3> QED BY <1>4, <3>1
  <2> QED BY <2>2, <2>3
<1>10. s \in Seq(A) /\ InOrder(s)
  <2> HIDE DEF e
  <2>1. \A j \in DOMAIN e, l \in DOMAIN m : e[j][2] <= m[l][2]
    BY <1>4, <1>9
  <2>2. e \in Seq(A) /\ InOrder(e)
    BY <1>8 DEF e
  <2> QED BY <1>2, <1>7, <2>1, <2>2, OrderOfConcat, ConcatProperties
<1>11. ASSUME NEW i
       PROVE  /\ Silent(d, i) /\ Silent(r, i) => Silent(e, i)
              /\ Once(d, i) /\ Silent(r, i) => Once(e, i)
              /\ Silent(d, i) /\ Once(r, i) => Once(e, i)
  BY <1>2, PlacesOfConcat
<1>12. ASSUME NEW i
       PROVE  /\ Silent(e, i) /\ Silent(m, i) => Silent(s, i)
              /\ Once(e, i) /\ Silent(m, i) => Once(s, i)
              /\ Silent(e, i) /\ Once(m, i) => Once(s, i)
  <2> HIDE DEF e
  <2>1. e \in Seq(A)
    BY <1>8 DEF e
  <2> QED BY <1>2, <2>1, PlacesOfConcat
<1> HIDE DEF e, s
<1>13. /\ s \in Seq(A) /\ InOrder(s)
       /\ \A i \in 1..k - 1 : /\ Once(d, i) => Once(s, i)
                              /\ Silent(d, i) => Silent(s, i)
       /\ Once(r, k) /\ Silent(m, k) => Once(s, k)
       /\ Silent(r, k) /\ Once(m, k) => Once(s, k)
       /\ Silent(r, k) /\ Silent(m, k) => Silent(s, k)
  BY <1>5, <1>6, <1>10, <1>11, <1>12
<1> QED BY <1>13 DEF s, e, A

LEMMA RoleTold ==
  ASSUME NEW k
  PROVE  /\ RoleDiagnostics(k) \in Seq(About({k}))
         /\ IF RoleLost(k) THEN Once(RoleDiagnostics(k), k) ELSE Silent(RoleDiagnostics(k), k)
         /\ RoleLost(k) => Role(k) = "default" /\ ~ Spelled(k)
<1> DEFINE x == <<"HETERONYM_DEFAULTED", k>>
           y == <<"HETERONYM_RULE_AMBIGUOUS", k>>
<1>1. /\ <<>> \in Seq(About({k})) /\ <<x>> \in Seq(About({k})) /\ <<y, x>> \in Seq(About({k}))
  <2>1. x \in About({k}) /\ y \in About({k})
    BY DEF About, FirstPass
  <2> HIDE DEF x, y
  <2> QED BY <2>1
<1>2. x # y
  OBVIOUS
<1>3. Silent(<<>>, k) /\ Once(<<x>>, k) /\ Once(<<y, x>>, k)
  <2>1. Places(<<>>, k) = {}
    BY DEF Places
  <2>2. DOMAIN <<x>> = 1..1 /\ <<x>>[1] = x /\ DOMAIN <<y, x>> = 1..2 /\ <<y, x>>[1] = y
        /\ <<y, x>>[2] = x
    OBVIOUS
  <2>3. Places(<<x>>, k) = {1} /\ Places(<<y, x>>, k) = {2}
    <3> HIDE DEF y
    <3> QED BY <1>2, <2>2 DEF Places
  <2> QED BY <2>1, <2>2, <2>3 DEF Silent, Once
<1>4. RoleLost(k) => Role(k) = "default" /\ ~ Spelled(k)
  BY DEF RoleLost, Asked, Role
<1>5. CASE ~ RoleLost(k)
  <2>1. RoleDiagnostics(k) = <<>>
    BY <1>5 DEF RoleLost, RoleDiagnostics
  <2> QED BY <1>1, <1>3, <1>5, <2>1
<1>6. CASE RoleLost(k)
  <2>1. RoleDiagnostics(k) \in {<<x>>, <<y, x>>}
    BY <1>6 DEF RoleLost, RoleDiagnostics
  <2> HIDE DEF x, y
  <2> QED BY <1>1, <1>3, <1>4, <1>6, <2>1
<1> QED BY <1>4, <1>5, <1>6

\* A variant that was wanted and not found is what a lexicon's layer reports.
LEMMA VariantTold ==
  ASSUME NEW k, k = cursor, NEW role, NEW e
  PROVE  /\ IfUnmet(role, e) \in Seq(About({k}))
         /\ IF Unmet(role, e) THEN Once(IfUnmet(role, e), k) ELSE Silent(IfUnmet(role, e), k)
<1> DEFINE x == <<"HETERONYM_DEFAULTED", k>>
<1>1. x \in About({k})
  BY DEF About, FirstPass
<1>2. Once(<<x>>, k) /\ <<x>> \in Seq(About({k}))
  <2>1. DOMAIN <<x>> = {1} /\ <<x>>[1] = x
    OBVIOUS
  <2>2. Places(<<x>>, k) = {1}
    BY <2>1 DEF Places
  <2> QED BY <1>1, <2>1, <2>2 DEF Once
<1>3. Silent(<<>>, k) /\ <<>> \in Seq(About({k}))
  BY DEF Silent, Places
<1> QED BY <1>2, <1>3 DEF IfUnmet

LEMMA UnmetIsLost ==
  ASSUME NEW word, NEW role, NEW e \in Entry(word, role)
  PROVE  LET entries == IF FromUser(word, role) # {} THEN user.entries ELSE base.entries
             asked   == {d \in entries : \/ d.mode = "exact" /\ d.grapheme = word
                                         \/ d.mode = "fold" /\ d.grapheme = Fold(word)}
         IN  role \notin e.roles <=> \A d \in asked : role \notin d.roles
<1> DEFINE entries == IF FromUser(word, role) # {} THEN user.entries ELSE base.entries
           asked   == {d \in entries : \/ d.mode = "exact" /\ d.grapheme = word
                                       \/ d.mode = "fold" /\ d.grapheme = Fold(word)}
<1>1. e \in Find(entries, word, role)
  BY DEF Entry, FromUser, FromBase
<1> HIDE DEF entries
<1>2. e \in entries
  BY <1>1, FoundIn
<1>3. e \in asked
  BY <1>1, <1>2, Found DEF Keyed
<1>4. role \notin e.roles => /\ Keyed(entries, "exact", word, role) = {}
                             /\ Keyed(entries, "fold", Fold(word), role) = {}
  BY <1>1, Found DEF Keyed
<1>5. role \notin e.roles => \A d \in asked : role \notin d.roles
  BY <1>4 DEF Keyed
<1> QED BY <1>3, <1>5 DEF entries

\* The next word has its warnings, those of its role and of its layer.
LEMMA ResolvedTold ==
  ASSUME IInv, DiagnosticsInv, Resolving, NEW k, k = cursor,
         NEW source, NEW syllables, NEW more, Resolved(source, syllables, more),
         more \in Seq(About({k})),
         IF VariantLost(k, source) THEN Once(more, k) ELSE Silent(more, k)
  PROVE  DiagnosticsInv'
<1>1. /\ pc = "words" /\ pc' = "words" /\ k \in Nat \ {0} /\ Len(words) = k - 1 /\ Tuple(words)
      /\ UNCHANGED <<input, weakDiagnostics>>
  BY DEF Resolving, Resolved, IInv, InputOK
<1>2. /\ Len(words') = k /\ words'[k].source = source
      /\ \A i \in 1..k - 1 : words'[i] = words[i]
  <2> DEFINE word == [role |-> Role(k), roleSource |-> RoleSource(k),
                      source |-> source, syllables |-> syllables]
  <2>1. words' = Append(words, word) /\ word.source = source
    BY DEF Resolved
  <2> HIDE DEF word
  <2> QED BY <1>1, <2>1, TupleAppend
<1>3. diagnostics \in Seq(About(1..k - 1)) /\ InOrder(diagnostics)
      /\ \A i \in 1..k - 1 : Reported(i)
  BY <1>1 DEF DiagnosticsInv, FirstTold
<1>4. diagnostics' = (diagnostics \o RoleDiagnostics(k)) \o more
  BY DEF Resolved
<1>5. /\ diagnostics' \in Seq(About(1..k)) /\ InOrder(diagnostics')
      /\ \A i \in 1..k - 1 : /\ Once(diagnostics, i) => Once(diagnostics', i)
                             /\ Silent(diagnostics, i) => Silent(diagnostics', i)
      /\ Once(RoleDiagnostics(k), k) /\ Silent(more, k) => Once(diagnostics', k)
      /\ Silent(RoleDiagnostics(k), k) /\ Once(more, k) => Once(diagnostics', k)
      /\ Silent(RoleDiagnostics(k), k) /\ Silent(more, k) => Silent(diagnostics', k)
  BY <1>1, <1>3, <1>4, RoleTold, WordTold
<1>6. \A i \in 1..k - 1 : Reported(i)'
  <2> SUFFICES ASSUME NEW i \in 1..k - 1 PROVE Reported(i)'
    OBVIOUS
  <2>1. Forgone(i)' <=> Forgone(i)
    <3>1. words'[i].source = words[i].source
      BY <1>2
    <3>2. Forgone(i) <=> RoleLost(i) \/ VariantLost(i, words[i].source)
      BY ForgoneIs
    <3>3. Forgone(i)' <=> RoleLost(i)' \/ VariantLost(i, words[i].source)'
      BY ForgoneNext
    <3> QED BY <1>1, <3>1, <3>2, <3>3, LostKept
  <2> QED BY <1>3, <1>5, <2>1 DEF Reported
<1>7. Reported(k)'
  <2>1. Forgone(k)' <=> RoleLost(k) \/ VariantLost(k, source)
    <3>1. Forgone(k)' <=> RoleLost(k)' \/ VariantLost(k, words[k].source)'
      BY ForgoneNext
    <3> QED BY <1>1, <1>2, <3>1, LostKept
  <2>2. RoleLost(k) => ~ VariantLost(k, source)
    BY RoleTold DEF VariantLost
  <2>3. IF RoleLost(k) THEN Once(RoleDiagnostics(k), k) ELSE Silent(RoleDiagnostics(k), k)
    BY RoleTold
  <2> QED BY <1>5, <2>1, <2>2, <2>3 DEF Reported
<1> QED BY <1>1, <1>2, <1>5, <1>6, <1>7 DEF DiagnosticsInv, FirstTold

\* Nothing is kept of a text that is refused.
LEMMA RejectTold == ASSUME NEW code, Reject(code) PROVE DiagnosticsInv'
BY DEF Reject, DiagnosticsInv

LEMMA SilentLayer ==
  ASSUME NEW k
  PROVE  /\ <<>> \in Seq(About({k})) /\ Silent(<<>>, k)
         /\ LET m == << <<"MORPHOLOGY_AMBIGUOUS", k>> >>
            IN  m \in Seq(About({k})) /\ Silent(m, k)
<1>1. <<"MORPHOLOGY_AMBIGUOUS", k>> \in About({k})
  BY DEF About, FirstPass
<1> QED BY <1>1 DEF Silent, Places

LEMMA OverrideTold == ASSUME IInv, DiagnosticsInv, ByOverride PROVE DiagnosticsInv'
<1>1. PICK k : k = cursor
  OBVIOUS
<1>2. ~ VariantLost(k, "override")
  BY DEF VariantLost
<1> QED BY <1>1, <1>2, SilentLayer, ResolvedTold DEF ByOverride

LEMMA LexiconTold == ASSUME IInv, DiagnosticsInv, ByLexicon PROVE DiagnosticsInv'
<1>1. PICK k : k = cursor
  OBVIOUS
<1>2. PICK e \in Entry(Norm(k), Role(k)) :
        Resolved(LexiconSource(k), e.syllables, IfUnmet(Role(k), e))
  BY <1>1 DEF ByLexicon
<1>3. LexiconSource(k) \in {"user", "spelling", "product", "base"}
  BY DEF LexiconSource
<1>4. VariantLost(k, LexiconSource(k)) <=> Unmet(Role(k), e)
  <2>1. ConsultedBy(k, LexiconSource(k)) =
          {d \in IF FromUser(Norm(k), Role(k)) # {} THEN user.entries ELSE base.entries :
             \/ d.mode = "exact" /\ d.grapheme = Norm(k)
             \/ d.mode = "fold" /\ d.grapheme = Fold(Norm(k))}
    BY <1>3 DEF ConsultedBy
  <2>2. Role(k) \notin e.roles
          <=> \A d \in ConsultedBy(k, LexiconSource(k)) : Role(k) \notin d.roles
    BY <1>2, <2>1, UnmetIsLost
  <2> QED BY <1>3, <2>2 DEF VariantLost, Unmet
<1>5. Resolving
  BY DEF ByLexicon
<1> QED BY <1>1, <1>2, <1>4, <1>5, VariantTold, ResolvedTold

LEMMA MorphologyTold == ASSUME IInv, DiagnosticsInv, ByMorphology PROVE DiagnosticsInv'
<1>1. PICK k : k = cursor
  OBVIOUS
<1>2. CASE \E code : Reject(code)
  BY <1>2, RejectTold
<1>3. CASE ~ \E code : Reject(code)
  <2>1. PICK c \in Stems(k) : \E e \in Entry(c.stem, Role(k)) :
          \E syllables : Resolved("morphology", syllables, IfUnmet(Role(k), e))
    BY <1>1, <1>3 DEF ByMorphology
  <2>2. PICK e \in Entry(c.stem, Role(k)) :
          \E syllables : Resolved("morphology", syllables, IfUnmet(Role(k), e))
    BY <2>1
  <2>3. PICK syllables : Resolved("morphology", syllables, IfUnmet(Role(k), e))
    BY <2>2
  <2>4. Stems(k) = {c}
    <3>1. Stems(k) \subseteq Candidates(Norm(k))
      BY DEF Stems
    <3>2. IsFiniteSet(Stems(k))
      BY <3>1, CandidatesAreFew, FS_Subset
    <3>3. Cardinality(Stems(k)) = 1
      BY <1>1 DEF ByMorphology
    <3> QED BY <3>2, <3>3, FS_Singleton
  <2>5. (CHOOSE d \in Stems(k) : TRUE) = c
    BY <2>4
  <2>6. ConsultedBy(k, "morphology") =
          {d \in IF FromUser(c.stem, Role(k)) # {} THEN user.entries ELSE base.entries :
             \/ d.mode = "exact" /\ d.grapheme = c.stem
             \/ d.mode = "fold" /\ d.grapheme = Fold(c.stem)}
    BY <2>5 DEF ConsultedBy
  <2>7. Role(k) \notin e.roles
          <=> \A d \in ConsultedBy(k, "morphology") : Role(k) \notin d.roles
    BY <2>6, UnmetIsLost
  <2>8. VariantLost(k, "morphology") <=> Unmet(Role(k), e)
    BY <2>7 DEF VariantLost, Unmet
  <2>9. Resolving
    BY DEF ByMorphology, Guessing, Unlisted
  <2> QED BY <1>1, <2>3, <2>8, <2>9, VariantTold, ResolvedTold
<1> QED BY <1>2, <1>3

LEMMA LtsTold == ASSUME IInv, DiagnosticsInv, ByLts PROVE DiagnosticsInv'
<1>1. PICK k : k = cursor
  OBVIOUS
<1>2. CASE \E code : Reject(code)
  BY <1>2, RejectTold
<1>3. CASE ~ \E code : Reject(code)
  <2>1. PICK syllables, more : /\ Resolved("lts", syllables, more)
                               /\ more \in {<<>>, << <<"MORPHOLOGY_AMBIGUOUS", k>> >>}
    BY <1>1, <1>3 DEF ByLts
  <2>2. more \in Seq(About({k})) /\ Silent(more, k)
    BY <2>1, SilentLayer
  <2>3. ~ VariantLost(k, "lts")
    BY DEF VariantLost
  <2>4. Resolving
    BY DEF ByLts, Guessing, Unlisted
  <2> QED BY <1>1, <2>1, <2>2, <2>3, <2>4, ResolvedTold
<1> QED BY <1>2, <1>3

\* Every word is reported as it was, as long as its source is.
LEMMA ReportedKept ==
  ASSUME UNCHANGED <<input, diagnostics>>, NEW i, words'[i].source = words[i].source
  PROVE  Reported(i)' <=> Reported(i)
<1>1. Forgone(i) <=> RoleLost(i) \/ VariantLost(i, words[i].source)
  BY ForgoneIs
<1>2. Forgone(i)' <=> RoleLost(i)' \/ VariantLost(i, words[i].source)'
  BY ForgoneNext
<1>3. Forgone(i)' <=> Forgone(i)
  BY <1>1, <1>2, LostKept
<1> QED BY <1>3 DEF Reported

\* The warnings of the first pass are sorted by themselves.
LEMMA FirstSorted ==
  ASSUME NEW n, diagnostics \in Seq(About(1..n)), InOrder(diagnostics)
  PROVE  Sorted
<1>1. \A k \in 1..Len(diagnostics) - 1 : k \in DOMAIN diagnostics /\ k + 1 \in DOMAIN diagnostics
  OBVIOUS
<1>2. \A k \in DOMAIN diagnostics : diagnostics[k][1] # "WEAK_FORM_RULE_AMBIGUOUS"
  <2>1. \A k \in DOMAIN diagnostics : diagnostics[k] \in About(1..n)
    BY LenProperties
  <2> QED BY <2>1 DEF About, FirstPass
<1> QED BY <1>1, <1>2 DEF InOrder, Sorted

LEMMA WordsEndTold == ASSUME IInv, DiagnosticsInv, WordsEnd PROVE DiagnosticsInv'
<1>1. /\ pc = "words" /\ pc' \in {"weak", "serialize"} /\ cursor' = Size
      /\ UNCHANGED <<input, words, diagnostics, weakDiagnostics>>
  BY DEF WordsEnd, Size
<1>2. weakDiagnostics = <<>> /\ FirstTold
  BY <1>1 DEF DiagnosticsInv
<1>3. \A i \in 1..Len(words) : Reported(i)'
  BY <1>1, <1>2, ReportedKept DEF FirstTold
<1>4. FirstTold'
  BY <1>1, <1>2, <1>3 DEF FirstTold
<1>5. Sorted'
  <2>1. Sorted
    BY <1>2, FirstSorted DEF FirstTold
  <2> QED BY <1>1, <2>1 DEF Sorted
<1>6. WeakTold'
  BY <1>1, <1>2, EmptyTuple DEF WeakTold
<1> QED BY <1>1, <1>3, <1>4, <1>5, <1>6 DEF DiagnosticsInv
\* A step of the second pass leaves the sources and warns of its word at most.
LEMMA WeakStepTold ==
  ASSUME IInv, DiagnosticsInv, pc = "weak", pc' = "weak", NEW k, k = cursor, k # 0,
         cursor' = k - 1, UNCHANGED <<input, diagnostics>>, Len(words') = Len(words),
         \A i \in 1..Len(words) : words'[i].source = words[i].source,
         weakDiagnostics' \in
           {weakDiagnostics, Append(weakDiagnostics, <<"WEAK_FORM_RULE_AMBIGUOUS", k>>)}
  PROVE  DiagnosticsInv'
<1> DEFINE x    == <<"WEAK_FORM_RULE_AMBIGUOUS", k>>
           W(n) == {"WEAK_FORM_RULE_AMBIGUOUS"} \X (n..Size)
           old  == weakDiagnostics
           new  == weakDiagnostics'
           Falls(s) == \A l \in 1..Len(s) - 1 : s[l][2] >= s[l + 1][2]
<1>1. FirstTold /\ WeakTold /\ k \in 1..Size /\ Size \in Nat /\ Size' = Size
  BY InputKept DEF DiagnosticsInv, IInv, InputOK
<1>2. (\A i \in 1..Len(words) : Reported(i))'
  BY <1>1, ReportedKept DEF FirstTold
<1>3. FirstTold'
  BY <1>1, <1>2 DEF FirstTold
<1>4. old \in Seq(W(k + 1)) /\ Falls(old)
  BY <1>1 DEF WeakTold
<1>5. W(k + 1) \subseteq W(k) /\ x \in W(k)
  BY <1>1
<1>6. old \in Seq(W(k)) /\ Append(old, x) \in Seq(W(k))
  <2> HIDE DEF x, W
  <2>1. old \in Seq(W(k))
    BY <1>4, <1>5, SeqMonotonic
  <2> QED BY <1>5, <2>1, AppendProperties
<1>7. Falls(Append(old, x))
  <2> DEFINE n == Len(old)
             s == Append(old, x)
  <2>1. /\ n \in Nat /\ Len(s) = n + 1 /\ s[n + 1] = x
        /\ \A l \in 1..n : s[l] = old[l] /\ old[l] \in W(k + 1)
    BY <1>4
  <2>2. x[2] = k /\ \A l \in 1..n : old[l][2] >= k
    BY <1>1, <2>1
  <2> HIDE DEF n, s, x
  <2> SUFFICES ASSUME NEW l \in 1..n PROVE s[l][2] >= s[l + 1][2]
    BY <2>1 DEF s
  <2>3. CASE l = n
    BY <2>1, <2>2, <2>3
  <2>4. CASE l # n
    <3>1. l \in 1..n - 1 /\ l + 1 \in 1..n
      BY <2>1, <2>4
    <3>2. old[l][2] >= old[l + 1][2]
      BY <1>4, <3>1 DEF n
    <3> QED BY <2>1, <3>1, <3>2
  <2> QED BY <2>3, <2>4
<1>8. new \in Seq(W(k)) /\ Falls(new)
  <2>1. new \in {old, Append(old, x)}
    OBVIOUS
  <2> HIDE DEF new, old, x, W, Falls
  <2> QED BY <1>4, <1>6, <1>7, <2>1
<1>9. WeakTold'
  <2>1. (k - 1) + 1 = k
    BY <1>1
  <2> QED BY <1>1, <1>8, <2>1 DEF WeakTold
<1> QED BY <1>3, <1>9 DEF DiagnosticsInv

LEMMA KeepStrongTold == ASSUME IInv, DiagnosticsInv, KeepStrong PROVE DiagnosticsInv'
<1>1. PICK k : k = cursor
  OBVIOUS
<1>2. /\ pc = "weak" /\ pc' = "weak" /\ k # 0 /\ cursor' = k - 1
      /\ UNCHANGED <<input, diagnostics, words>>
      /\ weakDiagnostics' \in
           {weakDiagnostics, Append(weakDiagnostics, <<"WEAK_FORM_RULE_AMBIGUOUS", k>>)}
  BY <1>1 DEF KeepStrong, Weakening, IInv
<1> QED BY <1>1, <1>2, WeakStepTold

LEMMA WeakenTold == ASSUME IInv, DiagnosticsInv, Weaken PROVE DiagnosticsInv'
<1>1. CASE \E code : Reject(code)
  BY <1>1, RejectTold
<1>2. CASE ~ \E code : Reject(code)
  <2>1. PICK k : k = cursor
    OBVIOUS
  <2>2. /\ pc = "weak" /\ k # 0 /\ k \in 1..Len(words) /\ Tuple(words)
    BY <2>1 DEF IInv, Weaken, Weakening, InputOK
  <2>3. PICK role, syllables :
          /\ words' = [words EXCEPT ![k] = [role |-> role, roleSource |-> "postlexical",
                                            source |-> words[k].source,
                                            syllables |-> syllables]]
          /\ cursor' = k - 1 /\ pc' = "weak"
          /\ UNCHANGED <<input, diagnostics, weakDiagnostics>>
    BY <1>2, <2>1, <2>2 DEF Weaken
  <2> DEFINE word == [role |-> role, roleSource |-> "postlexical",
                      source |-> words[k].source, syllables |-> syllables]
  <2>4. /\ Len(words') = Len(words)
        /\ \A i \in 1..Len(words) : words'[i].source = words[i].source
    <3>1. PICK x : x = word
      OBVIOUS
    <3>2. x.source = words[k].source
      BY <3>1
    <3>3. words' = [words EXCEPT ![k] = x]
      BY <2>3, <3>1, Zenon
    <3> HIDE DEF word
    <3> QED BY <2>2, <3>2, <3>3, WordChanged
  <2> QED BY <2>1, <2>2, <2>3, <2>4, WeakStepTold
<1> QED BY <1>1, <1>2

\* The warnings of the weak forms follow those of the first pass, in word order.
LEMMA WeakEndTold == ASSUME IInv, DiagnosticsInv, WeakEnd PROVE DiagnosticsInv'
<1> DEFINE d == diagnostics
           w == weakDiagnostics
           b == Backwards(w)
           m == Len(d)
           n == Len(w)
           F == About(1..Len(words))
           W == {"WEAK_FORM_RULE_AMBIGUOUS"} \X (1..Size)
<1>1. /\ pc = "weak" /\ cursor = 0 /\ pc' = "serialize" /\ diagnostics' = d \o b
      /\ UNCHANGED <<input, words>> /\ FirstTold /\ WeakTold /\ Size \in Nat
  BY DEF WeakEnd, DiagnosticsInv, IInv, InputOK
<1>2. /\ d \in Seq(F) /\ m \in Nat /\ DOMAIN d = 1..m /\ InOrder(d)
      /\ \A i \in 1..Len(words) : Reported(i)
  BY <1>1 DEF FirstTold
<1>3. /\ w \in Seq(W) /\ n \in Nat /\ DOMAIN w = 1..n
      /\ \A k \in 1..n - 1 : w[k][2] >= w[k + 1][2]
  BY <1>1 DEF WeakTold
<1>4. /\ b \in Seq(W) /\ Len(b) = n /\ DOMAIN b = 1..n
      /\ \A k \in 1..n : b[k] = w[(n + 1) - k] /\ b[k] \in W
  <2>1. \A k \in 1..n : (n + 1) - k \in 1..n
    BY <1>3
  <2>2. b = [k \in 1..n |-> w[(n + 1) - k]]
    BY <1>3 DEF Backwards
  <2> HIDE DEF b, W, n
  <2>3. \A k \in 1..n : w[(n + 1) - k] \in W
    BY <1>3, <2>1 DEF n
  <2> QED BY <1>3, <2>2, <2>3
<1>5. \A k \in 1..m : d[k] \in F
  BY <1>2
<1>6. /\ \A k \in 1..m : d[k][1] # "WEAK_FORM_RULE_AMBIGUOUS"
      /\ \A k \in 1..n : b[k][1] = "WEAK_FORM_RULE_AMBIGUOUS"
  <2>1. \A k \in 1..n : b[k] \in W
    BY <1>4
  <2> HIDE DEF b, m, n
  <2> QED BY <1>5, <2>1 DEF About, FirstPass
<1>7. \A k \in 1..n - 1 : b[k][2] <= b[k + 1][2]
  <2> SUFFICES ASSUME NEW k \in 1..n - 1 PROVE b[k][2] <= b[k + 1][2]
    OBVIOUS
  <2>1. PICK l : l = n - k
    OBVIOUS
  <2> HIDE DEF b, n
  <2>2. /\ l \in 1..n - 1 /\ (n + 1) - k = l + 1 /\ (n + 1) - (k + 1) = l
        /\ k \in 1..n /\ k + 1 \in 1..n
    BY <1>3, <2>1
  <2>3. b[k] = w[l + 1] /\ b[k + 1] = w[l] /\ w[l][2] >= w[l + 1][2]
    BY <1>3, <1>4, <2>2
  <2>4. w[l] \in W /\ w[l + 1] \in W
    BY <1>4, <2>2, <2>3
  <2>5. w[l][2] \in Int /\ w[l + 1][2] \in Int
    BY <1>1, <2>4
  <2> QED BY <2>3, <2>5
<1>8. Sorted'
  <2> DEFINE u == d \o b
  <2>1. /\ Len(u) = m + n
        /\ \A k \in 1..m + n : u[k] = IF k <= m THEN d[k] ELSE b[k - m]
    <3>1. d \in Seq(F) /\ b \in Seq(W) /\ Len(b) = n
      BY <1>2, <1>4
    <3> HIDE DEF d, b, F, W, n
    <3> QED BY <3>1
  <2> SUFFICES ASSUME NEW k \in 1..(m + n) - 1
               PROVE  LET weak(l) == u[l][1] = "WEAK_FORM_RULE_AMBIGUOUS"
                      IN  /\ weak(k) => weak(k + 1)
                          /\ weak(k) <=> weak(k + 1) => u[k][2] <= u[k + 1][2]
    BY <1>1, <2>1 DEF Sorted
  <2> HIDE DEF u, b, d, m, n, w
  <2>2. k \in 1..m + n /\ k + 1 \in 1..m + n
    BY <1>2, <1>3
  <2>3. CASE k + 1 <= m
    <3>1. k \in 1..m /\ k + 1 \in 1..m /\ u[k] = d[k] /\ u[k + 1] = d[k + 1]
      BY <1>2, <1>3, <2>1, <2>2, <2>3
    <3>2. k \in 1..m - 1
      BY <1>2, <2>3
    <3>3. d[k][2] <= d[k + 1][2]
      BY <1>2, <3>2 DEF InOrder, m
    <3> QED BY <1>6, <3>1, <3>3
  <2>4. CASE k = m
    <3>1. k \in 1..m /\ 1 \in 1..n /\ u[k] = d[k] /\ u[k + 1] = b[1]
      BY <1>2, <1>3, <2>1, <2>2, <2>4
    <3> QED BY <1>6, <3>1
  <2>5. CASE k > m
    <3>1. PICK l : l = k - m
      OBVIOUS
    <3>2. /\ l \in 1..n - 1 /\ l \in 1..n /\ l + 1 \in 1..n
          /\ u[k] = b[l] /\ u[k + 1] = b[l + 1]
      BY <1>2, <1>3, <2>1, <2>2, <2>5, <3>1
    <3> QED BY <1>6, <1>7, <3>2
  <2> QED BY <1>2, <1>3, <2>2, <2>3, <2>4, <2>5
<1>9. \A i : Silent(b, i)
  <2>1. \A i : <<"HETERONYM_DEFAULTED", i>>[1] # "WEAK_FORM_RULE_AMBIGUOUS"
    OBVIOUS
  <2>2. \A k \in DOMAIN b : b[k][1] = "WEAK_FORM_RULE_AMBIGUOUS"
    BY <1>4, <1>6
  <2> HIDE DEF b
  <2> QED BY <2>1, <2>2 DEF Silent, Places
<1>10. \A i : /\ Silent(d, i) => Silent(d \o b, i)
              /\ Once(d, i) => Once(d \o b, i)
  <2>1. PICK S : S = F \cup W
    OBVIOUS
  <2> HIDE DEF d, b, F, W
  <2>2. d \in Seq(S) /\ b \in Seq(S)
    BY <1>2, <1>4, <2>1, SeqMonotonic
  <2> QED BY <1>9, <2>2, PlacesOfConcat
<1>11. (\A i \in 1..Len(words) : Reported(i))'
  <2> SUFFICES ASSUME NEW i \in 1..Len(words) PROVE Reported(i)'
    BY <1>1
  <2>1. Forgone(i)' <=> Forgone(i)
    BY <1>1, ForgoneIs, ForgoneNext, LostKept
  <2> QED BY <1>1, <1>2, <1>10, <2>1 DEF Reported
<1> QED BY <1>1, <1>8, <1>11 DEF DiagnosticsInv

\* The warnings of a text that is done are those of its words.
LEMMA ToldKept ==
  ASSUME UNCHANGED <<input, words, diagnostics>>, pc \in {"serialize", "done"},
         pc' \in {"serialize", "done"}, DiagnosticsInv
  PROVE  DiagnosticsInv'
<1>1. Sorted /\ \A i \in 1..Len(words) : Reported(i)
  BY DEF DiagnosticsInv
<1>2. (\A i \in 1..Len(words) : Reported(i))'
  BY <1>1, ReportedKept
<1>3. Sorted'
  BY <1>1 DEF Sorted
<1> QED BY <1>2, <1>3 DEF DiagnosticsInv

LEMMA ValidateTold == ASSUME IInv, DiagnosticsInv, Validate PROVE DiagnosticsInv'
<1>1. CASE \E code : Reject(code)
  BY <1>1, RejectTold
<1>2. CASE ~ \E code : Reject(code)
  <2>1. /\ pc' = "words" /\ words' = <<>> /\ diagnostics' = <<>> /\ weakDiagnostics' = <<>>
    BY <1>2 DEF Validate, DiagnosticsInv, IInv
  <2>2. (Len(words) = 0)' /\ (Len(diagnostics) = 0)'
    BY <2>1, EmptyTuple
  <2>3. FirstTold'
    <3>1. diagnostics' \in Seq(About(1..0))
      BY <2>1
    <3> QED BY <2>2, <3>1 DEF FirstTold, InOrder
  <2> QED BY <2>1, <2>3 DEF DiagnosticsInv
<1> QED BY <1>1, <1>2

LEMMA StutterTold == ASSUME IInv, DiagnosticsInv, UNCHANGED vars PROVE DiagnosticsInv'
<1>1. UNCHANGED <<input, pc, cursor, words, diagnostics, weakDiagnostics>>
  BY DEF vars
<1>2. Size' = Size
  BY <1>1, InputKept
<1>3. (\A i \in 1..Len(words) : Reported(i)) => (\A i \in 1..Len(words) : Reported(i))'
  BY <1>1, ReportedKept
<1>4. (FirstTold => FirstTold') /\ (WeakTold => WeakTold') /\ (Sorted => Sorted')
  BY <1>1, <1>2, <1>3 DEF FirstTold, WeakTold, Sorted
<1> QED BY <1>1, <1>3, <1>4 DEF DiagnosticsInv

\* Every heteronym whose rules do not settle on one role, and every word that a
\* lexicon or an inflection speaks in another role than it was to have, is reported
\* as defaulted exactly once, no other word is, and the warnings are in word order,
\* those of the weak forms last, for all resources that load and all texts
\* (resolution.cpp:388-405, 452-457, 556-562, 674-678).
THEOREM DiagnosticsAlwaysTrue == Spec => []DiagnosticsTrue
<1>1. Init => DiagnosticsInv
  BY DEF Init, DiagnosticsInv
<1>2. IInv /\ DiagnosticsInv /\ [Next]_vars => DiagnosticsInv'
  <2> SUFFICES ASSUME IInv, DiagnosticsInv, [Next]_vars PROVE DiagnosticsInv'
    OBVIOUS
  <2>1. CASE LexicalFails \/ BadRole \/ RefuseKnown \/ RefuseSpelling \/ SerializeFails
    BY <2>1, RejectTold DEF LexicalFails, BadRole, RefuseKnown, RefuseSpelling, SerializeFails
  <2>2. CASE Serialize
    <3>1. CASE \E code : Reject(code)
      BY <3>1, RejectTold
    <3>2. CASE ~ \E code : Reject(code)
      BY <2>2, <3>2, ToldKept DEF Serialize
    <3> QED BY <3>1, <3>2
  <2>3. CASE UNCHANGED vars
    BY <2>3, StutterTold
  <2> QED BY <2>1, <2>2, <2>3, ValidateTold, OverrideTold, LexiconTold, MorphologyTold,
             LtsTold, WordsEndTold, KeepStrongTold, WeakenTold, WeakEndTold DEF Next
<1>3. IInv /\ DiagnosticsInv => DiagnosticsTrue
  <2> SUFFICES ASSUME IInv, DiagnosticsInv, pc \in {"serialize", "done"} PROVE DiagnosticsTrue
    BY DEF DiagnosticsTrue
  <2>1. Sorted /\ DOMAIN words = 1..Len(words) /\ \A i \in 1..Len(words) : Reported(i)
    BY TupleDomain DEF DiagnosticsInv, IInv
  <2>2. ASSUME NEW i \in DOMAIN words
        PROVE  Cardinality({k \in DOMAIN diagnostics :
                              diagnostics[k] = <<"HETERONYM_DEFAULTED", i>>})
                 = (IF Forgone(i) THEN 1 ELSE 0)
    <3>1. Reported(i)
      BY <2>1, <2>2
    <3>2. (\E k : Places(diagnostics, i) = {k}) => Cardinality(Places(diagnostics, i)) = 1
      BY FS_Singleton
    <3>3. Places(diagnostics, i) = {} => Cardinality(Places(diagnostics, i)) = 0
      BY FS_EmptySet
    <3>4. Cardinality(Places(diagnostics, i)) = (IF Forgone(i) THEN 1 ELSE 0)
      BY <3>1, <3>2, <3>3 DEF Reported, Once, Silent
    <3> QED BY <3>4 DEF Places
  <2>3. \A k \in 1..Len(diagnostics) - 1 :
          LET weak(n) == diagnostics[n][1] = "WEAK_FORM_RULE_AMBIGUOUS"
          IN  /\ weak(k) => weak(k + 1)
              /\ weak(k) <=> weak(k + 1) => diagnostics[k][2] <= diagnostics[k + 1][2]
    BY <2>1 DEF Sorted
  <2> QED BY <2>2, <2>3 DEF DiagnosticsTrue
<1> QED BY <1>1, <1>2, <1>3, Invariance, PTL DEF Spec

-----------------------------------------------------------------------------
(* The candidates of the words of a text.                                  *)

\* For every word of every text, whatever its characters, the stems proposed are
\* those it is a regular inflection of (morphology.cpp:599-702).
THEOREM CandidatesAlwaysInflections == Spec => []CandidatesAreInflections
<1>1. IInv => CandidatesAreInflections
  <2> SUFFICES ASSUME IInv, NEW i \in DOMAIN text.words
               PROVE  {[kind |-> c.kind, stem |-> FoldedWord(c.stem)] : c \in Candidates(Norm(i))}
                        = {c \in [kind : Kinds,
                                  stem : {s \in Beginnings(FoldedWord(Norm(i))) :
                                            AsciiWord(s) /\ Len(s) >= 2}] :
                             Inflects(c.kind, c.stem, FoldedWord(Norm(i)))}
    BY DEF CandidatesAreInflections, Beginnings
  <2>1. PICK S : S = {Norm(i)[k] : k \in DOMAIN Norm(i)} \cup Alphabet
    OBVIOUS
  <2>2. Norm(i) \in Seq({Norm(i)[k] : k \in DOMAIN Norm(i)})
    BY DEF IInv, InputOK
  <2>3. Norm(i) \in Seq(S) /\ Alphabet \subseteq S
    BY <2>1, <2>2
  <2> QED BY <2>3, CandidatesExact, Zenon
<1> QED BY <1>1, Invariance, PTL
=============================================================================
