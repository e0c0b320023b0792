------------------------ MODULE TokenChunkingProofs ------------------------
(***************************************************************************)
(* Proofs about TokenChunking.  The search is correct because a longer     *)
(* range of words has more IDs, although the mark of a forced end may come *)
(* and go (LongerIsLarger); that rests on what the loops before it left in *)
(* the two tables of sums (TablesOK).  That the chunks are cut at the best *)
(* of all ends is a second invariant, over states of the first (CutInv).   *)
(***************************************************************************)
EXTENDS TokenChunking, SequenceTheorems, TLAPS

Reading == pc \in {"begin", "words", "phrases", "prefix"}
Cutting == pc \in {"chunk", "search", "choose", "build"}

\* How far the tables of sums are filled.
Filled == IF pc = "prefix" THEN index ELSE IF Cutting THEN words ELSE 0

Bounded(e) == IF mark[e] # 0 THEN 1 ELSE 0

LoopOK ==
  /\ pc = "begin" => index = 0
  /\ pc = "words" => index < words
  /\ pc = "phrases" => index <= Len(phrases) /\ words > 0
  /\ pc = "prefix" => index < words
  /\ Reading => start = 0 /\ chunks = <<>>
  /\ Cutting => words > 0
  /\ pc # "done" => status = "none"

CoverOK ==
  /\ covered > 0 => mark[covered] # 0
  /\ pc = "prefix" \/ Cutting => covered = words

TablesOK ==
  /\ \A j \in 1..Filled : prefix[j] = prefix[j - 1] + atoms[j]
                            /\ marks[j] = marks[j - 1] + Bounded(j)
  /\ \A i, j \in 0..Filled : i < j => prefix[i] + 4 <= prefix[j]
                                       /\ marks[i] + Bounded(j) <= marks[j]

SearchOK ==
  pc = "search" =>
    /\ start <= furthest /\ furthest <= high /\ high <= hard /\ start < hard
    /\ low = furthest + 1
    /\ furthest > start => Fits(start, furthest)
    /\ \A e \in high + 1..hard : ~Fits(start, e)

ChooseOK == pc = "choose" => start < furthest /\ Fits(start, furthest)

BuildOK ==
  pc = "build" =>
    /\ start < end /\ Fits(start, end)
    /\ index \in start..end
    /\ ids = 1 + (prefix[index] - prefix[start]) + (marks[index] - marks[start])

ChunksOK ==
  /\ EveryWordOnce
  /\ WithinBudget
  /\ pc # "done" /\ chunks = <<>> => start = 0

WordsOK ==
  /\ Cutting => \A i \in 1..start : atoms[i] + 3 <= budget
  /\ TooLargeIsAWord

IInv ==
  /\ TypeOK
  /\ LoopOK /\ CoverOK /\ TablesOK
  /\ SearchOK /\ ChooseOK /\ BuildOK /\ BoundaryIsThere
  /\ ChunksOK /\ WordsOK

-----------------------------------------------------------------------------
\* The words are as many as Len says, and every atom has its four IDs.
LEMMA Atoms ==
  ASSUME TypeOK
  PROVE  /\ words \in Nat
         /\ \A i \in 1..words : atoms[i] \in Nat /\ atoms[i] >= 4
  <1>1. atoms \in Seq(AtomSizes)
    BY DEF TypeOK
  <1>2. words \in Nat /\ \A i \in 1..words : atoms[i] \in AtomSizes
    BY <1>1 DEF words
  <1> QED
    BY <1>2, AtomAssumption

\* While chunks are cut, a range that starts at the same word and ends later
\* has more IDs.
LEMMA LongerIsLarger ==
  ASSUME TypeOK, TablesOK, Cutting,
         NEW s \in 0..words, NEW e \in 0..words, NEW f \in 0..words, s <= e, e < f
  PROVE  /\ RangeSize(s, e) \in Int /\ RangeSize(s, f) \in Int
         /\ RangeSize(s, e) < RangeSize(s, f)
  <1>1. words \in Nat
    BY Atoms
  <1>2. Filled = words
    BY DEF Filled, Cutting
  <1>3. prefix[e] + 4 <= prefix[f] /\ marks[e] + Bounded(f) <= marks[f]
    BY <1>2 DEF TablesOK
  <1>4. /\ prefix[s] \in Nat /\ prefix[e] \in Nat /\ prefix[f] \in Nat
        /\ marks[s] \in Nat /\ marks[e] \in Nat /\ marks[f] \in Nat
    BY DEF TypeOK
  <1>5. /\ RangeSize(s, e) = 2 + (prefix[e] - prefix[s]) + (marks[e] - marks[s]) + (1 - Bounded(e))
        /\ RangeSize(s, f) = 2 + (prefix[f] - prefix[s]) + (marks[f] - marks[s]) + (1 - Bounded(f))
    <2>1. /\ (IF mark[e] # 0 THEN 0 ELSE 1) = 1 - Bounded(e)
          /\ (IF mark[f] # 0 THEN 0 ELSE 1) = 1 - Bounded(f)
      BY DEF Bounded
    <2> HIDE DEF Bounded
    <2> QED
      BY <2>1 DEF RangeSize
  <1>6. Bounded(e) \in {0, 1} /\ Bounded(f) \in {0, 1}
    BY DEF Bounded
  <1> HIDE DEF RangeSize, Bounded
  <1>7. RangeSize(s, e) \in Int /\ RangeSize(s, f) \in Int
    BY <1>4, <1>5, <1>6
  <1>8. RangeSize(s, e) < RangeSize(s, f)
    <2>1. \A p, q, r, k, m, n \in Nat, b, c \in {0, 1} :
            q + 4 <= r /\ m + c <= n =>
              2 + (q - p) + (m - k) + (1 - b) < 2 + (r - p) + (n - k) + (1 - c)
      OBVIOUS
    <2> QED
      BY <1>3, <1>4, <1>5, <1>6, <2>1
  <1> QED
    BY <1>7, <1>8

\* Any word of a range that fits would fit alone.
LEMMA WordFits ==
  ASSUME TypeOK, TablesOK, Cutting,
         NEW s \in 0..words, NEW e \in 0..words, s < e, NEW i \in s + 1..e, Fits(s, e)
  PROVE  atoms[i] + 3 <= budget
  <1>1. words \in Nat /\ i \in 1..words /\ atoms[i] \in Nat /\ budget \in Nat
    <2>1. words \in Nat /\ \A j \in 1..words : atoms[j] \in Nat
      BY Atoms
    <2>2. i \in 1..words
      BY <2>1
    <2>3. budget \in Nat
      BY BudgetAssumption DEF TypeOK
    <2> QED
      BY <2>1, <2>2, <2>3
  <1>2. Filled = words
    BY DEF Filled, Cutting
  <1>3. i - 1 \in 0..words /\ i \in 0..words
    BY <1>1
  <1>4. /\ prefix[i] = prefix[i - 1] + atoms[i]
        /\ marks[i] = marks[i - 1] + Bounded(i)
    BY <1>1, <1>2 DEF TablesOK
  <1>5. /\ prefix[s] \in Nat /\ prefix[i - 1] \in Nat /\ prefix[i] \in Nat
        /\ marks[s] \in Nat /\ marks[i - 1] \in Nat /\ marks[i] \in Nat
    BY <1>3 DEF TypeOK
  <1>6. prefix[s] <= prefix[i - 1] /\ marks[s] <= marks[i - 1]
    <2>1. CASE s = i - 1
      BY <1>5, <2>1
    <2>2. CASE s < i - 1
      <3>1. prefix[s] + 4 <= prefix[i - 1] /\ marks[s] + Bounded(i - 1) <= marks[i - 1]
        BY <1>1, <1>2, <1>3, <2>2 DEF TablesOK
      <3> QED
        BY <3>1, <1>5 DEF Bounded
    <2> QED
      BY <1>1, <2>1, <2>2
  <1>7. RangeSize(s, i) <= budget /\ RangeSize(s, i) \in Int
    <2>1. CASE i = e
      BY <1>5, <2>1 DEF Fits, RangeSize
    <2>2. CASE i < e
      BY <1>1, <1>3, <2>2, LongerIsLarger DEF Fits
    <2> QED
      BY <1>1, <2>1, <2>2
  <1> QED
    BY <1>1, <1>4, <1>5, <1>6, <1>7 DEF RangeSize, Bounded

\* A rejection keeps the invariant if it has a reason.
LEMMA RejectionHonest ==
  ASSUME IInv, NEW reason \in Statuses \ {"none", "OK", "CHUNK_INVARIANT"},
         Reject(reason),
         reason = "ATOM_TOO_LARGE" => \E i \in 1..words : atoms[i] + 3 > budget
  PROVE  IInv'
  <1> USE DEF Reject, IInv, input, tables, search, choice
  <1>1. TypeOK'
    BY DEF TypeOK, words, Statuses
  <1>2. LoopOK' /\ SearchOK' /\ ChooseOK' /\ BuildOK' /\ BoundaryIsThere'
    BY DEF LoopOK, SearchOK, ChooseOK, BuildOK, BoundaryIsThere, Reading, Cutting
  <1>3. CoverOK'
    BY DEF CoverOK, Cutting
  <1>4. TablesOK'
    <2>1. Filled' = 0
      BY DEF Filled, Cutting
    <2> QED
      BY <2>1 DEF TablesOK
  <1>5. ChunksOK' /\ WordsOK'
    BY DEF ChunksOK, WordsOK, EveryWordOnce, WithinBudget, TooLargeIsAWord, Cutting, words,
       Statuses
  <1> QED
    BY <1>1, <1>2, <1>3, <1>4, <1>5

-----------------------------------------------------------------------------
(* Every step keeps the invariant.                                         *)

LEMMA Initially == Init => IInv
  <1> SUFFICES ASSUME Init PROVE IInv
    OBVIOUS
  <1>1. PICK n \in 0..MaxWords, k \in 0..MaxWords + 1 :
          /\ atoms \in [1..n -> AtomSizes]
          /\ \E ends \in [1..k -> 1..n + 1], priority \in [1..k -> Priorities], late \in BOOLEAN :
               phrases = PhrasesTo(ends, priority, late)
    BY DEF Init
  <1>2. n \in Nat /\ k \in Nat
    BY WordsAssumption
  <1>3. atoms \in Seq(AtomSizes) /\ words = n
    BY <1>1, <1>2 DEF words
  <1>4. phrases \in Seq(Phrase)
    <2>1. PICK ends \in [1..k -> 1..n + 1], priority \in [1..k -> Priorities], late \in BOOLEAN :
            phrases = PhrasesTo(ends, priority, late)
      BY <1>1
    <2>2. DOMAIN ends = 1..k /\ Len(ends) = k
      BY <1>2
    <2>3. ASSUME NEW i \in 1..k
          PROVE  [from |-> (IF i = 1 THEN 0 ELSE ends[i - 1])
                             + (IF late /\ i = Len(ends) THEN 1 ELSE 0),
                  to |-> ends[i], priority |-> priority[i]] \in Phrase
      <3>1. i # 1 => i - 1 \in 1..k
        BY <1>2
      <3>2. ends[i] \in Nat /\ (i # 1 => ends[i - 1] \in Nat)
        BY <1>2, <3>1
      <3>3. priority[i] \in 1..Continuation
        BY PriorityAssumption
      <3>4. (IF i = 1 THEN 0 ELSE ends[i - 1]) + (IF late /\ i = Len(ends) THEN 1 ELSE 0) \in Nat
        BY <3>2
      <3> QED
        BY <3>2, <3>3, <3>4 DEF Phrase
    <2>4. phrases \in [1..k -> Phrase]
      BY <2>1, <2>2, <2>3 DEF PhrasesTo
    <2> QED
      BY <1>2, <2>4
  <1>5. TypeOK
    <2>1. chunks \in Seq([from : 0..words, to : 0..words, ids : 0..MaxSerialized,
                         forced : BOOLEAN, continuation : BOOLEAN])
      BY DEF Init
    <2>2. /\ mark \in [0..words -> 0..Continuation]
          /\ prefix \in [0..words -> Nat] /\ marks \in [0..words -> Nat]
      BY DEF Init, Continuation
    <2>3. /\ budget \in Budgets /\ pc = "begin" /\ index = 0 /\ covered = 0 /\ total = 0
          /\ start = 0 /\ hard = 0 /\ low = 0 /\ high = 0 /\ furthest = 0
          /\ end = 0 /\ forced = FALSE /\ ids = 0 /\ carry = FALSE /\ status = "none"
      BY DEF Init
    <2>4. 0 \in 0..words /\ 0 \in 0..words + 1 /\ 0 \in 0..MaxSerialized
      BY <1>2, <1>3, WordsAssumption
    <2> QED
      BY <1>3, <1>4, <2>1, <2>2, <2>3, <2>4 DEF TypeOK, Statuses
  <1>6. Filled = 0
    BY DEF Filled, Init, Cutting
  <1>7. TablesOK
    BY <1>6 DEF TablesOK
  <1>8. LoopOK /\ CoverOK /\ SearchOK /\ ChooseOK /\ BuildOK /\ BoundaryIsThere
    BY DEF Init, LoopOK, CoverOK, SearchOK, ChooseOK, BuildOK, BoundaryIsThere, Cutting
  <1>9. ChunksOK /\ WordsOK
    BY DEF Init, ChunksOK, WordsOK, EveryWordOnce, WithinBudget, TooLargeIsAWord, Cutting
  <1> QED
    BY <1>5, <1>7, <1>8, <1>9 DEF IInv

\* What the chunks say is untouched by a step that leaves them and the answer.
LEMMA ChunksKept ==
  ASSUME IInv, UNCHANGED <<input, start, chunks, status>>,
         pc # "done", pc' # "done"
  PROVE  ChunksOK'
  BY DEF IInv, ChunksOK, EveryWordOnce, WithinBudget, words, input

\* What the loops have read stays true while chunks are cut.
LEMMA TablesKept ==
  ASSUME IInv, UNCHANGED <<input, tables>>, Cutting, Cutting'
  PROVE  CoverOK' /\ TablesOK'
  <1>1. Filled' = Filled /\ words' = words /\ \A e : Bounded(e)' = Bounded(e)
    BY DEF Filled, Bounded, Cutting, words, input, tables
  <1>2. CoverOK'
    BY DEF IInv, CoverOK, words, input, tables
  <1>3. TablesOK'
    BY <1>1 DEF IInv, TablesOK, input, tables
  <1> QED
    BY <1>2, <1>3

LEMMA BeginKeeps == IInv /\ Begin => IInv'
  <1> SUFFICES ASSUME IInv, Begin PROVE IInv'
    OBVIOUS
  <1>1. CASE words = 0 /\ pc' = "done" /\ status' = "OK" /\
             UNCHANGED <<input, index, tables, start, hard, search, choice, ids,
                         total, carry, chunks>>
    <2> USE <1>1 DEF IInv, Begin, input, tables, search, choice
    <2>1. chunks = <<>>
      BY DEF LoopOK, Reading
    <2>2. TypeOK'
      BY DEF TypeOK, words, Statuses
    <2>3. LoopOK' /\ CoverOK' /\ SearchOK' /\ ChooseOK' /\ BuildOK' /\ BoundaryIsThere'
      BY DEF LoopOK, CoverOK, SearchOK, ChooseOK, BuildOK, BoundaryIsThere, Reading, Cutting
    <2>4. Filled' = 0
      BY DEF Filled, Cutting
    <2>5. TablesOK'
      BY <2>4 DEF TablesOK
    <2>6. ChunksOK' /\ WordsOK'
      BY <2>1 DEF ChunksOK, WordsOK, EveryWordOnce, WithinBudget, TooLargeIsAWord, Cutting, words
    <2> QED
      BY <2>2, <2>3, <2>5, <2>6
  <1>2. CASE Reject("INVALID_PHRASES") \/ Reject("INVALID_INPUT")
    BY <1>2, RejectionHonest DEF Statuses
  <1>3. CASE /\ words > 0 /\ Len(phrases) \in 1..words
             /\ Goes("begin", "words")
             /\ UNCHANGED <<index, tables, start, hard, search, choice, ids, result>>
    <2> USE <1>3 DEF IInv, Goes, input, tables, search, choice, result
    <2>1. TypeOK'
      BY DEF TypeOK, words
    <2>2. LoopOK' /\ CoverOK' /\ SearchOK' /\ ChooseOK' /\ BuildOK' /\ BoundaryIsThere'
      BY DEF TypeOK, LoopOK, CoverOK, SearchOK, ChooseOK, BuildOK, BoundaryIsThere, Reading, Cutting, words
    <2>3. Filled' = 0
      BY DEF Filled, Cutting
    <2>4. TablesOK'
      BY <2>3 DEF TablesOK
    <2>5. ChunksOK' /\ WordsOK'
      BY DEF LoopOK, ChunksOK, WordsOK, EveryWordOnce, WithinBudget, TooLargeIsAWord, Cutting, words
    <2> QED
      BY <2>1, <2>2, <2>4, <2>5
  <1> QED
    BY <1>1, <1>2, <1>3 DEF Begin

LEMMA ReadWordKeeps == IInv /\ ReadWord => IInv'
  <1> SUFFICES ASSUME IInv, ReadWord PROVE IInv'
    OBVIOUS
  <1>1. CASE Reject("OUTPUT_LIMIT") \/ Reject("INVALID_WORD")
    BY <1>1, RejectionHonest DEF Statuses
  <1>2. CASE ~(Reject("OUTPUT_LIMIT") \/ Reject("INVALID_WORD"))
    <2>1. /\ pc = "words" /\ index < words
          /\ total + atoms[index + 1] <= MaxSerialized
          /\ total' = total + atoms[index + 1]
          /\ index' = IF index + 1 = words THEN 0 ELSE index + 1
          /\ pc' = IF index + 1 = words THEN "phrases" ELSE "words"
          /\ UNCHANGED <<input, tables, start, hard, search, choice, ids, carry, chunks, status>>
      BY <1>2 DEF ReadWord, Goes
    <2> USE <2>1 DEF IInv, input, tables, search, choice
    <2>2. /\ words \in Nat /\ words' = words /\ words > 0 /\ index + 1 \in 1..words
          /\ atoms[index + 1] \in Nat /\ index \in Nat /\ total \in Nat
      <3>1. words \in Nat /\ \A i \in 1..words : atoms[i] \in Nat /\ atoms[i] >= 4
        BY Atoms
      <3>2. index \in Nat /\ total \in Nat
        BY DEF TypeOK
      <3>3. words' = words
        BY DEF words
      <3> QED
        BY <3>1, <3>2, <3>3
    <2>3. total' \in 0..MaxSerialized /\ index' \in Nat /\ pc' \in {"words", "phrases"}
      BY <2>2, WordsAssumption
    <2>4. TypeOK'
      BY <2>2, <2>3 DEF TypeOK
    <2>5. LoopOK'
      <3>1. pc' = "words" => index' < words'
        BY <2>1, <2>2
      <3>2. pc' = "phrases" => index' <= Len(phrases)' /\ words' > 0
        BY <2>1, <2>2 DEF TypeOK
      <3>3. start' = 0 /\ chunks' = <<>>
        BY <2>1 DEF LoopOK, Reading
      <3>4. pc' \in {"words", "phrases"} /\ status' = "none"
        BY <2>1 DEF LoopOK
      <3> QED
        BY <3>1, <3>2, <3>3, <3>4 DEF LoopOK, Reading, Cutting
    <2>6. CoverOK' /\ SearchOK' /\ ChooseOK' /\ BuildOK' /\ BoundaryIsThere'
      BY <2>3 DEF CoverOK, SearchOK, ChooseOK, BuildOK, BoundaryIsThere, Cutting
    <2>7. TablesOK'
      <3>1. Filled' = 0
        BY <2>3 DEF Filled, Cutting
      <3> QED
        BY <3>1 DEF TablesOK
    <2>8. ChunksOK' /\ WordsOK'
      BY <2>2, <2>3 DEF LoopOK, ChunksOK, WordsOK, EveryWordOnce, WithinBudget,
         TooLargeIsAWord, Cutting, Reading
    <2> QED
      BY <2>4, <2>5, <2>6, <2>7, <2>8
  <1> QED
    BY <1>1, <1>2

LEMMA ReadPhraseKeeps == IInv /\ ReadPhrase => IInv'
  <1> SUFFICES ASSUME IInv, ReadPhrase PROVE IInv'
    OBVIOUS
  <1>1. CASE Reject("INVALID_PHRASES")
    BY <1>1, RejectionHonest DEF Statuses
  <1>2. CASE ~Reject("INVALID_PHRASES")
    <2>1. /\ pc = "phrases" /\ index < Len(phrases)
          /\ phrases[index + 1].from < phrases[index + 1].to
          /\ phrases[index + 1].to <= words
          /\ mark' = [mark EXCEPT ![phrases[index + 1].to] = phrases[index + 1].priority]
          /\ covered' = phrases[index + 1].to
          /\ index' = index + 1 /\ pc' = "phrases"
          /\ UNCHANGED <<input, prefix, marks, start, hard, search, choice, ids, result>>
      BY <1>2 DEF ReadPhrase, Goes
    <2> USE DEF IInv, input, search, choice, result
    <2>2. words \in Nat /\ words' = words /\ index + 1 \in 1..Len(phrases) /\ index' \in Nat
      <3>1. words \in Nat
        BY Atoms
      <3>2. words' = words
        BY <2>1 DEF words
      <3>3. index \in Nat /\ Len(phrases) \in Nat
        BY DEF TypeOK
      <3> QED
        BY <2>1, <3>1, <3>2, <3>3
    <2>3. phrases[index + 1] \in Phrase
      BY <2>2 DEF TypeOK
    <2>4. PICK to \in 1..words, priority \in 1..5 :
            covered' = to /\ mark' = [mark EXCEPT ![to] = priority]
      <3>1. /\ phrases[index + 1].from \in Nat /\ phrases[index + 1].to \in Nat
            /\ phrases[index + 1].priority \in 1..5
        BY <2>3 DEF Phrase, Continuation
      <3>2. phrases[index + 1].to \in 1..words
        BY <2>1, <2>2, <3>1
      <3> QED
        BY <2>1, <3>1, <3>2
    <2>5. mark \in [0..words -> 0..5] /\ to \in 0..words /\ priority \in 0..5
      BY <2>2 DEF TypeOK, Continuation
    <2>6. mark' \in [0..words -> 0..5] /\ mark'[covered'] # 0 /\ covered' \in 0..words
      BY <2>4, <2>5
    <2>7. TypeOK'
      BY <2>1, <2>2, <2>6 DEF TypeOK, Continuation
    <2>8. LoopOK'
      BY <2>1, <2>2 DEF LoopOK, Reading, Cutting, TypeOK
    <2>9. CoverOK' /\ SearchOK' /\ ChooseOK' /\ BuildOK' /\ BoundaryIsThere'
      BY <2>1, <2>6 DEF CoverOK, SearchOK, ChooseOK, BuildOK, BoundaryIsThere, Cutting
    <2>10. TablesOK'
      <3>1. Filled' = 0
        BY <2>1 DEF Filled, Cutting
      <3> QED
        BY <3>1 DEF TablesOK
    <2>11. ChunksOK' /\ WordsOK'
      BY <2>1, <2>2 DEF LoopOK, ChunksOK, WordsOK, EveryWordOnce, WithinBudget,
         TooLargeIsAWord, Cutting, Reading
    <2> QED
      BY <2>7, <2>8, <2>9, <2>10, <2>11
  <1> QED
    BY <1>1, <1>2

LEMMA PhrasesEndKeeps == IInv /\ PhrasesEnd => IInv'
  <1> SUFFICES ASSUME IInv, PhrasesEnd PROVE IInv'
    OBVIOUS
  <1>1. CASE Reject("INVALID_PHRASES")
    BY <1>1, RejectionHonest DEF Statuses
  <1>2. CASE ~Reject("INVALID_PHRASES")
    <2>1. /\ pc = "phrases" /\ covered = words /\ index' = 0 /\ pc' = "prefix"
          /\ UNCHANGED <<input, tables, start, hard, search, choice, ids, result>>
      BY <1>2 DEF PhrasesEnd, Goes
    <2> USE <2>1 DEF IInv, input, tables, search, choice, result
    <2>2. words \in Nat /\ words' = words
      BY Atoms DEF words
    <2>3. TypeOK'
      BY <2>2 DEF TypeOK
    <2>4. LoopOK'
      BY <2>2 DEF LoopOK, Reading, Cutting
    <2>5. CoverOK' /\ SearchOK' /\ ChooseOK' /\ BuildOK' /\ BoundaryIsThere'
      BY <2>2 DEF CoverOK, SearchOK, ChooseOK, BuildOK, BoundaryIsThere, Cutting
    <2>6. TablesOK'
      <3>1. Filled' = 0
        BY DEF Filled, Cutting
      <3> QED
        BY <3>1 DEF TablesOK
    <2>7. ChunksOK' /\ WordsOK'
      BY <2>2 DEF LoopOK, ChunksOK, WordsOK, EveryWordOnce, WithinBudget, TooLargeIsAWord,
         Cutting, Reading
    <2> QED
      BY <2>3, <2>4, <2>5, <2>6, <2>7
  <1> QED
    BY <1>1, <1>2

LEMMA AddPrefixKeeps == IInv /\ AddPrefix => IInv'
  <1> SUFFICES ASSUME IInv, AddPrefix PROVE IInv'
    OBVIOUS
  <1>0. /\ pc = "prefix" /\ index < words /\ index' = index + 1 /\ total' = 0
        /\ pc' = IF index + 1 = words THEN "chunk" ELSE "prefix"
        /\ UNCHANGED <<input, covered, mark, start, hard, search, choice, ids, carry, chunks, status>>
    BY DEF AddPrefix, Goes
  <1> USE <1>0 DEF IInv, input, search, choice
  <1>1. words \in Nat /\ words' = words /\ index \in 0..words - 1
           /\ index + 1 \in 1..words /\ atoms[index + 1] \in Nat /\ atoms[index + 1] >= 4
    <2>1. words \in Nat /\ \A i \in 1..words : atoms[i] \in Nat /\ atoms[i] >= 4
      BY Atoms
    <2>2. index \in Nat
      BY DEF TypeOK
    <2>3. words' = words
      BY DEF words
    <2> QED
      BY <2>1, <2>2, <2>3
  <1>2. \A e \in 0..words : Bounded(e) \in {0, 1} /\ Bounded(e)' = Bounded(e)
    BY DEF Bounded
  <1>3. /\ prefix \in [0..words -> Nat] /\ marks \in [0..words -> Nat]
        /\ index \in 0..words /\ index + 1 \in 0..words
        /\ prefix[index] \in Nat /\ marks[index] \in Nat
        /\ prefix' = [prefix EXCEPT ![index + 1] = prefix[index] + atoms[index + 1]]
        /\ marks' = [marks EXCEPT ![index + 1] = marks[index] + Bounded(index + 1)]
    <2>1. prefix \in [0..words -> Nat] /\ marks \in [0..words -> Nat]
      BY DEF TypeOK
    <2>2. index \in 0..words /\ index + 1 \in 0..words
      BY <1>1
    <2>3. /\ prefix' = [prefix EXCEPT ![index + 1] = prefix[index] + atoms[index + 1]]
          /\ marks' = [marks EXCEPT ![index + 1] = marks[index] + Bounded(index + 1)]
      BY DEF AddPrefix, Bounded
    <2> QED
      BY <2>1, <2>2, <2>3
  <1>4. TypeOK'
    <2>1. prefix' \in [0..words -> Nat] /\ marks' \in [0..words -> Nat]
      <3>1. Bounded(index + 1) \in Nat
        BY <1>2, <1>3
      <3>2. prefix[index] + atoms[index + 1] \in Nat /\ marks[index] + Bounded(index + 1) \in Nat
        <4> HIDE <1>0 DEF IInv, input, search, choice
        <4>1. \A m, n \in Nat : m + n \in Nat
          OBVIOUS
        <4>2. /\ prefix[index] \in Nat /\ marks[index] \in Nat
              /\ atoms[index + 1] \in Nat /\ Bounded(index + 1) \in Nat
          BY <1>1, <1>3, <3>1
        <4> QED
          BY <4>1, <4>2
      <3> QED
        BY <1>3, <3>2
    <2>2. index' \in Nat /\ total' \in 0..MaxSerialized /\ pc' \in {"chunk", "prefix"}
      BY <1>1, WordsAssumption
    <2> QED
      BY <1>1, <2>1, <2>2 DEF TypeOK
  <1>5. LoopOK' /\ CoverOK' /\ SearchOK' /\ ChooseOK' /\ BuildOK' /\ BoundaryIsThere'
    BY <1>1 DEF TypeOK, LoopOK, CoverOK, SearchOK, ChooseOK, BuildOK, BoundaryIsThere, Reading, Cutting
  <1>6. Filled = index /\ Filled' = index + 1
    BY <1>1 DEF Filled, Cutting, TypeOK
  <1>7. /\ prefix'[index + 1] = prefix[index] + atoms[index + 1]
        /\ marks'[index + 1] = marks[index] + Bounded(index + 1)
        /\ \A e \in 0..index : prefix'[e] = prefix[e] /\ marks'[e] = marks[e]
                                /\ prefix[e] \in Nat /\ marks[e] \in Nat
    BY <1>1, <1>3
  <1>8. TablesOK'
    <2>1. ASSUME NEW j \in 1..index + 1
          PROVE  prefix'[j] = prefix'[j - 1] + atoms[j] /\ marks'[j] = marks'[j - 1] + Bounded(j)
      <3>1. CASE j = index + 1
        BY <1>1, <1>7, <3>1
      <3>2. CASE j \in 1..index
        BY <1>1, <1>6, <1>7, <3>2 DEF TablesOK
      <3> QED
        BY <1>1, <3>1, <3>2
    <2>2. ASSUME NEW i \in 0..index + 1, NEW j \in 0..index + 1, i < j
          PROVE  prefix'[i] + 4 <= prefix'[j] /\ marks'[i] + Bounded(j) <= marks'[j]
      <3>1. CASE j \in 0..index
        BY <1>1, <1>6, <1>7, <2>2, <3>1 DEF TablesOK
      <3>2. CASE j = index + 1 /\ i = index
        <4>1. Bounded(index + 1) \in {0, 1}
          BY <1>2, <1>3
        <4>2. prefix'[i] = prefix[index] /\ marks'[i] = marks[index]
          BY <1>1, <1>7, <3>2
        <4> QED
          BY <1>1, <1>3, <1>7, <3>2, <4>1, <4>2
      <3>3. CASE j = index + 1 /\ i < index
        <4>1. i \in 0..index /\ index \in 0..index /\ index \in 0..words /\ index + 1 \in 0..words
          BY <1>1, <3>3
        <4>2. prefix[i] + 4 <= prefix[index] /\ marks[i] + Bounded(index) <= marks[index]
          BY <1>6, <4>1, <3>3 DEF TablesOK
        <4>3. Bounded(index) \in {0, 1} /\ Bounded(index + 1) \in {0, 1}
          BY <1>2, <4>1
        <4>4. /\ prefix'[i] = prefix[i] /\ marks'[i] = marks[i]
              /\ prefix[i] \in Nat /\ marks[i] \in Nat
          BY <1>7, <4>1
        <4>5. /\ prefix'[j] = prefix[index] + atoms[index + 1] /\ prefix[index] \in Nat
              /\ marks'[j] = marks[index] + Bounded(j) /\ marks[index] \in Nat
          BY <1>3, <1>7, <3>3
        <4>6. atoms[index + 1] \in Nat
          BY <1>1
        <4>7. prefix'[i] + 4 <= prefix'[j]
          BY <4>2, <4>4, <4>5, <4>6
        <4>8. Bounded(index) \in Nat /\ Bounded(j) \in Nat
          BY <3>3, <4>3
        <4>9. marks'[i] + Bounded(j) <= marks'[j]
          BY <4>2, <4>4, <4>5, <4>8
        <4> QED
          BY <4>7, <4>9
      <3> QED
        BY <1>1, <2>2, <3>1, <3>2, <3>3
    <2>3. \A j \in 0..index + 1 : Bounded(j)' = Bounded(j)
      BY <1>1, <1>2
    <2> QED
      BY <1>1, <1>6, <2>1, <2>2, <2>3 DEF TablesOK
  <1>9. ChunksOK' /\ WordsOK'
    BY <1>1 DEF LoopOK, ChunksOK, WordsOK, EveryWordOnce, WithinBudget, TooLargeIsAWord, Cutting, Reading
  <1> QED
    BY <1>4, <1>5, <1>8, <1>9

LEMMA NextChunkKeeps == IInv /\ NextChunk => IInv'
  <1> SUFFICES ASSUME IInv, NextChunk PROVE IInv'
    OBVIOUS
  <1>1. /\ pc = "chunk" /\ start < words
        /\ UNCHANGED <<input, tables, start, forced, result>> \/ forced' = FALSE
        /\ UNCHANGED <<input, tables, start, result>>
    BY DEF NextChunk, Goes, choice
  <1> USE <1>1 DEF IInv, input, tables, result
  <1>2. words \in Nat /\ words' = words /\ start \in 0..words /\ covered = words /\ words > 0
    <2>1. words \in Nat
      BY Atoms
    <2>2. words' = words
      BY DEF words
    <2> QED
      BY <2>1, <2>2 DEF TypeOK, CoverOK, Cutting
  <1>3. hard' \in start + 1..words /\ mark[hard'] # 0
    <2>1. CASE HardEnds = {}
      <3>1. hard' = words
        BY <2>1 DEF NextChunk
      <3> QED
        BY <1>2, <3>1 DEF CoverOK
    <2>2. CASE HardEnds # {}
      <3>1. hard' \in HardEnds
        BY <2>2 DEF NextChunk
      <3> QED
        BY <3>1 DEF HardEnds, Continuation
    <2> QED
      BY <2>1, <2>2
  <1>4. Cutting /\ Cutting'
    BY DEF NextChunk, Goes, Cutting
  <1>5. CASE RangeSize(start, hard') <= budget
    <2>1. /\ end' = hard' /\ forced' = FALSE /\ ids' = 1 /\ index' = start /\ pc' = "build"
          /\ UNCHANGED search
      BY <1>5 DEF NextChunk, Goes
    <2> USE <2>1 DEF search
    <2>2. TypeOK'
      <3>1. hard' \in 0..words /\ end' \in 0..words /\ ids' \in Nat /\ index' \in Nat
        BY <1>2, <1>3
      <3>2. forced' \in BOOLEAN
        OBVIOUS
      <3> QED
        BY <1>2, <3>1, <3>2 DEF TypeOK
    <2>3. LoopOK' /\ SearchOK' /\ ChooseOK'
      BY <1>2 DEF LoopOK, SearchOK, ChooseOK, Reading, Cutting
    <2>4. BoundaryIsThere'
      BY <1>3 DEF BoundaryIsThere
    <2>5. BuildOK'
      <3>1. Fits(start, end)'
        BY <1>5 DEF Fits, RangeSize
      <3>2. prefix[start] \in Nat /\ marks[start] \in Nat
        BY <1>2 DEF TypeOK
      <3> QED
        BY <1>2, <1>3, <3>1, <3>2 DEF BuildOK
    <2>6. ChunksOK' /\ WordsOK'
      BY <1>2, <1>4, ChunksKept DEF WordsOK, TooLargeIsAWord, LoopOK
    <2> QED
      BY <1>4, <2>2, <2>3, <2>4, <2>5, <2>6, TablesKept
  <1>6. CASE ~(RangeSize(start, hard') <= budget)
    <2>1. /\ low' = start + 1 /\ high' = hard' /\ furthest' = start /\ pc' = "search"
          /\ UNCHANGED <<choice, ids, index>>
      BY <1>6 DEF NextChunk, Goes
    <2> USE <2>1 DEF choice
    <2>2. TypeOK'
      <3>1. hard' \in 0..words /\ high' \in 0..words /\ low' \in 0..words + 1
        BY <1>2, <1>3
      <3>2. furthest' \in 0..words
        BY <1>2
      <3> QED
        BY <1>2, <3>1, <3>2 DEF TypeOK
    <2>3. LoopOK' /\ ChooseOK' /\ BuildOK' /\ BoundaryIsThere'
      BY <1>2 DEF LoopOK, ChooseOK, BuildOK, BoundaryIsThere, Reading, Cutting
    <2>4. SearchOK'
      <3>1. hard' \in Nat /\ start \in Nat /\ start < hard'
        BY <1>2, <1>3
      <3>2. /\ start' = start /\ high' = hard' /\ furthest' = start /\ low' = start + 1
        OBVIOUS
      <3>3. ~(furthest' > start')
        BY <3>1, <3>2
      <3>4. high' + 1..hard' = {}
        <4>1. \A n \in Nat : n + 1..n = {}
          OBVIOUS
        <4> QED
          BY <3>1, <3>2, <4>1
      <3>5. furthest' <= high' /\ high' <= hard' /\ start' < hard' /\ start' <= furthest'
        BY <3>1, <3>2
      <3> QED
        BY <3>2, <3>3, <3>4, <3>5 DEF SearchOK
    <2>5. ChunksOK' /\ WordsOK'
      BY <1>2, <1>4, ChunksKept DEF WordsOK, TooLargeIsAWord, LoopOK
    <2> QED
      BY <1>4, <2>2, <2>3, <2>4, <2>5, TablesKept
  <1> QED
    BY <1>5, <1>6

LEMMA SearchKeeps == IInv /\ Search => IInv'
  <1> SUFFICES ASSUME IInv, Search PROVE IInv'
    OBVIOUS
  <1>1. /\ pc = "search" /\ low <= high
        /\ UNCHANGED <<input, pc, index, tables, start, hard, choice, ids, result>>
    BY DEF Search
  <1> USE <1>1 DEF IInv, input, tables, choice, result
  <1>2. /\ words \in Nat /\ words' = words /\ start \in 0..words /\ hard \in 0..words
        /\ high \in 0..words /\ furthest \in 0..words
    <2>1. words \in Nat
      BY Atoms
    <2>2. words' = words
      BY DEF words
    <2> QED
      BY <2>1, <2>2 DEF TypeOK
  <1>3. Cutting /\ Cutting'
    BY DEF Cutting
  <1>4. PICK middle \in low..high :
          IF Fits(start, middle)
          THEN furthest' = middle /\ low' = middle + 1 /\ UNCHANGED high
          ELSE high' = middle - 1 /\ UNCHANGED <<low, furthest>>
    <2>1. low \in Nat /\ low + (high - low) \div 2 \in low..high
      BY <1>2 DEF SearchOK
    <2> QED
      BY <2>1 DEF Search
  <1>5. /\ start <= furthest /\ furthest <= high /\ high <= hard /\ start < hard
        /\ low = furthest + 1 /\ middle \in start + 1..words /\ middle \in Nat
    BY <1>2, <1>4 DEF SearchOK
  <1>6. \A e : Fits(start, e)' = Fits(start, e)
    BY DEF Fits, RangeSize
  <1>7. LoopOK' /\ ChooseOK' /\ BuildOK' /\ BoundaryIsThere'
    BY <1>2 DEF LoopOK, ChooseOK, BuildOK, BoundaryIsThere, Reading, Cutting
  <1>8. ChunksOK' /\ WordsOK'
    BY <1>2, <1>3, ChunksKept DEF WordsOK, TooLargeIsAWord, LoopOK
  <1>9. TypeOK' /\ SearchOK'
    <2>1. CASE Fits(start, middle)
      <3>1. furthest' = middle /\ low' = middle + 1 /\ high' = high
        BY <1>4, <2>1
      <3>2. furthest' \in 0..words /\ low' \in 0..words + 1
        BY <1>2, <1>5, <3>1
      <3>3. TypeOK'
        BY <1>2, <3>1, <3>2 DEF TypeOK
      <3>4. Fits(start, furthest)'
        BY <2>1, <3>1 DEF Fits, RangeSize
      <3>5. \A e \in high + 1..hard : ~Fits(start, e)'
        BY <1>6 DEF SearchOK
      <3>6. middle <= high
        BY <1>2, <1>4, <1>5
      <3> QED
        BY <1>2, <1>5, <3>1, <3>3, <3>4, <3>5, <3>6 DEF SearchOK
    <2>2. CASE ~Fits(start, middle)
      <3>1. high' = middle - 1 /\ low' = low /\ furthest' = furthest
        BY <1>4, <2>2
      <3>2. high' \in 0..words
        BY <1>2, <1>5, <3>1
      <3>3. TypeOK'
        BY <1>2, <3>1, <3>2 DEF TypeOK
      <3>4. ASSUME NEW e \in middle..hard PROVE ~Fits(start, e)
        <4>1. CASE e = middle
          BY <2>2, <4>1
        <4>2. CASE e # middle
          <5>1. RangeSize(start, middle) \in Int /\ RangeSize(start, e) \in Int
                  /\ RangeSize(start, middle) < RangeSize(start, e)
            <6>1. /\ middle \in 0..words /\ e \in 0..words /\ start <= middle /\ middle < e
              BY <1>2, <1>5, <4>2
            <6> QED
              BY <1>2, <1>3, <6>1, LongerIsLarger
          <5>2. budget \in Int
            BY BudgetAssumption DEF TypeOK
          <5> QED
            BY <2>2, <5>1, <5>2 DEF Fits
        <4> QED
          BY <4>1, <4>2
      <3>5. \A e \in high' + 1..hard : ~Fits(start, e)'
        BY <1>5, <1>6, <3>1, <3>4
      <3>6. furthest <= middle - 1 /\ middle - 1 <= hard
        BY <1>2, <1>4, <1>5
      <3>7. furthest > start => Fits(start, furthest)
        BY DEF SearchOK
      <3>8. Fits(start, furthest)' = Fits(start, furthest)
        BY <3>1 DEF Fits, RangeSize
      <3> QED
        BY <1>5, <3>1, <3>3, <3>5, <3>6, <3>7, <3>8 DEF SearchOK
    <2> QED
      BY <2>1, <2>2
  <1> QED
    BY <1>3, <1>7, <1>8, <1>9, TablesKept

LEMMA SearchEndsKeeps == IInv /\ SearchEnds => IInv'
  <1> SUFFICES ASSUME IInv, SearchEnds PROVE IInv'
    OBVIOUS
  <1>1. /\ pc = "search" /\ low > high
    BY DEF SearchEnds
  <1> USE <1>1 DEF IInv
  <1>2. /\ words \in Nat /\ start \in 0..words /\ hard \in 0..words
        /\ high \in 0..words /\ furthest \in 0..words
        /\ start <= furthest /\ furthest = high /\ high <= hard /\ start < hard
    <2>1. words \in Nat
      BY Atoms
    <2>2. /\ start \in 0..words /\ hard \in 0..words /\ high \in 0..words /\ furthest \in 0..words
      BY DEF TypeOK
    <2> QED
      BY <2>1, <2>2 DEF SearchOK
  <1>3. CASE furthest = start
    <2>1. Reject("ATOM_TOO_LARGE")
      BY <1>3 DEF SearchEnds
    <2>2. ~Fits(start, start + 1) /\ start + 1 \in 1..words /\ start + 1 \in 0..words
      BY <1>2, <1>3 DEF SearchOK
    <2>3. /\ prefix[start + 1] = prefix[start] + atoms[start + 1]
          /\ marks[start + 1] = marks[start] + Bounded(start + 1)
      <3>1. Filled = words
        BY DEF Filled, Cutting
      <3>2. (start + 1) - 1 = start
        BY <1>2
      <3> QED
        BY <2>2, <3>1, <3>2 DEF TablesOK
    <2>4. /\ prefix[start] \in Nat /\ marks[start] \in Nat /\ atoms[start + 1] \in Nat
          /\ budget \in Nat
      BY <1>2, <2>2, Atoms, BudgetAssumption DEF TypeOK
    <2>5. RangeSize(start, start + 1) = atoms[start + 1] + 3
      BY <2>3, <2>4 DEF RangeSize, Bounded
    <2>6. atoms[start + 1] + 3 > budget
      BY <2>2, <2>4, <2>5 DEF Fits
    <2> QED
      BY <2>1, <2>2, <2>6, RejectionHonest DEF Statuses
  <1>4. CASE furthest # start
    <2>1. pc' = "choose"
          /\ UNCHANGED <<input, index, tables, start, hard, search, choice, ids, result>>
      BY <1>4 DEF SearchEnds, Goes
    <2> USE <2>1 DEF input, tables, search, choice, result
    <2>2. words' = words /\ Cutting /\ Cutting'
      BY DEF words, Cutting
    <2>3. TypeOK'
      BY <2>2 DEF TypeOK
    <2>4. LoopOK' /\ SearchOK' /\ BuildOK' /\ BoundaryIsThere'
      BY <2>2 DEF LoopOK, SearchOK, BuildOK, BoundaryIsThere, Reading, Cutting
    <2>5. ChooseOK'
      BY <1>2, <1>4 DEF SearchOK, ChooseOK, Fits, RangeSize
    <2>6. ChunksOK' /\ WordsOK'
      BY <2>2, ChunksKept DEF WordsOK, TooLargeIsAWord, LoopOK
    <2> QED
      BY <2>2, <2>3, <2>4, <2>5, <2>6, TablesKept
  <1> QED
    BY <1>3, <1>4

LEMMA ChooseKeeps == IInv /\ Choose => IInv'
  <1> SUFFICES ASSUME IInv, Choose PROVE IInv'
    OBVIOUS
  <1> DEFINE near == {e \in start + 1..furthest : mark[e] # 0}
  <1>1. /\ pc = "choose" /\ pc' = "build" /\ ids' = 1 /\ index' = start
        /\ UNCHANGED <<input, tables, start, hard, search, result>>
    BY DEF Choose, Goes
  <1> USE <1>1 DEF IInv, input, tables, search, result
  <1>2. /\ words \in Nat /\ start \in 0..words /\ furthest \in 0..words
        /\ start < furthest /\ Fits(start, furthest)
    <2>1. words \in Nat
      BY Atoms
    <2>2. start \in 0..words /\ furthest \in 0..words
      BY DEF TypeOK
    <2> QED
      BY <2>1, <2>2 DEF ChooseOK
  <1>3. words' = words /\ Cutting /\ Cutting'
    BY DEF words, Cutting
  <1>4. end' \in start + 1..furthest /\ forced' \in BOOLEAN /\ (forced' <=> mark[end'] = 0)
    <2>1. CASE near = {}
      <3>1. end' = furthest /\ forced' = TRUE
        BY <2>1 DEF Choose
      <3>2. furthest \in start + 1..furthest
        BY <1>2
      <3> QED
        BY <2>1, <3>1, <3>2
    <2>2. CASE near # {}
      <3>1. end' \in near /\ forced' = FALSE
        BY <2>2 DEF Choose
      <3> QED
        BY <3>1
    <2> QED
      BY <2>1, <2>2
  <1> HIDE DEF near
  <1>5. /\ end' \in 0..words /\ start < end' /\ end' <= furthest
    BY <1>2, <1>4
  <1>6. Fits(start, end')
    <2>1. CASE end' = furthest
      BY <1>2, <2>1
    <2>2. CASE end' < furthest
      <3>1. /\ RangeSize(start, end') \in Int /\ RangeSize(start, furthest) \in Int
            /\ RangeSize(start, end') < RangeSize(start, furthest)
        BY <1>2, <1>3, <1>5, <2>2, LongerIsLarger
      <3>2. budget \in Int
        BY BudgetAssumption DEF TypeOK
      <3> QED
        BY <1>2, <3>1, <3>2 DEF Fits
    <2> QED
      BY <1>2, <1>5, <2>1, <2>2
  <1>7. TypeOK'
    <2>1. ids' \in Nat /\ index' \in Nat
      BY <1>2
    <2> QED
      BY <1>3, <1>4, <1>5, <2>1 DEF TypeOK
  <1>8. LoopOK' /\ SearchOK' /\ ChooseOK'
    BY <1>3 DEF LoopOK, SearchOK, ChooseOK, Reading, Cutting
  <1>9. BoundaryIsThere'
    BY <1>4 DEF BoundaryIsThere
  <1>10. BuildOK'
    <2>1. prefix[start] \in Nat /\ marks[start] \in Nat
      BY <1>2 DEF TypeOK
    <2>2. Fits(start, end)'
      BY <1>6 DEF Fits, RangeSize
    <2>3. start \in start..end'
      BY <1>2, <1>5
    <2> QED
      BY <1>5, <2>1, <2>2, <2>3 DEF BuildOK
  <1>11. ChunksOK' /\ WordsOK'
    BY <1>3, ChunksKept DEF WordsOK, TooLargeIsAWord, LoopOK
  <1> QED
    BY <1>3, <1>7, <1>8, <1>9, <1>10, <1>11, TablesKept

LEMMA AddAtomKeeps == IInv /\ AddAtom => IInv'
  <1> SUFFICES ASSUME IInv, AddAtom PROVE IInv'
    OBVIOUS
  <1>1. /\ pc = "build" /\ index < end /\ index' = index + 1
        /\ ids' = ids + atoms[index + 1] + Bounded(index + 1)
        /\ UNCHANGED <<input, pc, tables, start, hard, search, choice, result>>
    BY DEF AddAtom, Bounded
  <1> USE <1>1 DEF IInv, input, tables, search, choice, result
  <1>2. /\ words \in Nat /\ start \in 0..words /\ end \in 0..words
        /\ start < end /\ index \in start..end - 1 /\ ids \in Nat
        /\ ids = 1 + (prefix[index] - prefix[start]) + (marks[index] - marks[start])
    <2>1. words \in Nat
      BY Atoms
    <2>2. start \in 0..words /\ end \in 0..words /\ ids \in Nat
      BY DEF TypeOK
    <2> QED
      BY <2>1, <2>2 DEF BuildOK
  <1>3. words' = words /\ Cutting /\ Cutting'
    BY DEF words, Cutting
  <1>4. /\ atoms[index + 1] \in Nat /\ Bounded(index + 1) \in Nat
        /\ prefix[index + 1] = prefix[index] + atoms[index + 1]
        /\ marks[index + 1] = marks[index] + Bounded(index + 1)
    <2>1. Filled = words
      BY DEF Filled, Cutting
    <2>2. index + 1 \in 1..words /\ (index + 1) - 1 = index
      BY <1>2
    <2>3. atoms[index + 1] \in Nat
      BY <2>2, Atoms
    <2>4. Bounded(index + 1) \in Nat
      BY DEF Bounded
    <2> QED
      BY <2>1, <2>2, <2>3, <2>4 DEF TablesOK
  <1>5. /\ prefix[index] \in Nat /\ prefix[start] \in Nat
        /\ marks[index] \in Nat /\ marks[start] \in Nat
    <2>1. index \in 0..words
      BY <1>2
    <2> QED
      BY <1>2, <2>1 DEF TypeOK
  <1>6. TypeOK'
    <2>1. ids' \in Nat /\ index' \in Nat
      BY <1>2, <1>4
    <2> QED
      BY <1>3, <2>1 DEF TypeOK
  <1>7. LoopOK' /\ SearchOK' /\ ChooseOK' /\ BoundaryIsThere'
    BY <1>3 DEF LoopOK, SearchOK, ChooseOK, BoundaryIsThere, Reading, Cutting
  <1>8. BuildOK'
    <2>1. index' \in start..end
      BY <1>2
    <2>2. ids' = 1 + (prefix[index + 1] - prefix[start]) + (marks[index + 1] - marks[start])
      BY <1>2, <1>4, <1>5
    <2>3. Fits(start, end)'
      BY DEF BuildOK, Fits, RangeSize
    <2> QED
      BY <1>2, <2>1, <2>2, <2>3 DEF BuildOK
  <1>9. ChunksOK' /\ WordsOK'
    BY <1>3, ChunksKept DEF WordsOK, TooLargeIsAWord, LoopOK
  <1> QED
    BY <1>3, <1>6, <1>7, <1>8, <1>9, TablesKept

LEMMA EmitKeeps == IInv /\ Emit => IInv'
  <1> SUFFICES ASSUME IInv, Emit PROVE IInv'
    OBVIOUS
  <1> DEFINE size  == ids + (IF forced THEN 2 ELSE 1)
             last  == forced \/ mark[end] = Continuation
             chunk == [from |-> start, to |-> end, ids |-> size,
                       forced |-> forced, continuation |-> carry \/ last]
  <1>1. pc = "build" /\ index = end
    BY DEF Emit
  <1> USE <1>1 DEF IInv
  <1>2. /\ words \in Nat /\ start \in 0..words /\ end \in 0..words /\ start < end
        /\ budget \in Nat /\ total \in Nat /\ ids \in Nat /\ MaxSerialized \in Nat
        /\ forced \in BOOLEAN /\ carry \in BOOLEAN
    <2>1. words \in Nat
      BY Atoms
    <2>2. /\ start \in 0..words /\ end \in 0..words /\ budget \in Nat /\ ids \in Nat
          /\ forced \in BOOLEAN /\ carry \in BOOLEAN /\ total \in Nat
      BY BudgetAssumption, WordsAssumption DEF TypeOK
    <2> QED
      BY <2>1, <2>2, WordsAssumption DEF BuildOK
  <1>3. Cutting
    BY DEF Cutting
  <1>4. size = RangeSize(start, end) /\ size <= budget /\ size \in Nat
    <2>1. /\ prefix[start] \in Nat /\ prefix[end] \in Nat
          /\ marks[start] \in Nat /\ marks[end] \in Nat
      BY <1>2 DEF TypeOK
    <2>2. ids = 1 + (prefix[end] - prefix[start]) + (marks[end] - marks[start])
      BY DEF BuildOK
    <2>3. forced <=> mark[end] = 0
      BY DEF BoundaryIsThere
    <2>4. size = RangeSize(start, end)
      BY <1>2, <2>1, <2>2, <2>3 DEF RangeSize
    <2>5. size \in Nat
      BY <1>2
    <2> QED
      BY <2>4, <2>5 DEF BuildOK, Fits
  <1>5. CASE total + size > MaxSerialized
    <2>1. Reject("OUTPUT_LIMIT")
      BY <1>2, <1>4, <1>5 DEF Emit
    <2> QED
      BY <2>1, RejectionHonest DEF Statuses
  <1>6. CASE ~(total + size > MaxSerialized)
    <2>1. /\ chunks' = Append(chunks, chunk) /\ total' = total + size /\ carry' = last
          /\ start' = end /\ pc' = "chunk"
          /\ UNCHANGED <<input, index, tables, hard, search, choice, ids, status>>
      BY <1>2, <1>4, <1>6 DEF Emit, Goes
    <2> USE DEF input, tables, search, choice
    <2>2. words' = words /\ Cutting' /\ status = "none"
      BY <2>1 DEF words, Cutting, LoopOK
    <2> DEFINE Chunk == [from : 0..words, to : 0..words, ids : 0..MaxSerialized,
                         forced : BOOLEAN, continuation : BOOLEAN]
    <2>3. chunks \in Seq(Chunk)
      BY DEF TypeOK
    <2>4. size \in 0..MaxSerialized /\ total' \in 0..MaxSerialized
      BY <1>2, <1>4, <1>6, <2>1
    <2>5. last \in BOOLEAN /\ (carry \/ last) \in BOOLEAN
      BY <1>2
    <2> HIDE DEF size, last
    <2>6. chunk \in Chunk
      BY <1>2, <2>4, <2>5
    <2>7. /\ chunk.from = start /\ chunk.to = end /\ chunk.ids = size
      OBVIOUS
    <2> HIDE DEF chunk, Chunk
    <2>8. /\ chunks' \in Seq(Chunk) /\ Len(chunks') = Len(chunks) + 1
          /\ chunks'[Len(chunks) + 1] = chunk /\ Len(chunks) \in Nat
          /\ \A i \in 1..Len(chunks) : chunks'[i] = chunks[i]
      BY <2>1, <2>3, <2>6
    <2>9. TypeOK'
      <3>1. chunks' \in Seq([from : 0..words', to : 0..words', ids : 0..MaxSerialized,
                             forced : BOOLEAN, continuation : BOOLEAN])
        BY <2>2, <2>8 DEF Chunk
      <3> QED
        BY <1>2, <2>1, <2>2, <2>4, <2>5, <3>1 DEF TypeOK
    <2>10. LoopOK' /\ SearchOK' /\ ChooseOK' /\ BuildOK' /\ BoundaryIsThere'
      BY <2>1, <2>2 DEF LoopOK, SearchOK, ChooseOK, BuildOK, BoundaryIsThere, Reading, Cutting
    <2>11. ChunksOK'
      <3>1. DOMAIN chunks = 1..Len(chunks) /\ DOMAIN chunks' = 1..Len(chunks) + 1
        BY <2>3, <2>8
      <3>2. IF chunks = <<>> THEN start = 0 ELSE chunks[Len(chunks)].to = start
        BY <1>1 DEF ChunksOK, EveryWordOnce
      <3>3. chunks = <<>> <=> Len(chunks) = 0
        BY <2>3
      <3>4. ASSUME NEW i \in 1..Len(chunks) + 1
            PROVE  /\ chunks'[i].from = (IF i = 1 THEN 0 ELSE chunks'[i - 1].to)
                   /\ chunks'[i].from < chunks'[i].to
                   /\ chunks'[i].ids <= budget
        <4>1. CASE i = Len(chunks) + 1
          <5>1. chunks'[i].from = start /\ chunks'[i].to = end /\ chunks'[i].ids = size
            BY <2>7, <2>8, <4>1
          <5>2. i # 1 => i - 1 = Len(chunks) /\ i - 1 \in 1..Len(chunks) /\ chunks # <<>>
            BY <2>8, <3>3, <4>1
          <5>3. i = 1 => chunks = <<>>
            BY <2>8, <3>3, <4>1
          <5> QED
            BY <1>2, <1>4, <2>8, <3>2, <5>1, <5>2, <5>3
        <4>2. CASE i \in 1..Len(chunks)
          <5>1. i # 1 => i - 1 \in 1..Len(chunks)
            BY <2>8, <4>2
          <5>2. chunks'[i] = chunks[i] /\ (i # 1 => chunks'[i - 1] = chunks[i - 1])
            BY <2>8, <4>2, <5>1
          <5> QED
            BY <3>1, <4>2, <5>2 DEF ChunksOK, EveryWordOnce, WithinBudget
        <4> QED
          BY <2>8, <4>1, <4>2
      <3>5. chunks' # <<>> /\ chunks'[Len(chunks')].to = end
        BY <2>7, <2>8
      <3>6. EveryWordOnce'
        BY <2>1, <2>2, <3>1, <3>4, <3>5 DEF EveryWordOnce
      <3>7. WithinBudget'
        BY <2>1, <2>2, <3>1, <3>4 DEF WithinBudget
      <3> QED
        BY <3>5, <3>6, <3>7 DEF ChunksOK
    <2>12. WordsOK'
      <3>1. \A i \in 1..end : atoms[i] + 3 <= budget
        <4>1. ASSUME NEW i \in 1..end PROVE atoms[i] + 3 <= budget
          <5>1. CASE i \in 1..start
            BY <1>3, <5>1 DEF WordsOK
          <5>2. CASE i \in start + 1..end
            BY <1>2, <1>3, <5>2, WordFits DEF BuildOK
          <5> QED
            BY <1>2, <5>1, <5>2
        <4> QED
          BY <4>1
      <3> QED
        BY <2>1, <2>2, <3>1 DEF WordsOK, TooLargeIsAWord
    <2> QED
      BY <1>3, <2>1, <2>2, <2>9, <2>10, <2>11, <2>12, TablesKept
  <1> QED
    BY <1>5, <1>6

LEMMA FinishKeeps == IInv /\ Finish => IInv'
  <1> SUFFICES ASSUME IInv, Finish PROVE IInv'
    OBVIOUS
  <1>1. /\ pc = "chunk" /\ start = words /\ status' = "OK" /\ pc' = "done"
        /\ UNCHANGED <<input, index, tables, start, hard, search, choice, ids, total, carry, chunks>>
    BY DEF Finish, Goes
  <1> USE <1>1 DEF IInv, input, tables, search, choice
  <1>2. words' = words /\ words \in Nat /\ words > 0 /\ Cutting
    <2>1. words \in Nat
      BY Atoms
    <2> QED
      BY <2>1 DEF words, LoopOK, Cutting
  <1>3. TypeOK'
    BY <1>2 DEF TypeOK, Statuses
  <1>4. LoopOK' /\ CoverOK' /\ SearchOK' /\ ChooseOK' /\ BuildOK' /\ BoundaryIsThere'
    BY <1>2 DEF LoopOK, CoverOK, SearchOK, ChooseOK, BuildOK, BoundaryIsThere, Reading, Cutting
  <1>5. TablesOK'
    <2>1. Filled' = 0
      BY DEF Filled, Cutting
    <2> QED
      BY <2>1 DEF TablesOK
  <1>6. ChunksOK'
    <2>1. chunks # <<>> /\ chunks[Len(chunks)].to = words
      BY <1>2 DEF ChunksOK, EveryWordOnce
    <2> QED
      BY <1>2, <2>1 DEF ChunksOK, EveryWordOnce, WithinBudget
  <1>7. WordsOK'
    BY <1>2 DEF WordsOK, TooLargeIsAWord, Cutting
  <1> QED
    BY <1>3, <1>4, <1>5, <1>6, <1>7

\* A step that changes nothing keeps the invariant.
LEMMA StutterKeeps == IInv /\ UNCHANGED vars => IInv'
  <1> SUFFICES ASSUME IInv, UNCHANGED vars PROVE IInv'
    OBVIOUS
  <1> USE DEF vars, input, tables, search, choice, result, IInv
  <1>1. words' = words /\ Filled' = Filled /\ \A e : Bounded(e)' = Bounded(e)
    BY DEF words, Filled, Bounded, Cutting
  <1>2. TypeOK' /\ LoopOK' /\ CoverOK'
    BY <1>1 DEF TypeOK, LoopOK, CoverOK, Reading, Cutting
  <1>3. TablesOK'
    BY <1>1 DEF TablesOK
  <1>4. SearchOK' /\ ChooseOK' /\ BuildOK' /\ BoundaryIsThere'
    BY DEF SearchOK, ChooseOK, BuildOK, BoundaryIsThere, Fits, RangeSize
  <1>5. ChunksOK' /\ WordsOK'
    BY <1>1 DEF ChunksOK, WordsOK, EveryWordOnce, WithinBudget, TooLargeIsAWord, Cutting
  <1> QED
    BY <1>2, <1>3, <1>4, <1>5

\* IInv is inductive: each step of the serializer keeps it.
LEMMA Inductive == IInv /\ [Next]_vars => IInv'
  BY BeginKeeps, ReadWordKeeps, ReadPhraseKeeps, PhrasesEndKeeps, AddPrefixKeeps,
     NextChunkKeeps, SearchKeeps, SearchEndsKeeps, ChooseKeeps, AddAtomKeeps,
     EmitKeeps, FinishKeeps, StutterKeeps DEF Next

-----------------------------------------------------------------------------
(* The theorems.                                                           *)

\* The invariant holds of every state of the serializer.
THEOREM Invariance == Spec => []IInv
  <1>1. Init => IInv
    BY Initially
  <1>2. IInv /\ [Next]_vars => IInv'
    BY Inductive
  <1> QED
    BY <1>1, <1>2, PTL DEF Spec

\* No sum or index of serialize_model_tokens leaves its range, whatever the
\* text, its phrases and the budget.
THEOREM Typing == Spec => []TypeOK
  <1>1. IInv => TypeOK
    BY DEF IInv
  <1> QED
    BY <1>1, Invariance, PTL

\* The chunks of every text are its words, in order, each once.
THEOREM ChunksAreTheWords == Spec => []EveryWordOnce
  <1>1. IInv => EveryWordOnce
    BY DEF IInv, ChunksOK
  <1> QED
    BY <1>1, Invariance, PTL

\* No chunk of any text is over the budget, and the code's own check of it is
\* never what rejects a text.
THEOREM ChunksFit == Spec => []WithinBudget
  <1>1. IInv => WithinBudget
    BY DEF IInv, ChunksOK
  <1> QED
    BY <1>1, Invariance, PTL

\* MODEL_INPUT_ATOM_TOO_LARGE is answered only for a word that can not fit,
\* and then always.
THEOREM OnlyWordsAreTooLarge == Spec => []TooLargeIsAWord
  <1>1. IInv => TooLargeIsAWord
    BY DEF IInv, WordsOK
  <1> QED
    BY <1>1, Invariance, PTL

\* boundaries[end] holds a phrase's boundary whenever it is dereferenced.
THEOREM BoundaryDereferenced == Spec => []BoundaryIsThere
  <1>1. IInv => BoundaryIsThere
    BY DEF IInv
  <1> QED
    BY <1>1, Invariance, PTL

-----------------------------------------------------------------------------
(* The cuts.  CutInv is kept by the steps of states in which IInv holds.   *)

\* The ends that a chunk may have: none is beyond a continuation.
Ends(from) == {e \in from + 1..words : \A c \in from + 1..e - 1 : mark[c] # Continuation}

\* hard is the last of them.
IsHard(from, last) ==
  /\ last \in from + 1..words
  /\ \A c \in from + 1..last - 1 : mark[c] # Continuation
  /\ last = words \/ mark[last] = Continuation

Continues(chunk) == chunk.forced \/ mark[chunk.to] = Continuation

HardOK == pc \in {"search", "choose", "build"} => IsHard(start, hard)

\* furthest is the last end that fits, and not all do.
NarrowOK ==
  /\ pc = "search" => ~Fits(start, hard)
  /\ pc = "choose" => /\ furthest \in start + 1..hard - 1 /\ Fits(start, furthest)
                      /\ \A e \in furthest + 1..hard : ~Fits(start, e)

CutOK == pc = "build" => BestCut(start, end)

CarryOK ==
  /\ Reading => ~carry
  /\ Cutting => (carry <=> chunks # <<>> /\ Continues(chunks[Len(chunks)]))

MarksOK ==
  \A i \in DOMAIN chunks :
    chunks[i].continuation <=>
      Continues(chunks[i]) \/ (i > 1 /\ Continues(chunks[i - 1]))

CutInv == HardOK /\ NarrowOK /\ CutOK /\ CarryOK /\ MarksOK /\ CutsAreBest

\* The ends up to a hard one.
LEMMA EndsUpTo ==
  ASSUME words \in Nat, NEW s \in 0..words, NEW h \in s + 1..words, IsHard(s, h)
  PROVE  Ends(s) = s + 1..h
  <1>1. ASSUME NEW e \in Ends(s) PROVE e \in s + 1..h
    <2>1. e \in s + 1..words /\ \A c \in s + 1..e - 1 : mark[c] # Continuation
      BY DEF Ends
    <2>2. e > h => h \in s + 1..e - 1 /\ h # words
      BY <2>1
    <2> QED
      BY <2>1, <2>2 DEF IsHard
  <1>2. ASSUME NEW e \in s + 1..h PROVE e \in Ends(s)
    <2>1. e \in s + 1..words /\ \A c \in s + 1..e - 1 : c \in s + 1..h - 1
      OBVIOUS
    <2> QED
      BY <2>1 DEF Ends, IsHard
  <1> QED
    BY <1>1, <1>2

\* What fits still fits when it ends earlier.
LEMMA ShorterFits ==
  ASSUME TypeOK, TablesOK, Cutting,
         NEW s \in 0..words, NEW e \in s + 1..words, NEW f \in s + 1..words, e <= f, Fits(s, f)
  PROVE  Fits(s, e)
  <1>1. words \in Nat /\ budget \in Int
    BY Atoms, BudgetAssumption DEF TypeOK
  <1>2. e \in 0..words /\ f \in 0..words /\ s <= e
    BY <1>1
  <1>3. CASE e = f
    BY <1>3
  <1>4. CASE e < f
    <2>1. /\ RangeSize(s, e) \in Int /\ RangeSize(s, f) \in Int
          /\ RangeSize(s, e) < RangeSize(s, f)
      BY <1>2, <1>4, LongerIsLarger
    <2> QED
      BY <1>1, <2>1 DEF Fits
  <1> QED
    BY <1>1, <1>3, <1>4

\* If all that may be in a chunk fits, it is the best cut.
LEMMA WholeIsBest ==
  ASSUME TypeOK, TablesOK, Cutting,
         NEW s \in 0..words, NEW h \in s + 1..words, IsHard(s, h), Fits(s, h)
  PROVE  BestCut(s, h)
  <1>1. words \in Nat
    BY Atoms
  <1>2. Ends(s) = s + 1..h
    BY <1>1, EndsUpTo
  <1>3. \A e \in Ends(s) : Fits(s, e) /\ e <= h
    <2> SUFFICES ASSUME NEW e \in s + 1..h PROVE Fits(s, e) /\ e <= h
      BY <1>2
    <2>1. e \in s + 1..words /\ e <= h
      BY <1>1
    <2> QED
      BY <2>1, ShorterFits
  <1>4. h \in Ends(s)
    BY <1>1, <1>2
  <1> QED
    BY <1>3, <1>4 DEF BestCut, Ends

\* Else the latest of the best boundaries up to the furthest end that fits is,
\* or, if there are none, that end.
LEMMA NearIsBest ==
  ASSUME TypeOK, TablesOK, Cutting,
         NEW s \in 0..words, NEW h \in s + 1..words, IsHard(s, h),
         NEW f \in s + 1..h - 1, Fits(s, f), \A e \in f + 1..h : ~Fits(s, e),
         NEW to, NEW near, near = {e \in s + 1..f : mark[e] # 0},
         near = {} => to = f,
         near # {} => to \in {e \in near : \A other \in near :
                                \/ mark[other] < mark[e]
                                \/ mark[other] = mark[e] /\ other <= e}
  PROVE  BestCut(s, to)
  <1> DEFINE fitting == {e \in Ends(s) : Fits(s, e)}
             bounds  == {e \in fitting : mark[e] # 0}
             best    == {e \in bounds : \A other \in bounds : mark[other] <= mark[e]}
  <1>1. words \in Nat /\ f \in s + 1..words
    BY Atoms
  <1>2. Ends(s) = s + 1..h
    BY <1>1, EndsUpTo
  <1>3. fitting = s + 1..f
    <2>1. ASSUME NEW e \in s + 1..h, Fits(s, e) PROVE e \in s + 1..f
      BY <1>1, <2>1
    <2>2. ASSUME NEW e \in s + 1..f PROVE e \in s + 1..h /\ Fits(s, e)
      <3>1. e \in s + 1..h /\ e \in s + 1..words /\ e <= f
        BY <1>1
      <3> QED
        BY <1>1, <3>1, ShorterFits
    <2> QED
      BY <1>2, <2>1, <2>2
  <1>4. bounds = near
    BY <1>3
  <1>5. ~ \A e \in Ends(s) : Fits(s, e)
    <2>1. h \in f + 1..h /\ h \in s + 1..h
      BY <1>1
    <2> QED
      BY <1>2, <2>1
  <1>6. near = {} => to \in fitting /\ \A e \in fitting : e <= to
    BY <1>1, <1>3
  <1>7. near # {} => to \in best /\ \A e \in best : e <= to
    <2> SUFFICES ASSUME near # {} PROVE to \in best /\ \A e \in best : e <= to
      OBVIOUS
    <2>1. \A e \in near : mark[e] \in Nat
      <3>1. \A e \in near : e \in 0..words
        BY <1>1
      <3>2. mark \in [0..words -> 0..Continuation]
        BY DEF TypeOK
      <3> QED
        BY <3>1, <3>2 DEF Continuation
    <2>2. to \in near /\ \A other \in near : mark[other] <= mark[to]
      BY <2>1
    <2>3. ASSUME NEW e \in best PROVE e <= to
      <3>1. e \in near /\ mark[to] <= mark[e]
        BY <1>4, <2>2
      <3>2. mark[e] < mark[to] \/ e <= to
        BY <3>1
      <3> QED
        BY <2>1, <2>2, <3>1, <3>2
    <2> QED
      BY <1>4, <2>2, <2>3
  <1> QED
    BY <1>4, <1>5, <1>6, <1>7 DEF BestCut, Ends

\* The best cut never goes over a continuation.
LEMMA BestCutReaches ==
  ASSUME NEW from, NEW to, BestCut(from, to)
  PROVE  \A c \in from + 1..to - 1 : mark[c] # Continuation
  BY DEF BestCut

\* What is best stays so while chunks are cut.
LEMMA BestKept ==
  ASSUME UNCHANGED <<input, tables>>
  PROVE  /\ \A s, e : Fits(s, e)' <=> Fits(s, e)
         /\ \A s, h : IsHard(s, h)' <=> IsHard(s, h)
         /\ \A s, e : BestCut(s, e)' <=> BestCut(s, e)
  <1> USE DEF input, tables
  <1>1. words' = words
    BY DEF words
  <1>2. \A s, e : Fits(s, e)' <=> Fits(s, e)
    BY DEF Fits, RangeSize
  <1>3. \A s, h : IsHard(s, h)' <=> IsHard(s, h)
    BY <1>1 DEF IsHard
  <1>4. \A s, e : BestCut(s, e)' <=> BestCut(s, e)
    BY <1>1, <1>2 DEF BestCut
  <1> QED
    BY <1>2, <1>3, <1>4

\* The chunks that are there stay as good as they are.
LEMMA CutsKept ==
  ASSUME CutInv, UNCHANGED <<input, tables, chunks, carry>>, Cutting, Cutting'
  PROVE  CarryOK' /\ MarksOK' /\ CutsAreBest'
  <1>1. \A s, e : BestCut(s, e)' <=> BestCut(s, e)
    BY BestKept
  <1>2. CutsAreBest'
    BY <1>1 DEF CutInv, CutsAreBest
  <1>3. CarryOK' /\ MarksOK'
    BY DEF CutInv, CarryOK, MarksOK, Continues, Cutting, Reading, tables
  <1> QED
    BY <1>2, <1>3

LEMMA NothingCut ==
  ASSUME chunks' = <<>>, pc' = "done" \/ (Reading' /\ ~carry') PROVE CutInv'
  BY DEF CutInv, HardOK, NarrowOK, CutOK, CarryOK, MarksOK, CutsAreBest, Cutting, Reading

LEMMA CutsInitially == Init => CutInv
  BY DEF Init, CutInv, HardOK, NarrowOK, CutOK, CarryOK, MarksOK, CutsAreBest, Cutting

LEMMA ReadingKeepsCuts ==
  ASSUME IInv, CutInv, Begin \/ ReadWord \/ ReadPhrase \/ PhrasesEnd
  PROVE  CutInv'
  <1>1. Reading /\ chunks = <<>> /\ ~carry
    BY DEF Begin, ReadWord, ReadPhrase, PhrasesEnd, Reading, IInv, LoopOK, CutInv, CarryOK
  <1>2. ASSUME NEW r, Reject(r) PROVE CutInv'
    BY <1>2, NothingCut DEF Reject
  <1>3. (chunks' = <<>> /\ (pc' = "done" \/ (Reading' /\ ~carry'))) \/ \E r : Reject(r)
    BY <1>1 DEF Begin, ReadWord, ReadPhrase, PhrasesEnd, Goes, Reading, result
  <1> QED
    BY <1>2, <1>3, NothingCut

LEMMA AddPrefixKeepsCuts ==
  ASSUME IInv, CutInv, AddPrefix
  PROVE  CutInv'
  <1>1. /\ chunks' = <<>> /\ ~carry' /\ pc' \in {"prefix", "chunk"}
    BY DEF AddPrefix, Goes, IInv, LoopOK, Reading, CutInv, CarryOK
  <1> QED
    BY <1>1 DEF CutInv, HardOK, NarrowOK, CutOK, CarryOK, MarksOK, CutsAreBest, Cutting, Reading

\* The end that hard' names is the last that the chunk may have.
LEMMA NextIsHard ==
  ASSUME IInv, pc = "chunk", start < words, NEW last,
         last \in IF HardEnds = {} THEN {words}
                  ELSE {e \in HardEnds : \A other \in HardEnds : e <= other}
  PROVE  start \in 0..words /\ last \in start + 1..words /\ IsHard(start, last)
  <1>1. words \in Nat /\ start \in 0..words
    BY Atoms DEF IInv, TypeOK
  <1>2. CASE HardEnds = {}
    <2>1. last = words /\ last \in start + 1..words
      BY <1>1, <1>2
    <2>2. \A c \in start + 1..last - 1 : c \in start + 1..words
      BY <1>1, <2>1
    <2> QED
      BY <1>1, <1>2, <2>1, <2>2 DEF IsHard, HardEnds
  <1>3. CASE HardEnds # {}
    <2>1. last \in HardEnds /\ \A other \in HardEnds : last <= other
      BY <1>3
    <2>2. last \in start + 1..words /\ mark[last] = Continuation
      BY <2>1 DEF HardEnds
    <2>3. ASSUME NEW c \in start + 1..last - 1, mark[c] = Continuation PROVE FALSE
      <3>1. c \in start + 1..words /\ c < last
        BY <1>1, <2>2
      <3>2. c \in HardEnds
        BY <2>3, <3>1 DEF HardEnds
      <3> QED
        BY <1>1, <2>1, <2>2, <3>1, <3>2
    <2> QED
      BY <1>1, <2>2, <2>3 DEF IsHard
  <1> QED
    BY <1>2, <1>3

LEMMA NextChunkKeepsCuts ==
  ASSUME IInv, CutInv, NextChunk
  PROVE  CutInv'
  <1>1. /\ pc = "chunk" /\ UNCHANGED <<input, tables, start, chunks, carry>>
        /\ pc' \in {"build", "search"}
    BY DEF NextChunk, Goes, result
  <1>2. Cutting /\ Cutting'
    BY <1>1 DEF Cutting
  <1>3. start \in 0..words /\ hard' \in start + 1..words /\ IsHard(start, hard')
    BY <1>1, NextIsHard DEF NextChunk
  <1>4. IsHard(start, hard)'
    BY <1>1, <1>3, BestKept
  <1>5. CarryOK' /\ MarksOK' /\ CutsAreBest'
    BY <1>1, <1>2, CutsKept
  <1>6. CASE RangeSize(start, hard') <= budget
    <2>1. end' = hard' /\ pc' = "build"
      BY <1>6 DEF NextChunk, Goes
    <2>2. BestCut(start, end')
      BY <1>2, <1>3, <1>6, <2>1, WholeIsBest DEF IInv, Fits
    <2>3. BestCut(start, end)'
      BY <1>1, <2>2, BestKept
    <2> QED
      BY <1>4, <1>5, <2>1, <2>3 DEF CutInv, HardOK, NarrowOK, CutOK
  <1>7. CASE ~(RangeSize(start, hard') <= budget)
    <2>1. pc' = "search"
      BY <1>7 DEF NextChunk, Goes
    <2>2. ~Fits(start, hard')
      BY <1>7 DEF Fits
    <2>3. ~Fits(start, hard)'
      BY <1>1, <2>2, BestKept
    <2> QED
      BY <1>4, <1>5, <2>1, <2>3 DEF CutInv, HardOK, NarrowOK, CutOK
  <1> QED
    BY <1>6, <1>7

LEMMA SearchKeepsCuts ==
  ASSUME IInv, CutInv, Search
  PROVE  CutInv'
  <1>1. /\ pc = "search" /\ pc' = "search"
        /\ UNCHANGED <<input, tables, start, hard, chunks, carry>>
    BY DEF Search, result
  <1>2. Cutting /\ Cutting'
    BY <1>1 DEF Cutting
  <1>3. CarryOK' /\ MarksOK' /\ CutsAreBest'
    BY <1>1, <1>2, CutsKept
  <1>4. IsHard(start, hard)' /\ ~Fits(start, hard)'
    BY <1>1, BestKept DEF CutInv, HardOK, NarrowOK
  <1> QED
    BY <1>1, <1>3, <1>4 DEF CutInv, HardOK, NarrowOK, CutOK

LEMMA SearchEndsKeepsCuts ==
  ASSUME IInv, CutInv, SearchEnds
  PROVE  CutInv'
  <1>1. CASE furthest = start
    BY <1>1, NothingCut DEF SearchEnds, Reject
  <1>2. CASE furthest # start
    <2>1. /\ pc = "search" /\ pc' = "choose" /\ low > high
          /\ UNCHANGED <<input, tables, start, hard, furthest, chunks, carry>>
      BY <1>2 DEF SearchEnds, Goes, search, result
    <2>2. Cutting /\ Cutting'
      BY <2>1 DEF Cutting
    <2>3. CarryOK' /\ MarksOK' /\ CutsAreBest'
      BY <2>1, <2>2, CutsKept
    <2>4. IsHard(start, hard)'
      BY <2>1, BestKept DEF CutInv, HardOK
    <2>5. /\ words \in Nat /\ start \in 0..words /\ furthest \in 0..words /\ hard \in 0..words
          /\ high \in 0..words
      BY Atoms DEF IInv, TypeOK
    <2>6. /\ furthest = high /\ start < furthest /\ furthest <= hard /\ Fits(start, furthest)
          /\ \A e \in furthest + 1..hard : ~Fits(start, e)
      BY <1>2, <2>1, <2>5 DEF IInv, SearchOK
    <2>7. ~Fits(start, hard)
      BY <2>1 DEF CutInv, NarrowOK
    <2>8. furthest \in start + 1..hard - 1
      <3>1. furthest # hard
        BY <2>6, <2>7
      <3> QED
        BY <2>5, <2>6, <3>1
    <2>9. NarrowOK'
      BY <2>1, <2>6, <2>8, BestKept DEF NarrowOK
    <2> QED
      BY <2>1, <2>3, <2>4, <2>9 DEF CutInv, HardOK, CutOK
  <1> QED
    BY <1>1, <1>2

LEMMA ChooseKeepsCuts ==
  ASSUME IInv, CutInv, Choose
  PROVE  CutInv'
  <1>1. /\ pc = "choose" /\ pc' = "build"
        /\ UNCHANGED <<input, tables, start, hard, chunks, carry>>
    BY DEF Choose, Goes, result
  <1>2. Cutting /\ Cutting'
    BY <1>1 DEF Cutting
  <1>3. CarryOK' /\ MarksOK' /\ CutsAreBest'
    BY <1>1, <1>2, CutsKept
  <1>4. IsHard(start, hard)'
    BY <1>1, BestKept DEF CutInv, HardOK
  <1>5. BestCut(start, end')
    <2>1. /\ IsHard(start, hard) /\ furthest \in start + 1..hard - 1 /\ Fits(start, furthest)
          /\ \A e \in furthest + 1..hard : ~Fits(start, e)
      BY <1>1 DEF CutInv, HardOK, NarrowOK
    <2>2. start \in 0..words /\ hard \in start + 1..words
      BY <2>1 DEF IInv, TypeOK, IsHard
    <2> DEFINE near == {e \in start + 1..furthest : mark[e] # 0}
    <2>3. /\ near = {} => end' = furthest
          /\ near # {} => end' \in {e \in near : \A other \in near :
                                      \/ mark[other] < mark[e]
                                      \/ mark[other] = mark[e] /\ other <= e}
      BY DEF Choose
    <2> QED
      BY <1>2, <2>1, <2>2, <2>3, NearIsBest DEF IInv
  <1>6. BestCut(start, end)'
    BY <1>1, <1>5, BestKept
  <1> QED
    BY <1>1, <1>3, <1>4, <1>6 DEF CutInv, HardOK, NarrowOK, CutOK

LEMMA AddAtomKeepsCuts ==
  ASSUME IInv, CutInv, AddAtom
  PROVE  CutInv'
  <1>1. /\ pc = "build" /\ pc' = "build"
        /\ UNCHANGED <<input, tables, start, hard, end, chunks, carry>>
    BY DEF AddAtom, choice, result
  <1>2. Cutting /\ Cutting'
    BY <1>1 DEF Cutting
  <1>3. CarryOK' /\ MarksOK' /\ CutsAreBest'
    BY <1>1, <1>2, CutsKept
  <1>4. IsHard(start, hard)' /\ BestCut(start, end)'
    BY <1>1, BestKept DEF CutInv, HardOK, CutOK
  <1> QED
    BY <1>1, <1>3, <1>4 DEF CutInv, HardOK, NarrowOK, CutOK

\* The chunk that is emitted ends where the cut was made, and what the chunk
\* before it left in carry is how that one ends.
LEMMA EmitKeepsCuts ==
  ASSUME IInv, CutInv, Emit
  PROVE  CutInv'
  <1> DEFINE size  == ids + (IF forced THEN 2 ELSE 1)
             last  == forced \/ mark[end] = Continuation
             chunk == [from |-> start, to |-> end, ids |-> size,
                       forced |-> forced, continuation |-> carry \/ last]
  <1>1. ASSUME NEW r, Reject(r) PROVE CutInv'
    BY <1>1, NothingCut DEF Reject
  <1>2. CASE ~ \E r : Reject(r)
    <2>1. /\ pc = "build" /\ pc' = "chunk" /\ UNCHANGED <<input, tables>>
          /\ chunks' = Append(chunks, chunk) /\ carry' = last
      BY <1>2 DEF Emit, Goes
    <2>2. /\ Cutting /\ Cutting' /\ ~Reading' /\ carry \in BOOLEAN /\ forced \in BOOLEAN
      BY <2>1 DEF Cutting, Reading, IInv, TypeOK
    <2>3. /\ chunk.from = start /\ chunk.to = end /\ chunk.forced = forced
          /\ chunk.continuation = (carry \/ last)
      OBVIOUS
    <2>4. Continues(chunk) <=> last
      BY <2>3 DEF Continues
    <2>5. \A c : Continues(c)' <=> Continues(c)
      BY <2>1 DEF Continues, tables
    <2> HIDE DEF chunk
    <2>6. /\ Len(chunks) \in Nat /\ DOMAIN chunks = 1..Len(chunks)
          /\ DOMAIN chunks' = 1..Len(chunks) + 1 /\ Len(chunks') = Len(chunks) + 1
          /\ chunks' # <<>> /\ chunks'[Len(chunks) + 1] = chunk
          /\ \A i \in 1..Len(chunks) : chunks'[i] = chunks[i]
          /\ (chunks = <<>>) <=> (Len(chunks) = 0)
      <3> DEFINE Chunk == [from : 0..words, to : 0..words, ids : 0..MaxSerialized,
                           forced : BOOLEAN, continuation : BOOLEAN]
      <3>1. chunks \in Seq(Chunk)
        BY DEF IInv, TypeOK
      <3> HIDE DEF Chunk
      <3>2. chunks \in Seq(Chunk \cup {chunk})
        BY <3>1
      <3> QED
        BY <2>1, <3>2
    <2>7. carry' <=> chunks' # <<>> /\ Continues(chunks[Len(chunks)])'
      BY <2>1, <2>2, <2>4, <2>5, <2>6
    <2>8. CarryOK'
      BY <2>2, <2>7 DEF CarryOK, Continues
    <2>9. MarksOK'
      <3>1. carry <=> chunks # <<>> /\ Continues(chunks[Len(chunks)])
        BY <2>2 DEF CutInv, CarryOK
      <3>2. ASSUME NEW i \in 1..Len(chunks) + 1
            PROVE  chunks'[i].continuation <=>
                     Continues(chunks'[i]) \/ (i > 1 /\ Continues(chunks'[i - 1]))
        <4>1. CASE i = Len(chunks) + 1
          <5>1. i > 1 <=> chunks # <<>>
            BY <2>6, <4>1
          <5>2. chunks'[i] = chunk
            BY <2>6, <4>1
          <5>3. i > 1 => chunks'[i - 1] = chunks[Len(chunks)]
            BY <2>6, <4>1
          <5> QED
            BY <2>3, <2>4, <3>1, <5>1, <5>2, <5>3
        <4>2. CASE i \in 1..Len(chunks)
          <5>1. chunks'[i] = chunks[i] /\ (i > 1 => chunks'[i - 1] = chunks[i - 1])
            BY <2>6, <4>2
          <5> QED
            BY <2>6, <4>2, <5>1 DEF CutInv, MarksOK
        <4> QED
          BY <2>6, <4>1, <4>2
      <3>3. \A i \in DOMAIN chunks' :
              chunks'[i].continuation <=>
                Continues(chunks[i])' \/ (i > 1 /\ Continues(chunks[i - 1])')
        BY <2>5, <2>6, <3>2
      <3> QED
        BY <3>3 DEF MarksOK, Continues
    <2>10. CutsAreBest'
      <3>1. BestCut(start, end)
        BY <2>1 DEF CutInv, CutOK
      <3>2. \A s, e : BestCut(s, e)' <=> BestCut(s, e)
        BY <2>1, BestKept
      <3>3. ASSUME NEW i \in 1..Len(chunks) + 1
            PROVE  BestCut(chunks'[i].from, chunks'[i].to)
        <4>1. CASE i = Len(chunks) + 1
          BY <2>3, <2>6, <3>1, <4>1
        <4>2. CASE i \in 1..Len(chunks)
          BY <2>6, <4>2 DEF CutInv, CutsAreBest
        <4> QED
          BY <2>6, <4>1, <4>2
      <3>4. \A i \in DOMAIN chunks' : BestCut(chunks[i].from, chunks[i].to)'
        BY <2>6, <3>2, <3>3
      <3> QED
        BY <3>4 DEF CutsAreBest
    <2> QED
      BY <2>1, <2>8, <2>9, <2>10 DEF CutInv, HardOK, NarrowOK, CutOK
  <1> QED
    BY <1>1, <1>2

LEMMA FinishKeepsCuts ==
  ASSUME IInv, CutInv, Finish \/ UNCHANGED vars
  PROVE  CutInv'
  <1>1. UNCHANGED <<input, tables, start, hard, search, choice, carry, chunks>>
    BY DEF Finish, Goes, vars, result
  <1>2. pc' = pc \/ pc' = "done"
    BY DEF Finish, Goes, vars
  <1>3. /\ \A s, e : Fits(s, e)' <=> Fits(s, e)
        /\ \A s, h : IsHard(s, h)' <=> IsHard(s, h)
        /\ \A s, e : BestCut(s, e)' <=> BestCut(s, e)
    BY <1>1, BestKept
  <1>4. HardOK' /\ NarrowOK' /\ CutOK'
    BY <1>1, <1>2, <1>3 DEF CutInv, HardOK, NarrowOK, CutOK, search, choice
  <1>5. CutsAreBest'
    BY <1>1, <1>3 DEF CutInv, CutsAreBest
  <1>6. CarryOK' /\ MarksOK'
    BY <1>1, <1>2 DEF CutInv, CarryOK, MarksOK, Continues, Cutting, Reading, tables
  <1> QED
    BY <1>4, <1>5, <1>6 DEF CutInv

LEMMA CutsInductive == IInv /\ CutInv /\ [Next]_vars => CutInv'
  BY ReadingKeepsCuts, AddPrefixKeepsCuts, NextChunkKeepsCuts, SearchKeepsCuts,
     SearchEndsKeepsCuts, ChooseKeepsCuts, AddAtomKeepsCuts, EmitKeepsCuts, FinishKeepsCuts
  DEF Next

\* Where the chunks are cut, and what is remembered of the last one.
THEOREM CutInvariance == Spec => []CutInv
  <1>1. Init => CutInv
    BY CutsInitially
  <1>2. IInv /\ CutInv /\ [Next]_vars => CutInv'
    BY CutsInductive
  <1> QED
    BY <1>1, <1>2, Invariance, PTL DEF Spec

\* Every chunk of every text is cut where README.md says, although the search
\* looks at a logarithmic number of ends only.
THEOREM CutsAlwaysBest == Spec => []CutsAreBest
  <1>1. CutInv => CutsAreBest
    BY DEF CutInv
  <1> QED
    BY <1>1, CutInvariance, PTL

\* Both sides of every forced cut and of every continuation are marked, and no
\* chunk goes over a continuation.
THEOREM BothSidesAlwaysMarked == Spec => []BothSidesMarked
  <1>1. CutInv => BothSidesMarked
    <2> SUFFICES ASSUME CutInv PROVE BothSidesMarked
      OBVIOUS
    <2>1. \A i \in DOMAIN chunks : \A c \in chunks[i].from + 1..chunks[i].to - 1 :
            mark[c] # Continuation
      BY BestCutReaches DEF CutInv, CutsAreBest
    <2> QED
      BY <2>1 DEF CutInv, MarksOK, BothSidesMarked, Continues
  <1> QED
    BY <1>1, CutInvariance, PTL
=============================================================================
