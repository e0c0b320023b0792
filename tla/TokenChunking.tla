--------------------------- MODULE TokenChunking ---------------------------
(***************************************************************************)
(* serialize_model_tokens (src/src/frontend/tokenization.cpp): the resolved *)
(* words of a text are packed into chunks of at most max_input_tokens IDs, *)
(* cut at the best phrase boundary that fits.                              *)
(*                                                                         *)
(* A word is the number of IDs of its atom; a phrase is the range of words *)
(* it covers, numbered from 0 as in the code, and the priority of its      *)
(* terminator.  Every iteration of a loop of the code is one step, and     *)
(* pc names the loop.                                                      *)
(***************************************************************************)
EXTENDS Naturals, Sequences

CONSTANTS
  MaxWords,       (* bound on the words of the text                      *)
  AtomSizes,      (* numbers of IDs of a word                            *)
  Priorities,     (* priorities of the terminators in the text           *)
  Budgets,        (* max_input_tokens of the loaded inventory            *)
  MaxSerialized   (* kMaximumSerializedIds, 4 Mi in the code             *)

Continuation == 5  \* the priority of END_CONTINUATION

ASSUME WordsAssumption == MaxWords \in Nat /\ MaxSerialized \in Nat
\* WB and one syllable at least: SYL, its stress and a segment.
ASSUME AtomAssumption == AtomSizes \subseteq Nat /\ \A size \in AtomSizes : size >= 4
ASSUME PriorityAssumption == Priorities \subseteq 1..Continuation
ASSUME BudgetAssumption == Budgets \subseteq Nat /\ \A size \in Budgets : size >= 8

VARIABLES
  atoms, phrases, budget,  \* the input
  pc,               \* the loop
  index,            \* how many of its iterations are done
  covered,          \* expected_word_start
  mark,             \* boundaries: the priority at the end of a word, 0 if none
  prefix, marks,    \* atom_prefix, boundary_prefix
  total,            \* total_atom_ids, then total_chunk_ids
  start, hard, low, high, furthest, end, forced, ids,  \* the chunk in the making
  carry,            \* starts_continuation
  chunks, status    \* the result

input  == <<atoms, phrases, budget>>
tables == <<covered, mark, prefix, marks>>
search == <<low, high, furthest>>
choice == <<end, forced>>
result == <<total, carry, chunks, status>>
vars   == <<input, pc, index, tables, start, hard, search, choice, ids, result>>

words    == Len(atoms)
Phrase   == [from : Nat, to : Nat, priority : 1..Continuation]
Statuses == {"none", "OK", "INVALID_INPUT", "INVALID_WORD", "INVALID_PHRASES",
             "OUTPUT_LIMIT", "ATOM_TOO_LARGE", "CHUNK_INVARIANT"}

-----------------------------------------------------------------------------
(* Faulty variants of definitions below, used by no specification.         *)

\* The ID that marks a forced end is forgotten.
RangeSizeUnforced(from, to) ==
  2 + (prefix[to] - prefix[from]) + (marks[to] - marks[from])

\* lower_bound for upper_bound: the continuation a chunk starts at ends it.
HardEndsFromStart == {e \in start..words : mark[e] = Continuation}

\* Continuations are cut points like the other boundaries, but not hard ones.
HardEndsForgotten == {}

\* The middle is not left out of the upper half.
SearchStuck ==
  /\ pc = "search" /\ low <= high
  /\ LET middle == low + (high - low) \div 2 IN
     IF 2 + (prefix[middle] - prefix[start]) + (marks[middle] - marks[start])
          + (IF mark[middle] # 0 THEN 0 ELSE 1) <= budget
     THEN furthest' = middle /\ low' = middle /\ UNCHANGED high
     ELSE high' = middle - 1 /\ UNCHANGED <<low, furthest>>
  /\ UNCHANGED <<input, pc, index, tables, start, hard, choice, ids, result>>

\* The search stops when low = high, with one candidate not looked at.
SearchEndsEarly ==
  /\ pc = "search" /\ low >= high
  /\ IF furthest = start
     THEN /\ pc' = "done" /\ status' = "ATOM_TOO_LARGE" /\ chunks' = <<>>
          /\ UNCHANGED <<total, carry>>
     ELSE pc' = "choose" /\ UNCHANGED result
  /\ UNCHANGED <<input, index, tables, start, hard, search, choice, ids>>

\* The priorities are tried from comma to continuation.
ChooseLowest ==
  /\ pc = "choose" /\ pc' = "build"
  /\ LET near == {e \in start + 1..furthest : mark[e] # 0} IN
     IF near = {}
     THEN end' = furthest /\ forced' = TRUE
     ELSE /\ end' \in {e \in near : \A other \in near :
                         \/ mark[other] > mark[e]
                         \/ mark[other] = mark[e] /\ other <= e}
          /\ forced' = FALSE
  /\ ids' = 1 /\ index' = start
  /\ UNCHANGED <<input, tables, start, hard, search, result>>

\* The chunks cut so far are left in the result.
RejectPartially(reason) ==
  /\ pc' = "done" /\ status' = reason
  /\ UNCHANGED <<input, index, tables, start, hard, search, choice, ids, total, carry,
                 chunks>>

-----------------------------------------------------------------------------
\* The phrases that end at the given words; the last may start one word late.
PhrasesTo(ends, priority, late) ==
  [i \in DOMAIN ends |->
     [from |-> (IF i = 1 THEN 0 ELSE ends[i - 1])
                 + (IF late /\ i = Len(ends) THEN 1 ELSE 0),
      to |-> ends[i], priority |-> priority[i]]]

Init ==
  /\ \E n \in 0..MaxWords, k \in 0..MaxWords + 1 :
       /\ atoms \in [1..n -> AtomSizes]
       /\ \E ends \in [1..k -> 1..n + 1], priority \in [1..k -> Priorities], late \in BOOLEAN :
            /\ \A i \in 2..k : ends[i - 1] < ends[i]
            /\ phrases = PhrasesTo(ends, priority, late)
  /\ budget \in Budgets
  /\ pc = "begin" /\ index = 0 /\ covered = 0 /\ total = 0
  /\ mark   = [e \in 0..words |-> 0]
  /\ prefix = [e \in 0..words |-> 0]
  /\ marks  = [e \in 0..words |-> 0]
  /\ start = 0 /\ hard = 0 /\ low = 0 /\ high = 0 /\ furthest = 0
  /\ end = 0 /\ forced = FALSE /\ ids = 0
  /\ carry = FALSE /\ chunks = <<>> /\ status = "none"

\* range_size: BOS, EOS, the atoms, their boundaries, and END_CONTINUATION if
\* the chunk would end where no phrase does.
RangeSize(from, to) ==
  2 + (prefix[to] - prefix[from]) + (marks[to] - marks[from])
    + (IF mark[to] # 0 THEN 0 ELSE 1)

Fits(from, to) == RangeSize(from, to) <= budget

HardEnds == {e \in start + 1..words : mark[e] = Continuation}

Goes(from, to) == pc = from /\ pc' = to /\ UNCHANGED input

\* reject_result: the result is emptied.
Reject(reason) ==
  /\ pc' = "done" /\ status' = reason /\ chunks' = <<>>
  /\ UNCHANGED <<input, index, tables, start, hard, search, choice, ids, total, carry>>

-----------------------------------------------------------------------------
(* The inputs are read into the tables.                                    *)

\* The inventory may not be loaded, or the text be over a limit.
Begin ==
  /\ pc = "begin"
  /\ \/ Reject("INVALID_INPUT")
     \/ /\ words = 0 /\ phrases = <<>>
        /\ pc' = "done" /\ status' = "OK"
        /\ UNCHANGED <<input, index, tables, start, hard, search, choice, ids,
                       total, carry, chunks>>
     \/ /\ (words > 0 /\ phrases = <<>>) \/ Len(phrases) > words
        /\ Reject("INVALID_PHRASES")
     \/ /\ words > 0 /\ Len(phrases) \in 1..words
        /\ Goes("begin", "words")
        /\ UNCHANGED <<index, tables, start, hard, search, choice, ids, result>>

\* The span of a word, its syllables, stresses and segments may be invalid.
ReadWord ==
  /\ pc = "words" /\ index < words
  /\ \/ Reject("INVALID_WORD")
     \/ total + atoms[index + 1] > MaxSerialized /\ Reject("OUTPUT_LIMIT")
     \/ /\ total + atoms[index + 1] <= MaxSerialized
        /\ total' = total + atoms[index + 1]
        /\ index' = IF index + 1 = words THEN 0 ELSE index + 1
        /\ Goes("words", IF index + 1 = words THEN "phrases" ELSE "words")
        /\ UNCHANGED <<tables, start, hard, search, choice, ids, carry, chunks, status>>

\* So may the span of a phrase and its terminator.
ReadPhrase ==
  /\ pc = "phrases" /\ index < Len(phrases)
  /\ LET phrase == phrases[index + 1] IN
     \/ Reject("INVALID_PHRASES")
     \/ /\ phrase.from = covered /\ phrase.from < phrase.to /\ phrase.to <= words
        /\ mark' = [mark EXCEPT ![phrase.to] = phrase.priority]
        /\ covered' = phrase.to
        /\ index' = index + 1
        /\ Goes("phrases", "phrases")
        /\ UNCHANGED <<prefix, marks, start, hard, search, choice, ids, result>>

PhrasesEnd ==
  /\ pc = "phrases" /\ index = Len(phrases)
  /\ IF covered # words
     THEN Reject("INVALID_PHRASES")
     ELSE /\ index' = 0
          /\ Goes("phrases", "prefix")
          /\ UNCHANGED <<tables, start, hard, search, choice, ids, result>>

AddPrefix ==
  /\ pc = "prefix" /\ index < words
  /\ prefix' = [prefix EXCEPT ![index + 1] = prefix[index] + atoms[index + 1]]
  /\ marks'  = [marks EXCEPT ![index + 1] =
                  marks[index] + (IF mark[index + 1] # 0 THEN 1 ELSE 0)]
  /\ index' = index + 1
  /\ total' = 0
  /\ Goes("prefix", IF index + 1 = words THEN "chunk" ELSE "prefix")
  /\ UNCHANGED <<covered, mark, start, hard, search, choice, ids, carry, chunks, status>>

-----------------------------------------------------------------------------
(* One chunk after the other is cut off the words from start.              *)

\* The next continuation, or the end of the words, is as far as it may go; if
\* that does not fit, the search begins.
NextChunk ==
  /\ pc = "chunk" /\ start < words
  /\ hard' \in IF HardEnds = {} THEN {words}
               ELSE {e \in HardEnds : \A other \in HardEnds : e <= other}
  /\ IF RangeSize(start, hard') <= budget
     THEN /\ end' = hard' /\ forced' = FALSE /\ ids' = 1 /\ index' = start
          /\ Goes("chunk", "build")
          /\ UNCHANGED search
     ELSE /\ low' = start + 1 /\ high' = hard' /\ furthest' = start
          /\ Goes("chunk", "search")
          /\ UNCHANGED <<choice, ids, index>>
  /\ UNCHANGED <<tables, start, result>>

\* One iteration of the binary search for the furthest end that fits.
Search ==
  /\ pc = "search" /\ low <= high
  /\ LET middle == low + (high - low) \div 2 IN
     IF Fits(start, middle)
     THEN furthest' = middle /\ low' = middle + 1 /\ UNCHANGED high
     ELSE high' = middle - 1 /\ UNCHANGED <<low, furthest>>
  /\ UNCHANGED <<input, pc, index, tables, start, hard, choice, ids, result>>

SearchEnds ==
  /\ pc = "search" /\ low > high
  /\ IF furthest = start
     THEN Reject("ATOM_TOO_LARGE")
     ELSE /\ Goes("search", "choose")
          /\ UNCHANGED <<index, tables, start, hard, search, choice, ids, result>>

\* The latest of the boundaries of the highest priority, else the furthest
\* word: the cut is forced.
Choose ==
  /\ LET near == {e \in start + 1..furthest : mark[e] # 0} IN
     IF near = {}
     THEN end' = furthest /\ forced' = TRUE
     ELSE /\ end' \in {e \in near : \A other \in near :
                         \/ mark[other] < mark[e]
                         \/ mark[other] = mark[e] /\ other <= e}
          /\ forced' = FALSE
  /\ ids' = 1 /\ index' = start
  /\ Goes("choose", "build")
  /\ UNCHANGED <<tables, start, hard, search, result>>

\* The atom of a word, and the boundary after it.
AddAtom ==
  /\ pc = "build" /\ index < end
  /\ ids' = ids + atoms[index + 1] + (IF mark[index + 1] # 0 THEN 1 ELSE 0)
  /\ index' = index + 1
  /\ UNCHANGED <<input, pc, tables, start, hard, search, choice, result>>

Emit ==
  /\ pc = "build" /\ index = end
  /\ LET size == ids + (IF forced THEN 2 ELSE 1)
         last == forced \/ mark[end] = Continuation IN
     IF size > budget THEN Reject("CHUNK_INVARIANT")
     ELSE IF total + size > MaxSerialized THEN Reject("OUTPUT_LIMIT")
     ELSE /\ chunks' = Append(chunks, [from |-> start, to |-> end, ids |-> size,
                                       forced |-> forced, continuation |-> carry \/ last])
          /\ total' = total + size /\ carry' = last /\ start' = end
          /\ Goes("build", "chunk")
          /\ UNCHANGED <<index, tables, hard, search, choice, ids, status>>

Finish ==
  /\ pc = "chunk" /\ start = words
  /\ status' = "OK"
  /\ Goes("chunk", "done")
  /\ UNCHANGED <<index, tables, start, hard, search, choice, ids, total, carry, chunks>>

Next ==
  \/ Begin \/ ReadWord \/ ReadPhrase \/ PhrasesEnd \/ AddPrefix
  \/ NextChunk \/ Search \/ SearchEnds \/ Choose \/ AddAtom \/ Emit \/ Finish

Spec     == Init /\ [][Next]_vars
FairSpec == Spec /\ WF_vars(Next)  \* the function is called and runs

-----------------------------------------------------------------------------
(* Properties.                                                             *)

\* No counter leaves its range: neither sum passes kMaximumSerializedIds, and
\* the unsigned "high = middle - 1" never wraps below zero.
TypeOK ==
  /\ atoms \in Seq(AtomSizes) /\ phrases \in Seq(Phrase) /\ budget \in Budgets
  /\ pc \in {"begin", "words", "phrases", "prefix", "chunk", "search", "choose",
             "build", "done"}
  /\ index \in Nat /\ covered \in 0..words /\ total \in 0..MaxSerialized
  /\ mark \in [0..words -> 0..Continuation]
  /\ prefix \in [0..words -> Nat] /\ marks \in [0..words -> Nat]
  /\ start \in 0..words /\ hard \in 0..words /\ furthest \in 0..words /\ end \in 0..words
  /\ low \in 0..words + 1 /\ high \in 0..words
  /\ forced \in BOOLEAN /\ carry \in BOOLEAN /\ ids \in Nat
  /\ chunks \in Seq([from : 0..words, to : 0..words, ids : 0..MaxSerialized,
                     forced : BOOLEAN, continuation : BOOLEAN])
  /\ status \in Statuses

\* Every word is in exactly one chunk and in its place, whatever the cuts: the
\* chunks follow one another from word 0 and none is empty; all the words are
\* in them when the answer is OK, and none when it is a rejection.
EveryWordOnce ==
  /\ \A i \in DOMAIN chunks :
       /\ chunks[i].from = (IF i = 1 THEN 0 ELSE chunks[i - 1].to)
       /\ chunks[i].from < chunks[i].to
  /\ chunks # <<>> /\ pc # "done" => chunks[Len(chunks)].to = start
  /\ status = "OK" => IF words = 0 THEN chunks = <<>>
                      ELSE chunks # <<>> /\ chunks[Len(chunks)].to = words
  /\ status \notin {"none", "OK"} => chunks = <<>>

\* The search, which relies on longer ranges having more IDs, always finds a
\* cut that fits: MODEL_TOKEN_CHUNK_INVARIANT is never answered and no chunk
\* is over the budget of the model.
WithinBudget ==
  /\ status # "CHUNK_INVARIANT"
  /\ \A i \in DOMAIN chunks : chunks[i].ids <= budget

\* A text is too large because of one word, never because of where the cuts
\* fell: MODEL_INPUT_ATOM_TOO_LARGE says that some word alone, with BOS, its
\* end and EOS, is over the budget, and OK that none is.
TooLargeIsAWord ==
  /\ status = "ATOM_TOO_LARGE" => \E i \in 1..words : atoms[i] + 3 > budget
  /\ status = "OK" => \A i \in 1..words : atoms[i] + 3 <= budget

\* boundaries[end] is dereferenced for every chunk whose end is not forced: a
\* phrase ends there, and none does where the end is forced.
BoundaryIsThere == pc = "build" => (forced <=> mark[end] = 0)

\* The cut a reader would make: up to the next continuation or the end of the
\* text if that fits, else at the best of the boundaries that fit, else after
\* the last word that fits.
BestCut(from, to) ==
  LET ends    == {e \in from + 1..words : \A c \in from + 1..e - 1 : mark[c] # Continuation}
      fitting == {e \in ends : Fits(from, e)}
      bounds  == {e \in fitting : mark[e] # 0}
      Last(set) == to \in set /\ \A e \in set : e <= to
  IN  IF \A e \in ends : Fits(from, e) THEN Last(ends)
      ELSE IF bounds = {} THEN Last(fitting)
      ELSE Last({e \in bounds : \A other \in bounds : mark[other] <= mark[e]})

\* "chooses paragraph/sentence/clause/comma boundaries in that order when a
\* chunk is required" (README.md): every chunk ends at the best cut, although
\* the code looks at a logarithmic number of ends only.
CutsAreBest == \A i \in DOMAIN chunks : BestCut(chunks[i].from, chunks[i].to)

\* "marks both sides of a forced word-boundary continuation" (README.md): a
\* chunk is a continuation exactly if it ends, or starts, at a forced cut or a
\* continuation, and no chunk goes over one.
BothSidesMarked ==
  LET Continues(chunk) == chunk.forced \/ mark[chunk.to] = Continuation
  IN  \A i \in DOMAIN chunks :
        /\ chunks[i].continuation <=>
             Continues(chunks[i]) \/ (i > 1 /\ Continues(chunks[i - 1]))
        /\ \A e \in chunks[i].from + 1..chunks[i].to - 1 : mark[e] # Continuation

\* Every text is answered: neither the search nor the chunks go on for ever.
Terminates == <>(pc = "done")
=============================================================================
