------------------------------ MODULE LtsModel ------------------------------
(***************************************************************************)
(* The letter-to-sound model (src/src/frontend/lts.cpp): the decision      *)
(* graph of a resource is validated once, when it is loaded, and then      *)
(* walked for every symbol of a word that no lexicon knows.                *)
(*                                                                         *)
(* The validation is the recursive lambda `visit` of validate_graph, made  *)
(* of steps by an explicit stack: one frame for each call that has not     *)
(* returned, below them the frame of the loop over the roots.  A branch of *)
(* that lowest frame is a symbol, one of a decision node is "yes" or "no". *)
(* C++ leaves open which argument of std::max is visited first, and the    *)
(* order of the roots decides nothing, so any branch may be next.          *)
(***************************************************************************)
EXTENDS Integers, Sequences

CONSTANTS
  Nodes,          (* node IDs; parse_node lets in no other ID             *)
  Top,            (* the loop over the roots, no node                     *)
  Letters, Separators,  (* the symbols of a word                          *)
  Features,       (* [offset, value] that a decision may look at          *)
  Leaves,         (* emissions of a leaf, [segments, stress]; "open" is a *)
                  (* null syllable_end                                    *)
  Graphs,         (* the parsed nodes of the resources, node by ID      *)
  StepLimits,     (* values of maximum_steps                              *)
  Words,          (* words that are looked up                             *)
  MaxSegments,    (* kMaximumSegmentsPerWord, 128 in the code             *)
  MaxSyllables    (* kMaximumSyllablesPerWord, 16 in the code             *)

Symbols  == Letters \cup Separators
Stresses == {"none", "primary", "secondary"}
Emission == [segments : Nat \ {0}, stress : Stresses \cup {"open"}]

Leaf     == [leaf : {TRUE}, emissions : Leaves]
Decision == [leaf : {FALSE}, feature : Features, yes : Nodes, no : Nodes]

ASSUME GraphsAssumption == Graphs \subseteq [Nodes -> Leaf \cup Decision]
ASSUME TopAssumption == Top \notin Nodes
ASSUME LeavesAssumption == Leaves \subseteq Seq(Emission)
ASSUME LimitAssumption == StepLimits \subseteq Nat \ {0}
ASSUME OutputAssumption == MaxSegments \in Nat /\ MaxSyllables \in Nat
ASSUME FeatureAssumption == Features \subseteq [offset : Int, value : Symbols \cup {"^", "$"}]
ASSUME WordsAssumption == Words \subseteq Seq(Symbols)

VARIABLES
  nodes, roots, maximumSteps,  \* the parsed resource
  pc,
  state, depth, stack,         \* validate_graph
  word, position,              \* pronounce: the word and the symbol it is at
  node, step, emission,        \* the walk for that symbol and the leaf's loop
  current, total, syllables,   \* the open syllable, all segments, the output
  status                       \* what the last call of pronounce returned

resource == <<nodes, roots, maximumSteps>>
search   == <<state, depth, stack>>
walk     == <<node, step, emission>>
output   == <<current, total, syllables>>
vars     == <<resource, pc, search, word, position, walk, output, status>>

Branches(id) ==
  IF id = Top THEN DOMAIN roots
  ELSE IF nodes[id].leaf THEN {} ELSE {"yes", "no"}
Child(id, branch) == IF id = Top THEN roots[branch] ELSE nodes[id][branch]

frame == stack[Len(stack)]
Open  == Branches(frame.id) \ frame.done
Below == SubSeq(stack, 1, Len(stack) - 1)
Larger(m, n) == IF m < n THEN n ELSE m

-----------------------------------------------------------------------------
(* Faulty variants of definitions below, used by no specification.         *)

\* The depth of the branch visited last, where the code takes the larger.
ReturnedLast(calls, branch, result) ==
  [calls EXCEPT ![Len(calls)].done = @ \cup {branch}, ![Len(calls)].best = result]

\* The loop gives up one step early.
WalkOneShort ==
  /\ pc = "walk"
  /\ IF step + 1 >= maximumSteps
     THEN pc' = "loaded" /\ status' = "too_many_steps" /\ syllables' = <<>> /\ UNCHANGED walk
     ELSE /\ UNCHANGED <<status, syllables>>
          /\ IF nodes[node].leaf
             THEN pc' = "emit" /\ emission' = 1 /\ UNCHANGED <<node, step>>
             ELSE node' = nodes[node].no /\ step' = step + 1 /\ UNCHANGED <<pc, emission>>
  /\ UNCHANGED <<resource, search, word, position, current, total>>

\* A syllable that is still open at the end of the word is forgotten.
FinishOpen ==
  /\ pc = "symbol" /\ position = Len(word)
  /\ IF syllables = <<>>
     THEN pc' = "loaded" /\ status' = "open_syllable" /\ UNCHANGED syllables
     ELSE pc' = "loaded" /\ status' = "OK" /\ UNCHANGED syllables
  /\ UNCHANGED <<resource, search, word, position, walk, current, total>>

-----------------------------------------------------------------------------
(* load_lts_model, after the lines are parsed: validate_graph.             *)

\* A call of visit returned this depth to the frame on top of calls.
Returned(calls, branch, result) ==
  [calls EXCEPT ![Len(calls)].done = @ \cup {branch},
                ![Len(calls)].best = Larger(@, result)]

Init ==
  /\ nodes \in Graphs
  /\ \E known \in SUBSET Symbols : known # {} /\ roots \in [known -> Nodes]
  /\ maximumSteps \in StepLimits
  /\ pc = "graph"
  /\ state = [id \in Nodes |-> 0] /\ depth = [id \in Nodes |-> 0]
  /\ stack = <<[id |-> Top, branch |-> Top, done |-> {}, best |-> 0]>>
  /\ word = <<>> /\ position = 0
  /\ node = roots[CHOOSE s \in DOMAIN roots : TRUE]
  /\ step = 0 /\ emission = 0
  /\ current = 0 /\ total = 0 /\ syllables = <<>> /\ status = "none"

\* The resource is rejected and *model stays empty.
Reject == pc' = "rejected" /\ UNCHANGED search

\* path_depth of the next call is the number of frames; it is checked first.
Visit(branch) ==
  LET id == Child(frame.id, branch) IN
  /\ pc = "graph" /\ branch \in Open
  /\ \/ Len(stack) > maximumSteps /\ Reject
     \/ Len(stack) <= maximumSteps /\ state[id] = 1 /\ Reject
     \/ /\ Len(stack) <= maximumSteps /\ state[id] = 2
        /\ IF Len(stack) - 1 + depth[id] > maximumSteps
           THEN Reject
           ELSE stack' = Returned(stack, branch, depth[id]) /\ UNCHANGED <<pc, state, depth>>
     \/ /\ Len(stack) <= maximumSteps /\ state[id] = 0
        /\ state' = [state EXCEPT ![id] = 1]
        /\ stack' = Append(stack, [id |-> id, branch |-> branch, done |-> {}, best |-> 0])
        /\ UNCHANGED <<pc, depth>>
  /\ UNCHANGED <<resource, word, position, walk, output, status>>

\* The call on top has seen its branches and returns.
Leave ==
  /\ pc = "graph" /\ frame.id # Top /\ Open = {}
  /\ IF 1 + frame.best > maximumSteps
     THEN Reject
     ELSE /\ state' = [state EXCEPT ![frame.id] = 2]
          /\ depth' = [depth EXCEPT ![frame.id] = 1 + frame.best]
          /\ stack' = Returned(Below, frame.branch, 1 + frame.best)
          /\ UNCHANGED pc
  /\ UNCHANGED <<resource, word, position, walk, output, status>>

Judge ==
  /\ pc = "graph" /\ frame.id = Top /\ Open = {}
  /\ pc' = IF \A id \in Nodes : state[id] = 2 THEN "loaded" ELSE "rejected"
  /\ UNCHANGED <<resource, search, word, position, walk, output, status>>

-----------------------------------------------------------------------------
(* LtsModel::pronounce.  The status names the reason of a failure, whose   *)
(* output is cleared (reject_pronunciation).                               *)

Fail(reason) == pc' = "loaded" /\ status' = reason /\ syllables' = <<>>

\* canonical_word: letters with single separators between them.
Canonical(w) ==
  /\ w # <<>>
  /\ \A i \in DOMAIN w : w[i] \in Separators =>
       i # 1 /\ i # Len(w) /\ w[i - 1] \in Letters /\ w[i + 1] \in Letters

Begin(w) ==
  /\ pc = "loaded" /\ word' = w
  /\ position' = 0 /\ current' = 0 /\ total' = 0 /\ syllables' = <<>>
  /\ IF Canonical(w)
     THEN pc' = "symbol" /\ status' = "none"
     ELSE pc' = "loaded" /\ status' = "not_canonical"
  /\ UNCHANGED <<resource, search, walk>>

\* The head of the loop over the symbols.
NextSymbol ==
  /\ pc = "symbol" /\ position < Len(word)
  /\ IF word[position + 1] \in DOMAIN roots
     THEN /\ pc' = "walk" /\ node' = roots[word[position + 1]] /\ step' = 0
          /\ UNCHANGED <<status, syllables>>
     ELSE Fail("no_root") /\ UNCHANGED <<node, step>>
  /\ UNCHANGED <<resource, search, word, position, emission, current, total>>

\* context_symbol of the symbol at position p.
Context(p, offset) ==
  CASE p + offset < 0           -> "^"
    [] p + offset >= Len(word)  -> "$"
    [] OTHER                    -> word[p + offset + 1]

Walk ==
  /\ pc = "walk"
  /\ IF step >= maximumSteps
     THEN Fail("too_many_steps") /\ UNCHANGED walk
     ELSE /\ UNCHANGED <<status, syllables>>
          /\ IF nodes[node].leaf
             THEN pc' = "emit" /\ emission' = 1 /\ UNCHANGED <<node, step>>
             ELSE /\ node' = nodes[node][
                       LET f == nodes[node].feature IN
                       IF Context(position, f.offset) = f.value THEN "yes" ELSE "no"]
                  /\ step' = step + 1 /\ UNCHANGED <<pc, emission>>
  /\ UNCHANGED <<resource, search, word, position, current, total>>

Primaries == {i \in DOMAIN syllables : syllables[i].stress = "primary"}

\* The segments join the open syllable, which the emission may close.
Stored(e) ==
  /\ current' = IF e.stress = "open" THEN current + e.segments ELSE 0
  /\ syllables' = IF e.stress = "open" THEN syllables
                  ELSE Append(syllables,
                              [segments |-> current + e.segments, stress |-> e.stress])

Emit ==
  LET emissions == nodes[node].emissions
      e == emissions[emission]
  IN  /\ pc = "emit" /\ emission <= Len(emissions)
      /\ IF total + e.segments > MaxSegments
         THEN Fail("segment_limit") /\ UNCHANGED <<emission, current>>
         ELSE IF e.stress # "open" /\ Len(syllables) >= MaxSyllables
         THEN Fail("syllable_limit") /\ UNCHANGED <<emission, current>>
         ELSE IF e.stress = "primary" /\ Primaries # {}
         THEN Fail("two_primaries") /\ UNCHANGED <<emission, current>>
         ELSE Stored(e) /\ emission' = emission + 1 /\ UNCHANGED <<pc, status>>
      /\ total' = total + e.segments
      /\ UNCHANGED <<resource, search, word, position, node, step>>

LeafDone ==
  /\ pc = "emit" /\ emission > Len(nodes[node].emissions)
  /\ pc' = "symbol" /\ position' = position + 1
  /\ UNCHANGED <<resource, search, word, walk, output, status>>

Finish ==
  /\ pc = "symbol" /\ position = Len(word)
  /\ IF current # 0 \/ syllables = <<>>
     THEN Fail("open_syllable")
     ELSE pc' = "loaded" /\ status' = "OK" /\ UNCHANGED syllables
  /\ UNCHANGED <<resource, search, word, position, walk, current, total>>

Pronounce == NextSymbol \/ Walk \/ Emit \/ LeafDone \/ Finish
Next ==
  \/ \E branch \in Symbols \cup {"yes", "no"} : Visit(branch)
  \/ Leave \/ Judge
  \/ \E w \in Words : Begin(w)
  \/ Pronounce

Spec == Init /\ [][Next]_vars

-----------------------------------------------------------------------------
(* Properties.                                                             *)

\* The nodes that paths from the roots reach after k steps.
Level[k \in Nat] ==
  IF k = 0 THEN {roots[s] : s \in DOMAIN roots}
  ELSE UNION {{Child(id, b) : b \in Branches(id)} : id \in Level[k - 1]}

\* No path from a root has more than maximum_steps nodes, so that there is
\* no cycle either, and every node is on one.
GraphOK ==
  /\ Level[maximumSteps] = {}
  /\ UNION {Level[k] : k \in 0..maximumSteps - 1} = Nodes

\* The search, which visits a shared node once, in whatever order, accepts a
\* graph exactly when the definition over all paths does.
GraphJudged ==
  /\ pc = "rejected" => ~GraphOK
  /\ pc \notin {"graph", "rejected"} => GraphOK

\* What the validation accepts, pronounce can walk: "LTS inference exceeded
\* maximum steps" (lts.cpp:592) is never the answer to a word.
WalkReachesLeaf == status # "too_many_steps"

SegmentsTo[k \in Nat] == IF k = 0 THEN 0 ELSE SegmentsTo[k - 1] + syllables[k].segments

\* A pronunciation handed out keeps the contract of a lexicon's: every segment
\* emitted is in one syllable, none is empty, the limits hold and at most one
\* stress is primary.  A failure hands out nothing.
OutputWhole ==
  /\ status = "OK" =>
       /\ SegmentsTo[Len(syllables)] = total /\ total <= MaxSegments
       /\ Len(syllables) \in 1..MaxSyllables
       /\ \A i \in DOMAIN syllables : syllables[i].segments > 0
       /\ \A i, j \in Primaries : i = j
  /\ status \notin {"none", "OK"} => syllables = <<>>
=============================================================================
