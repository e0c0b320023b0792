--------------------------- MODULE LtsModelProofs ---------------------------
(***************************************************************************)
(* Proofs about LtsModel, for every resource and every word.  The depth    *)
(* that the search records for a node grows along every branch, whatever   *)
(* the order of the visits and however often a node is shared, so a walk   *)
(* of maximum_steps steps always ends in a leaf.                           *)
(***************************************************************************)
EXTENDS LtsModel, NaturalsInduction, WellFoundedInduction, TLAPS

Node   == Leaf \cup Decision
Branch == Symbols \cup {"yes", "no"}
Frame  == [id : Nodes \cup {Top}, branch : Branch \cup {Top},
           done : SUBSET Branch, best : Nat]

ResourceOK ==
  /\ nodes \in [Nodes -> Node]
  /\ DOMAIN roots \subseteq Symbols /\ DOMAIN roots # {}
  /\ \A s \in DOMAIN roots : roots[s] \in Nodes
  /\ maximumSteps \in Nat \ {0}

SearchOK ==
  /\ state \in [Nodes -> 0..2]
  /\ depth \in [Nodes -> Nat]
  /\ stack \in Seq(Frame) /\ Len(stack) >= 1
  /\ stack[1].id = Top
  /\ \A i \in 2..Len(stack) : stack[i].id \in Nodes

\* A finished node lies above its finished children.
Above(id) ==
  /\ depth[id] \in 1..maximumSteps
  /\ \A b \in Branches(id) :
       state[Child(id, b)] = 2 /\ depth[Child(id, b)] < depth[id]
FinishedOK == \A id \in Nodes : state[id] = 2 => Above(id)

\* What a frame has seen: finished nodes no deeper than its best.
Seen(f) ==
  \A b \in f.done :
    /\ b \in Branches(f.id)
    /\ state[Child(f.id, b)] = 2 /\ depth[Child(f.id, b)] <= f.best
FramesOK == \A i \in 1..Len(stack) : Seen(stack[i])

\* The frames are the path that is being searched.
PathOK ==
  /\ \A i \in 2..Len(stack) :
       /\ state[stack[i].id] = 1
       /\ stack[i].branch \in Branches(stack[i - 1].id)
       /\ Child(stack[i - 1].id, stack[i].branch) = stack[i].id
  /\ \A i, j \in 2..Len(stack) : stack[i].id = stack[j].id => i = j

WalkOK ==
  /\ pc \notin {"graph", "rejected"} => \A id \in Nodes : state[id] = 2
  /\ pc = "walk" => node \in Nodes /\ step \in Nat /\ step + depth[node] <= maximumSteps

IInv ==
  /\ ResourceOK /\ SearchOK /\ FinishedOK /\ FramesOK /\ PathOK
  /\ WalkOK /\ WalkReachesLeaf

-----------------------------------------------------------------------------
(* Lemmas about the operators of the search.                               *)

\* A branch of a node or of the loop over the roots leads to a node.
LEMMA ChildIsNode ==
  ASSUME ResourceOK, NEW id \in Nodes \cup {Top}, NEW b \in Branches(id)
  PROVE  /\ Child(id, b) \in Nodes
         /\ b \in Branch
         /\ id \in Nodes => ~ nodes[id].leaf /\ b \in {"yes", "no"}
<1>1. CASE id = Top
  <2>1. b \in DOMAIN roots BY <1>1 DEF Branches
  <2>2. id \notin Nodes BY <1>1, TopAssumption
  <2> QED BY <1>1, <2>1, <2>2 DEF Child, ResourceOK, Branch
<1>2. CASE id # Top
  <2>1. ~ nodes[id].leaf /\ b \in {"yes", "no"} BY <1>2 DEF Branches
  <2>2. nodes[id] \in Decision BY <1>2, <2>1 DEF ResourceOK, Node, Leaf
  <2>3. nodes[id].yes \in Nodes /\ nodes[id].no \in Nodes BY <2>2 DEF Decision
  <2>4. Child(id, b) = nodes[id][b] BY <1>2 DEF Child
  <2>5. Child(id, b) \in Nodes BY <2>1, <2>3, <2>4
  <2> QED BY <2>1, <2>5, <1>2 DEF Branch
<1> QED BY <1>1, <1>2

\* What Returned does to the frames of a stack.
LEMMA ReturnedFrames ==
  ASSUME NEW calls \in Seq(Frame), Len(calls) >= 1,
         NEW branch \in Branch, NEW result \in Nat
  PROVE  LET r == Returned(calls, branch, result)
             n == Len(calls)
         IN  /\ r \in Seq(Frame) /\ Len(r) = n
             /\ \A i \in 1..n : r[i].id = calls[i].id /\ r[i].branch = calls[i].branch
             /\ \A i \in 1..n - 1 : r[i] = calls[i]
             /\ r[n].done = calls[n].done \cup {branch}
             /\ calls[n].best \in Nat /\ r[n].best \in Nat
             /\ r[n].best >= calls[n].best /\ r[n].best >= result
<1> DEFINE n == Len(calls)
           f == calls[n]
           g == [f EXCEPT !.done = f.done \cup {branch}, !.best = Larger(f.best, result)]
           r == Returned(calls, branch, result)
<1>1. n \in Nat /\ n >= 1 /\ DOMAIN calls = 1..n /\ \A i \in 1..n : calls[i] \in Frame
  OBVIOUS
<1>2. f \in Frame BY <1>1
<1>3. f.best \in Nat /\ f.done \in SUBSET Branch BY <1>2 DEF Frame
<1>4. Larger(f.best, result) \in Nat /\ Larger(f.best, result) >= f.best
      /\ Larger(f.best, result) >= result
  BY <1>3 DEF Larger
<1>5. g \in Frame /\ g.id = f.id /\ g.branch = f.branch
      /\ g.done = f.done \cup {branch} /\ g.best = Larger(f.best, result)
  BY <1>2, <1>3, <1>4 DEF Frame
<1>6. r = [calls EXCEPT ![n] = g] BY <1>1, <1>2 DEF Returned, Frame
<1>7. r = [i \in 1..n |-> IF i = n THEN g ELSE calls[i]] BY <1>1, <1>6
<1>8. r \in Seq(Frame) /\ Len(r) = n BY <1>1, <1>5, <1>7
<1>9. \A i \in 1..n : r[i] = IF i = n THEN g ELSE calls[i] BY <1>7
<1> HIDE DEF r, g, f, n
<1>10. \A i \in 1..n - 1 : r[i] = calls[i]
  <2>1. \A k \in Nat : \A i \in 1..k - 1 : i \in 1..k /\ i # k OBVIOUS
  <2> QED BY <1>1, <2>1, <1>9
<1>11. r[n] = g
  <2>1. \A k \in Nat : k >= 1 => k \in 1..k OBVIOUS
  <2> QED BY <1>1, <2>1, <1>9
<1>12. \A i \in 1..n : r[i].id = calls[i].id /\ r[i].branch = calls[i].branch
  BY <1>5, <1>9 DEF f
<1> QED BY <1>3, <1>4, <1>5, <1>8, <1>10, <1>11, <1>12 DEF r, f, n

\* The new best is one of the two depths it is the larger of.
LEMMA ReturnedBest ==
  ASSUME NEW calls \in Seq(Frame), Len(calls) >= 1,
         NEW branch \in Branch, NEW result \in Nat
  PROVE  LET r == Returned(calls, branch, result)
             n == Len(calls)
         IN  r[n].best = calls[n].best \/ r[n].best = result
<1>1. Len(calls) \in 1..Len(calls) /\ DOMAIN calls = 1..Len(calls)
  OBVIOUS
<1>2. calls[Len(calls)] \in Frame
  BY <1>1
<1> QED BY <1>1, <1>2 DEF Returned, Frame, Larger

-----------------------------------------------------------------------------
(* The invariant.                                                          *)

LEMMA InitIInv == Init => IInv
<1> SUFFICES ASSUME Init PROVE IInv OBVIOUS
<1> USE DEF Init
<1>1. ResourceOK
  <2>1. PICK known \in SUBSET Symbols : known # {} /\ roots \in [known -> Nodes] OBVIOUS
  <2>2. DOMAIN roots = known /\ \A s \in known : roots[s] \in Nodes BY <2>1
  <2>3. nodes \in [Nodes -> Node] BY GraphsAssumption DEF Node
  <2> QED BY <2>1, <2>2, <2>3, LimitAssumption DEF ResourceOK
<1>2. SearchOK
  <2>1. [id |-> Top, branch |-> Top, done |-> {}, best |-> 0] \in Frame BY DEF Frame
  <2>2. stack \in Seq(Frame) /\ Len(stack) = 1 /\ stack[1].id = Top BY <2>1
  <2> QED BY <2>2 DEF SearchOK
<1>3. FinishedOK BY DEF FinishedOK
<1>4. FramesOK /\ PathOK BY DEF FramesOK, PathOK, Seen
<1>5. WalkOK /\ WalkReachesLeaf BY DEF WalkOK, WalkReachesLeaf
<1> QED BY <1>1, <1>2, <1>3, <1>4, <1>5 DEF IInv

\* A step that leaves the resource and the search alone.
LEMMA QuietStep ==
  ASSUME IInv, UNCHANGED <<resource, search>>
  PROVE  ResourceOK' /\ SearchOK' /\ FinishedOK' /\ FramesOK' /\ PathOK'
<1> USE DEF resource, search
<1>1. ResourceOK' BY DEF IInv, ResourceOK
<1>2. SearchOK' BY DEF IInv, SearchOK
<1>3. FinishedOK' BY DEF IInv, FinishedOK, Above, Branches, Child
<1>4. FramesOK' BY DEF IInv, FramesOK, Seen, Branches, Child
<1>5. PathOK' BY DEF IInv, PathOK, Branches, Child
<1> QED BY <1>1, <1>2, <1>3, <1>4, <1>5

\* The frame on top of the stack.
LEMMA TopFrame ==
  ASSUME IInv
  PROVE  /\ Len(stack) \in Nat /\ Len(stack) >= 1 /\ Len(stack) \in 1..Len(stack)
         /\ frame \in Frame /\ frame.id \in Nodes \cup {Top}
         /\ frame.id = Top => Len(stack) = 1
         /\ frame.id \in Nodes => Len(stack) \in 2..Len(stack)
         /\ Seen(frame)
         /\ \A i \in 1..Len(stack) : stack[i] \in Frame
<1>1. stack \in Seq(Frame) /\ Len(stack) >= 1 /\ stack[1].id = Top BY DEF IInv, SearchOK
<1>2. Len(stack) \in Nat /\ Len(stack) \in 1..Len(stack) BY <1>1
<1>3. frame \in Frame BY <1>1, <1>2 DEF frame
<1>4. \A i \in 2..Len(stack) : stack[i].id \in Nodes BY DEF IInv, SearchOK
<1>5. frame.id = Top => Len(stack) = 1
  <2>1. \A k \in Nat : k >= 1 /\ k # 1 => k \in 2..k OBVIOUS
  <2> QED BY <2>1, <1>1, <1>2, <1>4, TopAssumption DEF frame
<1>6. frame.id \in Nodes => Len(stack) \in 2..Len(stack)
  <2>1. \A k \in Nat : k >= 1 /\ k # 1 => k \in 2..k OBVIOUS
  <2> QED BY <2>1, <1>1, <1>2, TopAssumption DEF frame
<1>7. Seen(frame) BY <1>2 DEF IInv, FramesOK, frame
<1>8. \A i \in 1..Len(stack) : stack[i] \in Frame BY <1>1
<1> QED BY <1>1, <1>8, <1>2, <1>3, <1>5, <1>6, <1>7 DEF Frame

LEMMA VisitIInv == ASSUME IInv, NEW branch, Visit(branch) PROVE IInv'
<1> DEFINE id == Child(frame.id, branch)
           n == Len(stack)
<1>1. /\ pc = "graph" /\ branch \in Branches(frame.id)
      /\ UNCHANGED <<resource, word, position, walk, output, status>>
  BY DEF Visit, Open
<1>2. ResourceOK BY DEF IInv
<1>3. id \in Nodes /\ branch \in Branch BY <1>1, <1>2, TopFrame, ChildIsNode
<1>4. state \in [Nodes -> 0..2] /\ depth \in [Nodes -> Nat] /\ stack \in Seq(Frame)
  BY DEF IInv, SearchOK
<1>5. /\ \A x : Branches(x)' = Branches(x)
      /\ \A x, b : Child(x, b)' = Child(x, b)
      /\ ResourceOK'
  BY <1>1, <1>2 DEF resource, Branches, Child, ResourceOK
<1>6. WalkReachesLeaf' BY <1>1 DEF IInv, WalkReachesLeaf
<1>7. CASE Reject
  <2>1. UNCHANGED <<resource, search>> /\ pc' = "rejected" BY <1>1, <1>7 DEF Reject
  <2>2. WalkOK' BY <2>1 DEF WalkOK
  <2> QED BY <2>1, <2>2, <1>6, QuietStep DEF IInv
<1>8. CASE state[id] = 2 /\ stack' = Returned(stack, branch, depth[id])
           /\ UNCHANGED <<pc, state, depth>>
  <2> DEFINE next == Returned(stack, branch, depth[id])
  <2>1. n \in Nat /\ n >= 1 /\ n \in 1..n BY TopFrame
  <2>2. depth[id] \in Nat BY <1>3, <1>4
  <2>3. /\ next \in Seq(Frame) /\ Len(next) = n
        /\ \A i \in 1..n : next[i].id = stack[i].id /\ next[i].branch = stack[i].branch
        /\ \A i \in 1..n - 1 : next[i] = stack[i]
        /\ next[n].done = stack[n].done \cup {branch}
        /\ stack[n].best \in Nat /\ next[n].best \in Nat
        /\ next[n].best >= stack[n].best /\ next[n].best >= depth[id]
    BY <2>1, <2>2, <1>3, <1>4, ReturnedFrames
  <2> HIDE DEF next
  <2>4. stack' = next BY <1>8 DEF next
  <2>5. SearchOK'
    <3>1. \A i \in 2..n : i \in 1..n BY <2>1
    <3> QED BY <2>1, <2>3, <2>4, <3>1, <1>8 DEF IInv, SearchOK
  <2>6. FinishedOK' BY <1>5, <1>8, <1>1 DEF IInv, FinishedOK, Above, resource
  <2>7. FramesOK'
    <3>1. \A k \in 1..n - 1 : Seen(stack[k])
      BY <2>1 DEF IInv, FramesOK
    <3>2. \A i \in 1..n - 1 : \A b \in next[i].done :
            /\ b \in Branches(next[i].id)
            /\ state[Child(next[i].id, b)] = 2
            /\ depth[Child(next[i].id, b)] <= next[i].best
      BY <3>1, <2>3 DEF Seen
    <3>3. \A b \in next[n].done :
            /\ b \in Branches(next[n].id)
            /\ state[Child(next[n].id, b)] = 2
            /\ depth[Child(next[n].id, b)] <= next[n].best
      <4> SUFFICES ASSUME NEW b \in next[n].done
                   PROVE  /\ b \in Branches(next[n].id)
                          /\ state[Child(next[n].id, b)] = 2
                          /\ depth[Child(next[n].id, b)] <= next[n].best
        OBVIOUS
      <4>1. next[n].id = frame.id /\ stack[n] = frame BY <2>1, <2>3 DEF frame
      <4>2. CASE b = branch
        BY <4>1, <4>2, <1>1, <1>8, <2>3
      <4>3. CASE b # branch
        <5>1. b \in frame.done BY <4>1, <4>3, <2>3
        <5>2. /\ b \in Branches(frame.id) /\ state[Child(frame.id, b)] = 2
              /\ depth[Child(frame.id, b)] <= frame.best
          BY <5>1, TopFrame DEF Seen
        <5>3. Child(frame.id, b) \in Nodes BY <5>2, <1>2, TopFrame, ChildIsNode
        <5>4. depth[Child(frame.id, b)] \in Nat BY <5>3, <1>4
        <5>5. \A p, q, r \in Nat : p <= q /\ r >= q => p <= r OBVIOUS
        <5> QED BY <5>2, <5>4, <5>5, <4>1, <2>3
      <4> QED BY <4>2, <4>3
    <3>4. \A i \in 1..n : i \in 1..n - 1 \/ i = n BY <2>1
    <3> QED BY <3>2, <3>3, <3>4, <2>3, <2>4, <1>5, <1>8 DEF FramesOK, Seen
  <2>8. PathOK'
    <3>1. \A i \in 2..n : i \in 1..n /\ i - 1 \in 1..n BY <2>1
    <3>2. /\ \A i \in 2..n : /\ state[next[i].id] = 1
                              /\ next[i].branch \in Branches(next[i - 1].id)
                              /\ Child(next[i - 1].id, next[i].branch) = next[i].id
          /\ \A i, j \in 2..n : next[i].id = next[j].id => i = j
      BY <3>1, <2>3 DEF IInv, PathOK
    <3> QED BY <3>2, <2>3, <2>4, <1>5, <1>8 DEF PathOK
  <2>9. WalkOK' BY <1>1, <1>8 DEF WalkOK
  <2> QED BY <2>5, <2>6, <2>7, <2>8, <2>9, <1>5, <1>6 DEF IInv
<1>9. CASE /\ n <= maximumSteps /\ state[id] = 0
           /\ state' = [state EXCEPT ![id] = 1]
           /\ stack' = Append(stack, [id |-> id, branch |-> branch, done |-> {}, best |-> 0])
           /\ UNCHANGED <<pc, depth>>
  <2> DEFINE new  == [id |-> id, branch |-> branch, done |-> {}, best |-> 0]
             next == Append(stack, new)
  <2>1. n \in Nat /\ n >= 1 /\ n \in 1..n BY TopFrame
  <2>2. new \in Frame BY <1>3 DEF Frame
  <2>3. /\ next \in Seq(Frame) /\ Len(next) = n + 1
        /\ \A i \in 1..n : next[i] = stack[i]
        /\ next[n + 1] = new
    BY <2>1, <2>2, <1>4
  <2> HIDE DEF next
  <2>4. stack' = next BY <1>9 DEF next
  <2>5. /\ \A x \in Nodes : state[x] # 0 => state'[x] = state[x]
        /\ state'[id] = 1 /\ state' \in [Nodes -> 0..2]
    BY <1>3, <1>4, <1>9
  <2>6. SearchOK'
    <3>1. \A i \in 2..n + 1 : (i \in 2..n /\ i \in 1..n) \/ i = n + 1 BY <2>1
    <3>2. \A i \in 2..n + 1 : next[i].id \in Nodes BY <3>1, <2>3, <1>3 DEF IInv, SearchOK
    <3>3. next[1].id = Top /\ Len(next) >= 1 BY <2>1, <2>3 DEF IInv, SearchOK
    <3> QED BY <3>2, <3>3, <2>3, <2>4, <2>5, <1>4, <1>9 DEF SearchOK
  <2>7. FinishedOK'
    <3> SUFFICES ASSUME NEW x \in Nodes, state'[x] = 2 PROVE Above(x)'
      BY DEF FinishedOK
    <3>1. state[x] = 2 BY <2>5, <1>3, <1>4, <1>9
    <3>2. Above(x) BY <3>1 DEF IInv, FinishedOK
    <3>3. \A b \in Branches(x) : Child(x, b) \in Nodes BY <1>2, ChildIsNode
    <3>4. \A b \in Branches(x) : state'[Child(x, b)] = 2 BY <3>2, <3>3, <2>5 DEF Above
    <3> QED BY <3>2, <3>4, <1>1, <1>5, <1>9 DEF Above, resource
  <2>8. FramesOK'
    <3> SUFFICES ASSUME NEW i \in 1..n + 1, NEW b \in next[i].done
                 PROVE  /\ b \in Branches(next[i].id)
                        /\ state'[Child(next[i].id, b)] = 2
                        /\ depth[Child(next[i].id, b)] <= next[i].best
      BY <2>3, <2>4, <1>5, <1>9 DEF FramesOK, Seen
    <3>1. i \in 1..n BY <2>1, <2>3
    <3>2. Seen(stack[i]) /\ stack[i] = next[i] BY <3>1, <2>3 DEF IInv, FramesOK
    <3>3. stack[i].id \in Nodes \cup {Top} BY <3>1, TopFrame DEF Frame
    <3>4. b \in Branches(stack[i].id) /\ state[Child(stack[i].id, b)] = 2 BY <3>2 DEF Seen
    <3>5. Child(stack[i].id, b) \in Nodes BY <3>3, <3>4, <1>2, ChildIsNode
    <3> QED BY <3>2, <3>4, <3>5, <2>5 DEF Seen
  <2>9. PathOK'
    <3>1. \A i \in 2..n + 1 : \/ i \in 2..n /\ i \in 1..n /\ i - 1 \in 1..n
                              \/ i = n + 1 /\ i - 1 = n
      BY <2>1
    <3>2. \A i \in 2..n : /\ state[stack[i].id] = 1 /\ stack[i].id \in Nodes
                          /\ stack[i].id # id
      BY <1>9 DEF IInv, PathOK, SearchOK
    <3>3. \A i \in 2..n + 1 : state'[next[i].id] = 1 BY <3>1, <3>2, <2>3, <2>5
    <3>4. \A i \in 2..n + 1 : /\ next[i].branch \in Branches(next[i - 1].id)
                              /\ Child(next[i - 1].id, next[i].branch) = next[i].id
      <4> SUFFICES ASSUME NEW i \in 2..n + 1
                   PROVE  /\ next[i].branch \in Branches(next[i - 1].id)
                          /\ Child(next[i - 1].id, next[i].branch) = next[i].id
        OBVIOUS
      <4>1. CASE i \in 2..n /\ i \in 1..n /\ i - 1 \in 1..n
        BY <4>1, <2>3 DEF IInv, PathOK
      <4>2. CASE i = n + 1 /\ i - 1 = n
        BY <4>2, <2>1, <2>3, <1>1 DEF frame
      <4> QED BY <3>1, <4>1, <4>2
    <3>5. \A i, j \in 2..n + 1 : next[i].id = next[j].id => i = j
      <4> SUFFICES ASSUME NEW i \in 2..n + 1, NEW j \in 2..n + 1, next[i].id = next[j].id
                   PROVE  i = j
        OBVIOUS
      <4>1. CASE i \in 2..n /\ i \in 1..n /\ j \in 2..n /\ j \in 1..n
        BY <4>1, <2>3 DEF IInv, PathOK
      <4>2. CASE i \in 2..n /\ i \in 1..n /\ j = n + 1
        BY <4>2, <3>2, <2>3
      <4>3. CASE i = n + 1 /\ j \in 2..n /\ j \in 1..n
        BY <4>3, <3>2, <2>3
      <4> QED BY <3>1, <4>1, <4>2, <4>3
    <3> QED BY <3>3, <3>4, <3>5, <2>3, <2>4, <1>5, <1>9 DEF PathOK
  <2>10. WalkOK' BY <1>1, <1>9 DEF WalkOK
  <2> QED BY <2>6, <2>7, <2>8, <2>9, <2>10, <1>5, <1>6 DEF IInv
<1> QED BY <1>7, <1>8, <1>9 DEF Visit, Reject

LEMMA LeaveIInv == ASSUME IInv, Leave PROVE IInv'
<1> DEFINE id     == frame.id
           n      == Len(stack)
           branch == frame.branch
           result == 1 + frame.best
<1>1. /\ pc = "graph" /\ id # Top /\ Branches(id) \subseteq frame.done
      /\ UNCHANGED <<resource, word, position, walk, output, status>>
  BY DEF Leave, Open
<1>2. ResourceOK BY DEF IInv
<1>3. id \in Nodes /\ n \in 2..n /\ n \in Nat /\ n \in 1..n BY <1>1, TopFrame
<1>4. state \in [Nodes -> 0..2] /\ depth \in [Nodes -> Nat] /\ stack \in Seq(Frame)
  BY DEF IInv, SearchOK
<1>5. /\ \A x : Branches(x)' = Branches(x)
      /\ \A x, b : Child(x, b)' = Child(x, b)
      /\ ResourceOK' /\ maximumSteps' = maximumSteps
  BY <1>1, <1>2 DEF resource, Branches, Child, ResourceOK
<1>6. WalkReachesLeaf' BY <1>1 DEF IInv, WalkReachesLeaf
<1>7. CASE Reject
  <2>1. UNCHANGED <<resource, search>> /\ pc' = "rejected" BY <1>1, <1>7 DEF Reject
  <2>2. WalkOK' BY <2>1 DEF WalkOK
  <2> QED BY <2>1, <2>2, <1>6, QuietStep DEF IInv
<1>8. CASE /\ ~ (result > maximumSteps)
           /\ state' = [state EXCEPT ![id] = 2]
           /\ depth' = [depth EXCEPT ![id] = result]
           /\ stack' = Returned(Below, branch, result)
           /\ UNCHANGED pc
  <2> DEFINE m    == n - 1
             next == Returned(Below, branch, result)
  <2>1. m \in Nat /\ m >= 1 /\ m \in 1..m /\ m \in 1..n /\ n = m + 1 BY <1>3
  <2>2. result \in Nat /\ result \in 1..maximumSteps /\ frame.best \in Nat
    <3>1. frame.best \in Nat BY TopFrame DEF Frame
    <3> QED BY <3>1, <1>2, <1>8 DEF ResourceOK
  <2>3. /\ Below \in Seq(Frame) /\ Len(Below) = m
        /\ \A i \in 1..m : Below[i] = stack[i]
    BY <2>1, <1>4 DEF Below
  <2>4. /\ branch \in Branches(stack[m].id) /\ Child(stack[m].id, branch) = id
        /\ state[id] = 1
    BY <1>3 DEF IInv, PathOK, frame
  <2>5. branch \in Branch
    <3>1. stack[m].id \in Nodes \cup {Top} BY <2>1, TopFrame DEF Frame
    <3> QED BY <3>1, <2>4, <1>2, ChildIsNode
  <2>6. /\ next \in Seq(Frame) /\ Len(next) = m
        /\ \A i \in 1..m : next[i].id = stack[i].id /\ next[i].branch = stack[i].branch
        /\ \A i \in 1..m - 1 : next[i] = stack[i]
        /\ next[m].done = stack[m].done \cup {branch}
        /\ stack[m].best \in Nat /\ next[m].best \in Nat
        /\ next[m].best >= stack[m].best /\ next[m].best >= result
    <3> HIDE DEF m
    <3>1. \A i \in 1..m - 1 : i \in 1..m BY <2>1
    <3> QED BY <3>1, <2>1, <2>2, <2>3, <2>5, ReturnedFrames
  <2> HIDE DEF next, m
  <2>7. stack' = next BY <1>8 DEF next
  <2>8. /\ \A x \in Nodes : x # id => state'[x] = state[x] /\ depth'[x] = depth[x]
        /\ state'[id] = 2 /\ state' \in [Nodes -> 0..2]
        /\ depth'[id] = result /\ depth' \in [Nodes -> Nat]
    BY <1>3, <1>4, <1>8, <2>2
  <2>9. \A x \in Nodes : state[x] = 2 => x # id /\ state'[x] = 2 /\ depth'[x] = depth[x]
    BY <2>4, <2>8
  <2>10. \A i \in 2..m : i \in 1..m /\ i \in 1..n /\ i \in 2..n /\ i - 1 \in 1..m /\ i # n
    BY <2>1
  <2>11. SearchOK'
    <3>1. next[1].id = Top /\ Len(next) >= 1 BY <2>1, <2>6 DEF IInv, SearchOK
    <3>2. \A i \in 2..m : next[i].id \in Nodes BY <2>6, <2>10 DEF IInv, SearchOK
    <3> QED BY <3>1, <3>2, <2>6, <2>7, <2>8 DEF SearchOK
  <2>12. FinishedOK'
    <3> SUFFICES ASSUME NEW x \in Nodes, state'[x] = 2 PROVE Above(x)'
      BY DEF FinishedOK
    <3>1. \A b \in Branches(x) : Child(x, b) \in Nodes BY <1>2, ChildIsNode
    <3>2. CASE x = id
      <4>1. \A b \in Branches(id) : state[Child(id, b)] = 2 /\ depth[Child(id, b)] <= frame.best
        BY <1>1, TopFrame DEF Seen
      <4>2. \A b \in Branches(id) : /\ state'[Child(id, b)] = 2
                                    /\ depth'[Child(id, b)] <= frame.best
                                    /\ depth'[Child(id, b)] \in Nat
        BY <4>1, <3>1, <3>2, <2>8, <2>9
      <4>3. \A p, q \in Nat : p <= q => p < 1 + q OBVIOUS
      <4>4. \A b \in Branches(id) : depth'[Child(id, b)] < result BY <4>2, <4>3, <2>2
      <4> QED BY <4>2, <4>4, <3>2, <2>2, <2>8, <1>5 DEF Above
    <3>3. CASE x # id
      <4>1. state[x] = 2 BY <3>3, <2>8
      <4>2. Above(x) /\ depth'[x] = depth[x] BY <4>1, <2>9 DEF IInv, FinishedOK
      <4>3. \A b \in Branches(x) : /\ state'[Child(x, b)] = 2
                                   /\ depth'[Child(x, b)] = depth[Child(x, b)]
        BY <4>2, <3>1, <2>9 DEF Above
      <4> QED BY <4>2, <4>3, <1>5 DEF Above
    <3> QED BY <3>2, <3>3
  <2>13. FramesOK'
    <3>1. \A i \in 1..m : \A b \in stack[i].done :
            /\ b \in Branches(stack[i].id)
            /\ state'[Child(stack[i].id, b)] = 2
            /\ depth'[Child(stack[i].id, b)] <= stack[i].best
            /\ depth'[Child(stack[i].id, b)] \in Nat
      <4> SUFFICES ASSUME NEW i \in 1..m, NEW b \in stack[i].done
                   PROVE  /\ b \in Branches(stack[i].id)
                          /\ state'[Child(stack[i].id, b)] = 2
                          /\ depth'[Child(stack[i].id, b)] <= stack[i].best
                          /\ depth'[Child(stack[i].id, b)] \in Nat
        OBVIOUS
      <4>1. i \in 1..n BY <2>1
      <4>2. /\ b \in Branches(stack[i].id) /\ state[Child(stack[i].id, b)] = 2
            /\ depth[Child(stack[i].id, b)] <= stack[i].best
        BY <4>1 DEF IInv, FramesOK, Seen
      <4>3. stack[i].id \in Nodes \cup {Top} BY <4>1, TopFrame DEF Frame
      <4>4. Child(stack[i].id, b) \in Nodes BY <4>2, <4>3, <1>2, ChildIsNode
      <4> QED BY <4>2, <4>4, <2>8, <2>9
    <3>2. \A i \in 1..m : i \in 1..m - 1 \/ i = m BY <2>1
    <3>3. \A b \in next[m].done :
            /\ b \in Branches(next[m].id)
            /\ state'[Child(next[m].id, b)] = 2
            /\ depth'[Child(next[m].id, b)] <= next[m].best
      <4> SUFFICES ASSUME NEW b \in next[m].done
                   PROVE  /\ b \in Branches(next[m].id)
                          /\ state'[Child(next[m].id, b)] = 2
                          /\ depth'[Child(next[m].id, b)] <= next[m].best
        OBVIOUS
      <4>1. next[m].id = stack[m].id BY <2>1, <2>6
      <4>2. CASE b = branch
        BY <4>1, <4>2, <2>2, <2>4, <2>6, <2>8
      <4>3. CASE b # branch
        <5>1. b \in stack[m].done BY <4>3, <2>6
        <5>2. \A p, q, r \in Nat : p <= q /\ r >= q => p <= r OBVIOUS
        <5> QED BY <5>1, <5>2, <4>1, <3>1, <2>1, <2>6
      <4> QED BY <4>2, <4>3
    <3>4. \A i \in 1..m : \A b \in next[i].done :
            /\ b \in Branches(next[i].id)
            /\ state'[Child(next[i].id, b)] = 2
            /\ depth'[Child(next[i].id, b)] <= next[i].best
      BY <3>1, <3>2, <3>3, <2>6
    <3> QED BY <3>4, <2>6, <2>7, <1>5 DEF FramesOK, Seen
  <2>14. PathOK'
    <3>1. \A i \in 2..m : /\ stack[i].id \in Nodes /\ state[stack[i].id] = 1
                          /\ stack[i].id # id
      BY <2>10, <1>3 DEF IInv, PathOK, SearchOK, frame
    <3>2. \A i \in 2..m : state'[next[i].id] = 1
      <4>1. \A i \in 2..m : state'[stack[i].id] = 1 BY ONLY <3>1, <2>8
      <4>2. \A i \in 2..m : next[i].id = stack[i].id BY <2>6, <2>10
      <4> QED BY <4>1, <4>2
    <3>3. \A i \in 2..m : /\ next[i].branch \in Branches(next[i - 1].id)
                          /\ Child(next[i - 1].id, next[i].branch) = next[i].id
      BY <2>6, <2>10 DEF IInv, PathOK
    <3>4. \A i, j \in 2..m : next[i].id = next[j].id => i = j
      BY <2>6, <2>10 DEF IInv, PathOK
    <3> QED BY <3>2, <3>3, <3>4, <2>6, <2>7, <1>5 DEF PathOK
  <2>15. WalkOK' BY <1>1, <1>8 DEF WalkOK
  <2> QED BY <2>11, <2>12, <2>13, <2>14, <2>15, <1>5, <1>6 DEF IInv
<1> QED BY <1>7, <1>8 DEF Leave

-----------------------------------------------------------------------------
(* The search as a whole, the walk, and the theorem.                       *)

LEMMA JudgeIInv == ASSUME IInv, Judge PROVE IInv'
<1>1. UNCHANGED <<resource, search, status>> BY DEF Judge, output
<1>2. pc' \notin {"graph", "rejected"} => \A id \in Nodes : state[id] = 2 BY DEF Judge
<1>3. pc' # "walk" BY DEF Judge
<1>4. WalkOK' BY <1>1, <1>2, <1>3 DEF WalkOK, search
<1>5. WalkReachesLeaf' BY <1>1 DEF IInv, WalkReachesLeaf
<1> QED BY <1>1, <1>4, <1>5, QuietStep DEF IInv

\* A word's steps other than the walk's.
LEMMA BeginIInv == ASSUME IInv, NEW w, Begin(w) PROVE IInv'
<1>1. /\ UNCHANGED <<resource, search>> /\ pc = "loaded" /\ pc' # "walk"
      /\ status' # "too_many_steps"
  BY DEF Begin
<1>2. WalkOK' /\ WalkReachesLeaf' BY <1>1 DEF IInv, WalkOK, WalkReachesLeaf, search
<1> QED BY <1>1, <1>2, QuietStep DEF IInv

LEMMA NextSymbolIInv == ASSUME IInv, NextSymbol PROVE IInv'
<1>1. UNCHANGED <<resource, search>> /\ pc = "symbol" BY DEF NextSymbol
<1>2. \A id \in Nodes : state[id] = 2 BY <1>1 DEF IInv, WalkOK
<1>3. WalkOK'
  <2>1. pc' = "walk" => node' \in Nodes /\ step' = 0
    BY DEF NextSymbol, Fail, IInv, ResourceOK
  <2>2. \A id \in Nodes : depth[id] \in Nat /\ 0 + depth[id] <= maximumSteps
    <3>1. \A k \in Nat : \A d \in 1..k : d \in Nat /\ 0 + d <= k OBVIOUS
    <3>2. maximumSteps \in Nat /\ \A id \in Nodes : depth[id] \in 1..maximumSteps
      BY <1>2 DEF IInv, FinishedOK, Above, ResourceOK
    <3> QED BY <3>1, <3>2
  <2> QED BY <1>1, <1>2, <2>1, <2>2 DEF WalkOK, search, resource
<1>4. WalkReachesLeaf' BY DEF NextSymbol, Fail, IInv, WalkReachesLeaf
<1> QED BY <1>1, <1>3, <1>4, QuietStep DEF IInv

LEMMA WalkIInv == ASSUME IInv, Walk PROVE IInv'
<1>1. UNCHANGED <<resource, search>> /\ pc = "walk" BY DEF Walk
<1>2. /\ \A id \in Nodes : state[id] = 2
      /\ node \in Nodes /\ step \in Nat /\ step + depth[node] <= maximumSteps
  BY <1>1 DEF IInv, WalkOK
<1>3. Above(node) /\ maximumSteps \in Nat BY <1>2 DEF IInv, FinishedOK, ResourceOK
<1>4. ~ (step >= maximumSteps) BY <1>2, <1>3 DEF Above
<1>5. CASE nodes[node].leaf
  <2>1. pc' = "emit" /\ status' = status BY <1>4, <1>5 DEF Walk
  <2>2. WalkOK' /\ WalkReachesLeaf'
    BY <1>1, <1>2, <2>1 DEF IInv, WalkOK, WalkReachesLeaf, search
  <2> QED BY <1>1, <2>2, QuietStep DEF IInv
<1>6. CASE ~ nodes[node].leaf
  <2>1. PICK b \in {"yes", "no"} :
          node' = nodes[node][b] /\ step' = step + 1 /\ pc' = pc /\ status' = status
    BY <1>4, <1>6 DEF Walk
  <2>2. node # Top BY <1>2, TopAssumption
  <2>3. b \in Branches(node) /\ Child(node, b) = node' BY <1>6, <2>1, <2>2 DEF Branches, Child
  <2>4. node' \in Nodes BY <2>3, <1>2, ChildIsNode DEF IInv
  <2>5. depth[node'] < depth[node] BY <2>3, <1>3 DEF Above
  <2>6. depth[node] \in Nat /\ depth[node'] \in Nat BY <1>2, <2>4 DEF IInv, SearchOK
  <2>7. step' \in Nat /\ step' + depth[node'] <= maximumSteps
    BY <2>1, <2>5, <2>6, <1>2, <1>3
  <2>8. WalkOK' /\ WalkReachesLeaf'
    BY <1>1, <1>2, <2>1, <2>4, <2>7 DEF IInv, WalkOK, WalkReachesLeaf, search, resource
  <2> QED BY <1>1, <2>8, QuietStep DEF IInv
<1> QED BY <1>5, <1>6

LEMMA EmitIInv == ASSUME IInv, Emit \/ LeafDone \/ Finish PROVE IInv'
<1>1. /\ UNCHANGED <<resource, search>> /\ pc \in {"emit", "symbol"} /\ pc' # "walk"
      /\ status' = status \/ status' # "too_many_steps"
  BY DEF Emit, LeafDone, Finish, Fail, output
<1>2. WalkOK' /\ WalkReachesLeaf' BY <1>1 DEF IInv, WalkOK, WalkReachesLeaf, search
<1> QED BY <1>1, <1>2, QuietStep DEF IInv

LEMMA NextIInv == ASSUME IInv, [Next]_vars PROVE IInv'
<1>1. ASSUME NEW branch \in Symbols \cup {"yes", "no"}, Visit(branch) PROVE IInv'
  BY <1>1, VisitIInv
<1>2. CASE Leave BY <1>2, LeaveIInv
<1>3. CASE Judge BY <1>3, JudgeIInv
<1>4. ASSUME NEW w \in Words, Begin(w) PROVE IInv' BY <1>4, BeginIInv
<1>5. CASE NextSymbol BY <1>5, NextSymbolIInv
<1>6. CASE Walk BY <1>6, WalkIInv
<1>7. CASE Emit \/ LeafDone \/ Finish BY <1>7, EmitIInv
<1>8. CASE UNCHANGED vars
  <2>1. UNCHANGED <<resource, search>> BY <1>8 DEF vars
  <2>2. WalkOK' /\ WalkReachesLeaf'
    BY <1>8 DEF vars, resource, search, walk, IInv, WalkOK, WalkReachesLeaf
  <2> QED BY <2>1, <2>2, QuietStep DEF IInv
<1> QED BY <1>1, <1>2, <1>3, <1>4, <1>5, <1>6, <1>7, <1>8 DEF Next, Pronounce

LEMMA Inductive == Spec => []IInv
<1>1. Init => IInv BY InitIInv
<1>2. IInv /\ [Next]_vars => IInv' BY NextIInv
<1> QED BY <1>1, <1>2, PTL DEF Spec

\* The model that load_lts_model publishes never makes pronounce run out of
\* steps: the INVALID_MODEL at lts.cpp:594-597 is no answer to any word.
THEOREM WalkReachesLeafAlways == Spec => []WalkReachesLeaf
<1>1. IInv => WalkReachesLeaf BY DEF IInv
<1> QED BY <1>1, Inductive, PTL

\* In a published graph the recorded depth of a node exceeds that of each of
\* its children and is within maximum_steps, whatever is shared: the graph has
\* no cycle and no node that the search left out (lts.cpp:481-537).
Published ==
  pc \notin {"graph", "rejected"} =>
    \A id \in Nodes : state[id] = 2 /\ Above(id)
THEOREM PublishedGraphDescends == Spec => []Published
<1>1. IInv => Published BY DEF IInv, Published, WalkOK, FinishedOK
<1> QED BY <1>1, Inductive, PTL
-----------------------------------------------------------------------------
(* Induction over the naturals, for sets: the theorems of the library are  *)
(* about an operator, which the provers do not instantiate.                *)

LessThan == {p \in Nat \X Nat : p[1] < p[2]}

\* A set of naturals that is not empty has a least element.
LEMMA LeastElement ==
  ASSUME NEW S, S \subseteq Nat, S # {}
  PROVE  \E x \in S : \A y \in S : x <= y
<1>1. IsWellFoundedOn(LessThan, Nat)
  BY NatLessThanWellFounded DEF OpToRel, LessThan
<1>2. \E x \in S : \A y \in S : ~ (<<y, x>> \in LessThan)
  BY <1>1, WFMin
<1>3. \A x, y \in Nat : <<y, x>> \in LessThan <=> y < x
  BY DEF LessThan
<1>4. \A x, y \in Nat : ~ (y < x) => x <= y
  OBVIOUS
<1> QED BY <1>2, <1>3, <1>4

\* A set that has zero and the successor of every member has all naturals.
LEMMA SetInduction ==
  ASSUME NEW S, 0 \in S, \A n \in Nat : n \in S => n + 1 \in S
  PROVE  \A n \in Nat : n \in S
<1> SUFFICES ASSUME Nat \ S # {} PROVE FALSE
  OBVIOUS
<1>1. PICK n \in Nat \ S : \A m \in Nat \ S : n <= m
  BY LeastElement
<1>2. n - 1 \in Nat /\ n - 1 + 1 = n /\ ~ (n <= n - 1)
  BY <1>1
<1> QED BY <1>1, <1>2

-----------------------------------------------------------------------------
(* The levels of the graph.                                                *)

Children(ids) == UNION {{Child(id, b) : b \in Branches(id)} : id \in ids}

LEMMA LevelDef ==
  /\ Level[0] = {roots[s] : s \in DOMAIN roots}
  /\ \A k \in Nat : Level[k + 1] = Children(Level[k])
<1> DEFINE F(v, k) == Children(v)
           L0 == {roots[s] : s \in DOMAIN roots}
<1>1. NatInductiveDefHypothesis(Level, L0, F)
  BY DEF NatInductiveDefHypothesis, Level, Children
<1> HIDE DEF F, L0
<1>2. NatInductiveDefConclusion(Level, L0, F)
  BY <1>1, NatInductiveDef
<1>3. \A k \in Nat : Level[k] = IF k = 0 THEN L0 ELSE F(Level[k - 1], k)
  BY <1>2 DEF NatInductiveDefConclusion
<1>4. \A k \in Nat : k + 1 \in Nat /\ k + 1 # 0 /\ (k + 1) - 1 = k
  OBVIOUS
<1> QED BY <1>3, <1>4 DEF F, L0

LEMMA ChildrenAre ==
  ASSUME NEW ids, NEW id \in ids, NEW b \in Branches(id)
  PROVE  Child(id, b) \in Children(ids)
BY DEF Children

\* A property of all roots that every node passes on to its children holds of
\* every node on a path.
LEMMA LevelInduction ==
  ASSUME NEW S, \A s \in DOMAIN roots : roots[s] \in S,
         \A id \in S : \A b \in Branches(id) : Child(id, b) \in S
  PROVE  \A k \in Nat : Level[k] \subseteq S
<1> DEFINE Good == {k \in Nat : Level[k] \subseteq S}
<1>1. 0 \in Good
  BY LevelDef
<1>2. \A k \in Nat : k \in Good => k + 1 \in Good
  BY LevelDef DEF Children
<1> HIDE DEF Good
<1>3. \A k \in Nat : k \in Good
  BY <1>1, <1>2, SetInduction
<1> QED BY <1>3 DEF Good

LEMMA LevelOfNodes ==
  ASSUME ResourceOK
  PROVE  \A k \in Nat : Level[k] \subseteq Nodes
<1>1. \A s \in DOMAIN roots : roots[s] \in Nodes
  BY DEF ResourceOK
<1>2. \A id \in Nodes : \A b \in Branches(id) : Child(id, b) \in Nodes
  BY ChildIsNode
<1> QED BY <1>1, <1>2, LevelInduction

\* Below an empty level there is nothing.
LEMMA LevelsShrink ==
  ASSUME NEW k \in Nat, NEW m \in Nat, m <= k, Level[k] # {}
  PROVE  Level[m] # {}
<1> DEFINE Empty == {d \in Nat : Level[m + d] = {}}
<1> SUFFICES ASSUME Level[m] = {} PROVE FALSE
  OBVIOUS
<1>1. 0 \in Empty
  OBVIOUS
<1>2. \A d \in Nat : d \in Empty => d + 1 \in Empty
  <2>1. \A d \in Nat : m + d \in Nat /\ m + (d + 1) = (m + d) + 1
    OBVIOUS
  <2> QED BY <2>1, LevelDef DEF Children
<1> HIDE DEF Empty
<1>3. \A d \in Nat : d \in Empty
  BY <1>1, <1>2, SetInduction
<1>4. k - m \in Nat /\ m + (k - m) = k
  OBVIOUS
<1> QED BY <1>3, <1>4 DEF Empty

\* From a set of nodes each of which has a child in the set, paths of any
\* length lead on: there is a cycle.
LEMMA CycleFillsLevels ==
  ASSUME NEW S, \A id \in S : \E b \in Branches(id) : Child(id, b) \in S,
         NEW m \in Nat, S \cap Level[m] # {}
  PROVE  \A k \in Nat : Level[k] # {}
<1> DEFINE Hit == {d \in Nat : S \cap Level[m + d] # {}}
<1>1. 0 \in Hit
  OBVIOUS
<1>2. \A d \in Nat : d \in Hit => d + 1 \in Hit
  <2> SUFFICES ASSUME NEW d \in Nat, d \in Hit PROVE d + 1 \in Hit
    OBVIOUS
  <2>1. PICK id \in S : id \in Level[m + d]
    OBVIOUS
  <2>2. PICK b \in Branches(id) : Child(id, b) \in S
    OBVIOUS
  <2>3. m + d \in Nat /\ m + (d + 1) = (m + d) + 1
    OBVIOUS
  <2>4. Child(id, b) \in Level[m + (d + 1)]
    BY <2>1, <2>3, LevelDef, ChildrenAre
  <2> QED BY <2>2, <2>4
<1> HIDE DEF Hit
<1>3. \A d \in Nat : d \in Hit
  BY <1>1, <1>2, SetInduction
<1> SUFFICES ASSUME NEW k \in Nat PROVE Level[k] # {}
  OBVIOUS
<1>4. Level[m + k] # {} /\ m + k \in Nat /\ k <= m + k
  BY <1>3 DEF Hit
<1> QED BY <1>4, LevelsShrink

-----------------------------------------------------------------------------
(* The search judges the graph as its definition does.                     *)

\* The frames are a path from a root: the node of frame i is on level i - 2.
OnLevels == \A i \in 2..Len(stack) : stack[i].id \in Level[i - 2]

\* A depth other than zero is that of a child.
Attained(f) == f.best = 0 \/ \E b \in f.done : depth[Child(f.id, b)] = f.best
BestAttained == \A i \in 1..Len(stack) : Attained(stack[i])

\* A path goes on below a finished node for as long as its depth says.
Deep(id) == \A m \in Nat : id \in Level[m] => Level[m + depth[id] - 1] # {}
DepthsReal == \A id \in Nodes : state[id] = 2 => Deep(id)

\* A node that the search has met is on a path; one that it has met but not
\* finished is in a frame.
MetOnPath ==
  \A id \in Nodes : state[id] # 0 => \E m \in Nat : id \in Level[m]
OpenInFrame ==
  \A id \in Nodes : state[id] = 1 => \E i \in 2..Len(stack) : stack[i].id = id

GInv == OnLevels /\ BestAttained /\ DepthsReal /\ MetOnPath /\ OpenInFrame /\ GraphJudged

\* A step that keeps the resource keeps the levels.
LEMMA SameLevels ==
  ASSUME UNCHANGED resource
  PROVE  Level' = Level
BY DEF Level, Child, Branches, resource

LEMMA SameGraph ==
  ASSUME UNCHANGED resource
  PROVE  /\ Level' = Level
         /\ \A x : Branches(x)' = Branches(x)
         /\ \A x, b : Child(x, b)' = Child(x, b)
         /\ GraphOK' <=> GraphOK
<1>1. Level' = Level
  BY SameLevels
<1>2. \A x, b : Branches(x)' = Branches(x) /\ Child(x, b)' = Child(x, b)
  BY DEF Branches, Child, resource
<1>3. GraphOK' <=> GraphOK
  BY <1>1 DEF GraphOK, resource
<1> QED BY <1>1, <1>2, <1>3

\* A graph with a path that is too long is not accepted.
LEMMA LongPath ==
  ASSUME ResourceOK, NEW k \in Nat, k >= maximumSteps, Level[k] # {}
  PROVE  ~ GraphOK
BY LevelsShrink DEF ResourceOK, GraphOK

\* A step that leaves the resource and the search alone.
LEMMA QuietGraph ==
  ASSUME GInv, UNCHANGED <<resource, search>>, GraphJudged'
  PROVE  GInv'
<1>1. UNCHANGED resource /\ UNCHANGED <<state, depth, stack>>
  BY DEF search
<1>2. /\ Level' = Level
      /\ \A x, b : Child(x, b)' = Child(x, b)
  BY <1>1, SameGraph
<1>3. OnLevels' /\ OpenInFrame'
  BY <1>1, <1>2 DEF GInv, OnLevels, OpenInFrame
<1>4. BestAttained'
  BY <1>1, <1>2 DEF GInv, BestAttained, Attained
<1>5. DepthsReal' /\ MetOnPath'
  BY <1>1, <1>2 DEF GInv, DepthsReal, Deep, MetOnPath
<1> QED BY <1>3, <1>4, <1>5 DEF GInv

\* The next branch of the top frame leads to the level of a next frame.
LEMMA NextOnLevel ==
  ASSUME IInv, GInv, NEW b \in Branches(frame.id)
  PROVE  /\ Len(stack) - 1 \in Nat
         /\ Child(frame.id, b) \in Level[Len(stack) - 1]
<1>1. CASE frame.id = Top
  <2>1. Len(stack) = 1
    BY <1>1, TopFrame
  <2>2. b \in DOMAIN roots /\ Child(frame.id, b) = roots[b]
    BY <1>1 DEF Branches, Child
  <2> QED BY <2>1, <2>2, LevelDef
<1>2. CASE frame.id # Top
  <2>1. Len(stack) \in 2..Len(stack) /\ Len(stack) \in Nat
    BY <1>2, TopFrame
  <2>2. frame.id \in Level[Len(stack) - 2]
    BY <2>1 DEF GInv, OnLevels, frame
  <2>3. Len(stack) - 2 \in Nat /\ Len(stack) - 1 = (Len(stack) - 2) + 1
    BY <2>1
  <2> QED BY <2>2, <2>3, LevelDef, ChildrenAre
<1> QED BY <1>1, <1>2

\* Every rejection by a call of visit is right: the path is too long, it
\* closes a cycle, or a finished node below it makes it too long.
LEMMA VisitRejects ==
  ASSUME IInv, GInv, NEW b \in Branches(frame.id),
         LET id == Child(frame.id, b) IN
         \/ Len(stack) > maximumSteps
         \/ state[id] = 1
         \/ state[id] = 2 /\ Len(stack) - 1 + depth[id] > maximumSteps
  PROVE  ~ GraphOK
<1> DEFINE id == Child(frame.id, b)
           n  == Len(stack)
<1>1. ResourceOK /\ maximumSteps \in Nat
  BY DEF IInv, ResourceOK
<1>2. n \in Nat /\ n >= 1 /\ n - 1 \in Nat /\ id \in Level[n - 1]
  BY NextOnLevel, TopFrame
<1>3. id \in Nodes
  BY <1>1, TopFrame, ChildIsNode
<1>4. CASE n > maximumSteps
  BY <1>1, <1>2, <1>4, LongPath
<1>5. CASE state[id] = 1
  <2>1. PICK i \in 2..n : stack[i].id = id
    BY <1>3, <1>5 DEF GInv, OpenInFrame
  <2> DEFINE S == {stack[j].id : j \in i..n}
  <2>2. \A j \in i..n : \E c \in Branches(stack[j].id) : Child(stack[j].id, c) \in S
    <3> SUFFICES ASSUME NEW j \in i..n
                 PROVE  \E c \in Branches(stack[j].id) : Child(stack[j].id, c) \in S
      OBVIOUS
    <3>1. CASE j = n
      BY <1>2, <2>1, <3>1 DEF frame
    <3>2. CASE j # n
      <4>1. j + 1 \in 2..n /\ j + 1 \in i..n /\ (j + 1) - 1 = j
        BY <1>2, <2>1, <3>2
      <4> QED BY <4>1 DEF IInv, PathOK
    <3> QED BY <3>1, <3>2
  <2>3. id \in S /\ i - 2 \in Nat /\ id \in Level[i - 2]
    BY <1>2, <2>1 DEF GInv, OnLevels
  <2>4. \A x \in S : \E c \in Branches(x) : Child(x, c) \in S
    BY <2>2
  <2> HIDE DEF S
  <2>5. Level[maximumSteps] # {}
    BY <1>1, <2>3, <2>4, CycleFillsLevels
  <2> QED BY <2>5 DEF GraphOK
<1>6. CASE state[id] = 2 /\ n - 1 + depth[id] > maximumSteps
  <2>1. Level[n - 1 + depth[id] - 1] # {}
    BY <1>2, <1>3, <1>6 DEF GInv, DepthsReal, Deep
  <2>2. depth[id] \in Nat
    BY <1>3 DEF IInv, SearchOK
  <2>3. n - 1 + depth[id] - 1 \in Nat /\ n - 1 + depth[id] - 1 >= maximumSteps
    BY <1>1, <1>2, <1>6, <2>2
  <2> QED BY <1>1, <2>1, <2>3, LongPath
<1> QED BY <1>4, <1>5, <1>6

\* What the top frame has seen is as deep as it says.
LEMMA BestIsDeep ==
  ASSUME IInv, GInv, frame.id \in Nodes, NEW m \in Nat, frame.id \in Level[m]
  PROVE  m + frame.best \in Nat /\ Level[m + frame.best] # {}
<1>1. frame.best \in Nat /\ frame \in Frame
  BY TopFrame DEF Frame
<1>2. CASE frame.best = 0
  BY <1>2
<1>3. CASE frame.best # 0
  <2>1. Attained(frame)
    BY TopFrame DEF GInv, BestAttained, frame
  <2>2. PICK b \in frame.done : depth[Child(frame.id, b)] = frame.best
    BY <1>3, <2>1 DEF Attained
  <2>3. b \in Branches(frame.id) /\ state[Child(frame.id, b)] = 2
    BY TopFrame DEF Seen
  <2>4. Child(frame.id, b) \in Nodes
    BY <2>3, ChildIsNode DEF IInv
  <2>5. Child(frame.id, b) \in Level[m + 1]
    BY <2>3, LevelDef, ChildrenAre
  <2>6. Level[(m + 1) + frame.best - 1] # {}
    BY <2>2, <2>3, <2>4, <2>5 DEF GInv, DepthsReal, Deep
  <2>7. (m + 1) + frame.best - 1 = m + frame.best
    BY <1>1
  <2> QED BY <1>1, <2>6, <2>7
<1> QED BY <1>1, <1>2, <1>3

\* A finished search with every root and every child finished has met all the
\* nodes that paths lead to.
LEMMA FinishedSearch ==
  ASSUME IInv, frame.id = Top, Open = {}
  PROVE  \A k \in Nat : Level[k] \subseteq {id \in Nodes : state[id] = 2}
<1> DEFINE S == {id \in Nodes : state[id] = 2}
<1>1. \A s \in DOMAIN roots : roots[s] \in S
  <2>1. /\ \A s \in DOMAIN roots : s \in Branches(frame.id)
        /\ \A s \in DOMAIN roots : Child(frame.id, s) = roots[s]
    BY DEF Branches, Child
  <2>2. \A s \in DOMAIN roots : s \in frame.done
    BY <2>1 DEF Open
  <2>3. \A s \in DOMAIN roots : state[roots[s]] = 2
    BY <2>1, <2>2, TopFrame DEF Seen
  <2> QED BY <2>3 DEF IInv, ResourceOK
<1>2. \A id \in S : \A b \in Branches(id) : Child(id, b) \in S
  BY ChildIsNode DEF IInv, FinishedOK, Above
<1> HIDE DEF S
<1>3. \A k \in Nat : Level[k] \subseteq S
  BY <1>1, <1>2, LevelInduction
<1> QED BY <1>3 DEF S

\* A graph all of whose nodes are finished is as its definition demands.
AllDone == \A id \in Nodes : state[id] = 2

LEMMA AllFinished ==
  ASSUME IInv, GInv, AllDone
  PROVE  GraphOK
<1> DEFINE max == maximumSteps
           Fits == {k \in Nat : \A id \in Level[k] : depth[id] + k <= max}
<1>1. ResourceOK /\ max \in Nat /\ max # 0
  BY DEF IInv, ResourceOK
<1>2. \A k \in Nat : Level[k] \subseteq Nodes
  BY <1>1, LevelOfNodes
<1>3. \A id \in Nodes : Above(id) /\ depth[id] \in Nat /\ depth[id] >= 1 /\ depth[id] <= max
  <2>1. \A id \in Nodes : Above(id)
    BY DEF AllDone, IInv, FinishedOK
  <2>2. \A id \in Nodes : depth[id] \in 1..max
    BY <2>1 DEF Above
  <2>3. \A d \in 1..max : d \in Nat /\ d >= 1 /\ d <= max
    BY <1>1
  <2> QED BY <2>1, <2>2, <2>3
<1>4. 0 \in Fits
  BY <1>2, <1>3
<1>5. \A k \in Nat : k \in Fits => k + 1 \in Fits
  <2> SUFFICES ASSUME NEW k \in Nat, k \in Fits, NEW x \in Level[k + 1]
               PROVE  depth[x] + (k + 1) <= max
    OBVIOUS
  <2>1. PICK id \in Level[k] : \E b \in Branches(id) : x = Child(id, b)
    BY LevelDef DEF Children
  <2>2. depth[x] < depth[id] /\ id \in Nodes /\ x \in Nodes
    BY <1>1, <1>2, <1>3, <2>1, ChildIsNode DEF Above
  <2>3. depth[id] + k <= max
    BY <2>1
  <2> QED BY <1>1, <1>3, <2>2, <2>3
<1> HIDE DEF Fits
<1>6. \A k \in Nat : k \in Fits
  BY <1>4, <1>5, SetInduction
<1>7. Level[max] = {}
  <2> SUFFICES ASSUME NEW id \in Level[max] PROVE FALSE
    OBVIOUS
  <2>1. depth[id] + max <= max /\ id \in Nodes
    BY <1>1, <1>2, <1>6 DEF Fits
  <2> QED BY <1>1, <1>3, <2>1
<1>8. ASSUME NEW id \in Nodes PROVE \E k \in 0..max - 1 : id \in Level[k]
  <2>1. PICK k \in Nat : id \in Level[k]
    BY DEF GInv, MetOnPath, AllDone
  <2>2. ~ (max <= k)
    BY <1>1, <1>7, <2>1, LevelsShrink
  <2> QED BY <1>1, <2>1, <2>2
<1>9. \A k \in 0..max - 1 : k \in Nat
  BY <1>1
<1> HIDE DEF max
<1> QED BY <1>2, <1>7, <1>8, <1>9 DEF GraphOK, max

LEMMA VisitGInv ==
  ASSUME IInv, GInv, NEW branch, Visit(branch)
  PROVE  GInv'
<1> DEFINE id == Child(frame.id, branch)
           n  == Len(stack)
<1>1. /\ pc = "graph" /\ branch \in Branches(frame.id)
      /\ UNCHANGED <<resource, word, position, walk, output, status>>
  BY DEF Visit, Open
<1>2. ResourceOK BY DEF IInv
<1>3. id \in Nodes /\ branch \in Branch BY <1>1, <1>2, TopFrame, ChildIsNode
<1>4. state \in [Nodes -> 0..2] /\ depth \in [Nodes -> Nat] /\ stack \in Seq(Frame)
  BY DEF IInv, SearchOK
<1>5. /\ Level' = Level
      /\ \A x, b : Child(x, b)' = Child(x, b)
      /\ GraphOK' <=> GraphOK
  BY <1>1, SameGraph
<1>6. n - 1 \in Nat /\ id \in Level[n - 1] /\ n \in Nat /\ n >= 1 /\ n \in 1..n
  BY <1>1, NextOnLevel, TopFrame
<1>7. CASE Reject /\ (\/ n > maximumSteps \/ state[id] = 1
                      \/ state[id] = 2 /\ n - 1 + depth[id] > maximumSteps)
  <2>1. ~ GraphOK BY <1>1, <1>7, VisitRejects
  <2>2. GraphJudged' BY <1>5, <1>7, <2>1 DEF Reject, GraphJudged
  <2>3. UNCHANGED <<resource, search>> BY <1>1, <1>7 DEF Reject
  <2> QED BY <2>2, <2>3, QuietGraph
<1>8. CASE state[id] = 2 /\ stack' = Returned(stack, branch, depth[id])
           /\ UNCHANGED <<pc, state, depth>>
  <2> DEFINE next == Returned(stack, branch, depth[id])
  <2>1. depth[id] \in Nat BY <1>3, <1>4
  <2>2. /\ Len(next) = n
        /\ \A i \in 1..n : next[i].id = stack[i].id
        /\ \A i \in 1..n - 1 : next[i] = stack[i]
        /\ next[n].done = stack[n].done \cup {branch}
    BY <2>1, <1>3, <1>4, <1>6, ReturnedFrames
  <2>2a. next[n].best = stack[n].best \/ next[n].best = depth[id]
    BY <2>1, <1>3, <1>4, <1>6, ReturnedBest
  <2> HIDE DEF next
  <2>3. stack' = next BY <1>8 DEF next
  <2>4. \A i \in 2..n : i \in 1..n BY <1>6
  <2>5. OnLevels' /\ OpenInFrame'
    BY <1>5, <1>8, <2>2, <2>3, <2>4 DEF GInv, OnLevels, OpenInFrame
  <2>6. BestAttained'
    <3> SUFFICES ASSUME NEW i \in 1..n
                 PROVE  \/ next[i].best = 0
                        \/ \E b \in next[i].done : depth[Child(next[i].id, b)] = next[i].best
      BY <1>5, <1>8, <2>2, <2>3 DEF BestAttained, Attained
    <3>1. Attained(stack[i]) BY DEF GInv, BestAttained
    <3>2. CASE i \in 1..n - 1 BY <3>1, <3>2, <2>2 DEF Attained
    <3>3. CASE i = n
      <4>1. CASE next[n].best = depth[id]
        BY <3>3, <4>1, <2>2, <1>6 DEF frame
      <4>2. CASE next[n].best = stack[n].best
        BY <3>1, <3>3, <4>2, <2>2, <1>6 DEF Attained
      <4> QED BY <4>1, <4>2, <2>2a
    <3> QED BY <3>2, <3>3, <1>6
  <2>7. DepthsReal' /\ MetOnPath'
    BY <1>5, <1>8 DEF GInv, DepthsReal, Deep, MetOnPath
  <2>8. GraphJudged' BY <1>1, <1>8 DEF GraphJudged
  <2> QED BY <2>5, <2>6, <2>7, <2>8 DEF GInv
<1>9. CASE /\ n <= maximumSteps /\ state[id] = 0
           /\ state' = [state EXCEPT ![id] = 1]
           /\ stack' = Append(stack, [id |-> id, branch |-> branch, done |-> {}, best |-> 0])
           /\ UNCHANGED <<pc, depth>>
  <2> DEFINE new  == [id |-> id, branch |-> branch, done |-> {}, best |-> 0]
             next == Append(stack, new)
  <2>1. /\ Len(next) = n + 1
        /\ \A i \in 1..n : next[i] = stack[i]
        /\ next[n + 1] = new
    BY <1>4, <1>6
  <2> HIDE DEF next
  <2>2. stack' = next BY <1>9 DEF next
  <2>3. /\ \A x \in Nodes : x # id => state'[x] = state[x]
        /\ state'[id] = 1
    BY <1>3, <1>4, <1>9
  <2>4. \A i \in 1..n + 1 : i \in 1..n \/ i = n + 1 BY <1>6
  <2>5. \A i \in 2..n + 1 : (i \in 2..n /\ i \in 1..n) \/ i = n + 1 BY <1>6
  <2>6. OnLevels'
    <3>1. \A i \in 2..n + 1 : next[i].id \in Level[i - 2]
      <4> SUFFICES ASSUME NEW i \in 2..n + 1 PROVE next[i].id \in Level[i - 2]
        OBVIOUS
      <4>1. CASE i \in 2..n /\ i \in 1..n
        BY <4>1, <2>1 DEF GInv, OnLevels
      <4>2. CASE i = n + 1
        <5>1. i - 2 = n - 1 BY <4>2, <1>6
        <5> QED BY <5>1, <4>2, <2>1, <1>6
      <4> QED BY <4>1, <4>2, <2>5
    <3> QED BY <3>1, <2>1, <2>2, <1>5 DEF OnLevels
  <2>7. BestAttained'
    <3>1. \A i \in 1..n : Attained(next[i])
      BY <2>1 DEF GInv, BestAttained
    <3>2. \A i \in 1..n + 1 : Attained(next[i])
      BY <3>1, <2>1, <2>4 DEF Attained
    <3> QED BY <3>2, <2>1, <2>2, <1>5, <1>9 DEF BestAttained, Attained
  <2>8. DepthsReal'
    <3> SUFFICES ASSUME NEW x \in Nodes, state'[x] = 2 PROVE Deep(x)'
      BY DEF DepthsReal
    <3>1. state[x] = 2 BY <2>3
    <3> QED BY <3>1, <1>5, <1>9 DEF GInv, DepthsReal, Deep
  <2>9. MetOnPath'
    BY <1>5, <1>6, <2>3 DEF GInv, MetOnPath
  <2>10. OpenInFrame'
    <3> SUFFICES ASSUME NEW x \in Nodes, state'[x] = 1
                 PROVE  \E i \in 2..n + 1 : next[i].id = x
      BY <2>1, <2>2 DEF OpenInFrame
    <3>1. CASE x = id
      <4>1. n + 1 \in 2..n + 1 BY <1>6
      <4> QED BY <3>1, <4>1, <2>1
    <3>2. CASE x # id
      <4>1. PICK i \in 2..n : stack[i].id = x
        BY <3>2, <2>3 DEF GInv, OpenInFrame
      <4>2. i \in 1..n /\ i \in 2..n + 1 BY <1>6
      <4> QED BY <4>1, <4>2, <2>1
    <3> QED BY <3>1, <3>2
  <2>11. GraphJudged' BY <1>1, <1>9 DEF GraphJudged
  <2> QED BY <2>6, <2>7, <2>8, <2>9, <2>10, <2>11 DEF GInv
<1> QED BY <1>7, <1>8, <1>9 DEF Visit, Reject

LEMMA LeaveGInv ==
  ASSUME IInv, GInv, Leave
  PROVE  GInv'
<1> DEFINE id     == frame.id
           n      == Len(stack)
           branch == frame.branch
           result == 1 + frame.best
<1>1. /\ pc = "graph" /\ id # Top
      /\ UNCHANGED <<resource, word, position, walk, output, status>>
  BY DEF Leave
<1>2. ResourceOK BY DEF IInv
<1>3. id \in Nodes /\ n \in 2..n /\ n \in Nat /\ n \in 1..n BY <1>1, TopFrame
<1>4. state \in [Nodes -> 0..2] /\ depth \in [Nodes -> Nat] /\ stack \in Seq(Frame)
  BY DEF IInv, SearchOK
<1>5. /\ Level' = Level
      /\ \A x, b : Child(x, b)' = Child(x, b)
      /\ GraphOK' <=> GraphOK
  BY <1>1, SameGraph
<1>6. n - 2 \in Nat /\ id \in Level[n - 2]
  BY <1>3 DEF GInv, OnLevels, frame
<1>7. frame.best \in Nat BY TopFrame DEF Frame
<1>8. CASE Reject /\ result > maximumSteps
  <2>1. Level[(n - 2) + frame.best] # {} /\ (n - 2) + frame.best \in Nat
    BY <1>3, <1>6, BestIsDeep
  <2>2. (n - 2) + frame.best >= maximumSteps
    BY <1>2, <1>6, <1>7, <1>8 DEF ResourceOK
  <2>3. ~ GraphOK BY <1>2, <2>1, <2>2, LongPath
  <2>4. GraphJudged' BY <1>5, <1>8, <2>3 DEF Reject, GraphJudged
  <2>5. UNCHANGED <<resource, search>> BY <1>1, <1>8 DEF Reject
  <2> QED BY <2>4, <2>5, QuietGraph
<1>9. CASE /\ ~ (result > maximumSteps)
           /\ state' = [state EXCEPT ![id] = 2]
           /\ depth' = [depth EXCEPT ![id] = result]
           /\ stack' = Returned(Below, branch, result)
           /\ UNCHANGED pc
  <2> DEFINE m    == n - 1
             next == Returned(Below, branch, result)
  <2>1. m \in Nat /\ m >= 1 /\ m \in 1..m /\ m \in 1..n /\ n = m + 1 BY <1>3
  <2>2. result \in Nat BY <1>7
  <2>3. /\ Below \in Seq(Frame) /\ Len(Below) = m
        /\ \A i \in 1..m : Below[i] = stack[i]
    BY <2>1, <1>4 DEF Below
  <2>4. /\ branch \in Branches(stack[m].id) /\ Child(stack[m].id, branch) = id
        /\ state[id] = 1
    BY <1>3 DEF IInv, PathOK, frame
  <2>5. branch \in Branch
    <3>1. stack[m].id \in Nodes \cup {Top} BY <2>1, TopFrame DEF Frame
    <3> QED BY <3>1, <2>4, <1>2, ChildIsNode
  <2>6. /\ Len(next) = m
        /\ \A i \in 1..m : next[i].id = stack[i].id
        /\ \A i \in 1..m - 1 : next[i] = stack[i]
        /\ next[m].done = stack[m].done \cup {branch}
    <3> HIDE DEF m
    <3>1. \A i \in 1..m - 1 : i \in 1..m BY <2>1
    <3> QED BY <3>1, <2>1, <2>2, <2>3, <2>5, ReturnedFrames
  <2>6a. next[m].best = stack[m].best \/ next[m].best = result
    <3> HIDE DEF m
    <3> QED BY <2>1, <2>2, <2>3, <2>5, ReturnedBest
  <2> HIDE DEF next, m
  <2>7. stack' = next BY <1>9 DEF next
  <2>8. /\ \A x \in Nodes : x # id => state'[x] = state[x] /\ depth'[x] = depth[x]
        /\ state'[id] = 2 /\ depth'[id] = result
    BY <1>3, <1>4, <1>9, <2>2
  <2>9. \A i \in 2..m : i \in 1..m /\ i \in 2..n /\ i # n
    BY <2>1
  <2>10. OnLevels'
    BY <1>5, <2>6, <2>7, <2>9 DEF GInv, OnLevels
  <2>11. \A i \in 1..m : \A b \in stack[i].done :
           depth'[Child(stack[i].id, b)] = depth[Child(stack[i].id, b)]
    <3> SUFFICES ASSUME NEW i \in 1..m, NEW b \in stack[i].done
                 PROVE  depth'[Child(stack[i].id, b)] = depth[Child(stack[i].id, b)]
      OBVIOUS
    <3>1. i \in 1..n BY <2>1
    <3>2. b \in Branches(stack[i].id) /\ state[Child(stack[i].id, b)] = 2
      BY <3>1 DEF IInv, FramesOK, Seen
    <3>3. stack[i].id \in Nodes \cup {Top} BY <3>1, TopFrame DEF Frame
    <3>4. Child(stack[i].id, b) \in Nodes BY <3>2, <3>3, <1>2, ChildIsNode
    <3> QED BY <3>2, <3>4, <2>4, <2>8
  <2>12. BestAttained'
    <3> SUFFICES ASSUME NEW i \in 1..m
                 PROVE  \/ next[i].best = 0
                        \/ \E b \in next[i].done : depth'[Child(next[i].id, b)] = next[i].best
      BY <1>5, <2>6, <2>7 DEF BestAttained, Attained
    <3>1. Attained(stack[i])
      <4>1. i \in 1..n BY <2>1
      <4> QED BY <4>1 DEF GInv, BestAttained
    <3>2. CASE i \in 1..m - 1
      BY <3>1, <3>2, <2>6, <2>11 DEF Attained
    <3>3. CASE i = m
      <4>1. CASE next[m].best = result
        BY <3>3, <4>1, <2>4, <2>6, <2>8
      <4>2. CASE next[m].best = stack[m].best
        BY <3>1, <3>3, <4>2, <2>6, <2>11 DEF Attained
      <4> QED BY <4>1, <4>2, <2>6a
    <3> QED BY <3>2, <3>3, <2>1
  <2>13. DepthsReal'
    <3> SUFFICES ASSUME NEW x \in Nodes, state'[x] = 2, NEW k \in Nat, x \in Level[k]
                 PROVE  Level[k + depth'[x] - 1] # {}
      BY <1>5 DEF DepthsReal, Deep
    <3>1. CASE x = id
      <4>1. Level[k + frame.best] # {} BY <3>1, <1>3, BestIsDeep
      <4>2. k + depth'[x] - 1 = k + frame.best BY <3>1, <1>7, <2>8
      <4> QED BY <4>1, <4>2
    <3>2. CASE x # id
      BY <3>2, <2>8 DEF GInv, DepthsReal, Deep
    <3> QED BY <3>1, <3>2
  <2>14. MetOnPath'
    BY <1>5, <1>6, <2>8 DEF GInv, MetOnPath
  <2>15. OpenInFrame'
    <3> SUFFICES ASSUME NEW x \in Nodes, state'[x] = 1
                 PROVE  \E i \in 2..m : next[i].id = x
      BY <2>6, <2>7 DEF OpenInFrame
    <3>1. x # id /\ state[x] = 1 BY <2>8
    <3>2. PICK i \in 2..n : stack[i].id = x BY <3>1 DEF GInv, OpenInFrame
    <3>3. i # n BY <3>1, <3>2 DEF frame
    <3>4. i \in 2..m /\ i \in 1..m BY <3>2, <3>3, <2>1
    <3> QED BY <3>2, <3>4, <2>6
  <2>16. GraphJudged' BY <1>1, <1>9 DEF GraphJudged
  <2> QED BY <2>10, <2>12, <2>13, <2>14, <2>15, <2>16 DEF GInv
<1> QED BY <1>8, <1>9 DEF Leave

LEMMA JudgeGInv ==
  ASSUME IInv, GInv, Judge
  PROVE  GInv'
<1>1. pc = "graph" /\ frame.id = Top /\ Open = {} /\ UNCHANGED <<resource, search>>
  BY DEF Judge
<1>2. GraphOK' <=> GraphOK BY <1>1, SameGraph
<1>3. CASE AllDone
  <2>1. pc' = "loaded" BY <1>3 DEF Judge, AllDone
  <2>2. GraphOK BY <1>3, AllFinished
  <2> QED BY <1>1, <1>2, <2>1, <2>2, QuietGraph DEF GraphJudged
<1>4. CASE ~ AllDone
  <2>1. pc' = "rejected" BY <1>4 DEF Judge, AllDone
  <2>2. PICK x \in Nodes : state[x] # 2 BY <1>4 DEF AllDone
  <2>3. \A k \in Nat : x \notin Level[k] BY <1>1, <2>2, FinishedSearch
  <2>4. \A k \in 0..maximumSteps - 1 : k \in Nat BY DEF IInv, ResourceOK
  <2>5. ~ GraphOK BY <2>3, <2>4 DEF GraphOK
  <2> QED BY <1>1, <1>2, <2>1, <2>5, QuietGraph DEF GraphJudged
<1> QED BY <1>3, <1>4

LEMMA InitGInv == Init => GInv
<1> SUFFICES ASSUME Init PROVE GInv OBVIOUS
<1>1. /\ state = [id \in Nodes |-> 0] /\ pc = "graph"
      /\ stack = <<[id |-> Top, branch |-> Top, done |-> {}, best |-> 0]>>
  BY DEF Init
<1>2. Len(stack) = 1 /\ stack[1].best = 0 /\ \A id \in Nodes : state[id] = 0
  BY <1>1
<1> QED BY <1>1, <1>2
  DEF GInv, OnLevels, BestAttained, Attained, DepthsReal, MetOnPath, OpenInFrame, GraphJudged

LEMMA NextGInv ==
  ASSUME IInv, GInv, [Next]_vars
  PROVE  GInv'
<1>1. ASSUME NEW branch \in Symbols \cup {"yes", "no"}, Visit(branch) PROVE GInv'
  BY <1>1, VisitGInv
<1>2. CASE Leave BY <1>2, LeaveGInv
<1>3. CASE Judge BY <1>3, JudgeGInv
<1>4. CASE (\E w \in Words : Begin(w)) \/ Pronounce \/ UNCHANGED vars
  <2>1. UNCHANGED <<resource, search>>
    BY <1>4 DEF Begin, Pronounce, NextSymbol, Walk, Emit, LeafDone, Finish, vars
  <2>2. \/ pc' = pc
        \/ pc \notin {"graph", "rejected"} /\ pc' \notin {"graph", "rejected"}
    BY <1>4 DEF Begin, Pronounce, NextSymbol, Walk, Emit, LeafDone, Finish, Fail, vars
  <2>3. GraphJudged' BY <2>1, <2>2, SameGraph DEF GInv, GraphJudged
  <2> QED BY <2>1, <2>3, QuietGraph
<1> QED BY <1>1, <1>2, <1>3, <1>4 DEF Next

\* The depth-first search that meets a shared node once, in whatever order it
\* takes the branches, accepts exactly the graphs whose paths all have at most
\* maximum_steps nodes and meet every node: no recursion limit is evaded by
\* sharing, no graph without a cycle is taken for one with a cycle, and none
\* is refused for the order of its nodes (lts.cpp:481-537).
THEOREM GraphAlwaysJudged == Spec => []GraphJudged
<1>1. Init => GInv BY InitGInv
<1>2. IInv /\ GInv /\ [Next]_vars => GInv' BY NextGInv
<1>3. GInv => GraphJudged BY DEF GInv
<1> QED BY <1>1, <1>2, <1>3, Inductive, PTL DEF Spec

-----------------------------------------------------------------------------
(* The pronunciation that is handed out.                                   *)

Syllable == [segments : Nat \ {0}, stress : Stresses]

LEMMA SegmentsDef ==
  /\ SegmentsTo[0] = 0
  /\ \A k \in Nat : SegmentsTo[k + 1] = SegmentsTo[k] + syllables[k + 1].segments
<1> DEFINE F(v, k) == v + syllables[k].segments
<1>1. NatInductiveDefHypothesis(SegmentsTo, 0, F)
  BY DEF NatInductiveDefHypothesis, SegmentsTo
<1> HIDE DEF F
<1>2. NatInductiveDefConclusion(SegmentsTo, 0, F)
  BY <1>1, NatInductiveDef
<1>3. \A k \in Nat : SegmentsTo[k] = IF k = 0 THEN 0 ELSE F(SegmentsTo[k - 1], k)
  BY <1>2 DEF NatInductiveDefConclusion
<1>4. \A k \in Nat : k + 1 \in Nat /\ k + 1 # 0 /\ (k + 1) - 1 = k
  OBVIOUS
<1> QED BY <1>3, <1>4 DEF F

\* The same after a step.
LEMMA SegmentsDefNext ==
  /\ SegmentsTo'[0] = 0
  /\ \A k \in Nat : SegmentsTo'[k + 1] = SegmentsTo'[k] + syllables'[k + 1].segments
<1> DEFINE F(v, k) == v + syllables'[k].segments
<1>1. NatInductiveDefHypothesis(SegmentsTo', 0, F)
  BY DEF NatInductiveDefHypothesis, SegmentsTo
<1> HIDE DEF F
<1>2. NatInductiveDefConclusion(SegmentsTo', 0, F)
  BY <1>1, NatInductiveDef
<1>3. \A k \in Nat : SegmentsTo'[k] = IF k = 0 THEN 0 ELSE F(SegmentsTo'[k - 1], k)
  BY <1>2 DEF NatInductiveDefConclusion
<1>4. \A k \in Nat : k + 1 \in Nat /\ k + 1 # 0 /\ (k + 1) - 1 = k
  OBVIOUS
<1> QED BY <1>3, <1>4 DEF F

\* A syllable that is appended adds its segments to the sum.
LEMMA SegmentsAppend ==
  ASSUME NEW e \in Syllable, syllables \in Seq(Syllable), syllables' = Append(syllables, e)
  PROVE  SegmentsTo'[Len(syllables) + 1] = SegmentsTo[Len(syllables)] + e.segments
<1> DEFINE n == Len(syllables)
           Same == {k \in Nat : k <= n => SegmentsTo'[k] = SegmentsTo[k]}
<1>1. n \in Nat /\ syllables'[n + 1] = e /\ \A k \in 1..n : syllables'[k] = syllables[k]
  OBVIOUS
<1> HIDE DEF n
<1>2. 0 \in Same
  BY SegmentsDef, SegmentsDefNext
<1>3. \A k \in Nat : k \in Same => k + 1 \in Same
  <2> SUFFICES ASSUME NEW k \in Nat, k \in Same, k + 1 <= n
               PROVE  SegmentsTo'[k + 1] = SegmentsTo[k + 1]
    OBVIOUS
  <2>1. k <= n /\ k + 1 \in 1..n
    BY <1>1
  <2>2. SegmentsTo'[k] = SegmentsTo[k] /\ syllables'[k + 1] = syllables[k + 1]
    BY <1>1, <2>1
  <2> QED BY <2>2, SegmentsDef, SegmentsDefNext
<1> HIDE DEF Same
<1>4. \A k \in Nat : k \in Same
  BY <1>2, <1>3, SetInduction
<1>5. SegmentsTo'[n] = SegmentsTo[n]
  BY <1>1, <1>4 DEF Same
<1>6. SegmentsTo'[n + 1] = SegmentsTo'[n] + syllables'[n + 1].segments
  BY <1>1, SegmentsDefNext
<1> QED BY <1>1, <1>5, <1>6 DEF n

\* What is true of the output while a word is being spoken, and of the leaf
\* whose emissions are being stored.
OnePrimary == \A i, j \in Primaries : i = j
Stores ==
  /\ syllables \in Seq(Syllable) /\ current \in Nat /\ total \in Nat
  /\ SegmentsTo[Len(syllables)] \in Nat
  /\ SegmentsTo[Len(syllables)] + current = total
  /\ total <= MaxSegments /\ Len(syllables) <= MaxSyllables
  /\ OnePrimary
Speaking == pc \in {"symbol", "walk", "emit"}
LeafOK == node \in Nodes /\ nodes[node].leaf /\ emission \in Nat \ {0}

OutInv ==
  /\ Speaking => status = "none" /\ Stores
  /\ pc = "emit" => LeafOK
  /\ status = "OK" => Stores /\ current = 0 /\ syllables # <<>>
  /\ status \notin {"none", "OK"} => syllables = <<>>

\* A failure hands out nothing and ends the word.
LEMMA FailOut ==
  ASSUME NEW reason, reason \notin {"none", "OK"}, Fail(reason)
  PROVE  OutInv'
BY DEF Fail, OutInv, Speaking

LEMMA SameStores ==
  ASSUME Stores, UNCHANGED <<current, total, syllables>>
  PROVE  Stores'
BY DEF Stores, SegmentsTo, OnePrimary, Primaries

LEMMA BeginOut ==
  ASSUME OutInv, NEW w, Begin(w)
  PROVE  OutInv'
<1>1. syllables' = <<>> /\ current' = 0 /\ total' = 0
  BY DEF Begin
<1>2. SegmentsTo'[0] = 0 /\ Len(syllables') = 0 /\ syllables' \in Seq(Syllable)
  BY <1>1, SegmentsDefNext
<1>3. Primaries' = {}
  BY <1>1 DEF Primaries
<1>4. Stores'
  BY <1>1, <1>2, <1>3, OutputAssumption DEF Stores, OnePrimary
<1> QED BY <1>1, <1>4 DEF Begin, OutInv, Speaking

\* The emission e is stored, within the limits.
LEMMA StoredOut ==
  ASSUME Stores, NEW e \in Emission, Stored(e), total' = total + e.segments,
         ~ (total + e.segments > MaxSegments),
         ~ (e.stress # "open" /\ Len(syllables) >= MaxSyllables),
         ~ (e.stress = "primary" /\ Primaries # {})
  PROVE  Stores'
<1> DEFINE n == Len(syllables)
<1>1. /\ syllables \in Seq(Syllable) /\ current \in Nat /\ total \in Nat /\ n \in Nat
      /\ SegmentsTo[n] \in Nat /\ SegmentsTo[n] + current = total
      /\ n <= MaxSyllables /\ OnePrimary
  BY DEF Stores
<1>2. e.segments \in Nat \ {0} /\ e.stress \in Stresses \cup {"open"}
  BY DEF Emission
<1>3. PICK m, c, a : m = SegmentsTo[n] /\ c = current /\ a = e.segments
  OBVIOUS
<1>4. m \in Nat /\ c \in Nat /\ a \in Nat /\ m + c = total
  BY <1>1, <1>2, <1>3
<1>5. total' = (m + c) + a /\ ~ (total' > MaxSegments)
  BY <1>3, <1>4
<1>6. total' \in Nat /\ total' <= MaxSegments
  BY <1>4, <1>5, OutputAssumption
<1>7. c + a \in Nat /\ m + (c + a) \in Nat /\ m + (c + a) = total'
  BY <1>4, <1>5
<1>8. CASE e.stress = "open"
  <2>1. current' = current + e.segments /\ syllables' = syllables
    BY <1>8 DEF Stored
  <2>2. SegmentsTo' = SegmentsTo
    BY <2>1 DEF SegmentsTo
  <2>3. OnePrimary'
    BY <1>1, <2>1 DEF OnePrimary, Primaries
  <2>4. /\ total' \in Nat /\ total' <= MaxSegments /\ current' \in Nat
        /\ SegmentsTo[n] + current' = total'
    BY <1>3, <1>6, <1>7, <2>1
  <2> QED BY <1>1, <2>1, <2>2, <2>3, <2>4 DEF Stores
<1>9. CASE e.stress # "open"
  <2> DEFINE s == [segments |-> current + e.segments, stress |-> e.stress]
  <2>1. current' = 0 /\ syllables' = Append(syllables, s)
    BY <1>9 DEF Stored
  <2>2. s \in Syllable /\ s.segments = current + e.segments /\ s.stress = e.stress
    BY <1>1, <1>2, <1>9 DEF Syllable
  <2> HIDE DEF s
  <2>3. SegmentsTo'[n + 1] = SegmentsTo[n] + s.segments
    BY <1>1, <2>1, <2>2, SegmentsAppend
  <2>4. /\ syllables' \in Seq(Syllable) /\ Len(syllables') = n + 1
        /\ syllables'[n + 1] = s /\ \A i \in 1..n : syllables'[i] = syllables[i]
    BY <1>1, <2>1, <2>2
  <2>5. OnePrimary'
    <3>1. DOMAIN syllables' = 1..n + 1 /\ DOMAIN syllables = 1..n
      BY <1>1, <2>4
    <3>2. \A i \in 1..n + 1 : i \in 1..n \/ i = n + 1
      BY <1>1
    <3>3. \A i \in 1..n : syllables'[i].stress = syllables[i].stress
      BY <2>4
    <3>4. \A i \in Primaries' : i \in Primaries \/ (i = n + 1 /\ Primaries = {})
      BY <2>2, <2>4, <3>1, <3>2, <3>3 DEF Primaries
    <3> QED BY <1>1, <3>4 DEF OnePrimary
  <2>6. /\ total' \in Nat /\ total' <= MaxSegments /\ n + 1 <= MaxSyllables
        /\ SegmentsTo'[n + 1] \in Nat /\ SegmentsTo'[n + 1] + current' = total'
    <3>1. n + 1 <= MaxSyllables
      BY <1>1, <1>9, OutputAssumption
    <3>2. SegmentsTo'[n + 1] = m + (c + a)
      BY <1>3, <2>2, <2>3
    <3>3. m + (c + a) + 0 = m + (c + a)
      BY <1>7
    <3> QED BY <1>6, <1>7, <2>1, <3>1, <3>2, <3>3
  <2> QED BY <2>1, <2>4, <2>5, <2>6 DEF Stores
<1> QED BY <1>8, <1>9

LEMMA EmitOut ==
  ASSUME IInv, OutInv, Emit
  PROVE  OutInv'
<1> DEFINE emissions == nodes[node].emissions
           e == emissions[emission]
<1>1. /\ pc = "emit" /\ emission <= Len(emissions) /\ total' = total + e.segments
      /\ UNCHANGED <<resource, node>>
  BY DEF Emit
<1>2. status = "none" /\ Stores /\ LeafOK
  BY <1>1 DEF OutInv, Speaking
<1>3. nodes[node] \in Leaf
  BY <1>2 DEF LeafOK, IInv, ResourceOK, Node, Leaf, Decision
<1>4. emissions \in Seq(Emission)
  BY <1>3, LeavesAssumption DEF Leaf
<1>5. e \in Emission
  <2>1. emission \in 1..Len(emissions)
    BY <1>1, <1>2, <1>4 DEF LeafOK
  <2> QED BY <1>4, <2>1
<1>6. CASE total + e.segments > MaxSegments
  BY <1>6, FailOut DEF Emit
<1>7. CASE e.stress # "open" /\ Len(syllables) >= MaxSyllables
  BY <1>7, FailOut DEF Emit
<1>8. CASE e.stress = "primary" /\ Primaries # {}
  BY <1>8, FailOut DEF Emit
<1>9. CASE /\ ~ (total + e.segments > MaxSegments)
           /\ ~ (e.stress # "open" /\ Len(syllables) >= MaxSyllables)
           /\ ~ (e.stress = "primary" /\ Primaries # {})
  <2>1. Stored(e) /\ emission' = emission + 1 /\ UNCHANGED <<pc, status>>
    BY <1>9 DEF Emit
  <2>2. Stores'
    BY <1>1, <1>2, <1>5, <1>9, <2>1, StoredOut
  <2>3. LeafOK'
    BY <1>1, <1>2, <2>1 DEF LeafOK, resource
  <2> QED BY <1>2, <2>1, <2>2, <2>3 DEF OutInv, Speaking
<1> QED BY <1>6, <1>7, <1>8, <1>9

LEMMA FinishOut ==
  ASSUME OutInv, Finish
  PROVE  OutInv'
<1>1. /\ pc = "symbol" /\ status = "none" /\ Stores
      /\ UNCHANGED <<current, total>>
  BY DEF Finish, OutInv, Speaking
<1>2. CASE current # 0 \/ syllables = <<>>
  BY <1>2, FailOut DEF Finish
<1>3. CASE ~ (current # 0 \/ syllables = <<>>)
  <2>1. pc' = "loaded" /\ status' = "OK" /\ UNCHANGED syllables
    BY <1>3 DEF Finish
  <2>2. Stores'
    BY <1>1, <2>1, SameStores
  <2> QED BY <1>1, <1>3, <2>1, <2>2 DEF OutInv, Speaking
<1> QED BY <1>2, <1>3

LEMMA WalkOut ==
  ASSUME IInv, OutInv, NextSymbol \/ Walk \/ LeafDone
  PROVE  OutInv'
<1>1. Speaking /\ status = "none" /\ Stores
  BY DEF NextSymbol, Walk, LeafDone, OutInv, Speaking
<1>2. CASE \E reason \in {"no_root", "too_many_steps"} : Fail(reason)
  BY <1>2, FailOut
<1>3. CASE /\ UNCHANGED <<status, current, total, syllables>> /\ pc' # "emit"
           /\ pc' \in {"symbol", "walk"}
  <2>1. Stores'
    BY <1>1, <1>3, SameStores
  <2> QED BY <1>1, <1>3, <2>1 DEF OutInv, Speaking
<1>4. CASE /\ UNCHANGED <<status, current, total, syllables, nodes, node>> /\ pc = "walk"
           /\ nodes[node].leaf /\ pc' = "emit" /\ emission' = 1
  <2>1. Stores'
    BY <1>1, <1>4, SameStores
  <2>2. node \in Nodes
    BY <1>4 DEF IInv, WalkOK
  <2>3. LeafOK'
    BY <1>4, <2>2 DEF LeafOK
  <2> QED BY <1>1, <1>4, <2>1, <2>3 DEF OutInv, Speaking
<1> QED BY <1>2, <1>3, <1>4 DEF NextSymbol, Walk, LeafDone, output, walk, resource

LEMMA NextOut ==
  ASSUME IInv, OutInv, [Next]_vars
  PROVE  OutInv'
<1>1. ASSUME NEW w \in Words, Begin(w) PROVE OutInv'
  BY <1>1, BeginOut
<1>2. CASE NextSymbol \/ Walk \/ LeafDone BY <1>2, WalkOut
<1>3. CASE Emit BY <1>3, EmitOut
<1>4. CASE Finish BY <1>4, FinishOut
<1>5. CASE (\E branch \in Symbols \cup {"yes", "no"} : Visit(branch)) \/ Leave \/ Judge
  <2>1. /\ pc = "graph" /\ pc' \in {"graph", "loaded", "rejected"}
        /\ UNCHANGED <<current, total, syllables, status>>
    BY <1>5 DEF Visit, Leave, Judge, Reject, output
  <2>2. Stores => Stores'
    BY <2>1, SameStores
  <2> QED BY <2>1, <2>2 DEF OutInv, Speaking
<1>6. CASE UNCHANGED vars
  <2>1. /\ UNCHANGED <<pc, status, node, nodes, emission>>
        /\ UNCHANGED <<current, total, syllables>>
    BY <1>6 DEF vars, output, walk, resource
  <2>2. Stores => Stores'
    BY <2>1, SameStores
  <2> QED BY <2>1, <2>2 DEF OutInv, Speaking, LeafOK
<1> QED BY <1>1, <1>2, <1>3, <1>4, <1>5, <1>6 DEF Next, Pronounce

\* For every resource and word, a pronunciation that is handed out has each
\* emitted segment in exactly one syllable, keeps the limits and has at most
\* one primary stress; a failure hands out nothing (lts.cpp:540-667).
THEOREM OutputAlwaysWhole == Spec => []OutputWhole
<1>1. Init => OutInv
  BY DEF Init, OutInv, Speaking
<1>2. IInv /\ OutInv /\ [Next]_vars => OutInv'
  BY NextOut
<1>3. OutInv => OutputWhole
  <2> SUFFICES ASSUME OutInv, status = "OK"
               PROVE  /\ SegmentsTo[Len(syllables)] = total /\ total <= MaxSegments
                      /\ Len(syllables) \in 1..MaxSyllables
                      /\ \A i \in DOMAIN syllables : syllables[i].segments > 0
                      /\ \A i, j \in Primaries : i = j
    BY DEF OutInv, OutputWhole
  <2>1. Stores /\ current = 0 /\ syllables # <<>>
    BY DEF OutInv
  <2>2. syllables \in Seq(Syllable) /\ Len(syllables) # 0
    BY <2>1 DEF Stores
  <2>3. \A i \in DOMAIN syllables : syllables[i].segments > 0
    <3>1. \A s \in Syllable : s.segments \in Nat \ {0}
      BY DEF Syllable
    <3>2. \A i \in DOMAIN syllables : syllables[i] \in Syllable
      BY <2>2
    <3>3. \A k \in Nat \ {0} : k > 0
      OBVIOUS
    <3> QED BY <3>1, <3>2, <3>3
  <2>4. Len(syllables) \in 1..MaxSyllables
    BY <2>1, <2>2, OutputAssumption DEF Stores
  <2> QED BY <2>1, <2>3, <2>4 DEF Stores, OnePrimary
<1> QED BY <1>1, <1>2, <1>3, Inductive, PTL DEF Spec

=============================================================================
