---- MODULE MCLtsModel ----
(***************************************************************************)
(* TLC instance of LtsModel: every graph whose nodes 1 and 2 decide, node  *)
(* 3 decides or is a leaf and node 4 is a leaf, with every set of roots,   *)
(* so that a node of depth 3 may be shared, and a handful of words.        *)
(***************************************************************************)
EXTENDS LtsModel

MCFeatures == {[offset |-> 1, value |-> "a"]}
Open2  == <<[segments |-> 2, stress |-> "open"]>>
Closed == <<[segments |-> 1, stress |-> "primary"], [segments |-> 1, stress |-> "none"]>>
Weak   == <<[segments |-> 1, stress |-> "none"], [segments |-> 1, stress |-> "secondary"]>>
MCLeaves == {Open2, Closed, Weak}
LeafOf(e) == [leaf |-> TRUE, emissions |-> e]
MCGraphs == {<<d, e, n, LeafOf(Closed)>> : d \in Decision, e \in Decision,
                                           n \in Decision \cup {LeafOf(Open2), LeafOf(Weak)}}
MCWords == {<<"a">>, <<"a", "a">>, <<"a", "-", "a">>, <<"a", "-">>}
====
