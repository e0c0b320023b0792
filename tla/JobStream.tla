----------------------------- MODULE JobStream -----------------------------
(***************************************************************************)
(* What one job promises to its client: it runs once, it delivers its      *)
(* blocks one by one up to its length, it may be asked to stop at any      *)
(* time, and the answer of the run agrees with what was delivered.         *)
(***************************************************************************)
EXTENDS Naturals

VARIABLES
  phase,      \* 0 created, 1 running, 2 finished
  length,     \* the number of blocks of the job
  delivered,  \* the number of blocks its client accepted
  stop,       \* a cancellation was asked for
  outcome     \* the answer of the run, "none" before it

vars == <<phase, length, delivered, stop, outcome>>

Init ==
  phase = 0 /\ length = 0 /\ delivered = 0 /\ stop = FALSE /\ outcome = "none"

Create ==
  /\ phase = 0
  /\ length' \in Nat
  /\ UNCHANGED <<phase, delivered, stop, outcome>>

Begin ==
  /\ phase = 0 /\ phase' = 1
  /\ UNCHANGED <<length, delivered, stop, outcome>>

Deliver ==
  /\ phase = 1 /\ outcome = "none" /\ delivered < length
  /\ delivered' = delivered + 1
  /\ UNCHANGED <<phase, length, stop, outcome>>

Stop ==
  /\ stop' = TRUE
  /\ UNCHANGED <<phase, length, delivered, outcome>>

\* The one step that may both ask for the stop and answer it is a callback
\* that refuses its block.
Answer ==
  /\ phase = 1 /\ outcome = "none"
  /\ \/ outcome' = "OK" /\ delivered = length /\ UNCHANGED stop
     \/ outcome' = "FAILED" /\ UNCHANGED stop
     \/ outcome' = "CANCELLED" /\ stop' = TRUE
  /\ UNCHANGED <<phase, length, delivered>>

End ==
  /\ phase = 1 /\ outcome # "none" /\ phase' = 2
  /\ UNCHANGED <<length, delivered, stop, outcome>>

Next == Create \/ Begin \/ Deliver \/ Stop \/ Answer \/ End

Spec == Init /\ [][Next]_vars
=============================================================================
