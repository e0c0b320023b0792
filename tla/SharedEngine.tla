---------------------------- MODULE SharedEngine ----------------------------
(***************************************************************************)
(* What an engine promises: it is shared by the program that opened it and *)
(* the jobs created on it, one job at a time has its session, and it is    *)
(* freed in the very step in which its last holder leaves.                 *)
(***************************************************************************)
CONSTANTS
  Jobs,    (* the jobs that may be created                         *)
  Opener,  (* the program that opened the engine                   *)
  NoJob    (* nobody has the session                               *)

VARIABLES
  holders,  \* who keeps the engine in existence
  session,  \* the job that has the engine's only session, or NoJob
  freed     \* the engine is gone

vars == <<holders, session, freed>>

Init == holders = {Opener} /\ session = NoJob /\ freed = FALSE

\* A creation wins the session of a living engine...
Admit(j) ==
  /\ ~freed /\ session = NoJob /\ j \notin holders
  /\ session' = j
  /\ UNCHANGED <<holders, freed>>

\* ...and becomes a holder of it.
Join(j) ==
  /\ ~freed /\ session = j /\ j \notin holders
  /\ holders' = holders \cup {j}
  /\ UNCHANGED <<session, freed>>

\* A job gives up the session while it still holds the engine.
Part(j) ==
  /\ session = j /\ j \in holders
  /\ session' = NoJob
  /\ UNCHANGED <<holders, freed>>

\* The last one to leave frees the engine.
Leave(o) ==
  /\ o \in holders /\ o # session
  /\ holders' = holders \ {o}
  /\ freed' = (holders' = {})
  /\ UNCHANGED session

Next ==
  \/ \E j \in Jobs : Admit(j) \/ Join(j) \/ Part(j)
  \/ \E o \in Jobs \cup {Opener} : Leave(o)

Spec == Init /\ [][Next]_vars
=============================================================================
