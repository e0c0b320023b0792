------------------------ MODULE EngineJobRefinement ------------------------
(***************************************************************************)
(* EngineJob implements SharedEngine and, for each of its jobs, JobStream. *)
(***************************************************************************)
EXTENDS EngineJob

CONSTANT Opener  (* the program that opened the engine *)

ASSUME OpenerAssumption == Opener \notin Jobs /\ Opener # NoJob

\* The reference count and the steps of the owners stand for a set of holders.
holdersBar ==
  Holders \cup (IF closer = "done" THEN {} ELSE {Opener})

\* The claimed flag stands for the job that has the session.
sessionBar ==
  IF \E j \in Jobs : Claims(j) THEN CHOOSE j \in Jobs : Claims(j) ELSE NoJob

freedBar == ~allocated

Shared == INSTANCE SharedEngine
  WITH holders <- holdersBar, session <- sessionBar, freed <- freedBar

Stream(j) == INSTANCE JobStream
  WITH phase <- state[j], length <- total[j], delivered <- emitted[j],
       stop <- cancelled[j], outcome <- result[j]

\* The engine is shared as SharedEngine says: an atomic counter and a flag,
\* used by the steps of creates, destroys and the close in any order, are as
\* good as the set of holders and the session (engine.cpp:161-169, 541-579,
\* 671-696).
ImplementsSharedEngine == Shared!Spec

\* Every job is the stream that JobStream describes, whatever its cancels,
\* its destroy and the other runs do in between (engine.cpp:581-669).
\* (\A j \in Jobs : Stream(j)!Spec, with the quantifier inside the box.)
ImplementsJobStream ==
  /\ \A j \in Jobs : Stream(j)!Init
  /\ [][\A j \in Jobs : Stream(j)!Next \/ UNCHANGED Stream(j)!vars]_vars
=============================================================================
