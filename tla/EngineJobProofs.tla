-------------------------- MODULE EngineJobProofs --------------------------
(***************************************************************************)
(* The safety of EngineJob for every number of jobs, callers, blocks and   *)
(* chunks, and that it implements SharedEngine and JobStream.              *)
(*                                                                         *)
(* All of it follows from IInv being inductive.  The lemmas ...Step prove  *)
(* one conjunct of IInv each; in every one of them step <1>n treats one    *)
(* action.  The theorems assume that no client destroys a job while a run  *)
(* call that has been entered has not yet claimed it: the call would find  *)
(* the job freed.                                                          *)
(***************************************************************************)
EXTENDS EngineJobRefinement, FiniteSetTheorems, TLAPS

-----------------------------------------------------------------------------
(* Consequences of the invariant in one state.                             *)

LEMMA HoldersFinite ==
  IsFiniteSet(Holders) /\ Cardinality(Holders) \in Nat
BY JobsAssumption, FS_Subset, FS_CardinalityType DEF Holders

\* Whoever holds the engine keeps it allocated.
LEMMA RefsPositive ==
  ASSUME IInv, closer # "done" \/ \E j \in Jobs : Holds(j)
  PROVE  refs >= 1 /\ allocated
<1>1. (\E j \in Jobs : Holds(j)) => Cardinality(Holders) # 0
  BY HoldersFinite, FS_EmptySet DEF Holders
<1> QED
  BY <1>1, HoldersFinite DEF IInv, RefsCountOwners, OpenerShare, TypeOK

\* A creation is covered by the opener or by a job of its caller.
LEMMA AccessFromInvariant == IInv => EngineAccessSafe
<1>1. ASSUME IInv, NEW j \in Jobs, owner[j] \in CreateSteps PROVE allocated
  BY <1>1, RefsPositive DEF IInv, CloseInv, OwnsJob, Holds, Alive
<1>2. ASSUME IInv, closer = "e_release" \/ \E j \in Jobs : Holds(j) PROVE allocated
  BY <1>2, RefsPositive
<1> QED BY <1>1, <1>2 DEF EngineAccessSafe

\* Two runs would be on two claimed jobs, or twice past the same state 0.
LEMMA OneRunAtATime ==
  ASSUME IInv
  PROVE  OneSynthesis
BY DEF IInv, TypeOK, OneClaim, Claims, CallsInv, OneSynthesis, SessionSteps,
       Running, RunSteps, InferSteps, EmitSteps

-----------------------------------------------------------------------------
(* The conjuncts of the invariant are preserved.                           *)

\* The count is never taken below zero, and a delivered block was due.
LEMMA TypeStep ==
  ASSUME IInv, [Next]_vars
  PROVE  TypeOK'
<1> USE DEF IInv, TypeOK, Statuses, OwnerSteps, CreateSteps, DestroySteps,
            CallerSteps, RunSteps, InferSteps, EmitSteps, CancelSteps, vars,
            engineVars, flagVars, pcmVars, ortVars, callerVars, Step,
            OnlyOwner, NotEngine, Goto, GoOn, OnlyCaller, Return, SetCancelled,
            CancelActive, Retain, Release
<1>1. ASSUME NEW j \in Jobs, StartCreate(j) PROVE TypeOK'
  BY <1>1 DEF StartCreate
<1>2. ASSUME NEW j \in Jobs, CheckClosed(j) PROVE TypeOK'
  BY <1>2 DEF CheckClosed
<1>3. ASSUME NEW j \in Jobs, Claim(j) PROVE TypeOK'
  BY <1>3 DEF Claim
<1>4. ASSUME NEW j \in Jobs, RetainForJob(j) PROVE TypeOK'
  BY <1>4 DEF RetainForJob
<1>5. ASSUME NEW j \in Jobs, MakeJob(j) PROVE TypeOK'
  BY <1>5 DEF MakeJob
<1>6. ASSUME NEW j \in Jobs, AllocFails(j) PROVE TypeOK'
  BY <1>6 DEF AllocFails
<1>7. ASSUME NEW j \in Jobs, Unclaim(j) PROVE TypeOK'
  BY <1>7 DEF Unclaim
<1>8. ASSUME NEW j \in Jobs, ReleaseByJob(j) PROVE TypeOK'
  BY <1>8, RefsPositive DEF ReleaseByJob, Holds
<1>9. ASSUME NEW j \in Jobs, StartDestroy(j) PROVE TypeOK'
  BY <1>9 DEF StartDestroy
<1>10. ASSUME NEW j \in Jobs, DestroyCancel(j) PROVE TypeOK'
  BY <1>10 DEF DestroyCancel
<1>11. ASSUME NEW j \in Jobs, DestroyTerminate(j) PROVE TypeOK'
  BY <1>11 DEF DestroyTerminate
<1>12. ASSUME NEW j \in Jobs, TestFinished(j) PROVE TypeOK'
  BY <1>12 DEF TestFinished
<1>13. ASSUME NEW j \in Jobs, Block(j) PROVE TypeOK'
  BY <1>13 DEF Block
<1>14. ASSUME NEW j \in Jobs, SpuriousWake(j) PROVE TypeOK'
  BY <1>14 DEF SpuriousWake
<1>15. ASSUME NEW j \in Jobs, DeleteJob(j) PROVE TypeOK'
  BY <1>15 DEF DeleteJob
<1>16. ASSUME NEW c \in Callers, NEW j \in Jobs, StartRun(c, j) PROVE TypeOK'
  BY <1>16 DEF StartRun
<1>17. ASSUME NEW c \in Callers, NEW j \in Jobs, StartCancel(c, j) PROVE TypeOK'
  BY <1>17 DEF StartCancel
<1>18. ASSUME NEW c \in Callers, CancelStore(c) PROVE TypeOK'
  BY <1>18 DEF CancelStore
<1>19. ASSUME NEW c \in Callers, CancelTerminate(c) PROVE TypeOK'
  BY <1>19 DEF CancelTerminate
<1>20. ASSUME NEW c \in Callers, ClaimRun(c) PROVE TypeOK'
  BY <1>20 DEF ClaimRun
<1>21. ASSUME NEW c \in Callers, PreCheck(c) PROVE TypeOK'
  BY <1>21 DEF PreCheck
<1>22. ASSUME NEW c \in Callers, LoopHead(c) PROVE TypeOK'
  BY <1>22 DEF LoopHead
<1>23. ASSUME NEW c \in Callers, PrepareFails(c) PROVE TypeOK'
  BY <1>23 DEF PrepareFails
<1>24. ASSUME NEW c \in Callers, Publish(c) PROVE TypeOK'
  BY <1>24 DEF Publish
<1>25. ASSUME NEW c \in Callers, InferEnds(c) PROVE TypeOK'
  BY <1>25 DEF InferEnds
<1>26. ASSUME NEW c \in Callers, InferTerminated(c) PROVE TypeOK'
  BY <1>26 DEF InferTerminated
<1>27. ASSUME NEW c \in Callers, Retract(c) PROVE TypeOK'
  BY <1>27 DEF Retract
<1>28. ASSUME NEW c \in Callers, CheckError(c) PROVE TypeOK'
  BY <1>28 DEF CheckError
<1>29. ASSUME NEW c \in Callers, CheckOutput(c) PROVE TypeOK'
  BY <1>29 DEF CheckOutput
<1>30. ASSUME NEW c \in Callers, EmitCheck(c) PROVE TypeOK'
  BY <1>30 DEF EmitCheck
<1>31. ASSUME NEW c \in Callers, CallbackBegins(c) PROVE TypeOK'
  BY <1>31 DEF CallbackBegins
<1>32. ASSUME NEW c \in Callers, CallbackCancels(c) PROVE TypeOK'
  BY <1>32 DEF CallbackCancels
<1>33. ASSUME NEW c \in Callers, CallbackAccepts(c) PROVE TypeOK'
  BY <1>33, BlocksAssumption DEF CallbackAccepts, PcmInv, OutcomeHonest, InChunk
<1>34. ASSUME NEW c \in Callers, CallbackRefuses(c) PROVE TypeOK'
  BY <1>34 DEF CallbackRefuses
<1>35. ASSUME NEW c \in Callers, Finish(c) PROVE TypeOK'
  BY <1>35 DEF Finish
<1>36. ASSUME NEW c \in Callers, Notify(c) PROVE TypeOK'
  BY <1>36 DEF Notify
<1>37. CASE CloseEngine
  BY <1>37 DEF CloseEngine
<1>38. CASE ReleaseByCloser
  BY <1>38, RefsPositive DEF ReleaseByCloser
<1>39. CASE UNCHANGED vars
  BY <1>39
<1> QED
  BY <1>1, <1>2, <1>3, <1>4, <1>5, <1>6, <1>7, <1>8, <1>9, <1>10, <1>11, <1>12,
     <1>13, <1>14, <1>15, <1>16, <1>17, <1>18, <1>19, <1>20, <1>21, <1>22,
     <1>23, <1>24, <1>25, <1>26, <1>27, <1>28, <1>29, <1>30, <1>31, <1>32,
     <1>33, <1>34, <1>35, <1>36, <1>37, <1>38, <1>39
  DEF Next, OwnerNext, CallerNext, RunNext

\* A caller leaves the engine alone, and touches owners only to wake one.
OwnersStay ==
  /\ UNCHANGED <<refs, closed, claimed, allocated, closer>>
  /\ \A j \in Jobs :
       owner'[j] = owner[j] \/ (owner[j] = "d_wait" /\ owner'[j] = "d_test")

LEMMA CallerStep ==
  ASSUME TypeOK, NEW c \in Callers, CallerNext(c)
  PROVE  OwnersStay
<1> USE DEF OwnersStay, engineVars, Goto, GoOn, OnlyCaller, Return
<1>1. CASE \E j \in Jobs : StartRun(c, j)
  BY <1>1 DEF StartRun
<1>2. CASE \E j \in Jobs : StartCancel(c, j)
  BY <1>2 DEF StartCancel
<1>3. CASE CancelStore(c)
  BY <1>3 DEF CancelStore
<1>4. CASE CancelTerminate(c)
  BY <1>4 DEF CancelTerminate
<1>5. CASE ClaimRun(c)
  BY <1>5 DEF ClaimRun
<1>6. CASE PreCheck(c)
  BY <1>6 DEF PreCheck
<1>7. CASE LoopHead(c)
  BY <1>7 DEF LoopHead
<1>8. CASE PrepareFails(c)
  BY <1>8 DEF PrepareFails
<1>9. CASE Publish(c)
  BY <1>9 DEF Publish
<1>10. CASE InferEnds(c)
  BY <1>10 DEF InferEnds
<1>11. CASE InferTerminated(c)
  BY <1>11 DEF InferTerminated
<1>12. CASE Retract(c)
  BY <1>12 DEF Retract
<1>13. CASE CheckError(c)
  BY <1>13 DEF CheckError
<1>14. CASE CheckOutput(c)
  BY <1>14 DEF CheckOutput
<1>15. CASE EmitCheck(c)
  BY <1>15 DEF EmitCheck
<1>16. CASE CallbackBegins(c)
  BY <1>16 DEF CallbackBegins
<1>17. CASE CallbackCancels(c)
  BY <1>17 DEF CallbackCancels
<1>18. CASE CallbackAccepts(c)
  BY <1>18 DEF CallbackAccepts
<1>19. CASE CallbackRefuses(c)
  BY <1>19 DEF CallbackRefuses
<1>20. CASE Finish(c)
  BY <1>20 DEF Finish
<1>21. CASE Notify(c)
  BY <1>21 DEF Notify, TypeOK
<1> QED
  BY <1>1, <1>2, <1>3, <1>4, <1>5, <1>6, <1>7, <1>8, <1>9, <1>10, <1>11, <1>12,
     <1>13, <1>14, <1>15, <1>16, <1>17, <1>18, <1>19, <1>20, <1>21
  DEF CallerNext, RunNext

\* The compare-exchange lets in one creation, and whoever gives the claim up had it.
LEMMA ClaimStep ==
  ASSUME IInv, [Next]_vars
  PROVE  OneClaim'
<1> USE DEF IInv, TypeOK, OneClaim, Claims, OwnerSteps, CreateSteps,
            DestroySteps, CallerSteps, RunSteps, InferSteps, EmitSteps,
            CancelSteps, vars, engineVars, flagVars, pcmVars, ortVars,
            callerVars, Step, OnlyOwner, NotEngine, Goto, GoOn, OnlyCaller,
            Return, SetCancelled, CancelActive, Retain, Release
<1>1. ASSUME NEW j \in Jobs, StartCreate(j) PROVE OneClaim'
  BY <1>1 DEF StartCreate
<1>2. ASSUME NEW j \in Jobs, CheckClosed(j) PROVE OneClaim'
  BY <1>2 DEF CheckClosed
<1>3. ASSUME NEW j \in Jobs, Claim(j) PROVE OneClaim'
  BY <1>3 DEF Claim
<1>4. ASSUME NEW j \in Jobs, RetainForJob(j) PROVE OneClaim'
  BY <1>4 DEF RetainForJob
<1>5. ASSUME NEW j \in Jobs, MakeJob(j) PROVE OneClaim'
  BY <1>5 DEF MakeJob
<1>6. ASSUME NEW j \in Jobs, AllocFails(j) PROVE OneClaim'
  BY <1>6 DEF AllocFails
<1>7. ASSUME NEW j \in Jobs, Unclaim(j) PROVE OneClaim'
  BY <1>7 DEF Unclaim
<1>8. ASSUME NEW j \in Jobs, ReleaseByJob(j) PROVE OneClaim'
  BY <1>8 DEF ReleaseByJob
<1>9. ASSUME NEW j \in Jobs, StartDestroy(j) PROVE OneClaim'
  BY <1>9 DEF StartDestroy
<1>10. ASSUME NEW j \in Jobs, DestroyCancel(j) PROVE OneClaim'
  BY <1>10 DEF DestroyCancel
<1>11. ASSUME NEW j \in Jobs, DestroyTerminate(j) PROVE OneClaim'
  BY <1>11 DEF DestroyTerminate
<1>12. ASSUME NEW j \in Jobs, TestFinished(j) PROVE OneClaim'
  BY <1>12 DEF TestFinished
<1>13. ASSUME NEW j \in Jobs, Block(j) PROVE OneClaim'
  BY <1>13 DEF Block
<1>14. ASSUME NEW j \in Jobs, SpuriousWake(j) PROVE OneClaim'
  BY <1>14 DEF SpuriousWake
<1>15. ASSUME NEW j \in Jobs, DeleteJob(j) PROVE OneClaim'
  BY <1>15 DEF DeleteJob
<1>16. ASSUME NEW c \in Callers, CallerNext(c) PROVE OneClaim'
  BY <1>16, CallerStep DEF OwnersStay
<1>17. CASE CloseEngine
  BY <1>17 DEF CloseEngine
<1>18. CASE ReleaseByCloser
  BY <1>18 DEF ReleaseByCloser
<1>19. CASE UNCHANGED vars
  BY <1>19
<1> QED
  BY <1>1, <1>2, <1>3, <1>4, <1>5, <1>6, <1>7, <1>8, <1>9, <1>10, <1>11, <1>12,
     <1>13, <1>14, <1>15, <1>16, <1>17, <1>18, <1>19
  DEF Next, OwnerNext

\* A close or a destroy leaves no creation without cover.
LEMMA CloseStep ==
  ASSUME IInv, [Next]_vars
  PROVE  CloseInv'
<1> USE DEF IInv, TypeOK, CloseInv, OwnsJob, OwnerSteps, CreateSteps,
            DestroySteps, CallerSteps, RunSteps, InferSteps, EmitSteps,
            CancelSteps, vars, engineVars, flagVars, pcmVars, ortVars,
            callerVars, Step, OnlyOwner, NotEngine, Goto, GoOn, OnlyCaller,
            Return, SetCancelled, CancelActive, Retain, Release
<1>1. ASSUME NEW j \in Jobs, StartCreate(j) PROVE CloseInv'
  BY <1>1 DEF StartCreate, EngineUsable
<1>2. ASSUME NEW j \in Jobs, CheckClosed(j) PROVE CloseInv'
  BY <1>2 DEF CheckClosed
<1>3. ASSUME NEW j \in Jobs, Claim(j) PROVE CloseInv'
  BY <1>3 DEF Claim
<1>4. ASSUME NEW j \in Jobs, RetainForJob(j) PROVE CloseInv'
  BY <1>4 DEF RetainForJob
<1>5. ASSUME NEW j \in Jobs, MakeJob(j) PROVE CloseInv'
  BY <1>5 DEF MakeJob
<1>6. ASSUME NEW j \in Jobs, AllocFails(j) PROVE CloseInv'
  BY <1>6 DEF AllocFails
<1>7. ASSUME NEW j \in Jobs, Unclaim(j) PROVE CloseInv'
  BY <1>7 DEF Unclaim
<1>8. ASSUME NEW j \in Jobs, ReleaseByJob(j) PROVE CloseInv'
  BY <1>8 DEF ReleaseByJob
<1>9. ASSUME NEW j \in Jobs, StartDestroy(j) PROVE CloseInv'
  BY <1>9 DEF StartDestroy, MayDestroy, EngineCallInFlight
<1>10. ASSUME NEW j \in Jobs, DestroyCancel(j) PROVE CloseInv'
  BY <1>10 DEF DestroyCancel
<1>11. ASSUME NEW j \in Jobs, DestroyTerminate(j) PROVE CloseInv'
  BY <1>11 DEF DestroyTerminate
<1>12. ASSUME NEW j \in Jobs, TestFinished(j) PROVE CloseInv'
  BY <1>12 DEF TestFinished
<1>13. ASSUME NEW j \in Jobs, Block(j) PROVE CloseInv'
  BY <1>13 DEF Block
<1>14. ASSUME NEW j \in Jobs, SpuriousWake(j) PROVE CloseInv'
  BY <1>14 DEF SpuriousWake
<1>15. ASSUME NEW j \in Jobs, DeleteJob(j) PROVE CloseInv'
  BY <1>15 DEF DeleteJob
<1>16. ASSUME NEW c \in Callers, CallerNext(c) PROVE CloseInv'
  BY <1>16, CallerStep DEF OwnersStay
<1>17. CASE CloseEngine
  BY <1>17 DEF CloseEngine, MayClose, EngineCallInFlight
<1>18. CASE ReleaseByCloser
  BY <1>18 DEF ReleaseByCloser
<1>19. CASE UNCHANGED vars
  BY <1>19
<1> QED
  BY <1>1, <1>2, <1>3, <1>4, <1>5, <1>6, <1>7, <1>8, <1>9, <1>10, <1>11, <1>12,
     <1>13, <1>14, <1>15, <1>16, <1>17, <1>18, <1>19
  DEF Next, OwnerNext

\* A destroyer that finds state 0 or 2 has no run to wait for: only here is
\* the rule for destroying a job used.
LEMMA CallsStep ==
  ASSUME IInv, DestroyDuring # "entered", [Next]_vars
  PROVE  CallsInv'
<1> USE DEF IInv, TypeOK, CallsInv, Running, Alive, SessionSteps, OwnerSteps,
            CreateSteps, DestroySteps, CallerSteps, RunSteps, InferSteps,
            EmitSteps, CancelSteps, vars, engineVars, flagVars, pcmVars,
            ortVars, callerVars, Step, OnlyOwner, NotEngine, Goto, GoOn,
            OnlyCaller, Return, SetCancelled, CancelActive, Retain, Release
<1>1. ASSUME NEW j \in Jobs, StartCreate(j) PROVE CallsInv'
  BY <1>1 DEF StartCreate
<1>2. ASSUME NEW j \in Jobs, CheckClosed(j) PROVE CallsInv'
  BY <1>2 DEF CheckClosed
<1>3. ASSUME NEW j \in Jobs, Claim(j) PROVE CallsInv'
  BY <1>3 DEF Claim
<1>4. ASSUME NEW j \in Jobs, RetainForJob(j) PROVE CallsInv'
  BY <1>4 DEF RetainForJob
<1>5. ASSUME NEW j \in Jobs, MakeJob(j) PROVE CallsInv'
  BY <1>5 DEF MakeJob
<1>6. ASSUME NEW j \in Jobs, AllocFails(j) PROVE CallsInv'
  BY <1>6 DEF AllocFails
<1>7. ASSUME NEW j \in Jobs, Unclaim(j) PROVE CallsInv'
  BY <1>7 DEF Unclaim
<1>8. ASSUME NEW j \in Jobs, ReleaseByJob(j) PROVE CallsInv'
  BY <1>8 DEF ReleaseByJob
<1>9. ASSUME NEW j \in Jobs, StartDestroy(j) PROVE CallsInv'
  <2>1. /\ owner[j] = "live" /\ owner' = [owner EXCEPT ![j] = "d_cancel"]
        /\ UNCHANGED <<engineVars, flagVars, pcmVars, ortVars, callerVars>>
        /\ \A c \in Callers : target[c] = j => pc[c] \notin CancelSteps \cup {"enter"}
    BY <1>9, DestroyAssumption DEF StartDestroy, MayDestroy
  <2> QED BY <2>1
<1>10. ASSUME NEW j \in Jobs, DestroyCancel(j) PROVE CallsInv'
  BY <1>10 DEF DestroyCancel
<1>11. ASSUME NEW j \in Jobs, DestroyTerminate(j) PROVE CallsInv'
  BY <1>11 DEF DestroyTerminate
<1>12. ASSUME NEW j \in Jobs, TestFinished(j) PROVE CallsInv'
  BY <1>12 DEF TestFinished
<1>13. ASSUME NEW j \in Jobs, Block(j) PROVE CallsInv'
  BY <1>13 DEF Block
<1>14. ASSUME NEW j \in Jobs, SpuriousWake(j) PROVE CallsInv'
  BY <1>14 DEF SpuriousWake
<1>15. ASSUME NEW j \in Jobs, DeleteJob(j) PROVE CallsInv'
  BY <1>15 DEF DeleteJob
<1>16. ASSUME NEW c \in Callers, NEW j \in Jobs, StartRun(c, j) PROVE CallsInv'
  BY <1>16 DEF StartRun
<1>17. ASSUME NEW c \in Callers, NEW j \in Jobs, StartCancel(c, j) PROVE CallsInv'
  BY <1>17 DEF StartCancel
<1>18. ASSUME NEW c \in Callers, CancelStore(c) PROVE CallsInv'
  BY <1>18 DEF CancelStore
<1>19. ASSUME NEW c \in Callers, CancelTerminate(c) PROVE CallsInv'
  BY <1>19 DEF CancelTerminate
<1>20. ASSUME NEW c \in Callers, ClaimRun(c) PROVE CallsInv'
  BY <1>20 DEF ClaimRun
<1>21. ASSUME NEW c \in Callers, PreCheck(c) PROVE CallsInv'
  BY <1>21 DEF PreCheck
<1>22. ASSUME NEW c \in Callers, LoopHead(c) PROVE CallsInv'
  BY <1>22 DEF LoopHead
<1>23. ASSUME NEW c \in Callers, PrepareFails(c) PROVE CallsInv'
  BY <1>23 DEF PrepareFails
<1>24. ASSUME NEW c \in Callers, Publish(c) PROVE CallsInv'
  BY <1>24 DEF Publish
<1>25. ASSUME NEW c \in Callers, InferEnds(c) PROVE CallsInv'
  BY <1>25 DEF InferEnds
<1>26. ASSUME NEW c \in Callers, InferTerminated(c) PROVE CallsInv'
  BY <1>26 DEF InferTerminated
<1>27. ASSUME NEW c \in Callers, Retract(c) PROVE CallsInv'
  BY <1>27 DEF Retract
<1>28. ASSUME NEW c \in Callers, CheckError(c) PROVE CallsInv'
  BY <1>28 DEF CheckError
<1>29. ASSUME NEW c \in Callers, CheckOutput(c) PROVE CallsInv'
  BY <1>29 DEF CheckOutput
<1>30. ASSUME NEW c \in Callers, EmitCheck(c) PROVE CallsInv'
  BY <1>30 DEF EmitCheck
<1>31. ASSUME NEW c \in Callers, CallbackBegins(c) PROVE CallsInv'
  BY <1>31 DEF CallbackBegins
<1>32. ASSUME NEW c \in Callers, CallbackCancels(c) PROVE CallsInv'
  BY <1>32 DEF CallbackCancels
<1>33. ASSUME NEW c \in Callers, CallbackAccepts(c) PROVE CallsInv'
  BY <1>33 DEF CallbackAccepts
<1>34. ASSUME NEW c \in Callers, CallbackRefuses(c) PROVE CallsInv'
  BY <1>34 DEF CallbackRefuses
<1>35. ASSUME NEW c \in Callers, Finish(c) PROVE CallsInv'
  BY <1>35 DEF Finish
<1>36. ASSUME NEW c \in Callers, Notify(c) PROVE CallsInv'
  BY <1>36 DEF Notify
<1>37. CASE CloseEngine
  BY <1>37 DEF CloseEngine
<1>38. CASE ReleaseByCloser
  BY <1>38 DEF ReleaseByCloser
<1>39. CASE UNCHANGED vars
  BY <1>39
<1> QED
  BY <1>1, <1>2, <1>3, <1>4, <1>5, <1>6, <1>7, <1>8, <1>9, <1>10, <1>11, <1>12,
     <1>13, <1>14, <1>15, <1>16, <1>17, <1>18, <1>19, <1>20, <1>21, <1>22,
     <1>23, <1>24, <1>25, <1>26, <1>27, <1>28, <1>29, <1>30, <1>31, <1>32,
     <1>33, <1>34, <1>35, <1>36, <1>37, <1>38, <1>39
  DEF Next, OwnerNext, CallerNext, RunNext

\* The count of blocks, the flag and the answer of a run agree.
LEMMA PcmStep ==
  ASSUME IInv, [Next]_vars
  PROVE  PcmInv'
<1> USE DEF IInv, TypeOK, CallsInv, PcmInv, AtMostOneLateCallback,
            OutcomeHonest, InChunk, Running, SessionSteps, Statuses,
            OwnerSteps, CreateSteps, DestroySteps, CallerSteps, RunSteps,
            InferSteps, EmitSteps, CancelSteps, vars, engineVars, flagVars,
            pcmVars, ortVars, callerVars, Step, OnlyOwner, NotEngine, Goto,
            GoOn, OnlyCaller, Return, SetCancelled, CancelActive, Retain,
            Release
<1>1. ASSUME NEW j \in Jobs, StartCreate(j) PROVE PcmInv'
  BY <1>1 DEF StartCreate
<1>2. ASSUME NEW j \in Jobs, CheckClosed(j) PROVE PcmInv'
  BY <1>2 DEF CheckClosed
<1>3. ASSUME NEW j \in Jobs, Claim(j) PROVE PcmInv'
  BY <1>3 DEF Claim
<1>4. ASSUME NEW j \in Jobs, RetainForJob(j) PROVE PcmInv'
  BY <1>4 DEF RetainForJob
<1>5. ASSUME NEW j \in Jobs, MakeJob(j) PROVE PcmInv'
  BY <1>5 DEF MakeJob
<1>6. ASSUME NEW j \in Jobs, AllocFails(j) PROVE PcmInv'
  BY <1>6 DEF AllocFails
<1>7. ASSUME NEW j \in Jobs, Unclaim(j) PROVE PcmInv'
  BY <1>7 DEF Unclaim
<1>8. ASSUME NEW j \in Jobs, ReleaseByJob(j) PROVE PcmInv'
  BY <1>8 DEF ReleaseByJob
<1>9. ASSUME NEW j \in Jobs, StartDestroy(j) PROVE PcmInv'
  BY <1>9 DEF StartDestroy
<1>10. ASSUME NEW j \in Jobs, DestroyCancel(j) PROVE PcmInv'
  BY <1>10 DEF DestroyCancel
<1>11. ASSUME NEW j \in Jobs, DestroyTerminate(j) PROVE PcmInv'
  BY <1>11 DEF DestroyTerminate
<1>12. ASSUME NEW j \in Jobs, TestFinished(j) PROVE PcmInv'
  BY <1>12 DEF TestFinished
<1>13. ASSUME NEW j \in Jobs, Block(j) PROVE PcmInv'
  BY <1>13 DEF Block
<1>14. ASSUME NEW j \in Jobs, SpuriousWake(j) PROVE PcmInv'
  BY <1>14 DEF SpuriousWake
<1>15. ASSUME NEW j \in Jobs, DeleteJob(j) PROVE PcmInv'
  BY <1>15 DEF DeleteJob
<1>16. ASSUME NEW c \in Callers, NEW j \in Jobs, StartRun(c, j) PROVE PcmInv'
  BY <1>16 DEF StartRun
<1>17. ASSUME NEW c \in Callers, NEW j \in Jobs, StartCancel(c, j) PROVE PcmInv'
  BY <1>17 DEF StartCancel
<1>18. ASSUME NEW c \in Callers, CancelStore(c) PROVE PcmInv'
  BY <1>18 DEF CancelStore
<1>19. ASSUME NEW c \in Callers, CancelTerminate(c) PROVE PcmInv'
  BY <1>19 DEF CancelTerminate
<1>20. ASSUME NEW c \in Callers, ClaimRun(c) PROVE PcmInv'
  BY <1>20 DEF ClaimRun
<1>21. ASSUME NEW c \in Callers, PreCheck(c) PROVE PcmInv'
  BY <1>21 DEF PreCheck
<1>22. ASSUME NEW c \in Callers, LoopHead(c) PROVE PcmInv'
  BY <1>22 DEF LoopHead
<1>23. ASSUME NEW c \in Callers, PrepareFails(c) PROVE PcmInv'
  BY <1>23 DEF PrepareFails
<1>24. ASSUME NEW c \in Callers, Publish(c) PROVE PcmInv'
  BY <1>24 DEF Publish
<1>25. ASSUME NEW c \in Callers, InferEnds(c) PROVE PcmInv'
  BY <1>25 DEF InferEnds
<1>26. ASSUME NEW c \in Callers, InferTerminated(c) PROVE PcmInv'
  BY <1>26 DEF InferTerminated
<1>27. ASSUME NEW c \in Callers, Retract(c) PROVE PcmInv'
  BY <1>27 DEF Retract
<1>28. ASSUME NEW c \in Callers, CheckError(c) PROVE PcmInv'
  BY <1>28 DEF CheckError
<1>29. ASSUME NEW c \in Callers, CheckOutput(c) PROVE PcmInv'
  BY <1>29 DEF CheckOutput
<1>30. ASSUME NEW c \in Callers, EmitCheck(c) PROVE PcmInv'
  BY <1>30 DEF EmitCheck
<1>31. ASSUME NEW c \in Callers, CallbackBegins(c) PROVE PcmInv'
  BY <1>31 DEF CallbackBegins
<1>32. ASSUME NEW c \in Callers, CallbackCancels(c) PROVE PcmInv'
  BY <1>32 DEF CallbackCancels
<1>33. ASSUME NEW c \in Callers, CallbackAccepts(c) PROVE PcmInv'
  BY <1>33 DEF CallbackAccepts
<1>34. ASSUME NEW c \in Callers, CallbackRefuses(c) PROVE PcmInv'
  BY <1>34 DEF CallbackRefuses
<1>35. ASSUME NEW c \in Callers, Finish(c) PROVE PcmInv'
  BY <1>35 DEF Finish
<1>36. ASSUME NEW c \in Callers, Notify(c) PROVE PcmInv'
  BY <1>36 DEF Notify
<1>37. CASE CloseEngine
  BY <1>37 DEF CloseEngine
<1>38. CASE ReleaseByCloser
  BY <1>38 DEF ReleaseByCloser
<1>39. CASE UNCHANGED vars
  BY <1>39
<1> QED
  BY <1>1, <1>2, <1>3, <1>4, <1>5, <1>6, <1>7, <1>8, <1>9, <1>10, <1>11, <1>12,
     <1>13, <1>14, <1>15, <1>16, <1>17, <1>18, <1>19, <1>20, <1>21, <1>22,
     <1>23, <1>24, <1>25, <1>26, <1>27, <1>28, <1>29, <1>30, <1>31, <1>32,
     <1>33, <1>34, <1>35, <1>36, <1>37, <1>38, <1>39
  DEF Next, OwnerNext, CallerNext, RunNext

\* The published options belong to the one run there is, so a cancel that
\* terminates them is a cancel of its job.
LEMMA OrtStep ==
  ASSUME IInv, [Next]_vars
  PROVE  OrtInv'
<1> USE DEF IInv, TypeOK, CallsInv, OrtInv, ActiveOptionsLive,
            TerminatesOwnJob, NoLostCancel, OneSynthesis, ActiveSteps, Running,
            OwnerSteps, CreateSteps, DestroySteps, CallerSteps, RunSteps,
            InferSteps, EmitSteps, CancelSteps, vars, engineVars, flagVars,
            pcmVars, ortVars, callerVars, Step, OnlyOwner, NotEngine, Goto,
            GoOn, OnlyCaller, Return, SetCancelled, CancelActive, Retain,
            Release
<1>1. ASSUME NEW j \in Jobs, StartCreate(j) PROVE OrtInv'
  BY <1>1 DEF StartCreate
<1>2. ASSUME NEW j \in Jobs, CheckClosed(j) PROVE OrtInv'
  BY <1>2 DEF CheckClosed
<1>3. ASSUME NEW j \in Jobs, Claim(j) PROVE OrtInv'
  BY <1>3 DEF Claim
<1>4. ASSUME NEW j \in Jobs, RetainForJob(j) PROVE OrtInv'
  BY <1>4 DEF RetainForJob
<1>5. ASSUME NEW j \in Jobs, MakeJob(j) PROVE OrtInv'
  BY <1>5 DEF MakeJob
<1>6. ASSUME NEW j \in Jobs, AllocFails(j) PROVE OrtInv'
  BY <1>6 DEF AllocFails
<1>7. ASSUME NEW j \in Jobs, Unclaim(j) PROVE OrtInv'
  BY <1>7 DEF Unclaim
<1>8. ASSUME NEW j \in Jobs, ReleaseByJob(j) PROVE OrtInv'
  BY <1>8 DEF ReleaseByJob
<1>9. ASSUME NEW j \in Jobs, StartDestroy(j) PROVE OrtInv'
  BY <1>9 DEF StartDestroy
<1>10. ASSUME NEW j \in Jobs, DestroyCancel(j) PROVE OrtInv'
  BY <1>10 DEF DestroyCancel
<1>11. ASSUME NEW j \in Jobs, DestroyTerminate(j) PROVE OrtInv'
  <2>1. active # NoJob => active = j
    BY <1>11, JobsAssumption DEF DestroyTerminate, OneClaim, Claims, SessionSteps
  <2> QED BY <2>1, <1>11, JobsAssumption DEF DestroyTerminate
<1>12. ASSUME NEW j \in Jobs, TestFinished(j) PROVE OrtInv'
  BY <1>12 DEF TestFinished
<1>13. ASSUME NEW j \in Jobs, Block(j) PROVE OrtInv'
  BY <1>13 DEF Block
<1>14. ASSUME NEW j \in Jobs, SpuriousWake(j) PROVE OrtInv'
  BY <1>14 DEF SpuriousWake
<1>15. ASSUME NEW j \in Jobs, DeleteJob(j) PROVE OrtInv'
  BY <1>15 DEF DeleteJob
<1>16. ASSUME NEW c \in Callers, NEW j \in Jobs, StartRun(c, j) PROVE OrtInv'
  BY <1>16 DEF StartRun
<1>17. ASSUME NEW c \in Callers, NEW j \in Jobs, StartCancel(c, j) PROVE OrtInv'
  BY <1>17 DEF StartCancel
<1>18. ASSUME NEW c \in Callers, CancelStore(c) PROVE OrtInv'
  BY <1>18 DEF CancelStore
<1>19. ASSUME NEW c \in Callers, CancelTerminate(c) PROVE OrtInv'
  <2>1. active # NoJob => active = target[c]
    BY <1>19, JobsAssumption DEF CancelTerminate, OneClaim, Claims, SessionSteps
  <2> QED BY <2>1, <1>19, JobsAssumption DEF CancelTerminate
<1>20. ASSUME NEW c \in Callers, ClaimRun(c) PROVE OrtInv'
  BY <1>20 DEF ClaimRun
<1>21. ASSUME NEW c \in Callers, PreCheck(c) PROVE OrtInv'
  BY <1>21 DEF PreCheck
<1>22. ASSUME NEW c \in Callers, LoopHead(c) PROVE OrtInv'
  BY <1>22 DEF LoopHead
<1>23. ASSUME NEW c \in Callers, PrepareFails(c) PROVE OrtInv'
  BY <1>23 DEF PrepareFails
<1>24. ASSUME NEW c \in Callers, Publish(c) PROVE OrtInv'
  <2>1. \A d \in Callers : pc'[d] \in ActiveSteps => d = c
    BY <1>24, OneRunAtATime DEF Publish
  <2> QED BY <2>1, <1>24, JobsAssumption DEF Publish
<1>25. ASSUME NEW c \in Callers, InferEnds(c) PROVE OrtInv'
  BY <1>25 DEF InferEnds
<1>26. ASSUME NEW c \in Callers, InferTerminated(c) PROVE OrtInv'
  BY <1>26 DEF InferTerminated
<1>27. ASSUME NEW c \in Callers, Retract(c) PROVE OrtInv'
  <2>1. \A d \in Callers : pc'[d] \notin ActiveSteps
    BY <1>27, OneRunAtATime DEF Retract
  <2> QED BY <2>1, <1>27, JobsAssumption DEF Retract
<1>28. ASSUME NEW c \in Callers, CheckError(c) PROVE OrtInv'
  BY <1>28 DEF CheckError
<1>29. ASSUME NEW c \in Callers, CheckOutput(c) PROVE OrtInv'
  BY <1>29 DEF CheckOutput
<1>30. ASSUME NEW c \in Callers, EmitCheck(c) PROVE OrtInv'
  BY <1>30 DEF EmitCheck
<1>31. ASSUME NEW c \in Callers, CallbackBegins(c) PROVE OrtInv'
  BY <1>31 DEF CallbackBegins
<1>32. ASSUME NEW c \in Callers, CallbackCancels(c) PROVE OrtInv'
  <2>1. active = NoJob
    <3>1. SUFFICES ASSUME active # NoJob PROVE FALSE
      OBVIOUS
    <3>2. PICK d \in Callers : pc[d] \in ActiveSteps
      BY <3>1
    <3>3. Running(c) /\ Running(d) /\ c # d
      BY <3>2, <1>32 DEF CallbackCancels
    <3> QED BY <3>3, OneRunAtATime DEF OneSynthesis
  <2> QED BY <2>1, <1>32, JobsAssumption DEF CallbackCancels
<1>33. ASSUME NEW c \in Callers, CallbackAccepts(c) PROVE OrtInv'
  BY <1>33 DEF CallbackAccepts
<1>34. ASSUME NEW c \in Callers, CallbackRefuses(c) PROVE OrtInv'
  <2>1. active = NoJob
    <3>1. SUFFICES ASSUME active # NoJob PROVE FALSE
      OBVIOUS
    <3>2. PICK d \in Callers : pc[d] \in ActiveSteps
      BY <3>1
    <3>3. Running(c) /\ Running(d) /\ c # d
      BY <3>2, <1>34 DEF CallbackRefuses
    <3> QED BY <3>3, OneRunAtATime DEF OneSynthesis
  <2> QED BY <2>1, <1>34, JobsAssumption DEF CallbackRefuses
<1>35. ASSUME NEW c \in Callers, Finish(c) PROVE OrtInv'
  BY <1>35 DEF Finish
<1>36. ASSUME NEW c \in Callers, Notify(c) PROVE OrtInv'
  BY <1>36 DEF Notify
<1>37. CASE CloseEngine
  BY <1>37 DEF CloseEngine
<1>38. CASE ReleaseByCloser
  BY <1>38 DEF ReleaseByCloser
<1>39. CASE UNCHANGED vars
  BY <1>39
<1> QED
  BY <1>1, <1>2, <1>3, <1>4, <1>5, <1>6, <1>7, <1>8, <1>9, <1>10, <1>11, <1>12,
     <1>13, <1>14, <1>15, <1>16, <1>17, <1>18, <1>19, <1>20, <1>21, <1>22,
     <1>23, <1>24, <1>25, <1>26, <1>27, <1>28, <1>29, <1>30, <1>31, <1>32,
     <1>33, <1>34, <1>35, <1>36, <1>37, <1>38, <1>39
  DEF Next, OwnerNext, CallerNext, RunNext

-----------------------------------------------------------------------------
(* How a step may change who holds the engine and who has its session.     *)

KeepsHolders ==
  Holders' = Holders /\ UNCHANGED <<refs, allocated>> /\ (closer' = "done" <=> closer = "done")
KeepsSession == \A j \in Jobs : Claims(j)' <=> Claims(j)
Joins(j) ==
  /\ j \notin Holders /\ Holders' = Holders \cup {j} /\ owner[j] = "c_retain"
  /\ Retain /\ UNCHANGED allocated /\ (closer' = "done" <=> closer = "done")
JobLeaves(j) ==
  /\ j \in Holders /\ Holders' = Holders \ {j} /\ ~Claims(j)
  /\ Release /\ (closer' = "done" <=> closer = "done")
OpenerLeaves == closer # "done" /\ closer' = "done" /\ Holders' = Holders /\ Release
Admits(j) ==
  /\ \A i \in Jobs : ~Claims(i) /\ (Claims(i)' <=> i = j)
  /\ owner[j] = "c_claim"
Parts(j) == Claims(j) /\ j \in Holders /\ \A i \in Jobs : ~Claims(i)'

ShareChange ==
  \/ KeepsHolders /\ KeepsSession
  \/ KeepsSession /\ \E j \in Jobs : Joins(j) \/ JobLeaves(j)
  \/ KeepsSession /\ OpenerLeaves
  \/ KeepsHolders /\ \E j \in Jobs : Admits(j) \/ Parts(j)

\* Most steps move an owner between two steps alike in both respects.
Alike ==
  /\ \A i \in Jobs : (Holds(i)' <=> Holds(i)) /\ (Claims(i)' <=> Claims(i))
  /\ UNCHANGED <<refs, allocated>> /\ (closer' = "done" <=> closer = "done")

LEMMA AlikeKeeps ==
  ASSUME Alike
  PROVE  KeepsHolders /\ KeepsSession
<1>1. Holders' = Holders
  BY DEF Alike, Holders
<1> QED BY <1>1 DEF Alike, KeepsHolders, KeepsSession

\* Retain, release, the compare-exchange and its undoing are the only steps
\* that change the holders or the session.
LEMMA ShareStep ==
  ASSUME IInv, [Next]_vars
  PROVE  ShareChange
<1> USE DEF IInv, TypeOK, ShareChange, vars, engineVars, flagVars, pcmVars,
            ortVars, callerVars, Step, OnlyOwner, NotEngine, Goto, GoOn,
            OnlyCaller, Return, SetCancelled, CancelActive, Retain, Release
<1>1. ASSUME NEW j \in Jobs, StartCreate(j) PROVE ShareChange
  <2>1. Alike
    BY <1>1 DEF StartCreate, Alike,
       Holds, Alive, Claims, CreateSteps, DestroySteps
  <2> QED BY <2>1, AlikeKeeps
<1>2. ASSUME NEW j \in Jobs, CheckClosed(j) PROVE ShareChange
  <2>1. Alike
    BY <1>2 DEF CheckClosed, Alike,
       Holds, Alive, Claims, CreateSteps, DestroySteps
  <2> QED BY <2>1, AlikeKeeps
<1>3. ASSUME NEW j \in Jobs, Claim(j) PROVE ShareChange
  <2>1. \A i \in Jobs : Holds(i)' <=> Holds(i)
    BY <1>3 DEF Claim, Holds, Alive, DestroySteps
  <2>2. Holders' = Holders
    BY <2>1 DEF Holders
  <2>3. CASE claimed
    <3>1. KeepsSession
      BY <2>3, <1>3 DEF Claim, Claims, KeepsSession
    <3> QED BY <2>2, <3>1, <1>3 DEF Claim, KeepsHolders
  <2>4. CASE ~claimed
    <3>1. Admits(j)
      BY <2>4, <1>3 DEF Claim, OneClaim, Claims, Admits
    <3> QED BY <2>2, <3>1, <1>3 DEF Claim, KeepsHolders
  <2> QED BY <2>3, <2>4
<1>4. ASSUME NEW j \in Jobs, RetainForJob(j) PROVE ShareChange
  <2>1. \A i \in Jobs : /\ (Claims(i)' <=> Claims(i)) /\ ~Holds(j)
                         /\ (Holds(i)' <=> Holds(i) \/ i = j)
    BY <1>4 DEF RetainForJob, OneClaim, Holds, Alive, Claims, CreateSteps, DestroySteps
  <2>2. j \notin Holders /\ Holders' = Holders \cup {j}
    BY <2>1, <1>4 DEF Holders
  <2> QED BY <2>1, <2>2, <1>4 DEF RetainForJob, KeepsSession, Joins
<1>5. ASSUME NEW j \in Jobs, MakeJob(j) PROVE ShareChange
  <2>1. Alike
    BY <1>5 DEF MakeJob, Alike,
       Holds, Alive, Claims, CreateSteps, DestroySteps
  <2> QED BY <2>1, AlikeKeeps
<1>6. ASSUME NEW j \in Jobs, AllocFails(j) PROVE ShareChange
  <2>1. Alike
    BY <1>6 DEF AllocFails, Alike,
       Holds, Alive, Claims, CreateSteps, DestroySteps
  <2> QED BY <2>1, AlikeKeeps
<1>7. ASSUME NEW j \in Jobs, Unclaim(j) PROVE ShareChange
  <2>1. \A i \in Jobs : (Holds(i)' <=> Holds(i)) /\ ~Claims(i)' /\ Holds(j) /\ Claims(j)
    BY <1>7 DEF Unclaim, OneClaim, Holds, Alive, Claims, CreateSteps, DestroySteps
  <2>2. j \in Holders /\ Holders' = Holders
    BY <2>1, <1>7 DEF Holders
  <2> QED BY <2>1, <2>2, <1>7 DEF Unclaim, KeepsHolders, Parts
<1>8. ASSUME NEW j \in Jobs, ReleaseByJob(j) PROVE ShareChange
  <2>1. \A i \in Jobs : /\ (Claims(i)' <=> Claims(i)) /\ ~Claims(j) /\ Holds(j)
                         /\ (Holds(i)' <=> Holds(i) /\ i # j)
    BY <1>8 DEF ReleaseByJob, OneClaim, Holds, Alive, Claims, CreateSteps, DestroySteps
  <2>2. j \in Holders /\ Holders' = Holders \ {j}
    BY <2>1, <1>8 DEF Holders
  <2> QED BY <2>1, <2>2, <1>8 DEF ReleaseByJob, KeepsSession, JobLeaves
<1>9. ASSUME NEW j \in Jobs, StartDestroy(j) PROVE ShareChange
  <2>1. Alike
    BY <1>9 DEF StartDestroy, MayDestroy, Alike,
       Holds, Alive, Claims, CreateSteps, DestroySteps
  <2> QED BY <2>1, AlikeKeeps
<1>10. ASSUME NEW j \in Jobs, DestroyCancel(j) PROVE ShareChange
  <2>1. Alike
    BY <1>10 DEF DestroyCancel, Alike,
       Holds, Alive, Claims, CreateSteps, DestroySteps
  <2> QED BY <2>1, AlikeKeeps
<1>11. ASSUME NEW j \in Jobs, DestroyTerminate(j) PROVE ShareChange
  <2>1. Alike
    BY <1>11 DEF DestroyTerminate, Alike,
       Holds, Alive, Claims, CreateSteps, DestroySteps
  <2> QED BY <2>1, AlikeKeeps
<1>12. ASSUME NEW j \in Jobs, TestFinished(j) PROVE ShareChange
  <2>1. Alike
    BY <1>12 DEF TestFinished, Alike,
       Holds, Alive, Claims, CreateSteps, DestroySteps
  <2> QED BY <2>1, AlikeKeeps
<1>13. ASSUME NEW j \in Jobs, Block(j) PROVE ShareChange
  <2>1. Alike
    BY <1>13 DEF Block, Alike,
       Holds, Alive, Claims, CreateSteps, DestroySteps
  <2> QED BY <2>1, AlikeKeeps
<1>14. ASSUME NEW j \in Jobs, SpuriousWake(j) PROVE ShareChange
  <2>1. Alike
    BY <1>14 DEF SpuriousWake, Alike,
       Holds, Alive, Claims, CreateSteps, DestroySteps
  <2> QED BY <2>1, AlikeKeeps
<1>15. ASSUME NEW j \in Jobs, DeleteJob(j) PROVE ShareChange
  <2>1. Alike
    BY <1>15 DEF DeleteJob, Alike,
       Holds, Alive, Claims, CreateSteps, DestroySteps
  <2> QED BY <2>1, AlikeKeeps
<1>16. ASSUME NEW c \in Callers, CallerNext(c) PROVE ShareChange
  <2>1. Alike
    BY <1>16, CallerStep DEF OwnersStay, Alike,
       Holds, Alive, Claims, CreateSteps, DestroySteps
  <2> QED BY <2>1, AlikeKeeps
<1>17. CASE CloseEngine
  <2>1. Alike
    BY <1>17 DEF CloseEngine, CloseInv, Alike,
       Holds, Alive, Claims, CreateSteps, DestroySteps
  <2> QED BY <2>1, AlikeKeeps
<1>18. CASE ReleaseByCloser
  <2>1. \A i \in Jobs : (Holds(i)' <=> Holds(i)) /\ (Claims(i)' <=> Claims(i))
    BY <1>18 DEF ReleaseByCloser, Holds, Alive, Claims
  <2>2. Holders' = Holders
    BY <2>1 DEF Holders
  <2> QED BY <2>1, <2>2, <1>18 DEF ReleaseByCloser, KeepsSession, OpenerLeaves
<1>19. CASE UNCHANGED vars
  <2>1. Alike
    BY <1>19 DEF Alike,
       Holds, Alive, Claims, CreateSteps, DestroySteps
  <2> QED BY <2>1, AlikeKeeps
<1> QED
  BY <1>1, <1>2, <1>3, <1>4, <1>5, <1>6, <1>7, <1>8, <1>9, <1>10, <1>11, <1>12,
     <1>13, <1>14, <1>15, <1>16, <1>17, <1>18, <1>19
  DEF Next, OwnerNext

\* The count follows the holders through every change of theirs.
LEMMA RefsStep ==
  ASSUME IInv, [Next]_vars
  PROVE  RefsCountOwners'
<1> USE DEF IInv, TypeOK, RefsCountOwners, Retain, Release
<1>1. CASE KeepsHolders
  <2>1. Cardinality(Holders') = Cardinality(Holders) /\ OpenerShare' = OpenerShare
    BY <1>1 DEF KeepsHolders, OpenerShare
  <2> QED BY <1>1, <2>1 DEF KeepsHolders
<1>2. ASSUME NEW j \in Jobs, Joins(j) PROVE RefsCountOwners'
  <2>1. Cardinality(Holders') = Cardinality(Holders) + 1
    BY <1>2, HoldersFinite, FS_AddElement DEF Joins
  <2>2. OpenerShare' = OpenerShare /\ OpenerShare \in Nat
    BY <1>2 DEF Joins, OpenerShare
  <2>3. refs' = Cardinality(Holders') + OpenerShare'
    BY <1>2, <2>1, <2>2, HoldersFinite DEF Joins
  <2>4. allocated
    BY <1>2, AccessFromInvariant DEF Joins, EngineAccessSafe, CreateSteps
  <2>5. refs' # 0 /\ allocated'
    BY <1>2, <2>4 DEF Joins
  <2> QED BY <2>3, <2>5
<1>3. ASSUME NEW j \in Jobs, JobLeaves(j) PROVE RefsCountOwners'
  <2>1. Cardinality(Holders') = Cardinality(Holders) - 1
    BY <1>3, HoldersFinite, FS_RemoveElement DEF JobLeaves
  <2>2. OpenerShare' = OpenerShare
    BY <1>3 DEF JobLeaves, OpenerShare
  <2>3. refs' = Cardinality(Holders') + OpenerShare'
    BY <1>3, <2>1, <2>2, HoldersFinite DEF JobLeaves, OpenerShare
  <2>4. refs >= 1 /\ allocated
    BY <1>3, RefsPositive DEF JobLeaves, Holders
  <2>5. refs' # 0 <=> refs # 1
    BY <1>3, <2>4 DEF JobLeaves
  <2> QED BY <1>3, <2>3, <2>4, <2>5 DEF JobLeaves
<1>4. CASE OpenerLeaves
  <2>1. Cardinality(Holders') = Cardinality(Holders) /\ OpenerShare = 1 /\ OpenerShare' = 0
    BY <1>4 DEF OpenerLeaves, OpenerShare
  <2>2. refs' = Cardinality(Holders') + OpenerShare'
    BY <1>4, <2>1, HoldersFinite DEF OpenerLeaves
  <2>3. refs >= 1 /\ allocated
    BY <1>4, RefsPositive DEF OpenerLeaves
  <2>4. refs' # 0 <=> refs # 1
    BY <1>4, <2>3 DEF OpenerLeaves
  <2> QED BY <1>4, <2>2, <2>3, <2>4 DEF OpenerLeaves
<1> QED BY <1>1, <1>2, <1>3, <1>4, ShareStep DEF ShareChange

-----------------------------------------------------------------------------
(* The invariant and what follows from it.                                 *)

LEMMA Initially == Init => IInv
<1> SUFFICES ASSUME Init PROVE IInv
  OBVIOUS
<1> USE DEF Init
<1>1. TypeOK
  <2>1. 0 \in 0..MaxBlocks /\ 0 \in 0..2
    BY BlocksAssumption
  <2>2. owner \in [Jobs -> OwnerSteps] /\ pc \in [Callers -> CallerSteps]
    BY DEF OwnerSteps, CallerSteps
  <2>3. total \in [Jobs -> 0..MaxBlocks] /\ emitted \in [Jobs -> 0..MaxBlocks]
    BY <2>1
  <2>4. state \in [Jobs -> 0..2] /\ cancelled \in [Jobs -> BOOLEAN]
    BY <2>1
  <2>5. result \in [Jobs -> Statuses] /\ late \in [Jobs -> Nat]
    BY DEF Statuses
  <2>6. target \in [Callers -> Jobs \cup {NoJob}] /\ \A c \in Callers : pc[c] = "idle"
    OBVIOUS
  <2>7. /\ refs \in Nat /\ closed \in BOOLEAN /\ claimed \in BOOLEAN /\ allocated \in BOOLEAN
        /\ closer \in {"none", "e_release", "done"}
        /\ active \in Jobs \cup {NoJob} /\ terminating \in BOOLEAN
    OBVIOUS
  <2> HIDE DEF Init
  <2> QED BY <2>2, <2>3, <2>4, <2>5, <2>6, <2>7 DEF TypeOK
<1>2. RefsCountOwners
  <2>1. Holders = {}
    BY DEF Holders, Holds, Alive, DestroySteps
  <2> QED BY <2>1, FS_EmptySet DEF RefsCountOwners, OpenerShare
<1>3. OneClaim /\ CloseInv
  BY DEF OneClaim, Claims, CloseInv, CreateSteps
<1>4. CallsInv
  BY DEF CallsInv, CancelSteps, Running, RunSteps, InferSteps, EmitSteps
<1>5. PcmInv
  BY BlocksAssumption
  DEF PcmInv, InChunk, InferSteps, EmitSteps, AtMostOneLateCallback, OutcomeHonest
<1>6. OrtInv
  BY DEF OrtInv, ActiveSteps, ActiveOptionsLive, TerminatesOwnJob, NoLostCancel
<1> QED BY <1>1, <1>2, <1>3, <1>4, <1>5, <1>6 DEF IInv

\* IInv is inductive as long as clients do not destroy a job under a run
\* call that has yet to claim it.
LEMMA Invariance ==
  ASSUME DestroyDuring # "entered"
  PROVE  Spec => []IInv
<1>1. IInv /\ [Next]_vars => IInv'
  BY TypeStep, RefsStep, ClaimStep, CloseStep, CallsStep, PcmStep, OrtStep DEF IInv
<1> QED BY <1>1, Initially, PTL DEF Spec

\* Every variable keeps its type; in particular the count of references
\* never goes below zero, and no run delivers more blocks than there are
\* (engine.cpp:131-169, 626-652).
THEOREM Typing ==
  ASSUME DestroyDuring # "entered"
  PROVE  Spec => []TypeOK
BY Invariance, PTL DEF IInv

\* For any number of jobs the atomic counter equals the number of holders,
\* and the engine is deleted exactly when nobody holds it
\* (engine.cpp:161-169).
THEOREM ReferencesCounted ==
  ASSUME DestroyDuring # "entered"
  PROVE  Spec => []RefsCountOwners
BY Invariance, PTL DEF IInv

\* The claim is neither lost on a failing creation nor given out twice
\* (engine.cpp:541-579, 683).
THEOREM ClaimExclusive ==
  ASSUME DestroyDuring # "entered"
  PROVE  Spec => []OneClaim
BY Invariance, PTL DEF IInv

\* No step of any call uses an engine that has been deleted, even when the
\* engine is closed before its jobs are destroyed (engine.cpp:671-696).
THEOREM EngineNeverDangling ==
  ASSUME DestroyDuring # "entered"
  PROVE  Spec => []EngineAccessSafe
BY Invariance, AccessFromInvariant, PTL

\* PCM callbacks are serialized over all the jobs and callers of an engine
\* (kilix_voicegen.h:145-149).
THEOREM CallbacksSerialized ==
  ASSUME DestroyDuring # "entered"
  PROVE  Spec => []OneSynthesis
<1>1. IInv => OneSynthesis
  BY OneRunAtATime
<1> QED BY <1>1, Invariance, PTL

\* The destroyer does not go past its wait while its job is being run
\* (engine.cpp:677-681).
THEOREM DestroyWaits ==
  ASSUME DestroyDuring # "entered"
  PROVE  Spec => []NoAudioAfterDestroy
<1>1. IInv => NoAudioAfterDestroy
  BY DEF IInv, CallsInv, NoAudioAfterDestroy, SessionSteps
<1> QED BY <1>1, Invariance, PTL

\* However often and whenever a job is cancelled, at most one callback that
\* had passed its check of the flag still begins (engine.cpp:626-652,
\* piper_runtime.cpp:54-139).
THEOREM CancelStopsCallbacks ==
  ASSUME DestroyDuring # "entered"
  PROVE  Spec => []AtMostOneLateCallback
BY Invariance, PTL DEF IInv, PcmInv

\* The answer of a run agrees with what it delivered and with the flag.
THEOREM AnswersHonest ==
  ASSUME DestroyDuring # "entered"
  PROVE  Spec => []OutcomeHonest
BY Invariance, PTL DEF IInv, PcmInv

\* A cancel that has set the flag reaches the inference of its job, through
\* options that have not been released (piper_runtime.cpp:426-460, 671-681).
THEOREM CancelReachesInference ==
  ASSUME DestroyDuring # "entered"
  PROVE  Spec => [](NoLostCancel /\ ActiveOptionsLive)
BY Invariance, PTL DEF IInv, OrtInv

\* The inference that a cancel terminates belongs to a cancelled job: a slow
\* cancel of one job never hits the inference of the next one
\* (piper_runtime.cpp:426-460, 671-681).
THEOREM CancelHitsOwnInference ==
  ASSUME DestroyDuring # "entered"
  PROVE  Spec => []TerminatesOwnJob
BY Invariance, PTL DEF IInv, OrtInv

-----------------------------------------------------------------------------
(* The refinement.                                                         *)

\* The abstract session is the job that has the claim.
LEMMA SessionIs ==
  ASSUME OneClaim
  PROVE  sessionBar \in Jobs \cup {NoJob} /\ \A j \in Jobs : Claims(j) <=> sessionBar = j
<1>1. CASE \E j \in Jobs : Claims(j)
  <2>1. sessionBar = CHOOSE j \in Jobs : Claims(j)
    BY <1>1 DEF sessionBar
  <2>2. sessionBar \in Jobs /\ Claims(sessionBar)
    BY <1>1, <2>1
  <2> QED BY <2>2 DEF OneClaim
<1>2. CASE ~\E j \in Jobs : Claims(j)
  BY <1>2, JobsAssumption DEF sessionBar
<1> QED BY <1>1, <1>2

\* The same in the state after a step.
LEMMA SessionWillBe ==
  ASSUME OneClaim'
  PROVE  sessionBar' \in Jobs \cup {NoJob} /\ \A j \in Jobs : Claims(j)' <=> sessionBar' = j
<1>1. CASE \E j \in Jobs : Claims(j)'
  <2>1. sessionBar' = CHOOSE j \in Jobs : Claims(j)'
    BY <1>1 DEF sessionBar
  <2>2. PICK j \in Jobs : sessionBar' = j /\ Claims(j)'
    BY <1>1, <2>1
  <2> QED BY <2>2 DEF OneClaim
<1>2. CASE ~\E j \in Jobs : Claims(j)'
  BY <1>2, JobsAssumption DEF sessionBar
<1> QED BY <1>1, <1>2

\* After a step in which somebody left, the engine is freed exactly when
\* nobody is left in the abstract set.
LEMMA FreedWillBe ==
  ASSUME RefsCountOwners', Holders' \subseteq Jobs
  PROVE  freedBar' <=> holdersBar' = {}
<1>1. IsFiniteSet(Holders') /\ Cardinality(Holders') \in Nat
  BY JobsAssumption, FS_Subset, FS_CardinalityType
<1>2. Cardinality(Holders') = 0 <=> Holders' = {}
  BY <1>1, FS_EmptySet
<1> QED BY <1>1, <1>2 DEF RefsCountOwners, OpenerShare, freedBar, holdersBar

\* The steps that keep the holders or the session are invisible in that part
\* of the abstract state; the four kinds of change are the abstract actions.
LEMMA SharedStep ==
  ASSUME IInv, RefsCountOwners', OneClaim', [Next]_vars
  PROVE  [Shared!Next]_(Shared!vars)
<1> USE OpenerAssumption, JobsAssumption
<1>1. sessionBar \in Jobs \cup {NoJob} /\ \A j \in Jobs : Claims(j) <=> sessionBar = j
  BY SessionIs DEF IInv
<1>2. sessionBar' \in Jobs \cup {NoJob} /\ \A j \in Jobs : Claims(j)' <=> sessionBar' = j
  BY SessionWillBe
<1>3. KeepsSession => sessionBar' = sessionBar
  BY <1>1, <1>2 DEF KeepsSession
<1>4. KeepsHolders => holdersBar' = holdersBar /\ freedBar' = freedBar
  BY DEF KeepsHolders, holdersBar, freedBar
<1>5. Holders \subseteq Jobs /\ Holders' \subseteq Jobs
  BY DEF Holders
<1>6. freedBar' = (holdersBar' = {})
  BY <1>5, FreedWillBe DEF freedBar
<1>7. ASSUME NEW j \in Jobs, owner[j] \in CreateSteps PROVE ~freedBar
  BY <1>7, AccessFromInvariant DEF EngineAccessSafe, freedBar
<1>8. CASE KeepsHolders /\ KeepsSession
  BY <1>3, <1>4, <1>8 DEF Shared!vars
<1>9. ASSUME NEW j \in Jobs, Joins(j), KeepsSession PROVE Shared!Next
  <2>1. ~freedBar /\ sessionBar = j
    BY <1>1, <1>7, <1>9 DEF Joins, Claims, CreateSteps
  <2>2. j \notin holdersBar /\ holdersBar' = holdersBar \cup {j}
    BY <1>9 DEF Joins, holdersBar
  <2>3. UNCHANGED <<sessionBar, freedBar>>
    BY <1>3, <1>9 DEF Joins, freedBar
  <2> QED BY <2>1, <2>2, <2>3 DEF Shared!Next, Shared!Join
<1>10. ASSUME NEW j \in Jobs, JobLeaves(j), KeepsSession PROVE Shared!Next
  <2>1. j \in holdersBar /\ j # sessionBar
    BY <1>1, <1>10 DEF JobLeaves, holdersBar
  <2>2. holdersBar' = holdersBar \ {j}
    BY <1>10 DEF JobLeaves, holdersBar
  <2> QED BY <1>3, <1>6, <1>10, <2>1, <2>2 DEF Shared!Next, Shared!Leave
<1>11. CASE OpenerLeaves /\ KeepsSession
  <2>1. Opener \in holdersBar /\ holdersBar' = holdersBar \ {Opener}
    BY <1>5, <1>11 DEF OpenerLeaves, holdersBar
  <2>2. Opener # sessionBar
    BY <1>1, OpenerAssumption
  <2> QED BY <1>3, <1>6, <1>11, <2>1, <2>2 DEF Shared!Next, Shared!Leave
<1>12. ASSUME NEW j \in Jobs, Admits(j), KeepsHolders PROVE Shared!Next
  <2>1. ~freedBar /\ j \notin holdersBar
    BY <1>7, <1>12 DEF Admits, CreateSteps, holdersBar, Holders, Holds, Alive, DestroySteps
  <2>2. sessionBar = NoJob /\ sessionBar' = j
    BY <1>1, <1>2, <1>12 DEF Admits
  <2> QED BY <1>4, <1>12, <2>1, <2>2 DEF Shared!Next, Shared!Admit
<1>13. ASSUME NEW j \in Jobs, Parts(j), KeepsHolders PROVE Shared!Next
  <2>1. sessionBar = j /\ j \in holdersBar /\ sessionBar' = NoJob
    BY <1>1, <1>2, <1>13 DEF Parts, holdersBar
  <2> QED BY <1>4, <1>13, <2>1 DEF Shared!Next, Shared!Part
<1> QED
  BY <1>8, <1>9, <1>10, <1>11, <1>12, <1>13, ShareStep DEF ShareChange

\* The engine is shared as SharedEngine promises, for any number of jobs and
\* threads: holders come and go one at a time, one job has the session, and
\* the engine is freed in the step in which the last holder leaves
\* (engine.cpp:161-169, 541-579, 671-696).
THEOREM EngineIsShared ==
  ASSUME DestroyDuring # "entered"
  PROVE  Spec => ImplementsSharedEngine
<1>1. Init => Shared!Init
  <2> SUFFICES ASSUME Init PROVE Shared!Init
    OBVIOUS
  <2>1. Holders = {} /\ ~\E j \in Jobs : Claims(j)
    BY DEF Init, Holders, Holds, Alive, Claims, DestroySteps
  <2>2. holdersBar = {Opener} /\ sessionBar = NoJob /\ freedBar = FALSE
    BY <2>1 DEF Init, holdersBar, sessionBar, freedBar
  <2> QED BY <2>2 DEF Shared!Init
<1>2. IInv /\ IInv' /\ [Next]_vars => [Shared!Next]_(Shared!vars)
  BY SharedStep DEF IInv
<1> QED
  BY <1>1, <1>2, Invariance, PTL DEF Spec, ImplementsSharedEngine, Shared!Spec

-----------------------------------------------------------------------------
(* Every job is a stream of its own.                                       *)

\* What a run that is about to finish knows beyond IInv: it has its answer.
AnswerInv == \A c \in Callers : pc[c] = "finish" => result[target[c]] # "none"

StreamMoves(j) == Stream(j)!Next \/ UNCHANGED Stream(j)!vars
AllMove == \A j \in Jobs : StreamMoves(j)

\* The job j is as it was; all jobs but j are.
Same(j) == UNCHANGED <<state[j], total[j], emitted[j], cancelled[j], result[j]>>
OthersSame(j) == \A i \in Jobs \ {j} : Same(i)

LEMMA OneMoves ==
  ASSUME NEW j \in Jobs, OthersSame(j), StreamMoves(j)
  PROVE  AllMove
BY DEF OthersSame, Same, AllMove, StreamMoves, Stream!vars

\* Steps of calls that leave all the jobs alone.
LEMMA NoneMoves ==
  ASSUME UNCHANGED <<flagVars, total, emitted, result>>
  PROVE  AllMove
BY DEF flagVars, AllMove, StreamMoves, Stream!vars

\* A cancel of j, from wherever it comes.
LEMMA StopMoves ==
  ASSUME TypeOK, NEW j \in Jobs, SetCancelled(j),
         UNCHANGED <<state, total, emitted, result>>
  PROVE  AllMove
<1>1. cancelled'[j] = TRUE /\ \A i \in Jobs \ {j} : cancelled'[i] = cancelled[i]
  BY DEF TypeOK, SetCancelled
<1>2. OthersSame(j) /\ Stream(j)!Stop
  BY <1>1 DEF OthersSame, Same, Stream!Stop
<1> QED BY <1>2, OneMoves DEF StreamMoves, Stream!Next

\* A run that returns an answer its client can rely on.
LEMMA AnswerMoves ==
  ASSUME IInv, NEW c \in Callers, NEW status \in Statuses \ {"none"},
         pc[c] \in InferSteps \cup EmitSteps, Return(c, status),
         UNCHANGED <<state, total, emitted>>,
         NEW j \in Jobs, j = target[c],
         \A i \in Jobs \ {j} : cancelled'[i] = cancelled[i],
         IF status = "CANCELLED" THEN cancelled'[j] = TRUE ELSE cancelled'[j] = cancelled[j],
         status = "OK" => emitted[j] = total[j]
  PROVE  AllMove
<1>1. state[j] = 1 /\ result[j] = "none"
  BY DEF IInv, TypeOK, CallsInv, PcmInv, Running, RunSteps, InferSteps, EmitSteps
<1>2. result'[j] = status /\ \A i \in Jobs \ {j} : result'[i] = result[i]
  BY <1>1 DEF Return, IInv, TypeOK
<1>3. OthersSame(j)
  BY <1>1, <1>2 DEF OthersSame, Same
<1>4. Stream(j)!Answer
  BY <1>1, <1>2 DEF Stream!Answer, Statuses
<1> QED BY <1>3, <1>4, OneMoves DEF StreamMoves, Stream!Next

\* The same where the flag has been read before and is not touched.
LEMMA PlainAnswerMoves ==
  ASSUME IInv, NEW c \in Callers, NEW status \in Statuses \ {"none"},
         pc[c] \in InferSteps \cup EmitSteps, Return(c, status), OnlyCaller,
         status = "CANCELLED" => cancelled[target[c]],
         status = "OK" => emitted[target[c]] = total[target[c]]
  PROVE  AllMove
<1>1. target[c] \in Jobs /\ cancelled \in [Jobs -> BOOLEAN]
  BY DEF IInv, TypeOK, CallsInv, Running, RunSteps, InferSteps, EmitSteps
<1>2. PICK j \in Jobs : j = target[c]
  BY <1>1
<1> QED BY <1>1, <1>2, AnswerMoves DEF OnlyCaller, flagVars

\* A call that only goes on to its next step.
LEMMA GoOnMoves ==
  ASSUME NEW c, NEW step, GoOn(c, step), OnlyCaller
  PROVE  AllMove
BY NoneMoves DEF GoOn, OnlyCaller

LEMMA StreamStep ==
  ASSUME IInv, AnswerInv, [Next]_vars
  PROVE  AllMove
<1> USE DEF engineVars, flagVars, pcmVars, ortVars, callerVars, OnlyOwner, NotEngine,
            Goto
<1>1. ASSUME NEW j \in Jobs, OwnerNext(j), ~MakeJob(j), ~DestroyCancel(j) PROVE AllMove
  BY <1>1, NoneMoves DEF OwnerNext, StartCreate, CheckClosed, Claim, RetainForJob,
     AllocFails, Unclaim, ReleaseByJob, StartDestroy, DestroyTerminate, TestFinished,
     Block, SpuriousWake, DeleteJob
<1>2. ASSUME NEW j \in Jobs, MakeJob(j) PROVE AllMove
  <2>1. state[j] = 0
    BY <1>2 DEF MakeJob, Step, IInv, PcmInv, CreateSteps
  <2>2. total'[j] \in Nat /\ \A i \in Jobs \ {j} : total'[i] = total[i]
    BY <1>2, BlocksAssumption DEF MakeJob, IInv, TypeOK
  <2>3. OthersSame(j) /\ Stream(j)!Create
    BY <1>2, <2>1, <2>2 DEF MakeJob, OthersSame, Same, Stream!Create
  <2> QED BY <2>3, OneMoves DEF StreamMoves, Stream!Next
<1>3. ASSUME NEW j \in Jobs, DestroyCancel(j) PROVE AllMove
  BY <1>3, StopMoves DEF DestroyCancel, IInv
<1>4. ASSUME NEW c \in Callers, NEW j \in Jobs, StartRun(c, j) \/ StartCancel(c, j)
      PROVE AllMove
  BY <1>4, NoneMoves DEF StartRun, StartCancel
<1>5. ASSUME NEW c \in Callers, CancelStore(c) PROVE AllMove
  <2>1. target[c] \in Jobs
    BY <1>5 DEF CancelStore, IInv, TypeOK
  <2>2. PICK j \in Jobs : j = target[c]
    BY <2>1
  <2> QED BY <1>5, <2>2, StopMoves DEF CancelStore, IInv
<1>6. ASSUME NEW c \in Callers,
             CancelTerminate(c) \/ Publish(c) \/ Retract(c) \/ Notify(c)
      PROVE AllMove
  BY <1>6, NoneMoves DEF CancelTerminate, Publish, Retract, Notify
<1>7. ASSUME NEW c \in Callers, ClaimRun(c) PROVE AllMove
  <2>1. CASE UNCHANGED state
    BY <1>7, <2>1, NoneMoves DEF ClaimRun
  <2>2. ASSUME state[target[c]] = 0, state' = [state EXCEPT ![target[c]] = 1]
        PROVE AllMove
    <3>1. target[c] \in Jobs
      BY <1>7 DEF ClaimRun, IInv, TypeOK
    <3>2. PICK j \in Jobs : j = target[c]
      BY <3>1
    <3>3. state'[j] = 1 /\ \A i \in Jobs \ {j} : state'[i] = state[i]
      BY <2>2, <3>2 DEF IInv, TypeOK
    <3>4. OthersSame(j) /\ Stream(j)!Begin
      BY <1>7, <2>2, <3>2, <3>3 DEF ClaimRun, OthersSame, Same, Stream!Begin
    <3> QED BY <3>4, OneMoves DEF StreamMoves, Stream!Next
  <2> QED BY <1>7, <2>1, <2>2 DEF ClaimRun
<1>8. ASSUME NEW c \in Callers, PreCheck(c) PROVE AllMove
  <2>1. target[c] \in Jobs /\ (total[target[c]] = 0 => emitted[target[c]] = total[target[c]])
    BY <1>8 DEF PreCheck, IInv, TypeOK, PcmInv, OutcomeHonest
  <2> QED BY <1>8, <2>1, PlainAnswerMoves, GoOnMoves DEF PreCheck, EmitSteps, Statuses
<1>9. ASSUME NEW c \in Callers, LoopHead(c) PROVE AllMove
  BY <1>9, PlainAnswerMoves, GoOnMoves DEF LoopHead, EmitSteps, Statuses
<1>10. ASSUME NEW c \in Callers, PrepareFails(c) \/ CheckError(c) PROVE AllMove
  BY <1>10, PlainAnswerMoves DEF PrepareFails, CheckError, InferSteps, Statuses
<1>11. ASSUME NEW c \in Callers, InferEnds(c) \/ InferTerminated(c) PROVE AllMove
  BY <1>11, GoOnMoves DEF InferEnds, InferTerminated
<1>12. ASSUME NEW c \in Callers, CheckOutput(c) \/ EmitCheck(c) PROVE AllMove
  BY <1>12, PlainAnswerMoves, GoOnMoves
  DEF CheckOutput, EmitCheck, InferSteps, EmitSteps, Statuses
<1>13. ASSUME NEW c \in Callers, CallbackBegins(c) PROVE AllMove
  BY <1>13, NoneMoves DEF CallbackBegins, GoOn
<1>14. ASSUME NEW c \in Callers, CallbackCancels(c) PROVE AllMove
  <2>1. target[c] \in Jobs
    BY <1>14 DEF CallbackCancels, IInv, TypeOK
  <2>2. PICK j \in Jobs : j = target[c]
    BY <2>1
  <2> QED BY <1>14, <2>2, StopMoves DEF CallbackCancels, IInv
<1>15. ASSUME NEW c \in Callers, CallbackAccepts(c) PROVE AllMove
  <2>1. target[c] \in Jobs
    BY <1>15 DEF CallbackAccepts, IInv, TypeOK
  <2>2. PICK j \in Jobs : j = target[c]
    BY <2>1
  <2>3. state[j] = 1 /\ result[j] = "none" /\ emitted[j] < total[j]
    BY <1>15, <2>2 DEF CallbackAccepts, IInv, CallsInv, PcmInv, Running, RunSteps,
       EmitSteps, InChunk
  <2>4. emitted'[j] = emitted[j] + 1 /\ \A i \in Jobs \ {j} : emitted'[i] = emitted[i]
    BY <1>15, <2>2 DEF CallbackAccepts, IInv, TypeOK
  <2>5. OthersSame(j) /\ Stream(j)!Deliver
    BY <1>15, <2>3, <2>4 DEF CallbackAccepts, GoOn, OthersSame, Same, Stream!Deliver
  <2> QED BY <2>5, OneMoves DEF StreamMoves, Stream!Next
<1>16. ASSUME NEW c \in Callers, CallbackRefuses(c) PROVE AllMove
  <2>1. target[c] \in Jobs /\ "CANCELLED" \in Statuses \ {"none"}
    BY <1>16 DEF CallbackRefuses, IInv, TypeOK, Statuses
  <2>2. PICK j \in Jobs : j = target[c]
    BY <2>1
  <2>3. cancelled'[j] = TRUE /\ \A i \in Jobs \ {j} : cancelled'[i] = cancelled[i]
    BY <1>16, <2>2 DEF CallbackRefuses, SetCancelled, IInv, TypeOK
  <2>4. pc[c] \in EmitSteps /\ Return(c, "CANCELLED") /\ UNCHANGED <<state, total, emitted>>
    BY <1>16 DEF CallbackRefuses, EmitSteps
  <2> QED BY <2>1, <2>2, <2>3, <2>4, AnswerMoves
<1>17. ASSUME NEW c \in Callers, Finish(c) PROVE AllMove
  <2>1. target[c] \in Jobs
    BY <1>17 DEF Finish, IInv, TypeOK
  <2>2. PICK j \in Jobs : j = target[c]
    BY <2>1
  <2>3. state[j] = 1 /\ result[j] # "none"
    BY <1>17, <2>2 DEF Finish, IInv, CallsInv, Running, RunSteps, AnswerInv
  <2>4. state'[j] = 2 /\ \A i \in Jobs \ {j} : state'[i] = state[i]
    BY <1>17, <2>2 DEF Finish, IInv, TypeOK
  <2>5. OthersSame(j) /\ Stream(j)!End
    BY <1>17, <2>3, <2>4 DEF Finish, OthersSame, Same, Stream!End
  <2> QED BY <2>5, OneMoves DEF StreamMoves, Stream!Next
<1>18. CASE CloseEngine \/ ReleaseByCloser
  BY <1>18, NoneMoves DEF CloseEngine, ReleaseByCloser
<1>19. CASE UNCHANGED vars
  BY <1>19, NoneMoves DEF vars
<1> QED
  BY <1>1, <1>2, <1>3, <1>4, <1>5, <1>6, <1>7, <1>8, <1>9, <1>10, <1>11, <1>12,
     <1>13, <1>14, <1>15, <1>16, <1>17, <1>18, <1>19
  DEF Next, CallerNext, RunNext

\* Only a run that returns an answer goes to its end.
NoNewEnd ==
  \A c \in Callers : pc'[c] = "finish" => pc[c] = "finish" /\ target'[c] = target[c]
Answers(c) == \E status \in Statuses \ {"none"} : Return(c, status)

LEMMA EndsByAnswer ==
  ASSUME TypeOK, [Next]_vars
  PROVE  NoNewEnd \/ \E c \in Callers : pc[c] # "idle" /\ Answers(c)
<1> USE DEF TypeOK, NoNewEnd, Answers, Goto, GoOn, callerVars, OnlyOwner, NotEngine, Statuses
<1>1. ASSUME NEW j \in Jobs, OwnerNext(j) PROVE NoNewEnd
  BY <1>1 DEF OwnerNext, StartCreate, CheckClosed, Claim, RetainForJob, MakeJob,
     AllocFails, Unclaim, ReleaseByJob, StartDestroy, DestroyCancel, DestroyTerminate,
     TestFinished, Block, SpuriousWake, DeleteJob
<1>2. ASSUME NEW c \in Callers, NEW j \in Jobs, StartRun(c, j) \/ StartCancel(c, j)
      PROVE NoNewEnd
  BY <1>2 DEF StartRun, StartCancel
<1>3. ASSUME NEW c \in Callers, CancelStore(c) \/ CancelTerminate(c) \/ ClaimRun(c)
      PROVE NoNewEnd
  BY <1>3 DEF CancelStore, CancelTerminate, ClaimRun
<1>4. ASSUME NEW c \in Callers, PreCheck(c) \/ LoopHead(c) \/ CheckOutput(c) \/ EmitCheck(c)
      PROVE NoNewEnd \/ (pc[c] # "idle" /\ Answers(c))
  <2>1. pc[c] # "idle"
    BY <1>4 DEF PreCheck, LoopHead, CheckOutput, EmitCheck
  <2>2. Answers(c) \/ \E step \in CallerSteps \ {"finish"} : GoOn(c, step)
    BY <1>4 DEF PreCheck, LoopHead, CheckOutput, EmitCheck, CallerSteps, RunSteps,
       InferSteps, EmitSteps
  <2> QED BY <2>1, <2>2
<1>5. ASSUME NEW c \in Callers,
             PrepareFails(c) \/ CheckError(c) \/ CallbackRefuses(c)
      PROVE pc[c] # "idle" /\ Answers(c)
  BY <1>5 DEF PrepareFails, CheckError, CallbackRefuses
<1>6. ASSUME NEW c \in Callers,
             \/ Publish(c) \/ InferEnds(c) \/ InferTerminated(c) \/ Retract(c)
             \/ CallbackBegins(c) \/ CallbackCancels(c) \/ CallbackAccepts(c)
             \/ Finish(c) \/ Notify(c)
      PROVE NoNewEnd
  BY <1>6 DEF Publish, InferEnds, InferTerminated, Retract, CallbackBegins,
     CallbackCancels, CallbackAccepts, Finish, Notify
<1>7. CASE CloseEngine \/ ReleaseByCloser \/ UNCHANGED vars
  BY <1>7 DEF CloseEngine, ReleaseByCloser, vars
<1> QED
  BY <1>1, <1>2, <1>3, <1>4, <1>5, <1>6, <1>7 DEF Next, CallerNext, RunNext

\* An answer, once given, stays: the streams never take one back.
LEMMA AnswerStep ==
  ASSUME IInv, AnswerInv, [Next]_vars
  PROVE  AnswerInv'
<1>1. TypeOK
  BY DEF IInv
<1>2. \A j \in Jobs : result[j] # "none" => result'[j] # "none"
  BY StreamStep DEF AllMove, StreamMoves, Stream!vars, Stream!Next, Stream!Create,
     Stream!Begin, Stream!Deliver, Stream!Stop, Stream!Answer, Stream!End
<1>3. CASE NoNewEnd
  BY <1>1, <1>2, <1>3 DEF NoNewEnd, AnswerInv, TypeOK
<1>4. ASSUME NEW c \in Callers, pc[c] # "idle", Answers(c) PROVE AnswerInv'
  <2>1. PICK status \in Statuses \ {"none"} : Return(c, status)
    BY <1>4 DEF Answers
  <2>2. target[c] \in Jobs /\ result'[target[c]] # "none" /\ target' = target
    BY <1>1, <1>4, <2>1 DEF Return, Goto, TypeOK
  <2>3. \A d \in Callers \ {c} : pc'[d] = pc[d] /\ (pc[d] # "idle" => target[d] \in Jobs)
    BY <1>1, <2>1 DEF Return, Goto, TypeOK
  <2> QED BY <1>2, <2>2, <2>3 DEF AnswerInv
<1> QED BY <1>1, <1>3, <1>4, EndsByAnswer

\* Every job is the stream that JobStream promises, for any number of jobs,
\* callers and blocks: whatever cancels, destroys and other runs do between two
\* steps, the job is run once, delivers its blocks in turn, and answers once and
\* in agreement with what it delivered (engine.cpp:581-669).
THEOREM JobsAreStreams ==
  ASSUME DestroyDuring # "entered"
  PROVE  Spec => ImplementsJobStream
<1>1. Init => (\A j \in Jobs : Stream(j)!Init) /\ AnswerInv
  BY DEF Init, Stream!Init, AnswerInv
<1>2. Spec => []AnswerInv
  BY <1>1, AnswerStep, Invariance, PTL DEF Spec
<1>3. IInv /\ AnswerInv /\ [Next]_vars
        => [\A j \in Jobs : Stream(j)!Next \/ UNCHANGED Stream(j)!vars]_vars
  BY StreamStep DEF AllMove, StreamMoves
<1> QED
  BY <1>1, <1>2, <1>3, Invariance, PTL DEF Spec, ImplementsJobStream

=============================================================================
