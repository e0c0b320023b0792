-------------------------- MODULE StreamPcmProofs --------------------------
(***************************************************************************)
(* For every number of blocks and every capacity of the queue, stream_pcm  *)
(* yields the blocks in order and ends honestly.                           *)
(***************************************************************************)
EXTENDS StreamPcm, TLAPS

\* A block that is put is within the length of the job.
LEMMA TypeStep ==
  ASSUME IInv, [Next]_vars
  PROVE  TypeOK'
<1> USE DEF IInv, TypeOK, WorkerInv, InRun, WorkerSteps, ConsumerSteps, Errors,
            MaxBlocksAssumption, vars, jobVars, nativeVars, WorkerGoes,
            ConsumerGoes, OnlyWorker, OnlyConsumer
<1>1. CASE RunStarts
  BY <1>1 DEF RunStarts, Native!Begin
<1>2. CASE NativeCalls
  BY <1>2 DEF NativeCalls
<1>3. CASE NativeAnswers
  BY <1>3 DEF NativeAnswers, Native!Answer
<1>4. CASE Accept
  BY <1>4 DEF Accept, Refuse, Native!Answer
<1>5. CASE AcceptWrongRate
  BY <1>5 DEF AcceptWrongRate, Refuse, Native!Answer
<1>6. CASE CallbackFails
  BY <1>6 DEF CallbackFails, Refuse, Native!Answer
<1>7. CASE Put
  BY <1>7, MaxBlocksAssumption, CapacityAssumption DEF Put, Native!Deliver
<1>8. CASE PutTimesOut
  BY <1>8 DEF PutTimesOut
<1>9. CASE RunReturns
  BY <1>9 DEF RunReturns, Native!End
<1>10. CASE Report
  BY <1>10 DEF Report
<1>11. CASE DestroyJob
  BY <1>11 DEF DestroyJob, Native!Stop
<1>12. CASE MarkClosed
  BY <1>12 DEF MarkClosed
<1>13. CASE Complete
  BY <1>13 DEF Complete
<1>14. CASE LoopTest
  BY <1>14 DEF LoopTest
<1>15. CASE Get
  BY <1>15, MaxBlocksAssumption, CapacityAssumption DEF Get
<1>16. CASE GetTimesOut
  BY <1>16 DEF GetTimesOut
<1>17. CASE RaiseOutcome
  BY <1>17 DEF RaiseOutcome
<1>18. CASE SetStopped
  BY <1>18 DEF SetStopped
<1>19. CASE CancelGuard
  BY <1>19 DEF CancelGuard
<1>20. CASE CancelJob
  BY <1>20 DEF CancelJob, Native!Stop
<1>21. CASE Join
  BY <1>21 DEF Join
<1>22. CASE Resume
  BY <1>22 DEF Resume
<1>23. CASE Abandon
  BY <1>23 DEF Abandon
<1>24. CASE UNCHANGED vars
  BY <1>24
<1> QED
  BY <1>1, <1>2, <1>3, <1>4, <1>5, <1>6, <1>7, <1>8, <1>9, <1>10, <1>11, <1>12,
     <1>13, <1>14, <1>15, <1>16, <1>17, <1>18, <1>19, <1>20, <1>21, <1>22,
     <1>23, <1>24
  DEF Next, WorkerNext, GeneratorNext, ClientNext

\* Only Put and Get touch the sequences.
LEMMA OrderStep ==
  ASSUME IInv, [Next]_vars
  PROVE  BlocksInOrder'
<1> USE DEF IInv, BlocksInOrder, vars, jobVars, nativeVars, WorkerGoes,
            ConsumerGoes, OnlyWorker, OnlyConsumer
<1>1. CASE RunStarts
  BY <1>1 DEF RunStarts, Native!Begin
<1>2. CASE NativeCalls
  BY <1>2 DEF NativeCalls
<1>3. CASE NativeAnswers
  BY <1>3 DEF NativeAnswers, Native!Answer
<1>4. CASE Accept
  BY <1>4 DEF Accept, Refuse, Native!Answer
<1>5. CASE AcceptWrongRate
  BY <1>5 DEF AcceptWrongRate, Refuse, Native!Answer
<1>6. CASE CallbackFails
  BY <1>6 DEF CallbackFails, Refuse, Native!Answer
<1>7. CASE Put
  <2>1. blocks \in Seq(1..MaxBlocks) /\ got \in Seq(1..MaxBlocks) /\ delivered \in Nat
    BY <1>7, MaxBlocksAssumption DEF TypeOK
  <2>2. /\ Len(blocks') = Len(blocks) + 1 /\ delivered' = delivered + 1
        /\ \A i \in 1..Len(blocks) : blocks'[i] = blocks[i]
        /\ blocks'[Len(blocks) + 1] = delivered + 1 /\ got' = got
    BY <2>1, <1>7 DEF Put, Native!Deliver
  <2> QED BY <2>1, <2>2
<1>8. CASE PutTimesOut
  BY <1>8 DEF PutTimesOut
<1>9. CASE RunReturns
  BY <1>9 DEF RunReturns, Native!End
<1>10. CASE Report
  BY <1>10 DEF Report
<1>11. CASE DestroyJob
  BY <1>11 DEF DestroyJob, Native!Stop
<1>12. CASE MarkClosed
  BY <1>12 DEF MarkClosed
<1>13. CASE Complete
  BY <1>13 DEF Complete
<1>14. CASE LoopTest
  BY <1>14 DEF LoopTest
<1>15. CASE Get
  <2>1. blocks \in Seq(1..MaxBlocks) /\ blocks # <<>> /\ got \in Seq(1..MaxBlocks)
    BY <1>15 DEF Get, TypeOK
  <2>2. /\ Len(blocks') = Len(blocks) - 1 /\ Len(got') = Len(got) + 1
        /\ \A i \in 1..Len(blocks') : blocks'[i] = blocks[i + 1]
        /\ \A i \in 1..Len(got) : got'[i] = got[i]
        /\ got'[Len(got) + 1] = blocks[1] /\ delivered' = delivered
    BY <2>1, <1>15 DEF Get
  <2>3. /\ Len(got) \in Nat /\ Len(blocks) \in Nat /\ Len(blocks) >= 1
        /\ delivered = Len(got) + Len(blocks)
    BY <2>1
  <2>4. /\ \A i \in 1..Len(got) : got[i] = i
        /\ \A i \in 1..Len(blocks) : blocks[i] = Len(got) + i
    OBVIOUS
  <2> HIDE DEF IInv, TypeOK, BlocksInOrder
  <2>5. \A i \in 1..Len(got') : got'[i] = i
    BY <2>2, <2>3, <2>4
  <2>6. \A i \in 1..Len(blocks') : blocks'[i] = Len(got') + i
    BY <2>2, <2>3, <2>4
  <2>7. Len(got') + Len(blocks') = delivered'
    BY <2>2, <2>3
  <2> QED BY <2>5, <2>6, <2>7 DEF BlocksInOrder
<1>16. CASE GetTimesOut
  BY <1>16 DEF GetTimesOut
<1>17. CASE RaiseOutcome
  BY <1>17 DEF RaiseOutcome
<1>18. CASE SetStopped
  BY <1>18 DEF SetStopped
<1>19. CASE CancelGuard
  BY <1>19 DEF CancelGuard
<1>20. CASE CancelJob
  BY <1>20 DEF CancelJob, Native!Stop
<1>21. CASE Join
  BY <1>21 DEF Join
<1>22. CASE Resume
  BY <1>22 DEF Resume
<1>23. CASE Abandon
  BY <1>23 DEF Abandon
<1>24. CASE UNCHANGED vars
  BY <1>24
<1> QED
  BY <1>1, <1>2, <1>3, <1>4, <1>5, <1>6, <1>7, <1>8, <1>9, <1>10, <1>11, <1>12,
     <1>13, <1>14, <1>15, <1>16, <1>17, <1>18, <1>19, <1>20, <1>21, <1>22,
     <1>23, <1>24
  DEF Next, WorkerNext, GeneratorNext, ClientNext

\* The worker goes through the run once.
LEMMA WorkerStep ==
  ASSUME IInv, [Next]_vars
  PROVE  WorkerInv'
<1> USE DEF IInv, TypeOK, WorkerInv, InRun, WorkerSteps, vars, jobVars,
            nativeVars, WorkerGoes, ConsumerGoes, OnlyWorker, OnlyConsumer
<1>1. CASE RunStarts
  BY <1>1 DEF RunStarts, Native!Begin
<1>2. CASE NativeCalls
  BY <1>2 DEF NativeCalls
<1>3. CASE NativeAnswers
  BY <1>3 DEF NativeAnswers, Native!Answer
<1>4. CASE Accept
  BY <1>4 DEF Accept, Refuse, Native!Answer
<1>5. CASE AcceptWrongRate
  BY <1>5 DEF AcceptWrongRate, Refuse, Native!Answer
<1>6. CASE CallbackFails
  BY <1>6 DEF CallbackFails, Refuse, Native!Answer
<1>7. CASE Put
  BY <1>7 DEF Put, Native!Deliver
<1>8. CASE PutTimesOut
  BY <1>8 DEF PutTimesOut
<1>9. CASE RunReturns
  BY <1>9 DEF RunReturns, Native!End
<1>10. CASE Report
  BY <1>10 DEF Report
<1>11. CASE DestroyJob
  BY <1>11 DEF DestroyJob, Native!Stop
<1>12. CASE MarkClosed
  BY <1>12 DEF MarkClosed
<1>13. CASE Complete
  BY <1>13 DEF Complete
<1>14. CASE LoopTest
  BY <1>14 DEF LoopTest
<1>15. CASE Get
  BY <1>15 DEF Get
<1>16. CASE GetTimesOut
  BY <1>16 DEF GetTimesOut
<1>17. CASE RaiseOutcome
  BY <1>17 DEF RaiseOutcome
<1>18. CASE SetStopped
  BY <1>18 DEF SetStopped
<1>19. CASE CancelGuard
  BY <1>19 DEF CancelGuard
<1>20. CASE CancelJob
  BY <1>20 DEF CancelJob, Native!Stop
<1>21. CASE Join
  BY <1>21 DEF Join
<1>22. CASE Resume
  BY <1>22 DEF Resume
<1>23. CASE Abandon
  BY <1>23 DEF Abandon
<1>24. CASE UNCHANGED vars
  BY <1>24
<1> QED
  BY <1>1, <1>2, <1>3, <1>4, <1>5, <1>6, <1>7, <1>8, <1>9, <1>10, <1>11, <1>12,
     <1>13, <1>14, <1>15, <1>16, <1>17, <1>18, <1>19, <1>20, <1>21, <1>22,
     <1>23, <1>24
  DEF Next, WorkerNext, GeneratorNext, ClientNext

\* The errors are appended after the answer they explain.
LEMMA ErrorStep ==
  ASSUME IInv, [Next]_vars
  PROVE  ErrorInv'
<1> USE DEF IInv, TypeOK, WorkerInv, ErrorInv, GeneratorInv, InRun, Reported,
            Iterating, Errors, vars, jobVars, nativeVars, WorkerGoes,
            ConsumerGoes, OnlyWorker, OnlyConsumer
<1>1. CASE RunStarts
  BY <1>1 DEF RunStarts, Native!Begin
<1>2. CASE NativeCalls
  BY <1>2 DEF NativeCalls
<1>3. CASE NativeAnswers
  BY <1>3 DEF NativeAnswers, Native!Answer
<1>4. CASE Accept
  BY <1>4 DEF Accept, Refuse, Native!Answer
<1>5. CASE AcceptWrongRate
  BY <1>5 DEF AcceptWrongRate, Refuse, Native!Answer
<1>6. CASE CallbackFails
  BY <1>6 DEF CallbackFails, Refuse, Native!Answer
<1>7. CASE Put
  BY <1>7 DEF Put, Native!Deliver
<1>8. CASE PutTimesOut
  BY <1>8 DEF PutTimesOut
<1>9. CASE RunReturns
  BY <1>9 DEF RunReturns, Native!End
<1>10. CASE Report
  <2>1. outcome \in Seq(Errors) /\ worker = "report" /\ worker' = "close" /\ stopped' = stopped
    BY <1>10 DEF Report
  <2>2. UNCHANGED <<failure, answer, stop>>
    BY <1>10 DEF Report
  <2>3. CASE failure
    <3>1. outcome' = Append(outcome, "CallbackError")
      BY <2>3, <1>10 DEF Report
    <3>2. outcome' # <<>> /\ outcome'[1] # "CANCELLED"
      BY <2>1, <3>1
    <3> QED BY <2>1, <2>2, <2>3, <3>2
  <2>4. CASE ~failure /\ answer = "FAILED"
    <3>1. outcome' = Append(outcome, "FAILED")
      BY <2>4, <1>10 DEF Report
    <3>2. outcome' # <<>> /\ outcome'[1] # "CANCELLED"
      BY <2>1, <3>1
    <3> QED BY <2>1, <2>2, <2>4, <3>2
  <2>5. CASE ~failure /\ answer = "CANCELLED" /\ ~stopped
    <3>1. outcome' = Append(outcome, "CANCELLED") /\ outcome # <<>>
      BY <2>1, <2>5, <1>10 DEF Report
    <3>2. outcome' # <<>> /\ outcome'[1] # "CANCELLED"
      BY <2>1, <3>1
    <3> QED BY <2>1, <2>2, <2>5, <3>2
  <2>6. CASE ~failure /\ answer # "FAILED" /\ ~(answer = "CANCELLED" /\ ~stopped)
    <3>1. outcome' = outcome
      BY <2>6, <1>10 DEF Report
    <3> QED BY <2>1, <2>2, <2>6, <3>1
  <2> QED BY <2>3, <2>4, <2>5, <2>6
<1>11. CASE DestroyJob
  BY <1>11 DEF DestroyJob, Native!Stop
<1>12. CASE MarkClosed
  BY <1>12 DEF MarkClosed
<1>13. CASE Complete
  BY <1>13 DEF Complete
<1>14. CASE LoopTest
  BY <1>14 DEF LoopTest
<1>15. CASE Get
  BY <1>15 DEF Get
<1>16. CASE GetTimesOut
  BY <1>16 DEF GetTimesOut
<1>17. CASE RaiseOutcome
  BY <1>17 DEF RaiseOutcome
<1>18. CASE SetStopped
  BY <1>18 DEF SetStopped
<1>19. CASE CancelGuard
  BY <1>19 DEF CancelGuard
<1>20. CASE CancelJob
  BY <1>20 DEF CancelJob, Native!Stop
<1>21. CASE Join
  BY <1>21 DEF Join
<1>22. CASE Resume
  BY <1>22 DEF Resume
<1>23. CASE Abandon
  BY <1>23 DEF Abandon
<1>24. CASE UNCHANGED vars
  BY <1>24
<1> QED
  BY <1>1, <1>2, <1>3, <1>4, <1>5, <1>6, <1>7, <1>8, <1>9, <1>10, <1>11, <1>12,
     <1>13, <1>14, <1>15, <1>16, <1>17, <1>18, <1>19, <1>20, <1>21, <1>22,
     <1>23, <1>24
  DEF Next, WorkerNext, GeneratorNext, ClientNext

\* Once completed is set nobody puts, so an empty queue stays empty.
LEMMA GeneratorStep ==
  ASSUME IInv, [Next]_vars
  PROVE  GeneratorInv'
<1> USE DEF IInv, TypeOK, WorkerInv, GeneratorInv, InRun, Iterating, vars,
            jobVars, nativeVars, WorkerGoes, ConsumerGoes, OnlyWorker,
            OnlyConsumer
<1>1. CASE RunStarts
  BY <1>1 DEF RunStarts, Native!Begin
<1>2. CASE NativeCalls
  BY <1>2 DEF NativeCalls
<1>3. CASE NativeAnswers
  BY <1>3 DEF NativeAnswers, Native!Answer
<1>4. CASE Accept
  BY <1>4 DEF Accept, Refuse, Native!Answer
<1>5. CASE AcceptWrongRate
  BY <1>5 DEF AcceptWrongRate, Refuse, Native!Answer
<1>6. CASE CallbackFails
  BY <1>6 DEF CallbackFails, Refuse, Native!Answer
<1>7. CASE Put
  BY <1>7 DEF Put, Native!Deliver
<1>8. CASE PutTimesOut
  BY <1>8 DEF PutTimesOut
<1>9. CASE RunReturns
  BY <1>9 DEF RunReturns, Native!End
<1>10. CASE Report
  BY <1>10 DEF Report
<1>11. CASE DestroyJob
  BY <1>11 DEF DestroyJob, Native!Stop
<1>12. CASE MarkClosed
  BY <1>12 DEF MarkClosed
<1>13. CASE Complete
  BY <1>13 DEF Complete
<1>14. CASE LoopTest
  BY <1>14 DEF LoopTest
<1>15. CASE Get
  BY <1>15 DEF Get
<1>16. CASE GetTimesOut
  BY <1>16 DEF GetTimesOut
<1>17. CASE RaiseOutcome
  BY <1>17 DEF RaiseOutcome
<1>18. CASE SetStopped
  BY <1>18 DEF SetStopped
<1>19. CASE CancelGuard
  BY <1>19 DEF CancelGuard
<1>20. CASE CancelJob
  BY <1>20 DEF CancelJob, Native!Stop
<1>21. CASE Join
  BY <1>21 DEF Join
<1>22. CASE Resume
  BY <1>22 DEF Resume
<1>23. CASE Abandon
  BY <1>23 DEF Abandon
<1>24. CASE UNCHANGED vars
  BY <1>24
<1> QED
  BY <1>1, <1>2, <1>3, <1>4, <1>5, <1>6, <1>7, <1>8, <1>9, <1>10, <1>11, <1>12,
     <1>13, <1>14, <1>15, <1>16, <1>17, <1>18, <1>19, <1>20, <1>21, <1>22,
     <1>23, <1>24
  DEF Next, WorkerNext, GeneratorNext, ClientNext

\* What the generator finds after the loop is final.
LEMMA EndStep ==
  ASSUME IInv, [Next]_vars
  PROVE  EndsHonestly' /\ RaisesLast'
<1> USE DEF IInv, TypeOK, BlocksInOrder, WorkerInv, ErrorInv, GeneratorInv,
            EndsHonestly, RaisesLast, InRun, Reported, Iterating, vars,
            jobVars, nativeVars, WorkerGoes, ConsumerGoes, OnlyWorker,
            OnlyConsumer
<1>1. CASE RunStarts
  BY <1>1 DEF RunStarts, Native!Begin
<1>2. CASE NativeCalls
  BY <1>2 DEF NativeCalls
<1>3. CASE NativeAnswers
  BY <1>3 DEF NativeAnswers, Native!Answer
<1>4. CASE Accept
  BY <1>4 DEF Accept, Refuse, Native!Answer
<1>5. CASE AcceptWrongRate
  BY <1>5 DEF AcceptWrongRate, Refuse, Native!Answer
<1>6. CASE CallbackFails
  BY <1>6 DEF CallbackFails, Refuse, Native!Answer
<1>7. CASE Put
  BY <1>7 DEF Put, Native!Deliver
<1>8. CASE PutTimesOut
  BY <1>8 DEF PutTimesOut
<1>9. CASE RunReturns
  BY <1>9 DEF RunReturns, Native!End
<1>10. CASE Report
  BY <1>10 DEF Report
<1>11. CASE DestroyJob
  BY <1>11 DEF DestroyJob, Native!Stop
<1>12. CASE MarkClosed
  BY <1>12 DEF MarkClosed
<1>13. CASE Complete
  BY <1>13 DEF Complete
<1>14. CASE LoopTest
  BY <1>14 DEF LoopTest
<1>15. CASE Get
  BY <1>15 DEF Get
<1>16. CASE GetTimesOut
  BY <1>16 DEF GetTimesOut
<1>17. CASE RaiseOutcome
  BY <1>17 DEF RaiseOutcome
<1>18. CASE SetStopped
  BY <1>18 DEF SetStopped
<1>19. CASE CancelGuard
  BY <1>19 DEF CancelGuard
<1>20. CASE CancelJob
  BY <1>20 DEF CancelJob, Native!Stop
<1>21. CASE Join
  BY <1>21 DEF Join
<1>22. CASE Resume
  BY <1>22 DEF Resume
<1>23. CASE Abandon
  BY <1>23 DEF Abandon
<1>24. CASE UNCHANGED vars
  BY <1>24
<1> QED
  BY <1>1, <1>2, <1>3, <1>4, <1>5, <1>6, <1>7, <1>8, <1>9, <1>10, <1>11, <1>12,
     <1>13, <1>14, <1>15, <1>16, <1>17, <1>18, <1>19, <1>20, <1>21, <1>22,
     <1>23, <1>24
  DEF Next, WorkerNext, GeneratorNext, ClientNext

LEMMA Initially == Init => IInv
<1> SUFFICES ASSUME Init PROVE IInv
  OBVIOUS
<1> USE MaxBlocksAssumption, CapacityAssumption DEF Init
<1>1. TypeOK
  <2>1. length \in 0..MaxBlocks /\ delivered \in 0..length /\ phase \in 0..2
    OBVIOUS
  <2>2. /\ blocks \in Seq(1..MaxBlocks) /\ got \in Seq(1..MaxBlocks)
        /\ outcome \in Seq(Errors) /\ Len(blocks) <= Capacity
    OBVIOUS
  <2> QED BY <2>1, <2>2 DEF TypeOK, WorkerSteps, ConsumerSteps
<1>2. BlocksInOrder
  BY DEF BlocksInOrder
<1>3. WorkerInv /\ ErrorInv /\ GeneratorInv
  BY DEF WorkerInv, ErrorInv, GeneratorInv, InRun, Reported, Iterating
<1>4. EndsHonestly /\ RaisesLast
  BY DEF EndsHonestly, RaisesLast
<1> QED BY <1>1, <1>2, <1>3, <1>4 DEF IInv

LEMMA Invariance == Spec => []IInv
<1>1. IInv /\ [Next]_vars => IInv'
  BY TypeStep, OrderStep, WorkerStep, ErrorStep, GeneratorStep, EndStep DEF IInv
<1> QED BY <1>1, Initially, PTL DEF Spec

\* The client gets the blocks of the job once and in order, for every length
\* and capacity (kilix_voicegen.py:246-279).
THEOREM StreamIsInOrder == Spec => []BlocksInOrder
BY Invariance, PTL DEF IInv

\* An iteration that ends without an exception has yielded a whole,
\* successful job (kilix_voicegen.py:258-282).
THEOREM StreamEndsHonestly == Spec => []EndsHonestly
BY Invariance, PTL DEF IInv

\* An exception is the first error, after all the blocks before it.
THEOREM StreamRaisesLast == Spec => []RaisesLast
BY Invariance, PTL DEF IInv
=============================================================================
