----------------------------- MODULE EngineJob -----------------------------
(***************************************************************************)
(* The engine and job half of the C ABI (src/src/runtime/engine.cpp) and   *)
(* the part of the Piper runtime that a cancel reaches                     *)
(* (src/src/runtime/piper_runtime.cpp): one engine, the jobs created on    *)
(* it, and the threads that run, cancel and destroy them.                  *)
(*                                                                         *)
(* Every atomic operation of the code is a step of its own, so the steps   *)
(* of different calls interleave wherever the code lets them.  A job has   *)
(* one owner, the thread that creates and destroys it: owner[j] names the  *)
(* next step of that thread.  Callers run and cancel jobs: pc[c] names     *)
(* the next step of caller c and target[c] the job it works on.            *)
(***************************************************************************)
EXTENDS Naturals, FiniteSets

CONSTANTS
  Jobs,           (* the kgv_job objects, one per creation that may succeed *)
  Callers,        (* threads that call kgv_job_run and kgv_job_cancel       *)
  MaxBlocks,      (* bound on the PCM callbacks of one job                  *)
  ChunkBlocks,    (* callbacks per inference chunk                          *)
  Piper,          (* TRUE: piper-vits-onnx/v1, FALSE: fixture-tone/v1       *)
  DestroyDuring,  (* how far a run may be when its job is destroyed         *)
  EarlyClose,     (* TRUE: the engine may be closed before its jobs         *)
  NoJob           (* the null pointer                                       *)

ASSUME JobsAssumption == IsFiniteSet(Jobs) /\ NoJob \notin Jobs
ASSUME BlocksAssumption == MaxBlocks \in Nat /\ ChunkBlocks \in Nat \ {0}
ASSUME KindAssumption == Piper \in BOOLEAN /\ EarlyClose \in BOOLEAN
ASSUME DestroyAssumption == DestroyDuring \in {"idle", "running", "entered"}

VARIABLES
  refs, closed, claimed,  \* kgv_engine: references, closed, claimed
  allocated,              \* the kgv_engine object has not been deleted
  closer,                 \* next step of the thread that closes the engine
  owner,                  \* next step of the thread that owns the job
  state, cancelled,       \* kgv_job: 0 created, 1 running, 2 finished; cancelled
  total, emitted,         \* PCM blocks of the job, and those delivered
  pc, target,             \* the callers
  active, terminating,    \* PiperRuntime: active_run_options and its flag
  result,                 \* what the run that executed returns
  late                    \* callbacks begun although the job was cancelled

engineVars == <<refs, closed, claimed, allocated, closer>>
flagVars   == <<state, cancelled>>
pcmVars    == <<total, emitted, result, late>>
ortVars    == <<active, terminating>>
callerVars == <<pc, target>>
vars == <<engineVars, owner, flagVars, pcmVars, ortVars, callerVars>>

CreateSteps  == {"c_check", "c_claim", "c_retain", "c_alloc", "c_unclaim", "c_release"}
DestroySteps == {"d_cancel", "d_active", "d_test", "d_block", "d_wait",
                 "d_unclaim", "d_delete", "d_release"}
OwnerSteps   == CreateSteps \cup DestroySteps \cup {"absent", "live", "gone"}
InferSteps   == {"publish", "infer", "retract_ok", "retract_error", "output", "error"}
EmitSteps    == {"precheck", "loop", "block", "call", "callback"}
RunSteps     == InferSteps \cup EmitSteps \cup {"finish"}
CancelSteps  == {"x_store", "x_active"}
CallerSteps  == {"idle", "enter", "notify"} \cup RunSteps \cup CancelSteps
Statuses     == {"none", "OK", "CANCELLED", "FAILED"}

\* The kgv_job object of j is allocated.
Alive(j) == owner[j] \in (DestroySteps \ {"d_release"}) \cup {"live"}
\* The reference that the creation of j took has not been given back.
Holds(j) == Alive(j) \/ owner[j] \in {"c_alloc", "c_unclaim", "c_release", "d_release"}
\* The claim of the engine belongs to j.
Claims(j) == owner[j] \in {"c_retain", "c_alloc", "c_unclaim", "live", "d_cancel",
                           "d_active", "d_test", "d_block", "d_wait", "d_unclaim"}
\* Caller c is between the start and the end of the run it won.
Running(c) == pc[c] \in RunSteps

-----------------------------------------------------------------------------
(* What the header asks of the program that uses the library.             *)

\* A call that uses the engine pointer is in flight.
EngineCallInFlight == closer = "e_release" \/ \E j \in Jobs : owner[j] \in CreateSteps
\* The caller owns a job it is not destroying, so the engine cannot go away.
OwnsJob == \E j \in Jobs : owner[j] = "live"
EngineUsable == ~closed \/ (EarlyClose /\ OwnsJob)
MayClose ==
  IF EarlyClose
  THEN (~closed /\ ~EngineCallInFlight) \/ OwnsJob
  ELSE ~closed /\ \A j \in Jobs : owner[j] \in {"absent", "gone"}
MayDestroy(j) ==
  /\ owner[j] = "live"
  /\ closed => ~EngineCallInFlight
  /\ \A c \in Callers : target[c] = j =>
       CASE DestroyDuring = "idle"    -> pc[c] = "idle"
         [] DestroyDuring = "running" -> pc[c] \notin CancelSteps \cup {"enter"}
         [] DestroyDuring = "entered" -> pc[c] \notin CancelSteps

-----------------------------------------------------------------------------
(* Parts of steps.                                                         *)

\* retain_engine and release_engine.
Retain == refs' = refs + 1
Release == refs' = refs - 1 /\ allocated' = (allocated /\ refs # 1)

SetCancelled(j) == cancelled' = [cancelled EXCEPT ![j] = TRUE]

\* A step of the thread that owns j, and one that changes nothing else.
Step(j, from, to) == owner[j] = from /\ owner' = [owner EXCEPT ![j] = to]
OnlyOwner == UNCHANGED <<engineVars, flagVars, pcmVars, ortVars, callerVars>>
NotEngine == UNCHANGED <<flagVars, pcmVars, ortVars, callerVars>>

\* The next step of caller c, and a step that changes no more than its answer.
Goto(c, step) == pc' = [pc EXCEPT ![c] = step] /\ UNCHANGED target
GoOn(c, step) == Goto(c, step) /\ UNCHANGED result
OnlyCaller == UNCHANGED <<engineVars, owner, flagVars, total, emitted, late, ortVars>>

\* The run of c leaves the try block with this status; FinishRun follows.
Return(c, status) ==
  /\ Goto(c, "finish")
  /\ result' = [result EXCEPT ![target[c]] = status]

-----------------------------------------------------------------------------
(* Faulty variants of the actions below.  No specification uses them: each *)
(* is put in the place of the action it is a variant of to see that a      *)
(* property notices.                                                       *)

\* The claim is taken without looking at it.
ClaimUnchecked(j) ==
  /\ Step(j, "c_claim", "c_retain") /\ claimed' = TRUE
  /\ UNCHANGED <<refs, closed, allocated, closer>> /\ NotEngine

\* The job does not take its reference.
RetainForgotten(j) == Step(j, "c_retain", "c_alloc") /\ OnlyOwner

\* The reference of a failed creation or of a destroyed job is forgotten.
UnclaimWithoutRelease(j) ==
  /\ Step(j, "c_unclaim", "absent") \/ Step(j, "d_unclaim", "gone")
  /\ claimed' = FALSE
  /\ UNCHANGED <<refs, closed, allocated, closer>> /\ NotEngine

\* cancel_active does not look whether an inference is active.
CancelActiveUnchecked == terminating' = TRUE /\ UNCHANGED active

\* The destroyer does not wait for the run.
TestNothing(j) == Step(j, "d_test", "d_unclaim") /\ OnlyOwner

\* The destroyer waits for state 2, which a job that never ran does not reach.
TestForTwo(j) ==
  Step(j, "d_test", IF state[j] = 2 THEN "d_unclaim" ELSE "d_block") /\ OnlyOwner

\* The blocks of a chunk follow each other without a look at the flag.
EmitUnchecked(c) == pc[c] = "block" /\ GoOn(c, "call") /\ OnlyCaller

\* The options are published without a second look at the flag.
PublishUnchecked(c) ==
  /\ pc[c] = "publish" /\ Goto(c, "infer")
  /\ active' = target[c] /\ terminating' = FALSE
  /\ UNCHANGED <<engineVars, owner, flagVars, pcmVars>>

\* A callback that returns zero ends the run but does not cancel the job.
RefuseWithoutCancel(c) ==
  pc[c] = "callback" /\ Return(c, "CANCELLED") /\ OnlyCaller

-----------------------------------------------------------------------------
(* kgv_job_create.                                                         *)

StartCreate(j) == EngineUsable /\ Step(j, "absent", "c_check") /\ OnlyOwner

\* The closed flag is read once, long before the claim; an invalid request
\* or a text the front end refuses ends the call in the same way.
CheckClosed(j) ==
  /\ Step(j, "c_check", "absent") \/ (~closed /\ Step(j, "c_check", "c_claim"))
  /\ OnlyOwner

Claim(j) ==
  /\ Step(j, "c_claim", IF claimed THEN "absent" ELSE "c_retain") /\ claimed' = TRUE
  /\ UNCHANGED <<refs, closed, allocated, closer>> /\ NotEngine

RetainForJob(j) ==
  /\ Step(j, "c_retain", "c_alloc") /\ Retain
  /\ UNCHANGED <<closed, claimed, allocated, closer>> /\ NotEngine

\* The length is chosen here; with Piper it stands for what the inferences of
\* the job will turn out to produce.
MakeJob(j) ==
  /\ Step(j, "c_alloc", "live")
  /\ \E n \in 0..MaxBlocks : total' = [total EXCEPT ![j] = n]
  /\ UNCHANGED <<engineVars, flagVars, emitted, result, late, ortVars, callerVars>>

\* std::bad_alloc after the claim: the claim is undone, then the reference.
AllocFails(j) == Step(j, "c_alloc", "c_unclaim") /\ OnlyOwner

Unclaim(j) ==
  /\ Step(j, "c_unclaim", "c_release") \/ Step(j, "d_unclaim", "d_delete")
  /\ claimed' = FALSE
  /\ UNCHANGED <<refs, closed, allocated, closer>> /\ NotEngine

ReleaseByJob(j) ==
  /\ Step(j, "c_release", "absent") \/ Step(j, "d_release", "gone")
  /\ Release
  /\ UNCHANGED <<closed, claimed, closer>> /\ NotEngine

-----------------------------------------------------------------------------
(* kgv_job_cancel, called by a caller, by the owner as the first part of   *)
(* kgv_job_destroy, or from inside a PCM callback.                         *)

\* PiperRuntime::cancel_active, under active_mutex.
CancelActive == terminating' = (terminating \/ active # NoJob) /\ UNCHANGED active

StartCancel(c, j) ==
  /\ pc[c] = "idle" /\ owner[j] = "live"
  /\ pc' = [pc EXCEPT ![c] = "x_store"] /\ target' = [target EXCEPT ![c] = j]
  /\ UNCHANGED <<engineVars, owner, flagVars, pcmVars, ortVars>>

CancelStore(c) ==
  /\ pc[c] = "x_store" /\ Goto(c, "x_active")
  /\ SetCancelled(target[c])
  /\ UNCHANGED <<engineVars, owner, state, pcmVars, ortVars>>

CancelTerminate(c) ==
  /\ pc[c] = "x_active" /\ Goto(c, "idle")
  /\ CancelActive
  /\ UNCHANGED <<engineVars, owner, flagVars, pcmVars>>

-----------------------------------------------------------------------------
(* kgv_job_destroy.  state_mutex is taken by destroyers only, of which a   *)
(* job has one, so it excludes nobody and is not a variable.               *)

StartDestroy(j) == MayDestroy(j) /\ Step(j, "live", "d_cancel") /\ OnlyOwner

DestroyCancel(j) ==
  /\ Step(j, "d_cancel", "d_active") /\ SetCancelled(j)
  /\ UNCHANGED <<engineVars, state, pcmVars, ortVars, callerVars>>

DestroyTerminate(j) ==
  /\ Step(j, "d_active", "d_test") /\ CancelActive
  /\ UNCHANGED <<engineVars, flagVars, pcmVars, callerVars>>

\* The predicate of state_changed.wait.
TestFinished(j) ==
  Step(j, "d_test", IF state[j] # 1 THEN "d_unclaim" ELSE "d_block") /\ OnlyOwner

\* Only here does the destroyer become a waiter of state_changed.
Block(j) == Step(j, "d_block", "d_wait") /\ OnlyOwner

\* A condition variable may wake its waiter without a notification.
SpuriousWake(j) == Step(j, "d_wait", "d_test") /\ OnlyOwner

DeleteJob(j) == Step(j, "d_delete", "d_release") /\ OnlyOwner

-----------------------------------------------------------------------------
(* kgv_engine_close.  A second call finds the flag set and does nothing.   *)

CloseEngine ==
  /\ MayClose
  /\ closed' = TRUE /\ closer' = IF closed THEN closer ELSE "e_release"
  /\ UNCHANGED <<refs, claimed, allocated, owner>> /\ NotEngine

ReleaseByCloser ==
  /\ closer = "e_release" /\ closer' = "done"
  /\ Release
  /\ UNCHANGED <<closed, claimed, owner>> /\ NotEngine

-----------------------------------------------------------------------------
(* kgv_job_run.                                                            *)

StartRun(c, j) ==
  /\ pc[c] = "idle" /\ owner[j] = "live"
  /\ pc' = [pc EXCEPT ![c] = "enter"] /\ target' = [target EXCEPT ![c] = j]
  /\ UNCHANGED <<engineVars, owner, flagVars, pcmVars, ortVars>>

\* KGV_BUSY or KGV_INVALID_STATE unless the job is still in state 0.
ClaimRun(c) ==
  /\ pc[c] = "enter" /\ Alive(target[c])
  /\ \/ state[target[c]] = 0 /\ state' = [state EXCEPT ![target[c]] = 1] /\ Goto(c, "precheck")
     \/ state[target[c]] # 0 /\ Goto(c, "idle") /\ UNCHANGED state
  /\ UNCHANGED <<engineVars, owner, cancelled, pcmVars, ortVars>>

\* A job with nothing to speak is done without a callback; a run that cannot
\* get its buffers fails before the first one.
PreCheck(c) ==
  /\ pc[c] = "precheck"
  /\ \/ cancelled[target[c]] /\ Return(c, "CANCELLED")
     \/ /\ ~cancelled[target[c]]
        /\ IF total[target[c]] = 0 THEN Return(c, "OK") ELSE GoOn(c, "loop")
     \/ ~cancelled[target[c]] /\ total[target[c]] # 0 /\ Return(c, "FAILED")
  /\ OnlyCaller

\* Fixture: the head of the while loop.  Piper: the head of the loop over
\* the chunks, which goes on to run_chunk.
LoopHead(c) ==
  /\ pc[c] = "loop"
  /\ \/ emitted[target[c]] = total[target[c]] /\ Return(c, "OK")
     \/ /\ emitted[target[c]] # total[target[c]]
        /\ IF cancelled[target[c]]
           THEN Return(c, "CANCELLED")
           ELSE GoOn(c, IF Piper THEN "publish" ELSE "call")
  /\ OnlyCaller

\* A tensor or the run options could not be created.
PrepareFails(c) == pc[c] = "publish" /\ Return(c, "FAILED") /\ OnlyCaller

\* Under active_mutex: publish the fresh run options, then look again at
\* the flag, for a cancel that came before the options were published.
Publish(c) ==
  /\ pc[c] = "publish" /\ Goto(c, "infer")
  /\ active' = target[c] /\ terminating' = cancelled[target[c]]
  /\ UNCHANGED <<engineVars, owner, flagVars, pcmVars>>

\* OrtApi::Run, outside src/: it may end at any time, with an output or
\* with an error...
InferEnds(c) ==
  /\ pc[c] = "infer" /\ (GoOn(c, "retract_ok") \/ GoOn(c, "retract_error"))
  /\ OnlyCaller

\* ...and it is bound to end once its options are terminating.
InferTerminated(c) ==
  pc[c] = "infer" /\ terminating /\ GoOn(c, "retract_error") /\ OnlyCaller

\* Under active_mutex the options are withdrawn; only then are they released.
Retract(c) ==
  /\ \/ pc[c] = "retract_ok" /\ Goto(c, "output")
     \/ pc[c] = "retract_error" /\ Goto(c, "error")
  /\ active' = NoJob /\ terminating' = FALSE
  /\ UNCHANGED <<engineVars, owner, flagVars, pcmVars>>

\* An inference error is a cancellation if the flag is set by now.
CheckError(c) ==
  /\ pc[c] = "error"
  /\ Return(c, IF cancelled[target[c]] THEN "CANCELLED" ELSE "FAILED")
  /\ OnlyCaller

\* An output that breaks the audio contract fails the run.
CheckOutput(c) ==
  /\ pc[c] = "output" /\ (GoOn(c, "block") \/ Return(c, "FAILED"))
  /\ OnlyCaller

\* resample_and_emit: the flag is read before every callback.
EmitCheck(c) ==
  /\ pc[c] = "block"
  /\ IF cancelled[target[c]] THEN Return(c, "CANCELLED") ELSE GoOn(c, "call")
  /\ OnlyCaller

CallbackBegins(c) ==
  /\ pc[c] = "call" /\ GoOn(c, "callback")
  /\ late' = [late EXCEPT ![target[c]] = IF cancelled[target[c]] THEN @ + 1 ELSE @]
  /\ UNCHANGED <<engineVars, owner, flagVars, total, emitted, ortVars>>

\* The client's callback calls kgv_job_cancel on the job it serves.
CallbackCancels(c) ==
  /\ pc[c] = "callback"
  /\ SetCancelled(target[c]) /\ CancelActive
  /\ UNCHANGED <<engineVars, owner, state, pcmVars, callerVars>>

\* It returns nonzero: the block counts as delivered.
CallbackAccepts(c) ==
  LET n == emitted[target[c]] + 1
      more == Piper /\ n # total[target[c]] /\ n % ChunkBlocks # 0
  IN  /\ pc[c] = "callback" /\ GoOn(c, IF more THEN "block" ELSE "loop")
      /\ emitted' = [emitted EXCEPT ![target[c]] = n]
      /\ UNCHANGED <<engineVars, owner, flagVars, total, late, ortVars>>

\* It returns zero: the job is cancelled and the run is over.
CallbackRefuses(c) ==
  /\ pc[c] = "callback" /\ Return(c, "CANCELLED")
  /\ SetCancelled(target[c])
  /\ UNCHANGED <<engineVars, owner, state, total, emitted, late, ortVars>>

\* ~FinishRun stores the state without taking state_mutex...
Finish(c) ==
  /\ pc[c] = "finish" /\ Goto(c, "notify")
  /\ state' = [state EXCEPT ![target[c]] = 2]
  /\ UNCHANGED <<engineVars, owner, cancelled, pcmVars, ortVars>>

\* ...and notifies in a second step: only a blocked destroyer wakes up.  If
\* the job is deleted by then, the call touches freed memory; the outcome
\* chosen here is that nothing comes of it.
Notify(c) ==
  /\ pc[c] = "notify" /\ Goto(c, "idle")
  /\ owner' = [owner EXCEPT ![target[c]] = IF @ = "d_wait" THEN "d_test" ELSE @]
  /\ UNCHANGED <<engineVars, flagVars, pcmVars, ortVars>>

-----------------------------------------------------------------------------
Init ==
  /\ refs = 1 /\ closed = FALSE /\ claimed = FALSE /\ allocated = TRUE
  /\ closer = "none"
  /\ owner = [j \in Jobs |-> "absent"]
  /\ state = [j \in Jobs |-> 0]
  /\ cancelled = [j \in Jobs |-> FALSE]
  /\ total = [j \in Jobs |-> 0]
  /\ emitted = [j \in Jobs |-> 0]
  /\ result = [j \in Jobs |-> "none"]
  /\ late = [j \in Jobs |-> 0]
  /\ active = NoJob /\ terminating = FALSE
  /\ pc = [c \in Callers |-> "idle"]
  /\ target = [c \in Callers |-> NoJob]

OwnerNext(j) ==
  \/ StartCreate(j) \/ CheckClosed(j) \/ Claim(j) \/ RetainForJob(j)
  \/ MakeJob(j) \/ AllocFails(j) \/ Unclaim(j) \/ ReleaseByJob(j)
  \/ StartDestroy(j) \/ DestroyCancel(j) \/ DestroyTerminate(j)
  \/ TestFinished(j) \/ Block(j) \/ SpuriousWake(j) \/ DeleteJob(j)

RunNext(c) ==
  \/ ClaimRun(c) \/ PreCheck(c) \/ LoopHead(c) \/ PrepareFails(c) \/ Publish(c)
  \/ InferEnds(c) \/ InferTerminated(c) \/ Retract(c) \/ CheckError(c)
  \/ CheckOutput(c) \/ EmitCheck(c) \/ CallbackBegins(c) \/ CallbackCancels(c)
  \/ CallbackAccepts(c) \/ CallbackRefuses(c) \/ Finish(c) \/ Notify(c)

CallerNext(c) ==
  \/ \E j \in Jobs : StartRun(c, j) \/ StartCancel(c, j)
  \/ CancelStore(c) \/ CancelTerminate(c) \/ RunNext(c)

Next ==
  \/ \E j \in Jobs : OwnerNext(j)
  \/ \E c \in Callers : CallerNext(c)
  \/ CloseEngine \/ ReleaseByCloser

Spec == Init /\ [][Next]_vars

(***************************************************************************)
(* Fairness: a call that has been entered goes on, since its thread is     *)
(* scheduled, and the client's callback returns.  Nothing obliges a client *)
(* to start a call, an inference to end unless it is terminated, or a      *)
(* condition variable to wake spuriously.                                  *)
(***************************************************************************)
OwnerProgress(j) ==
  \/ CheckClosed(j) \/ Claim(j) \/ RetainForJob(j) \/ MakeJob(j) \/ Unclaim(j)
  \/ ReleaseByJob(j) \/ DestroyCancel(j) \/ DestroyTerminate(j)
  \/ TestFinished(j) \/ Block(j) \/ DeleteJob(j)

RunProgress(c) ==
  \/ ClaimRun(c) \/ PreCheck(c) \/ LoopHead(c) \/ Publish(c) \/ InferTerminated(c)
  \/ Retract(c) \/ CheckError(c) \/ CheckOutput(c) \/ EmitCheck(c)
  \/ CallbackBegins(c) \/ CallbackAccepts(c)
  \/ Finish(c) \/ Notify(c) \/ CancelStore(c) \/ CancelTerminate(c)

FairSpec ==
  /\ Spec
  /\ \A j \in Jobs : WF_vars(OwnerProgress(j))
  /\ \A c \in Callers : WF_vars(RunProgress(c))
  /\ WF_vars(ReleaseByCloser)

-----------------------------------------------------------------------------
(* Properties.                                                             *)

TypeOK ==
  /\ refs \in Nat /\ closed \in BOOLEAN /\ claimed \in BOOLEAN /\ allocated \in BOOLEAN
  /\ closer \in {"none", "e_release", "done"}
  /\ owner \in [Jobs -> OwnerSteps]
  /\ state \in [Jobs -> 0..2] /\ cancelled \in [Jobs -> BOOLEAN]
  /\ total \in [Jobs -> 0..MaxBlocks] /\ emitted \in [Jobs -> 0..MaxBlocks]
  /\ result \in [Jobs -> Statuses] /\ late \in [Jobs -> Nat]
  /\ active \in Jobs \cup {NoJob} /\ terminating \in BOOLEAN
  /\ pc \in [Callers -> CallerSteps] /\ target \in [Callers -> Jobs \cup {NoJob}]
  /\ \A c \in Callers : pc[c] # "idle" => target[c] \in Jobs

Holders == {j \in Jobs : Holds(j)}
OpenerShare == IF closer = "done" THEN 0 ELSE 1

\* The counter counts: one reference for the opener until the close gives it
\* back, one for each job from the end of retain_engine to its release, and
\* the engine is deleted exactly when none is left (engine.cpp:161-169).
RefsCountOwners ==
  /\ refs = Cardinality(Holders) + OpenerShare
  /\ allocated <=> refs # 0

\* No step of a create, a destroy, a run or a close dereferences an engine
\* that release_engine has deleted, whichever of them gives the last
\* reference back.
EngineAccessSafe ==
  closer = "e_release" \/ (\E j \in Jobs : owner[j] \in CreateSteps \/ Holds(j))
    => allocated

\* The claim is held exactly when one creation or job holds it: it is
\* neither lost on a failing path of kgv_job_create nor given out twice.
OneClaim ==
  /\ claimed <=> \E j \in Jobs : Claims(j)
  /\ \A i, j \in Jobs : Claims(i) /\ Claims(j) => i = j

\* "PCM callbacks are ... serialized": at most one run is between its claim
\* and its end on the whole engine, though jobs are created and destroyed by
\* several threads; the one inference session of the engine relies on it.
OneSynthesis == \A c, d \in Callers : Running(c) /\ Running(d) => c = d

\* A published pointer to run options is withdrawn before the options are
\* released: a cancel that finds it non-null never touches freed options.
ActiveOptionsLive ==
  active # NoJob =>
    \E c \in Callers : target[c] = active /\ pc[c] \in {"infer", "retract_ok", "retract_error"}

\* An inference is terminated only on behalf of its own job: a cancel of one
\* job that is slow to reach cancel_active never hits the next job's inference.
TerminatesOwnJob == terminating => active # NoJob /\ cancelled[active]

\* A cancel that has set the flag is not lost: while an inference of the job
\* is active it is terminating, or a cancel is still on its way to it.
NoLostCancel ==
  \A j \in Jobs : cancelled[j] /\ active = j =>
    \/ terminating
    \/ owner[j] = "d_active"
    \/ \E c \in Callers : pc[c] = "x_active" /\ target[c] = j

\* After a job is cancelled at most one more callback begins, the one whose
\* check of the flag came first.
AtMostOneLateCallback == \A j \in Jobs : late[j] <= 1

\* A run answers OK only after every block was accepted, and CANCELLED only
\* if a cancel was asked for; inference errors are told apart by the flag.
OutcomeHonest ==
  \A j \in Jobs :
    /\ result[j] = "OK" => emitted[j] = total[j]
    /\ result[j] = "CANCELLED" => cancelled[j]
    /\ emitted[j] <= total[j]

\* No run is under way on a job once kgv_job_destroy goes past its wait, so
\* no PCM callback can begin after the destroy returned.
NoAudioAfterDestroy ==
  \A c \in Callers : Running(c) =>
    owner[target[c]] \notin {"d_unclaim", "d_delete", "d_release", "gone"}

\* ~FinishRun notifies a condition variable that still exists.
NotifiedJobAlive == \A c \in Callers : pc[c] = "notify" => Alive(target[c])

\* A cancelled run ends, even one inside an inference that would go on for
\* ever: the cancel reaches the run options before or after they are published.
CancelEndsRun == \A j \in Jobs : (state[j] = 1 /\ cancelled[j]) ~> state[j] = 2

\* kgv_job_destroy "cancels and waits for an in-progress run": it returns.
DestroyReturns == \A j \in Jobs : owner[j] = "d_cancel" ~> owner[j] = "gone"

\* Once closed and without jobs the engine is given back.
EngineFreed ==
  (closed /\ \A j \in Jobs : owner[j] = "gone") ~> ~allocated

-----------------------------------------------------------------------------
(* The inductive invariant: why the properties above hold while no client  *)
(* destroys a job that another thread may still be about to claim.         *)

SessionSteps == {"live", "d_cancel", "d_active", "d_test", "d_block", "d_wait"}
ActiveSteps  == {"infer", "retract_ok", "retract_error"}
InChunk      == InferSteps \cup {"block", "call", "callback"}

\* Where calls are keeps their job: until its wait is over, the destroyer of
\* a running job has not gone on, and state 1 lets in one run only.
CallsInv ==
  /\ \A c \in Callers : pc[c] \in CancelSteps \cup {"enter"} => owner[target[c]] = "live"
  /\ \A c \in Callers :
       Running(c) => state[target[c]] = 1 /\ owner[target[c]] \in SessionSteps
  /\ \A c, d \in Callers : Running(c) /\ Running(d) /\ target[c] = target[d] => c = d

\* A creation that holds no reference yet relies on the opener's or on that
\* of a live job.
CloseInv ==
  /\ closer = "none" <=> ~closed
  /\ (\E j \in Jobs : owner[j] \in CreateSteps) => closer = "none" \/ OwnsJob

PcmInv ==
  /\ \A j \in Jobs : owner[j] \in CreateSteps \cup {"absent"} =>
       state[j] = 0 /\ emitted[j] = 0 /\ late[j] = 0 /\ result[j] = "none"
  /\ \A j \in Jobs : late[j] = 1 => cancelled[j]
  /\ \A j \in Jobs : result[j] # "none" => state[j] # 0
  /\ \A c \in Callers : pc[c] \in InChunk => emitted[target[c]] < total[target[c]]
  /\ \A c \in Callers : pc[c] \in InferSteps \cup EmitSteps => result[target[c]] = "none"
  /\ \A c \in Callers : pc[c] = "call" => late[target[c]] = 0
  /\ AtMostOneLateCallback /\ OutcomeHonest

OrtInv ==
  /\ \A c \in Callers : pc[c] \in ActiveSteps => active = target[c]
  /\ \A c \in Callers : pc[c] = "x_active" => cancelled[target[c]]
  /\ \A j \in Jobs : owner[j] = "d_active" => cancelled[j]
  /\ ActiveOptionsLive /\ TerminatesOwnJob /\ NoLostCancel

IInv == TypeOK /\ RefsCountOwners /\ OneClaim /\ CallsInv /\ CloseInv /\ PcmInv /\ OrtInv
=============================================================================
