----------------------------- MODULE StreamPcm -----------------------------
(***************************************************************************)
(* Engine.stream_pcm of the Python binding                                 *)
(* (src/bindings/python/kilix_voicegen.py): a worker thread runs one job   *)
(* and puts its PCM blocks into a bounded queue, a generator takes them    *)
(* out for the client, who may go on to the end or abandon it.             *)
(*                                                                         *)
(* The native job is JobStream; what its run does between two callbacks is *)
(* one step here.  A block is its number.                                  *)
(***************************************************************************)
EXTENDS Naturals, Sequences

CONSTANTS
  MaxBlocks,  (* bound on the PCM blocks of the job         *)
  Capacity    (* queue_blocks, the size of the bounded queue *)

ASSUME MaxBlocksAssumption == MaxBlocks \in Nat
ASSUME CapacityAssumption == Capacity \in 1..64

VARIABLES
  worker, consumer,    \* next step of the worker thread and of the generator
  blocks,              \* the queue
  got,                 \* the blocks yielded to the client, in this order
  stopped, completed,  \* the two events
  failure,             \* callback_error of Job.run: the callback raised
  outcome,             \* the list of errors the worker leaves for the generator
  ended,               \* how the iteration ended for the client
  jobClosed,           \* Job._closed
  destroyed,           \* the native job has been freed
  phase, length, delivered, stop, answer  \* the native job

Native == INSTANCE JobStream WITH outcome <- answer

nativeVars == <<phase, length, delivered, stop, answer>>
jobVars    == <<jobClosed, destroyed>>
vars == <<worker, consumer, blocks, got, stopped, completed, failure, outcome, ended,
          jobVars, nativeVars>>

WorkerSteps   == {"start", "native", "accept", "put", "return", "report", "close",
                  "mark", "complete", "done"}
ConsumerSteps == {"test", "test2", "get", "yielded", "after", "stop", "guard",
                  "cancel", "join", "over"}
Errors        == {"RuntimeError", "CallbackError", "FAILED", "CANCELLED"}

WorkerGoes(from, to) == worker = from /\ worker' = to /\ UNCHANGED <<consumer, got, stopped, ended>>
ConsumerGoes(from, to) ==
  consumer = from /\ consumer' = to /\ UNCHANGED <<worker, completed, failure, outcome, jobVars>>
OnlyWorker   == UNCHANGED <<blocks, completed, failure, outcome, jobVars, nativeVars>>
OnlyConsumer == UNCHANGED <<blocks, got, stopped, ended, nativeVars>>

-----------------------------------------------------------------------------
(* Faulty variants of the actions below, used by no specification.         *)

\* queue.Full is taken for success: the block is lost.
PutDropsWhenFull ==
  /\ Len(blocks) = Capacity /\ WorkerGoes("put", "native")
  /\ Native!Deliver
  /\ UNCHANGED <<blocks, completed, failure, outcome, jobVars>>

\* put has no timeout.
PutNeverTimesOut == FALSE /\ WorkerGoes("put", "accept") /\ OnlyWorker

\* "while not blocks.empty() or not completed.is_set()".
LoopTestSwapped ==
  /\ \/ ConsumerGoes("test", IF blocks # <<>> THEN "get" ELSE "test2")
     \/ ConsumerGoes("test2", IF completed THEN "after" ELSE "get")
  /\ OnlyConsumer

\* The worker ends without setting completed.
CompleteWithoutSet == WorkerGoes("complete", "done") /\ OnlyWorker

\* The status of the run is looked at before the callback's error.
ReportStatusFirst ==
  /\ WorkerGoes("report", "close")
  /\ outcome' = CASE answer \in {"FAILED", "CANCELLED"} /\ ~stopped -> Append(outcome, answer)
                  [] failure /\ (answer = "OK" \/ stopped) -> Append(outcome, "CallbackError")
                  [] OTHER -> outcome
  /\ UNCHANGED <<blocks, completed, failure, jobVars, nativeVars>>

-----------------------------------------------------------------------------
(* The worker thread.                                                      *)

RunStarts ==
  /\ WorkerGoes("start", "native") /\ Native!Begin
  /\ UNCHANGED <<blocks, completed, failure, outcome, jobVars>>

\* kgv_job_run calls back unless it saw a cancel...
NativeCalls ==
  WorkerGoes("native", "accept") /\ delivered < length /\ ~stop /\ OnlyWorker

\* ...and returns when it has delivered everything, fails or saw a cancel.
NativeAnswers ==
  /\ WorkerGoes("native", "return") /\ Native!Answer /\ UNCHANGED stop
  /\ UNCHANGED <<blocks, completed, failure, outcome, jobVars>>

\* A callback that returns zero makes the run answer KGV_CANCELLED.
Refuse == WorkerGoes("accept", "return") /\ Native!Answer /\ answer' = "CANCELLED"

\* accept: the loop over stopped and the put.
Accept ==
  \/ ~stopped /\ WorkerGoes("accept", "put") /\ OnlyWorker
  \/ /\ stopped /\ Refuse
     /\ UNCHANGED <<blocks, completed, failure, outcome, jobVars>>

\* The sample rate is not the one expected: accept leaves an error and refuses.
AcceptWrongRate ==
  /\ Refuse /\ outcome' = Append(outcome, "RuntimeError")
  /\ UNCHANGED <<blocks, completed, failure, jobVars>>

\* dispatch catches what the callback raises, for Job.run to raise it again.
CallbackFails ==
  /\ Refuse /\ failure' = TRUE
  /\ UNCHANGED <<blocks, completed, outcome, jobVars>>

Put ==
  /\ Len(blocks) < Capacity /\ WorkerGoes("put", "native")
  /\ blocks' = Append(blocks, delivered + 1)
  /\ Native!Deliver
  /\ UNCHANGED <<completed, failure, outcome, jobVars>>

\* The timeout of put: queue.Full only if the queue is full at that time.
PutTimesOut == Len(blocks) = Capacity /\ WorkerGoes("put", "accept") /\ OnlyWorker

RunReturns ==
  /\ WorkerGoes("return", "report") /\ Native!End
  /\ UNCHANGED <<blocks, completed, failure, outcome, jobVars>>

\* Job.run raises the callback's error before it looks at the status; the
\* worker keeps every error but a cancellation asked for by the generator.
Report ==
  /\ WorkerGoes("report", "close")
  /\ outcome' = CASE failure -> Append(outcome, "CallbackError")
                  [] ~failure /\ answer = "FAILED" -> Append(outcome, "FAILED")
                  [] ~failure /\ answer = "CANCELLED" /\ ~stopped -> Append(outcome, "CANCELLED")
                  [] OTHER -> outcome
  /\ UNCHANGED <<blocks, completed, failure, jobVars, nativeVars>>

\* Job.close: kgv_job_destroy cancels and frees the job, and only then is
\* it marked as closed.
DestroyJob ==
  /\ WorkerGoes("close", "mark") /\ destroyed' = TRUE /\ Native!Stop
  /\ UNCHANGED <<blocks, completed, failure, outcome, jobClosed>>

MarkClosed ==
  /\ WorkerGoes("mark", "complete") /\ jobClosed' = TRUE
  /\ UNCHANGED <<blocks, completed, failure, outcome, destroyed, nativeVars>>

Complete ==
  /\ WorkerGoes("complete", "done") /\ completed' = TRUE
  /\ UNCHANGED <<blocks, failure, outcome, jobVars, nativeVars>>

-----------------------------------------------------------------------------
(* The generator.                                                          *)

\* "while not completed.is_set() or not blocks.empty()": two reads.
LoopTest ==
  /\ \/ ConsumerGoes("test", IF completed THEN "test2" ELSE "get")
     \/ ConsumerGoes("test2", IF blocks = <<>> THEN "after" ELSE "get")
  /\ OnlyConsumer

Get ==
  /\ blocks # <<>> /\ ConsumerGoes("get", "yielded")
  /\ got' = Append(got, Head(blocks)) /\ blocks' = Tail(blocks)
  /\ UNCHANGED <<stopped, ended, nativeVars>>

GetTimesOut == blocks = <<>> /\ ConsumerGoes("get", "test") /\ OnlyConsumer

\* The client asks for the next block...
Resume == ConsumerGoes("yielded", "test") /\ OnlyConsumer

\* ...or abandons the generator.
Abandon ==
  /\ ConsumerGoes("yielded", "stop") /\ ended' = "abandoned"
  /\ UNCHANGED <<blocks, got, stopped, nativeVars>>

RaiseOutcome ==
  /\ ConsumerGoes("after", "stop")
  /\ ended' = IF outcome # <<>> THEN "raised" ELSE "exhausted"
  /\ UNCHANGED <<blocks, got, stopped, nativeVars>>

SetStopped ==
  /\ ConsumerGoes("stop", "guard") /\ stopped' = TRUE
  /\ UNCHANGED <<blocks, got, ended, nativeVars>>

\* Job.cancel looks at _closed...
CancelGuard ==
  ConsumerGoes("guard", IF jobClosed THEN "join" ELSE "cancel") /\ OnlyConsumer

\* ...and then calls kgv_job_cancel.  If the job has been freed in between
\* the call touches freed memory; nothing comes of it here.
CancelJob ==
  /\ ConsumerGoes("cancel", "join") /\ Native!Stop
  /\ UNCHANGED <<blocks, got, stopped, ended>>

Join == worker = "done" /\ ConsumerGoes("join", "over") /\ OnlyConsumer

-----------------------------------------------------------------------------
\* The generator has been started by its first next: the job is created and
\* the worker thread is running.
Init ==
  /\ worker = "start" /\ consumer = "test"
  /\ blocks = <<>> /\ got = <<>>
  /\ stopped = FALSE /\ completed = FALSE /\ failure = FALSE /\ outcome = <<>>
  /\ ended = "no" /\ jobClosed = FALSE /\ destroyed = FALSE
  /\ phase = 0 /\ length \in 0..MaxBlocks /\ delivered = 0 /\ stop = FALSE /\ answer = "none"

WorkerNext ==
  \/ RunStarts \/ NativeCalls \/ NativeAnswers \/ Accept \/ AcceptWrongRate
  \/ CallbackFails \/ Put \/ PutTimesOut \/ RunReturns \/ Report
  \/ DestroyJob \/ MarkClosed \/ Complete

GeneratorNext ==
  \/ LoopTest \/ Get \/ GetTimesOut \/ RaiseOutcome \/ SetStopped
  \/ CancelGuard \/ CancelJob \/ Join

ClientNext == Resume \/ Abandon

Next == WorkerNext \/ GeneratorNext \/ ClientNext

Spec == Init /\ [][Next]_vars

\* Both threads are scheduled; the client need not come back for more.
FairSpec == Spec /\ WF_vars(WorkerNext) /\ WF_vars(GeneratorNext)

\* A client that always comes back, to go on or to abandon the generator.
PatientSpec == FairSpec /\ WF_vars(ClientNext)

-----------------------------------------------------------------------------
(* Properties.                                                             *)

TypeOK ==
  /\ worker \in WorkerSteps /\ consumer \in ConsumerSteps
  /\ blocks \in Seq(1..MaxBlocks) /\ Len(blocks) <= Capacity
  /\ got \in Seq(1..MaxBlocks)
  /\ stopped \in BOOLEAN /\ completed \in BOOLEAN /\ failure \in BOOLEAN
  /\ outcome \in Seq(Errors)
  /\ ended \in {"no", "abandoned", "raised", "exhausted"}
  /\ jobClosed \in BOOLEAN /\ destroyed \in BOOLEAN
  /\ phase \in 0..2 /\ length \in 0..MaxBlocks /\ delivered \in 0..length
  /\ stop \in BOOLEAN /\ answer \in {"none", "OK", "FAILED", "CANCELLED"}

\* What the client got followed by what is queued is every block that was
\* accepted from the native run, once and in order, however often put or get
\* time out (kilix_voicegen.py:246-256, 276-279).
BlocksInOrder ==
  /\ Len(got) + Len(blocks) = delivered
  /\ \A i \in 1..Len(got) : got[i] = i
  /\ \A i \in 1..Len(blocks) : blocks[i] = Len(got) + i

\* The iteration ends without an exception only if the native run succeeded
\* and every block of the job was yielded: neither the last block nor an
\* error is lost in the race between the worker's end and the generator's
\* test (kilix_voicegen.py:258-282).
EndsHonestly == ended = "exhausted" => answer = "OK" /\ Len(got) = length

\* An exception comes after every block that was accepted before it, and is
\* the first error that happened, never the cancellation it led to.
RaisesLast ==
  ended = "raised" =>
    /\ Len(got) = delivered
    /\ answer # "OK" /\ outcome[1] # "CANCELLED"

\* kgv_job_cancel is called on a job that exists.
CancelledJobAlive == consumer = "cancel" => ~destroyed

\* Closing the generator returns, whatever the worker is doing and even if
\* the queue is full and nobody will ever take a block out of it again.
CloseReturns == consumer = "stop" ~> consumer = "over"

\* A client that keeps asking sees the end of the stream.
StreamEnds == <>(consumer = "over")

-----------------------------------------------------------------------------
(* The inductive invariant.                                                *)

InRun     == {"start", "native", "accept", "put"}
Reported  == {"close", "mark", "complete", "done"}
Iterating == {"test", "test2", "get", "yielded", "after"}

\* How far the worker is tells what the native job has answered.
WorkerInv ==
  /\ worker \in InRun <=> answer = "none"
  /\ worker \in {"accept", "put"} => delivered < length
  /\ phase = IF worker = "start" THEN 0
             ELSE IF worker \in InRun \cup {"return"} THEN 1 ELSE 2
  /\ answer = "OK" => delivered = length
  /\ completed => worker = "done"

\* Every way not to succeed leaves an error, unless the generator asked for
\* it; the first error is never the cancellation that followed from it.
ErrorInv ==
  /\ worker \in InRun => outcome = <<>> /\ ~failure /\ (stop => stopped)
  /\ worker \in {"return", "report"} /\ ~stopped /\ answer = "CANCELLED" =>
       outcome # <<>> \/ failure
  /\ outcome # <<>> \/ failure => answer \in {"FAILED", "CANCELLED"}
  /\ worker \in Reported /\ ~stopped /\ answer # "OK" => outcome # <<>>
  /\ outcome # <<>> => outcome[1] # "CANCELLED"

\* The generator tests the queue only after it has seen the worker's end.
GeneratorInv ==
  /\ stopped <=> consumer \notin Iterating \cup {"stop"}
  /\ consumer \in Iterating <=> ended = "no"
  /\ consumer \in {"test2", "after"} => completed
  /\ consumer = "after" => blocks = <<>>
  /\ ended \in {"raised", "exhausted"} => worker = "done" /\ blocks = <<>>
  /\ ended = "raised" => outcome # <<>>

IInv == TypeOK /\ BlocksInOrder /\ WorkerInv /\ ErrorInv /\ GeneratorInv /\ EndsHonestly /\ RaisesLast
=============================================================================
