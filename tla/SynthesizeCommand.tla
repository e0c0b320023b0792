------------------------- MODULE SynthesizeCommand -------------------------
(***************************************************************************)
(* The commands verify and synthesize (src/src/cli/main.cpp): an engine is *)
(* opened on a package as EngineOpen says, one job runs on it as JobStream *)
(* says, and its PCM goes to a WAV file whose header is written twice.     *)
(* Other programs may put a file or a link where the output belongs, and   *)
(* memory may run out in main.cpp itself, which ends the command at once.  *)
(***************************************************************************)
EXTENDS EngineOpen

CONSTANTS
  MaxBlocks,    (* bound on the PCM callbacks of the job                   *)
  BlockFrames,  (* frames per callback                                     *)
  WordSize      (* the numbers of a 32-bit word, 2^32 in the code          *)

ASSUME WordAssumption == WordSize \in Nat /\ WordSize > 36
ASSUME BlocksAssumption == MaxBlocks \in Nat /\ BlockFrames \in Nat

VARIABLES
  command, pc, code,  \* what was asked for, where it is, its exit status
  caught,             \* main has caught an exception of its command
  phase, length, delivered, stop, outcome,  \* the job, as JobStream has it
  job,                \* "none", "live" or "destroyed"
  output, holds,      \* what the output path is, and whose data it leads to
  linked, stray,      \* it was a link when it was opened; own data stays elsewhere
  header,             \* the sizes that the header of the own file claims
  frames, failed,     \* WavSink
  good,               \* sink.stream is good
  lost, raced,        \* a file of others was lost; one came after the check
  refused             \* remove could not remove the file

jobVars == <<phase, length, delivered, stop, outcome>>
fileVars == <<output, holds, linked, stray, lost, refused>>
sinkVars == <<header, frames, failed, good>>
wavVars == <<fileVars, sinkVars>>
vars == <<openVars, command, pc, code, caught, jobVars, job, wavVars, raced>>

Job == INSTANCE JobStream

NoFile == [data |-> 0, riff |-> 0]
\* wav_header: sizes in 32 bits.
WavHeader(data) == [data |-> data % WordSize, riff |-> (36 + data) % WordSize]
\* The frames that write_pcm takes in all.
FrameLimit == (WordSize - 1) \div 2

\* What others may put at the output path; a link may lead nowhere.
Foreign == {<<"file", "others">>, <<"link", "others">>, <<"link", "none">>}

Init ==
  /\ \E case \in Cases : disk = case[1] /\ pin = case[2] /\ budget = case[3]
  /\ OpenIdle
  /\ command \in {"verify", "synthesize"} /\ pc = "start" /\ code = 0
  /\ caught = FALSE
  /\ Job!Init /\ job = "none"
  /\ output \in {"none", "file"} /\ holds = IF output = "none" THEN "none" ELSE "others"
  /\ linked = FALSE /\ stray = FALSE /\ header = NoFile
  /\ frames = 0 /\ failed = FALSE /\ good = FALSE
  /\ lost = FALSE /\ raced = FALSE /\ refused = FALSE

Exit(n) == pc' = "exited" /\ code' = n /\ UNCHANGED caught
Goto(next) == pc' = next /\ UNCHANGED <<code, caught>>
\* main's catch: it has neither the handles nor the output.
Catch == pc' = "exited" /\ code' = 1 /\ caught' = TRUE
\* kgv_job_destroy and kgv_engine_close.
Destroy == job' = "destroyed"
Close == engine' = NoEngine /\ frontend' = <<>> /\ UNCHANGED packageVars

-----------------------------------------------------------------------------
(* Up to the engine.                                                       *)

\* A missing or malformed option, or standard input too large.
RefuseUsage ==
  /\ pc = "start" /\ Exit(2)
  /\ UNCHANGED <<openVars, command, jobVars, job, wavVars, raced>>

\* No memory for the options, the input or the output path.
StartThrows ==
  /\ pc \in {"start", "check"} /\ Catch
  /\ UNCHANGED <<openVars, command, jobVars, job, wavVars, raced>>

OpenEngine ==
  Goto("open") /\ step' = "pin" /\ UNCHANGED <<files, progress, status, frontend, engine>>
StartVerify ==
  /\ pc = "start" /\ command = "verify" /\ OpenEngine
  /\ UNCHANGED <<command, jobVars, job, wavVars, raced>>
StartSynthesize ==
  /\ pc = "start" /\ command = "synthesize" /\ Goto("check")
  /\ UNCHANGED <<openVars, command, jobVars, job, wavVars, raced>>

\* (faulty: an output that exists is overwritten.)
CheckNothing ==
  /\ pc = "check" /\ OpenEngine
  /\ UNCHANGED <<command, jobVars, job, wavVars, raced>>
\* The question is what the path leads to: a link that leads nowhere passes.
CheckOutput ==
  /\ pc = "check"
  /\ IF holds # "none" THEN Exit(2) /\ UNCHANGED openVars ELSE OpenEngine
  /\ UNCHANGED <<command, jobVars, job, wavVars, raced>>
\* The path cannot be inspected.
CheckFails ==
  /\ pc = "check" /\ Exit(2)
  /\ UNCHANGED <<openVars, command, jobVars, job, wavVars, raced>>

Opening ==
  /\ pc = "open" /\ OpenStep
  /\ UNCHANGED <<command, pc, code, caught, jobVars, job, wavVars, raced>>
Opened ==
  /\ pc = "open" /\ step = "ended"
  /\ IF status # "OK" THEN Exit(1) /\ UNCHANGED openVars
     ELSE IF command = "verify" THEN Close /\ Exit(0)
     ELSE Goto("create") /\ UNCHANGED openVars
  /\ UNCHANGED <<command, jobVars, job, wavVars, raced>>

-----------------------------------------------------------------------------
(* The job and the file.                                                   *)

CreateJob ==
  /\ pc = "create" /\ Goto("file") /\ job' = "live" /\ length' \in 0..MaxBlocks
  /\ UNCHANGED <<openVars, command, phase, delivered, stop, outcome, wavVars, raced>>
CreateFails ==
  /\ pc = "create" /\ Close /\ Exit(1)
  /\ UNCHANGED <<command, jobVars, job, wavVars, raced>>

\* What the path leads to is made, or truncated, whoever made it.
Truncate ==
  /\ output' = (IF output = "link" THEN "link" ELSE "file") /\ holds' = "own"
  /\ linked' = (output = "link") /\ lost' = (lost \/ holds = "others")
  /\ UNCHANGED <<stray, refused>>
\* The first header may not reach the file.
OpenFile ==
  /\ pc = "file" /\ Goto("run") /\ Job!Begin /\ Truncate
  /\ header' = WavHeader(0) /\ good' \in BOOLEAN
  /\ UNCHANGED <<openVars, command, job, frames, failed, raced>>
OpenFileFails ==
  /\ pc = "file" /\ Destroy /\ Close /\ Exit(1)
  /\ UNCHANGED <<command, jobVars, wavVars, raced>>
\* No memory for the stream's buffer, once the file is open.
OpenFileThrows ==
  /\ pc = "file" /\ Truncate /\ Catch
  /\ UNCHANGED <<openVars, command, jobVars, job, sinkVars, raced>>

\* (faulty: the limit forgets that a frame has two bytes.)
FitsFrames == frames <= WordSize - 1 - BlockFrames
Fits == frames <= FrameLimit - BlockFrames
\* write_pcm takes a block, or refuses it, which ends the run.
WriteBlock ==
  /\ pc = "run" /\ Job!Deliver /\ Fits /\ good
  /\ frames' = frames + BlockFrames
  /\ UNCHANGED <<openVars, command, pc, code, caught, job, fileVars, header, failed, good, raced>>
RefuseBlock ==
  /\ pc = "run" /\ delivered < length
  /\ Job!Answer /\ outcome' = "CANCELLED"
  /\ failed' = TRUE /\ good' = (good /\ ~ Fits)
  /\ UNCHANGED <<openVars, command, pc, code, caught, job, fileVars, header, frames, raced>>
\* Nobody cancels this job, but it may fail, also for want of memory in write_pcm,
\* which kgv_job_run catches.
EndBlocks ==
  /\ pc = "run" /\ Job!Answer /\ outcome' # "CANCELLED"
  /\ UNCHANGED <<openVars, command, pc, code, caught, job, wavVars, raced>>
EndJob ==
  /\ pc = "run" /\ Job!End /\ Destroy /\ Close /\ Goto("header")
  /\ UNCHANGED <<command, wavVars, raced>>

\* The second header, and what was buffered: the stream may go bad only now.
WriteHeader ==
  /\ pc = "header" /\ Goto("judge")
  /\ IF outcome = "OK" /\ ~ failed
     THEN \/ good /\ header' = WavHeader((2 * frames) % WordSize) /\ UNCHANGED good
          \/ good' = FALSE /\ UNCHANGED header
     ELSE UNCHANGED <<header, good>>
  /\ UNCHANGED <<openVars, command, jobVars, job, fileVars, frames, failed, raced>>

OutputOK == outcome = "OK" /\ ~ failed /\ good

\* The path is unlinked: of a link, only the link goes.
Unlink ==
  /\ lost' = (lost \/ (output = "file" /\ holds = "others"))
  /\ stray' = (stray \/ (output = "link" /\ holds = "own"))
  /\ UNCHANGED <<linked, refused>>
\* (faulty: the file stays when the job and not the sink has failed.)
RemoveRefusedOnly ==
  IF failed THEN output' = "none" /\ holds' = "none" /\ Unlink ELSE UNCHANGED fileVars
\* What is at the path by now is removed, or cannot be.
Remove ==
  \/ output' = "none" /\ holds' = "none" /\ Unlink
  \/ refused' = TRUE /\ UNCHANGED <<output, holds, linked, stray, lost>>

Conclude ==
  /\ pc = "judge"
  /\ IF OutputOK THEN Exit(0) /\ UNCHANGED fileVars ELSE Exit(1) /\ Remove
  /\ UNCHANGED <<openVars, command, jobVars, job, sinkVars, raced>>
\* No memory for the path to be removed.
RemoveThrows ==
  /\ pc = "judge" /\ ~ OutputOK /\ Catch
  /\ UNCHANGED <<openVars, command, jobVars, job, wavVars, raced>>

\* Another program puts a file or a link of its own where the output belongs.
Intrude ==
  /\ pc # "exited" /\ command = "synthesize" /\ holds # "others"
  /\ budget > 0 /\ budget' = budget - 1
  /\ \E place \in Foreign : output' = place[1] /\ holds' = place[2]
  /\ raced' = (raced \/ pc \notin {"start", "check"})
  /\ stray' = (stray \/ (output = "link" /\ holds = "own"))
  /\ UNCHANGED <<disk, touched, pin, step, progress, status, frontend, engine, command, pc, code,
                 caught, jobVars, job, sinkVars, linked, lost, refused>>

Next == \/ RefuseUsage \/ StartThrows \/ StartVerify \/ StartSynthesize \/ CheckOutput \/ CheckFails
        \/ Opening \/ Opened \/ CreateJob \/ CreateFails \/ OpenFile \/ OpenFileFails
        \/ OpenFileThrows \/ WriteBlock \/ RefuseBlock \/ EndBlocks \/ EndJob \/ WriteHeader \/ Conclude
        \/ RemoveThrows \/ Intrude

Spec == Init /\ [][Next]_vars

-----------------------------------------------------------------------------
(* Properties.                                                             *)

\* A synthesis that exits with 0 leaves the whole audio of a job that ended
\* well under a header with its true size, as long as 32 bits can tell it and
\* nobody put another file there (cli/main.cpp:191-213, 355-369).  The size in
\* the RIFF chunk is true only up to 36 bytes below that.  What the system may yet
\* do to what was flushed, a failure of close() included, is beyond it.
WavWhole ==
  pc = "exited" /\ code = 0 /\ command = "synthesize" =>
    /\ outcome = "OK" /\ delivered = length
    /\ header.data = 2 * BlockFrames * length
    /\ header.data < WordSize - 36 => header.riff = 36 + header.data
    /\ raced \/ holds = "own"

\* Memory ran out with a job at hand.
Abandoned == caught /\ job # "none"

\* A command that exits, unless memory ran out in it with a job at hand, has given
\* back its engine and its job; and if it failed, the output path leads to nothing
\* that it has written, unless the removal was refused, and no other does, unless
\* the path was a link when it was opened (cli/main.cpp:327-383, 422-432).
NothingLeftBehind ==
  pc = "exited" /\ ~ Abandoned =>
    /\ engine = NoEngine /\ job # "live"
    /\ code # 0 => (holds # "own" \/ refused) /\ (stray => linked)

\* A file of somebody else is lost only if it came to be after the check that
\* there is none; a link that leads nowhere is no file
\* (cli/main.cpp:310-319, 346-353, 371-373).
OthersKept == lost => raced
=============================================================================
