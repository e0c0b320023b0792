# Verification of Kilix Voicegen

TLA+ models of Kilix Voicegen, an offline text-to-speech engine with a C ABI,
with the properties that TLC checks on small instances and the theorems that
TLAPS proves for every instance. Paths are those of the repository; the C++
sources are under `src/src/`.

`PROJECT.json` is the index: the components, the runs, a mutant for every
checked property, the lines of source each definition stands for, the hazards,
the findings and the theorems.

    tlc -workers 2 -config EngineJobPiper.cfg MCEngineJob.tla
    tlapm EngineJobProofs.tla

## Inventory

| Component | State | Operations | What makes it correct |
|---|---|---|---|
| C ABI, engine and job (`runtime/engine.cpp`) | engine: references, closed, claimed; job: state 0/1/2, cancelled, a mutex and a condition variable | open, close; create, run, cancel, destroy | one job at a time; the engine is freed exactly once and after its last use; a destroy waits for the run; a cancel ends it; the answer of a run is true |
| Piper runtime (`runtime/piper_runtime.cpp`) | the ONNX session, `active_run_options` under `active_mutex` | `run_chunk`, `resample_and_emit`, `cancel_active` | a cancel terminates the inference of its job and no other, and never touches released options |
| Python binding (`bindings/python/kilix_voicegen.py`) | queue, two events, list of errors, `_closed` | `stream_pcm`, `Job.run/cancel/close` | blocks complete and in order, errors reported, nobody stuck |
| Model-token serializer (`frontend/tokenization.cpp`) | tables built once per call | `load_model_token_inventory`, `serialize_model_tokens` | every word in one chunk, every chunk in the budget, the cuts where the documentation says |
| Piper projection (`runtime/piper_projection.cpp`) | a map of IDs | load, project a chunk | bound to the inventory it projects from |
| Text analysis (`frontend/frontend.cpp`) | scanner | analyse, normalise | spans stay within the text, controls never reach speech |
| Lexical pipeline (`frontend/pipeline.cpp`) | builder of words and phrases, budgets, flags | number words, units, paths, terminal text | budgets hold, phrases cover words, nothing partial is returned |
| Overrides (`frontend/overrides.cpp`) | map of segments | replace, map spans back | spans of the output name the right input |
| Resolution (`frontend/resolution.cpp`) | the words resolved so far, two lists of diagnostics | resolve every word, then the weak forms from the end | precedence of the sources; nothing listed is guessed; the weak forms agree with what is spoken |
| Lexicon, heteronyms, morphology, weak forms (`frontend/pronunciation.cpp`, `heteronyms.cpp`, `morphology.cpp`, `weak_forms.cpp`) | immutable tables | load, look up, match, inflect | what a loader lets in serves every word; a rule's role exists |
| Letter-to-sound model (`frontend/lts.cpp`) | an immutable graph | `validate_graph`, `pronounce` | an accepted graph is walked to a leaf within the limit |
| Packages (`runtime/model_package.cpp`, `frontend_package.cpp`) | verified bytes | verify RELEASE, MANIFEST, payloads; load and bind the front end | what is used is what was pinned, and its parts fit each other |
| CLI (`cli/main.cpp`) | the output file | verify, frontend, synthesize | exit 0 means a complete file, a failure that is answered removes it; no file that was there at the check is overwritten |
| JSON, SHA-256, tools, build | - | parsing, hashing, batch programs | covered by their tests |

How they interact: the CLI and the binding call the ABI. `kgv_job_create` runs
the whole front end (analysis, overrides, lexical pipeline, resolution,
serialization, projection) on the calling thread and only then claims the
engine; `kgv_job_run` calls the Piper runtime, or generates the fixture's tone,
and calls back into the client block by block on the thread that runs the job.
Cancels and destroys come from other threads, or (cancels) from the callback.

What is hard: the threads. Everything the ABI shares is atomics, one mutex per
job, one condition variable and one mutex around the pointer to ONNX Runtime's
run options. The binding adds two events and a bounded queue with timeouts. A
package is read file by file in several system calls each, while other programs
may change it; so may they the output of the CLI. The front end is sequential;
there the hard parts are budgets at their limits, searches, span arithmetic, a
pass whose decisions depend on its own later ones, and resources of separate
files that must fit each other for every word.
The complete list of hazards, with their lines, is in `PROJECT.json`.

## Modules

    EngineJob            the ABI's engine and jobs, with Piper's cancellation
      SharedEngine         what an engine promises          (abstract)
      JobStream            what a job promises              (abstract)
      EngineJobRefinement  EngineJob implements both
      MCEngineJob          the instance for TLC
      EngineJobProofs      theorems
    StreamPcm            the binding's generator and worker, over JobStream
      StreamPcmProofs      theorems
    SpokenSpans          the spans of words and phrases, from overrides to the serializer
      SpokenSpansProofs    theorems
    Resolution           the pronunciation of every word
      FrontendResources    the resources and how they are bound to each other
        Graphemes, Lexicon, Heteronyms, Morphology, WeakForms   the tables
        MorphologyProofs     theorems on spellings and suffixes
      MCResolution         lexicons, rules and texts for TLC
      ResolutionProofs     theorems
    LtsModel             the letter-to-sound graph, validated and walked
      MCLtsModel           graphs and words for TLC
      LtsModelProofs       theorems
    TokenChunking        the model-token serializer
      TokenChunkingProofs  theorems
    SynthesizeCommand    verify and synthesize of the CLI, over JobStream
      EngineOpen           kgv_engine_open: loaders, bindings, probe, session
        ModelPackage         RELEASE, MANIFEST and payloads, file by file
      PackageCases         packages sound and broken
      MCSynthesizeCommand  disks and changes for TLC
      SynthesizeCommandProofs  theorems

A request passes through the modules from SpokenSpans by Resolution to
TokenChunking; LtsModel answers for the words that Resolution cannot find.
SynthesizeCommand has the same FrontendResources as Resolution: what EngineOpen
accepts is what Resolution's assumptions on its bundles say. JobStream is the
seam between the native code and its users: EngineJob implements it, StreamPcm
and SynthesizeCommand use it.

### EngineJob

One engine, a set of jobs, a set of callers. The thread that creates and
destroys a job is its owner (`owner[j]` is its next step); callers run and
cancel jobs (`pc[c]`, `target[c]`). Every atomic operation is a step: the load
of `closed`, the exchange of `claimed`, the counter, each load and store of
`cancelled` and `state`, the notification. The sections under `active_mutex`
(`Publish`, `Retract`, `CancelActive`) are one step each since nothing outside
them reads what they write. Of the code:

- `kgv_job_create`: `StartCreate`, `CheckClosed` (with the front end, which may
  refuse the request and touches no shared state), `Claim`, `RetainForJob`, `MakeJob`;
  `AllocFails`, `Unclaim`, `ReleaseByJob` are its catch blocks.
- `kgv_job_run`: `StartRun`, `ClaimRun`, `PreCheck`, `LoopHead`; for a chunk of
  Piper `PrepareFails`, `Publish`, `InferEnds` or `InferTerminated`, `Retract`,
  `CheckError` or `CheckOutput`, `EmitCheck`; the callback; `Finish`, `Notify`
  are the two statements of `~FinishRun`. A run of the fixture goes from
  `LoopHead` to the callback directly.
- `kgv_job_cancel`: `CancelStore`, `CancelTerminate`, from a caller, from inside
  a callback, and as the first two steps of a destroy.
- `kgv_job_destroy`: from `StartDestroy` to `DeleteJob` and `ReleaseByJob`. The
  wait is three steps, the test of the predicate, the blocking and the
  notification (or a spurious wakeup). `state_mutex` is not a variable: only
  destroyers take it, and a job has one, so it excludes nobody. That is
  precisely why the notification can be lost.

Abstractions: a block is a number, so the polls inside `resample_and_emit` every
4096 samples are the same check as the one before the block (`EmitCheck`). The
number of blocks is chosen when the job is made; with Piper it anticipates what
the inferences will produce. `OrtApi::Run` is external: it may end at any time
and must end once its options are terminating; that `RunOptionsSetTerminate`
succeeds is assumed, the code ignores its failure. `Init` follows a
`kgv_engine_open` that succeeded; EngineOpen has the others.

What a client may do is in `EngineUsable`, `MayClose` and `MayDestroy`, with two
constants. `EarlyClose`: the header asks to destroy all jobs before closing the
engine; the reference count makes an engine closed early survive, and both are
checked. `DestroyDuring`: how far a run may be when its job is destroyed:
`"idle"`, no call on the job is in progress; `"running"`, a run may be in
progress but must have claimed the job; `"entered"`, a run call may just have
been entered. The header promises a destroy that waits for a run, so clients
that destroy during one are legal. A cancel concurrent with a destroy of the same job is
excluded everywhere: the caller would pass a pointer that is being freed. So is
a close during a create by an owner without another job: the create holds no
reference yet, and the engine would be freed under it.

### StreamPcm

The worker and the generator of `Engine.stream_pcm`, from the generator's first
`next`, when the job exists and its thread has started. The native job is an
INSTANCE of `JobStream`, which `EngineJob` is shown to implement. `Put` and
`Get` are the queue operations, `PutTimesOut` and `GetTimesOut` their timeouts,
`LoopTest` the two reads of `not completed.is_set() or not blocks.empty()`,
`CancelGuard` and `CancelJob` the two steps of `Job.cancel`, `DestroyJob` and
`MarkClosed` those of `Job.close`. The client may take the next block or abandon
the generator at any `yield`.

### SpokenSpans

What of the request a spoken word stands for, through four files. A request is a
number of bytes, with its characters and its graphemes as sets of offsets;
`step` is the loop the calling thread is in and `cursor` its index.

- `"copy"`: `copy_and_validate_overrides` of `engine.cpp`; an entry is admitted
  (`CopyEntry`) or the request refused.
- `"analyze"`, `"check"`, `"build"`: `run_override_lexical_frontend` checks the
  entries again, now for graphemes, and makes the text to be read and the map of
  spans, whose segments are variable `map`.
- `"read"`: `run_lexical_frontend` on that text. What a token is and what it
  expands into is left out: `Speak` takes any span that follows the last one and any
  number of words, all with that span, and `EndPhrase` any boundary. Spans may
  share bytes with the one before since scalars that were composed do.
- `"budget"`: `apply_lexical_chunk_budget`, one step per phrase or cut.
- `"words"`, `"phones"`: back to spans of the request, and the targets of phone
  overrides.
- `"resolve"`, `"hand"`: `run_resolved_frontend`; a word is refused with its
  span and override, phrases without words are dropped. `"handed"` is the call
  of `serialize_model_tokens`, where TokenChunking goes on.

`SpansAccepted` is what TokenChunking assumes when it leaves rejections for
spans to chance: for requests that come through the ABI there are none.
Abstractions: the syllables of a phone override may be wrong at will
(`EntryInvalid`), and the reading may be refused at any byte (`ReadFails`),
since both are decided by text the model does not have. Diagnostics are left
out. The ABI passes no word roles, so a word is refused for the other reasons
only. The model is finite because a request has at most `MaxText` bytes and
`MaxTokens` tokens and boundaries; a theorem holds for all values of both.

### TokenChunking

`serialize_model_tokens`, one step per iteration of its loops: read the words,
read the phrases, build the prefix sums, and cut chunk after chunk with the
binary search, the choice of a boundary and the building of the IDs, which are
counted one atom at a time, independently of the prefix sums. A word is the
length of its atom. What depends on spans, syllables and controls is a
rejection that may happen at the place where the code tests it.

### Resolution

`run_resolved_frontend` for one text, word by word (`cursor`), with its two
passes (`pc`). A bundle is what a package has installed, and need not fit.

- `Validate` is `validate_resources` and the count of roles; its verdict
  `BindingStatus` in FrontendResources is the list of conditions in the order of
  the code, the same that EngineOpen probes. `Loaded` is what the loaders let in:
  the tables of a package (`TablesLoaded`), and a letter-to-sound model that answers
  as LtsModel does.
- A word gets its role from the request, from a heteronym rule whose clause fits
  (`HeteronymMatches`), or none, and its pronunciation from the first layer that
  has one, an action each: `ByOverride`, `ByLexicon` (user before base, exact
  before folded), `ByMorphology` (one stem among the `Candidates`), `ByLts`. In
  between stand the refusals, `RefuseKnown` and `RefuseSpelling`.
- `KeepStrong` and `Weaken` are the second pass, from right to left, in which a
  rule looks at the segment after its word, which the pass may just have
  replaced. `WeakEnd` appends its diagnostics in the order of the words.
- `Serialize` asks what the serializer asks of every word.

A word is a spelling in letters, as far as folding, suffixes and rules look at
it. Spans are left to SpokenSpans, the answer for an unknown word to a table
that stands for LtsModel.

### LtsModel

`validate_graph` is the recursive lambda `visit`; its calls are an explicit
`stack` of frames, `Visit` and `Leave` are a call and a return. The search
memorises the depth of nodes already left, and C++ does not say which argument
of `std::max` it visits first, so any branch may come next. `Judge` is the test
for nodes nobody reached. `pronounce` follows: `Begin`, `NextSymbol`, `Walk` for
one node, `Emit` for one emission of the leaf with its three limits, `Finish`.
The files' grammar is left out: `Graphs` is what `parse_node` lets in.

### ModelPackage, EngineOpen

`verify_model_package` with one step for every access to a file: the components
of its path (`Walk`), its type (`Regular`), its size, its bytes (`Read`), and
what they say (`JudgeRelease`, `JudgeManifest`, `CheckEntry`, `JudgePayload`,
`EndOfFiles`). Between two of them another program may `Change` the directory,
as often as `budget` allows. A file's content is a name that stands for its
SHA-256 as well, so that no two contents have one hash. What JSON says is the
record `Body` of a content, with the verdict on the sections that concern no
other file as a field of it.

EngineOpen continues with `LoadFrontend` (each loader in the order of the code
and how it judges its header, then the probe with the empty text),
`LoadProjection` and `CreateSession` for Piper, and `Publish`, the only step
that sets the caller's engine.

### SynthesizeCommand

The two commands that open an engine. `CheckOutput` looks whether the output
exists, long before `OpenFile` truncates it; `Intrude` is another program that
puts a file or a link there before, in between, or later. `output` is what the path
is, `holds` whose data it leads to: `exists` and the opening follow a link, also to
make the file it names, while `remove` takes the link alone, so that what was
written stays where it is (`stray`). (The Python tools of the repository ask for
links too, the CLI does not.) The job is an INSTANCE of JobStream;
`WriteBlock` and `RefuseBlock` are `write_pcm`, and `WriteHeader` writes the
sizes modulo `WordSize`. The stream may go bad when the file is opened, in a
block or at the end, and `remove` may be refused.

Memory may run out in `main.cpp` itself: for the options and the input
(`StartThrows`), for the buffer of the stream once the file is there
(`OpenFileThrows`), for the path to be removed (`RemoveThrows`). `main`'s catch
(`Catch`) then exits with 1 and undoes nothing. What `write_pcm` throws passes
through `kgv_job_run`, which answers for it (`EndBlocks`). The failure of `close()`
after a flush that succeeded is ignored by the code and not modelled: what is
checked is what the program has handed to the system.

## Runs

| Run | Shows | Bounds |
|---|---|---|
| EngineJobPiper | the engine is never used after it is freed, one synthesis at a time, a cancel reaches its own inference and is not lost, at most one late callback, nothing after a destroy; a job implements JobStream | 2 jobs, 2 callers besides the owners, 3 blocks in chunks of 2, closed early, destroyed during runs |
| EngineJobQuiet | destroys return, the engine is freed, a cancelled run ends (liveness); the engine implements SharedEngine | 2 jobs, 2 callers, 1 block, closed early, destroyed when idle |
| EngineJobLostWakeup | VIOLATED: a destroy during a run may never return | fixture, 1 job, 1 caller |
| EngineJobNotifyFreed | VIOLATED: `~FinishRun` may notify a freed job | fixture, 1 job, 1 caller |
| StreamPcm | order, completeness, errors; closing the generator returns and the stream ends (liveness) | 5 blocks, queue of 2 |
| StreamPcmCancelFreed | VIOLATED: the generator may cancel a freed job | 2 blocks, queue of 1 |
| SpokenSpans | spans of words and phrases, the words of replacements and phone overrides, the place of rejections | requests of 0 to 3 bytes, 2 overrides, replacements of 1 or 2 bytes, expanded texts of at most 4, 3 tokens or boundaries of up to 2 words, lexical chunks of 2 words |
| TokenChunking | the chunks, the cuts, the rejections; an answer is reached (liveness) | texts of 0 to 4 words of 4 or 10 IDs, all phrasings, budgets 12 and 17, limit 30 |
| LtsModel | a graph is accepted exactly if no path is too long and no node unreached; an accepted graph is walked to a leaf; a pronunciation is whole | all graphs of 4 nodes of which 2 or 3 decide, step limits 2 and 3, words of up to 3 symbols, 5 segments, 3 syllables |
| Resolution | the weak forms have settled, nothing known is guessed, the warnings are true, only guesses are refused by the serializer, the stems are those of the inflections | texts of up to 3 words in every phrasing, 5 bundles that fit and 10 that do not, every word of up to 4 letters with 13 endings |
| ResolutionWeakRole | VIOLATED: a rule that matched may name a role its word has not got | the same |
| SynthesizeCommand | an engine is made of pinned bytes, of tables that loaded and fit; sound packages are accepted; exit 0 means a whole file; a failure gives everything back and leaves no file, but for `main`'s catch, a refused removal and links | some 40 packages, up to 2 changes by others to the sound fixture package or the output and 1 to the product's, 3 blocks of 13 frames, words of 64 numbers |

Why these bounds are enough. Two jobs are what it takes for a slow cancel or
destroy of one to meet the next; a third adds nothing but another round. Besides
the owners, two callers are a run and a cancel, or a run of each job. Three
blocks in chunks of two let a cancel come before, between and after callbacks
and inferences. A queue of one or two is full and empty within a few blocks. Budgets
of 12 and 17 IDs hold one word and three, reject a long word or take it, and a
limit of 30 is passed by the words and, in other texts, only by the chunks.
Three bytes are one before, in and after an override, or two overrides and a
byte between or beside them; with replacements of two bytes the expanded text
reaches its limit of 4, and beyond it where it is refused. Three tokens make a
word across two replacements beside others, and up to six words in chunks of two.
Four nodes make a node of depth 1 that is shared at two depths, one that is left
before it is found again, a cycle and a node nobody reaches, on either side of
both step limits. Three words are what a chain of weak forms needs, where the
last makes the middle change and the middle the first, within a phrase and
across its end. Three blocks of 13 frames pass the 31 frames that a data size
below 64 holds, and the second leaves less than the 36 bytes of the RIFF header. Two
changes are a file replaced and put back, two files exchanged, or a link at the output
whose file is then made.
Jobs and callers are symmetric where only invariants and the steps of JobStream
are checked; both mention every job and caller alike. The two engines of
the ABI differ in what happens between two callbacks: the passing runs are of
Piper, whose inferences come on top of the fixture's steps, and the theorems are
of both.
Deadlock is not checked: clients may stop calling, and a function that answered
is done.

Fairness. A thread inside a call is scheduled, and a callback returns
(`OwnerProgress`, `RunProgress`, `WorkerNext`, `GeneratorNext`). Nothing obliges
a client to call, an inference to end before it is terminated, or a condition
variable to wake spuriously; failures are never forced. Only `PatientSpec` has a
client that comes back. `serialize_model_tokens` is one loop after another, which
a scheduled thread goes on with (`WF_vars(Next)` of TokenChunking). Where a freed
object is used (`Notify` and `CancelJob` in the violated runs) the behaviour is
undefined; the models choose that nothing comes of it and the invariants report
the access itself.

### Findings

1. `engine.cpp:174`: a destroy during a run can miss the notification and wait
   for ever, since the state is stored and notified without `state_mutex`.
2. `engine.cpp:175`: or, the other way round, it frees the job between the
   store and `notify_all`. Storing and notifying under the mutex settles both.
3. `kilix_voicegen.py:295`: the generator's cancel can follow the worker's
   `kgv_job_destroy`, because `_closed` is set after it and read without a lock.
4. `resolution.cpp:657`: a weak form is looked up under the word's own spelling,
   while the rule matched, and was checked at loading, under its folded target.
   Where the role has only an exact entry, as `the` for the word `The`, the whole
   text is refused, though README.md:228 says rules name an existing role.

## Proofs

All theorems are proved by TLAPS for any constants that satisfy the named
assumptions. Type correctness is proved wherever an invariant rests on it, and
is not repeated as an invariant of the runs.

EngineJob. Assuming that clients do not destroy a job that another thread may
still be about to claim (`DestroyDuring # "entered"`), `IInv` is inductive:
besides the properties themselves it says where every call keeps its job
(`CallsInv`: a run that has claimed a job is in state 1 and its destroyer, if
any, has not passed its wait; there is one run per job), on whose reference a
creation relies that has none of its own (`CloseInv`), how the callbacks so far
relate to the flag and the answer (`PcmInv`), and that only the running caller
publishes options and that every cancel on its way has set its flag (`OrtInv`).
The properties alone are not inductive: `OneSynthesis` follows from `OneClaim`
only because a run keeps its job's claim. From `IInv`: `TypeOK`,
`RefsCountOwners`, `OneClaim`, `EngineAccessSafe`, `OneSynthesis`,
`NoAudioAfterDestroy`, `AtMostOneLateCallback`, `OutcomeHonest` and the
properties of the run options, of which `TerminatesOwnJob` is about a step and
needs the invariant before it only; and that every step is a step of
`SharedEngine`, and a step of every job's `JobStream`, or a stutter under the
mapping of `EngineJobRefinement`. For JobStream it is the two stores at the end
of a run that need an invariant: `AnswerInv` keeps that the answer of a job
is still open while its run has not come to `Finish`, so that blocks and answers
are those of the one run that `CallsInv` allows.

StreamPcm. `IInv` ties the worker's place to what the native job answered, every
way of failing to an entry in `outcome`, and the generator's second read to the
worker's end: `completed` is set last, so a queue found empty after it stays
empty. From it `BlocksInOrder`, `EndsHonestly` and `RaisesLast`.

SpokenSpans. Each loop has its part of `IInv`. The map's segments tile the text
read so far on one side and the request on the other, without a hole
(`Tiling`), a segment that is not a replacement has equal lengths, and every
text override is one whole segment (`Replaced`). `BuilderInv` and `BudgetInv`
say of phrases what `Covering` does: they are contiguous ranges of words, in
the order of their spans, each around its first and last word; it is kept by
the cut into chunks only because what is left of a phrase starts at its own
first word. Tiles make the map of spans monotone and the span of a word nonempty
(`MapMonotone`), so `Ordered` and `Covering` survive the way back to the
request, where two words of different bytes may get equal spans but never
swapped ones. Ownership is not local to a segment: a word meets the bytes of a
replacement in the request exactly if it meets its segment in the text that was
read (`OwnerMeets`), which again is a matter of tiles. From these `Owners` and
`Phones`, and the four properties of the run.

TokenChunking. The search needs that a longer range has more IDs
(`LongerIsLarger`): an atom has at least four, more than the mark of a forced
end can take away. That follows from what the loops before it put into the
prefix sums (`TablesOK`). Then: everything above `high` does not fit and
`furthest` does (`SearchOK`), the chosen end is not beyond `furthest`, and the
IDs built agree with the sums (`BuildOK`). From it `EveryWordOnce`,
`WithinBudget`, `TooLargeIsAWord` and `BoundaryIsThere`. A second invariant, `CutInv`, holds of the states in which the first does:
`hard` is the last end that no continuation comes before (`HardOK`), and when a
cut is chosen `furthest` is the last of those that fit (`NarrowOK`), since what
fits still fits when it ends earlier (`ShorterFits`). So the choice of the code
among the boundaries up to `furthest` is the choice among all (`NearIsBest`), and
from `CutsAreBest` and what `carry` remembers of the last chunk (`CarryOK`)
follows `BothSidesMarked`.

LtsModel. The search keeps that a node it has left is at least one deeper than
its children and no deeper than the limit (`PublishedGraphDescends` for the graph
that is accepted). So a walk loses depth with every step, from at most the limit
at a root to at least 1, and reaches a leaf in time (`WalkReachesLeaf`).
`GraphJudged` compares the search with the paths of the graph. Where it accepts,
depths descend along every path and every node is finished. Where it refuses, a
path of the length it claims exists: a finished node's depth is that of a path
below it (`DepthsReal`), the frames are a path above it (`OnLevels`), and a node
met again in a frame closes a cycle, which has paths of every length
(`CycleFillsLevels`). `OutputWhole` keeps that the running total is the sum
over the syllables stored, and one of them at most the primary; the limits are
numbers (`OutputAssumption`).

Morphology. A word is a sequence over any alphabet that has the letters and the
apostrophe. `CandidatesExact`: the stems that `Candidates` finds by
cutting an ending off a word and patching what is left (a doubled consonant, a
dropped `e`, an `i` for a `y`) are the ones whose regular inflection is the word,
one ending after the other; the two definitions share nothing but the letters.
`SuffixKeepsPronunciation`: what a suffix appends to a valid pronunciation is
valid, in every form the rules choose. That needs bounds that a loader has to
check (`BoundsAssumption`, and `SuffixAssumption`: a suffix has at most
`MaxSuffix` segments, 4 in the code, as it has in `load_morphology`).

Resolution. `IInv` says that words before the cursor of the second pass still
have the form of the first (`Strong`) and those after it that of the rules
(`Settled`). The step is sound because what a rule looks at is the segment after
its word, which is final by then, and because the segment it looks at is the
one that will be heard (`NextIsHeard`): phrases are disjoint and hold every word.
That is an assumption on the requests, `RequestsAssumption`, and what
SpokenSpans' `Covering` proves of the pipeline. Hence `WeakFormsSettled`. That
what is guessed is not listed under any role is kept by every layer
(`KnownNotGuessed`). `DiagnosticsTrue` is about the words that `Forgone` names:
heteronyms whose rules do not settle, and words that a lexicon or an inflection
speaks in another role; the role of a word that an override or the letter-to-sound
model speaks is not reported. The warnings of the first pass are in the
order of the words because each word adds its own behind those before it; those
of the second are collected backwards, so that `DiagnosticsInv` keeps them in the
reverse order until `WeakEnd` turns them. `OnlyGuessesRefused` is the reason for
the limits of the loaders: whatever a lexicon, a phone override or an inflection
of a valid stem gives is what the serializer takes, so that only an answer
of the letter-to-sound model can be refused. It uses that the phones of a request
are valid, which the ABI has checked (`RequestsAssumption`), and that a
letter-to-sound status is an error or none (`LtsStatuses`).
`CandidatesAreInflections` is `CandidatesExact` for the words of the request.

SynthesizeCommand. `PackageInv` says of every place in `verify_model_package`
what has been read by then: the release is the pin, the manifest is the one it
names, and the payloads so far are the entries so far, each with its hash
(`ListOK`), whatever the disk has become; `OpenInv` that the loaders judged those
same bytes. From them `PinnedBytes` and `EngineBound`. The latter closes the circle
to Resolution: no loader objected, so the tables are loaded (`TablesAreLoaded`),
which is what `BundlesLoaded` takes for granted there, the letter-to-sound model
aside, whose answers are LtsModel's `OutputWhole`. `HandleInv` follows the
engine and the job through every exit, those of `main`'s catch included, `FileInv`
the file at the output path and the one behind a link (`NothingLeftBehind`,
`OthersKept`). `NothingLeftBehind` has three exceptions, each an exit or a state the
code has: `Abandoned`, memory ran out when the file was opened or to be removed;
`refused`; and `linked`, the path was a link when it was opened. `OthersKept` has
one, `raced`: the file came after the check. `AudioInv` frames, header and answer: the
sizes in the header wrap at `WordSize`, and `FrameLimit` keeps the data size from
it (`WavWhole`). The assumptions are that sizes are numbers, that manifests are
lists of entries, and that a word is larger than a header.

`AcceptsSoundPackages` compares the order in which the code looks at the parts of
a package with `SoundPackage`, which says everything at once. `UntouchedInv` says
what has been established at each place as long as nobody touches the disk: the
release once it is judged (`ReleaseSound`), the head of the manifest (`HeadSound`),
and of the entries so far that they are safe, regular, of the right size, unlike
each other, and that the total is their sum (`FilesSound`); `PlaceOK` says of the
file being read how far its path has been followed and what was found there. At
the end of the list that is all of `SoundPackage` (`EndIsSound`), where the graph's
own place is the one conjunct that the code asks of the payloads and the definition
of the entries (`GraphIsFit`). The other direction takes every refusal in turn:
what is looked at is the content that the sound package has there
(`TargetIsSound`), a total can only grow towards the sum of all
(`SumsGrow`), so that the test against `MaxTotalBytes` cannot fail before the end;
what is left is `OutOfMemory` (`SoundPasses`). That no loader lacks a role is
`RolesInv`: the roles that were tested are those of the whole list, and each loader's
own is among the required ones. Here the assumptions are also that a disk has
what `Node` names at its paths and at least the two paths of the package's own
files (`DisksAssumption`), that a malformed pin is no hash (`HashesAssumption`),
that the limits are numbers (`LimitsAssumption`), and that the sections of
a manifest beside its files are judged with one of the codes that the code throws
(`Verdicts`).

A proof found an omission in a model. `SuffixKeepsPronunciation` was false as
long as `MorphologyLoads` had left out the bound on a suffix's length; the code
has it, and now the model does.

Induction. Where an argument is over data, it is written out over the set of the
numbers it holds for (`SetInduction`, from the least number it does not hold for,
`LeastElement`), since an induction theorem of the library that takes the formula
as an operator parameter is not for the installed provers. Recursive functions
unfold by the library's `NatInductiveDef`.

Only model-checked: liveness, that is `DestroyReturns`, `EngineFreed`,
`CancelEndsRun`, `CloseReturns`, `StreamEnds` and `Terminates`, since
fairness and ENABLED are outside what TLAPS can do here.

## Not modelled

- Text analysis, the quantity grammar, number words and the other expansions of
  the pipeline (`frontend.cpp`, most of `pipeline.cpp`): functions from text to
  text without state, of which a model would have to repeat every character they
  distinguish. SpokenSpans and Resolution choose what they yield freely. So the
  hazards at `engine.cpp:606` (whether anything is spoken is decided before the
  overrides) and `pipeline.cpp:883` (a flag that survives other tokens) have no
  property: both are about which text is read as what.
- JSON and SHA-256: text and bits, best tested against vectors. What a
  parsed document says, and that a hash identifies its bytes, are where other
  components use them.
- The resampler's arithmetic, which is floating point, and the projection of a
  chunk, a loop over its IDs without state.
- The `frontend` subcommand, which prints an analysis and keeps nothing; loading
  the library and marshalling requests in the binding; a `thread.start` that
  fails (`kilix_voicegen.py:273`), after which nothing runs that StreamPcm has.
- The offline tools, the build and the benchmark.

What could follow: the grammar of quantities over an alphabet of token kinds,
which would reach the two hazards of text.
