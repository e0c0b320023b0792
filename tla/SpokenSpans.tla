---------------------------- MODULE SpokenSpans ----------------------------
(***************************************************************************)
(* The spans of the front end: which bytes of the request every spoken     *)
(* word and every phrase stands for, from the overrides of the request to  *)
(* the words and phrases handed to the serializer of model tokens.         *)
(*                                                                         *)
(*   - kgv_job_create copies the overrides (src/src/runtime/engine.cpp);    *)
(*   - run_override_lexical_frontend checks them again, makes the text to  *)
(*     be read with a map of spans, and maps what was read back to the     *)
(*     request (src/src/frontend/overrides.cpp);                           *)
(*   - run_lexical_frontend reads that text from left to right into words  *)
(*     and phrases (src/src/frontend/pipeline.cpp);                        *)
(*   - run_resolved_frontend hands them over (resolution.cpp).             *)
(*                                                                         *)
(* A text is its length; what a word is, how it is pronounced and which    *)
(* terminator ends a phrase is left out.  Overrides are numbered from 1,   *)
(* 0 stands for no override, and words are numbered from 0 in phrases, as  *)
(* in the code.                                                            *)
(***************************************************************************)
EXTENDS Naturals, Sequences, FiniteSetsExt

CONSTANTS
  MaxText,         (* bound on the bytes of the request                *)
  MaxInput,        (* KGV_MAX_INPUT_BYTES, 65536 in the code           *)
  MaxOverrides,    (* kMaximumOverrides, 256 in the code               *)
  MaxReplacement,  (* kMaximumReplacementBytes, 4096 in the code       *)
  MaxTokens,       (* bound on the tokens and boundaries of the text   *)
  MaxExpansion,    (* bound on the words one token is expanded into    *)
  ChunkWords       (* kLexicalChunkWordBudget, 256 in the code         *)

ASSUME TextAssumption == MaxText \in Nat /\ MaxInput \in Nat /\ MaxText <= MaxInput
ASSUME OverridesAssumption == MaxOverrides \in Nat /\ MaxReplacement \in Nat
ASSUME TokensAssumption == MaxTokens \in Nat /\ MaxExpansion \in Nat
ASSUME ChunkAssumption == ChunkWords \in Nat \ {0}

VARIABLES
  size,                   \* the bytes of the request
  characters, graphemes,  \* offsets between its characters, and between its graphemes
  step,                   \* the loop
  cursor,                 \* its index
  overrides,              \* the overrides the engine copied
  map, sourceCursor,      \* the map of spans
  outSize,                \* the bytes of the text to be read
  tokens, scan,           \* the tokens read so far, and the span of the last one
  spoken,                 \* the spans of the words in the text that is read
  builder,                \* the phrase in the making
  phrases, bounded, start,\* the phrases, and their cut into lexical chunks
  words,                  \* the spans of the words in the request
  replacementOf, phoneOf, \* the overrides of each word
  handed,                 \* the phrases handed to the serializer
  failure                 \* the span and the override of a rejection

request  == <<size, characters, graphemes>>
mapVars  == <<map, sourceCursor, outSize>>
readVars == <<tokens, scan, spoken, builder>>
owners   == <<replacementOf, phoneOf>>
vars == <<request, step, cursor, overrides, mapVars, readVars, phrases, bounded, start,
          words, owners, handed, failure>>

Span(from, to) == [start |-> from, end |-> to]
Spans(limit) == [start: 0..limit, end: 0..limit]
Overlap(a, b) == a.start < b.end /\ b.start < a.end
NoFailure == [span |-> Span(0, 0), override |-> 0]
NewPhrase(word) == [wordStart |-> word, byteStart |-> 0, hasSpan |-> FALSE, lastEnd |-> 0]
Least(a, b) == IF a < b THEN a ELSE b
Greatest(a, b) == IF a < b THEN b ELSE a
EndOf(ranges) == IF ranges = <<>> THEN 0 ELSE ranges[Len(ranges)].wordEnd

-----------------------------------------------------------------------------
(* Faulty variants of the definitions below, used by no specification.     *)

\* The offset is reported as it is in the text that was read.
OffsetUnmapped(offset) == Span(offset, offset + 1)

\* Other words may meet the override.
TargetedOnce(i) == \E w \in DOMAIN words : {v \in DOMAIN words : words[v] = overrides[i].span} = {w}

\* What is left of a phrase still starts where the phrase did.
KeepWholePhrase ==
  /\ step = "budget" /\ cursor \in DOMAIN phrases /\ phrases[cursor].wordEnd <= start + ChunkWords
  /\ bounded' = Append(bounded, phrases[cursor])
  /\ start' = IF cursor < Len(phrases) THEN phrases[cursor + 1].wordStart ELSE start
  /\ cursor' = cursor + 1
  /\ UNCHANGED <<request, step, overrides, mapVars, readVars, phrases, words, owners, handed, failure>>

\* A replacement is mapped byte by byte.
AppendUnmarked(segments, out, source, override) ==
  IF out.start = out.end THEN segments
  ELSE Append(segments, [out |-> out, source |-> source, override |-> 0])

-----------------------------------------------------------------------------
(* The map of spans.  A segment says that the bytes "out" of the text that *)
(* is read come from the bytes "source" of the request: byte by byte, or   *)
(* as a whole if they replace them.                                        *)

AppendSegment(segments, out, source, override) ==
  IF out.start = out.end THEN segments
  ELSE Append(segments, [out |-> out, source |-> source, override |-> override])

Touched(out) ==
  {i \in DOMAIN map : Greatest(out.start, map[i].out.start) < Least(out.end, map[i].out.end)}

Piece(i, out) ==
  IF map[i].override # 0 THEN map[i].source
  ELSE Span(map[i].source.start + (Greatest(out.start, map[i].out.start) - map[i].out.start),
            map[i].source.start + (Least(out.end, map[i].out.end) - map[i].out.start))

MapSpan(out) ==
  IF Touched(out) = {} THEN Span(0, 0)
  ELSE Span(Min({Piece(i, out).start : i \in Touched(out)}),
            Max({Piece(i, out).end : i \in Touched(out)}))

Replacements(out) == {map[i].override : i \in Touched(out)} \ {0}

\* The byte of the request that stands for a byte of the text that is read.
MapOffset(offset) ==
  LET At == {i \in DOMAIN map : map[i].out.start <= offset /\ offset < map[i].out.end}
      i  == CHOOSE j \in At : TRUE
      mapped == map[i].source.start + (offset - map[i].out.start)
  IN CASE At # {} /\ map[i].override # 0 -> map[i].source
       [] At # {} /\ map[i].override = 0 -> Span(mapped, Least(size, mapped + 1))
       [] At = {} -> IF offset = 0 THEN Span(0, 0) ELSE Span(size, size)

\* convert_lexical_failure: the first replacement the span meets.
ReplacementAt(span) ==
  LET hits == {i \in DOMAIN map : map[i].override # 0 /\ Overlap(map[i].source, span)}
  IN IF hits = {} THEN 0 ELSE map[Min(hits)].override

-----------------------------------------------------------------------------
(* Rejections leave no words behind.                                       *)

Reject(span, override) ==
  /\ step' = "rejected"
  /\ failure' = [span |-> span, override |-> override]
  /\ words' = <<>> /\ handed' = <<>>
  /\ UNCHANGED <<request, cursor, overrides, mapVars, readVars, phrases, bounded, start, owners>>

OffsetSpan(offset) == Span(offset, Least(size, offset + 1))

Goto(label) == step' = label /\ cursor' = 1
Stay == UNCHANGED <<step, cursor>>
NextIndex == step' = step /\ cursor' = cursor + 1

-----------------------------------------------------------------------------
(* copy_and_validate_overrides.                                            *)

Entries ==
  [span: Spans(MaxText + 1), kind: {"text", "phone", "unknown"}, size: 0..MaxReplacement + 1]

PreviousEnd(i) == IF i = 1 THEN 0 ELSE overrides[i - 1].span.end

Admitted(entry) ==
  /\ entry.span.start < entry.span.end /\ entry.span.end <= size
  /\ entry.span.start >= PreviousEnd(Len(overrides) + 1)
  /\ {entry.span.start, entry.span.end} \subseteq characters
  /\ entry.kind \in {"text", "phone"}
  /\ entry.kind = "text" => entry.size \in 1..MaxReplacement
  /\ entry.kind = "phone" => entry.size = 0  \* no replacement text

CopyEntry ==
  /\ step = "copy" /\ Len(overrides) < MaxOverrides
  /\ \E entry \in Entries : Admitted(entry) /\ overrides' = Append(overrides, entry)
  /\ Stay
  /\ UNCHANGED <<request, mapVars, readVars, phrases, bounded, start, words, owners, handed, failure>>

\* An entry is not admitted, its replacement is not valid input, its segments
\* are unknown, or there are too many entries: the ABI names no span.
RefuseEntry == step = "copy" /\ Reject(Span(0, 0), 0)

\* Without overrides the request is read as it is.
Copied ==
  /\ step = "copy"
  /\ IF overrides = <<>> THEN Goto("read") /\ outSize' = size
     ELSE Goto("analyze") /\ UNCHANGED outSize
  /\ UNCHANGED <<request, overrides, map, sourceCursor, readVars, phrases, bounded, start, words,
                 owners, handed, failure>>

-----------------------------------------------------------------------------
(* run_override_lexical_frontend: the checks and the text to be read.      *)

\* The request as it is cannot be analysed or normalised.
AnalysisFails ==
  step = "analyze" /\ \E offset \in 0..size : Reject(OffsetSpan(offset), 0)

Analyze ==
  /\ step = "analyze" /\ Goto("check")
  /\ UNCHANGED <<request, overrides, mapVars, readVars, phrases, bounded, start, words, owners,
                 handed, failure>>

ValidEntry(i) ==
  LET entry == overrides[i]
  IN /\ entry.span.start < entry.span.end /\ entry.span.end <= size
     /\ entry.span.start >= PreviousEnd(i)
     /\ {entry.span.start, entry.span.end} \subseteq graphemes
     /\ entry.kind = "text" => entry.size \in 1..MaxReplacement

\* The syllables of a phone override are one more thing that may be wrong.
EntryInvalid ==
  /\ step = "check" /\ cursor \in DOMAIN overrides
  /\ ~ValidEntry(cursor) \/ overrides[cursor].kind = "phone"
  /\ Reject(overrides[cursor].span, cursor)

CheckEntry ==
  /\ step = "check"
  /\ \/ cursor \in DOMAIN overrides /\ ValidEntry(cursor) /\ NextIndex
     \/ cursor > Len(overrides) /\ Goto("build")
  /\ UNCHANGED <<request, overrides, mapVars, readVars, phrases, bounded, start, words, owners,
                 handed, failure>>

\* The bytes before the override, and the override or its bytes.
BuildEntry ==
  LET entry  == overrides[cursor]
      before == outSize + (entry.span.start - sourceCursor)
      after  == before + (IF entry.kind = "text" THEN entry.size
                          ELSE entry.span.end - entry.span.start)
  IN /\ step = "build" /\ cursor \in DOMAIN overrides
     /\ map' = AppendSegment(
                 AppendSegment(map, Span(outSize, before), Span(sourceCursor, entry.span.start), 0),
                 Span(before, after), entry.span, IF entry.kind = "text" THEN cursor ELSE 0)
     /\ outSize' = after /\ sourceCursor' = entry.span.end
     /\ NextIndex
     /\ UNCHANGED <<request, overrides, readVars, phrases, bounded, start, words, owners, handed,
                    failure>>

SuffixEnd == outSize + (size - sourceCursor)

BuildSuffix ==
  /\ step = "build" /\ cursor > Len(overrides) /\ SuffixEnd <= MaxInput
  /\ map' = AppendSegment(map, Span(outSize, SuffixEnd), Span(sourceCursor, size), 0)
  /\ outSize' = SuffixEnd
  /\ Goto("read")
  /\ UNCHANGED <<request, overrides, sourceCursor, readVars, phrases, bounded, start, words, owners,
                 handed, failure>>

ExpandedTooLarge ==
  step = "build" /\ cursor > Len(overrides) /\ SuffixEnd > MaxInput /\ Reject(Span(0, 0), 0)

-----------------------------------------------------------------------------
(* run_lexical_frontend: tokens, and the boundaries between phrases, come  *)
(* from left to right.  Several may share the bytes of one grapheme.       *)

Following == {span \in Spans(outSize) :
  span.start < span.end /\ scan.start <= span.start /\ scan.end <= span.end}

\* A token is expanded into words that all have its span.
Speak ==
  /\ step = "read" /\ tokens < MaxTokens
  /\ \E span \in Following, count \in 1..MaxExpansion :
       /\ scan' = span
       /\ spoken' = spoken \o [i \in 1..count |-> span]
       /\ builder' = [builder EXCEPT !.lastEnd = span.end, !.hasSpan = TRUE,
                        !.byteStart = IF builder.hasSpan THEN @ ELSE span.start]
  /\ tokens' = tokens + 1 /\ Stay
  /\ UNCHANGED <<request, overrides, mapVars, phrases, bounded, start, words, owners, handed, failure>>

\* end_phrase, and the start of the next phrase.
PhraseEnded(boundary) ==
  /\ phrases' = Append(phrases,
       [wordStart |-> builder.wordStart, wordEnd |-> Len(spoken),
        span |-> IF builder.hasSpan
                 THEN Span(builder.byteStart, Greatest(builder.lastEnd, boundary.end))
                 ELSE boundary])
  /\ builder' = [builder EXCEPT !.wordStart = Len(spoken), !.hasSpan = FALSE]

\* Punctuation ends a phrase that has words, a paragraph ends any.
EndPhrase ==
  /\ step = "read" /\ tokens < MaxTokens
  /\ \E boundary \in Following, retainEmpty \in BOOLEAN :
       /\ scan' = boundary
       /\ IF builder.wordStart = Len(spoken) /\ ~retainEmpty
          THEN UNCHANGED <<phrases, builder>> ELSE PhraseEnded(boundary)
  /\ tokens' = tokens + 1 /\ Stay
  /\ UNCHANGED <<request, overrides, mapVars, spoken, bounded, start, words, owners, handed, failure>>

\* The text is refused at one of its bytes.
ReadFails ==
  /\ step = "read"
  /\ \E offset \in 0..outSize :
       IF overrides = <<>> THEN Reject(OffsetSpan(offset), 0)
       ELSE Reject(MapOffset(offset), ReplacementAt(MapOffset(offset)))

\* finish: what is left is a phrase too.
FinishRead ==
  /\ step = "read" /\ Goto("budget")
  /\ IF builder.wordStart < Len(spoken)
     THEN PhraseEnded(Span(builder.byteStart, builder.lastEnd))
     ELSE UNCHANGED <<phrases, builder>>
  /\ start' = IF phrases' = <<>> THEN 0 ELSE phrases'[1].wordStart
  /\ UNCHANGED <<request, overrides, mapVars, tokens, scan, spoken, bounded, words, owners, handed,
                 failure>>

\* apply_lexical_chunk_budget cuts a phrase that is too long...
CutPhrase ==
  LET end == start + ChunkWords
  IN /\ step = "budget" /\ cursor \in DOMAIN phrases /\ phrases[cursor].wordEnd > end
     /\ bounded' = Append(bounded, [wordStart |-> start, wordEnd |-> end,
                                    span |-> Span(spoken[start + 1].start, spoken[end].end)])
     /\ start' = end /\ Stay
     /\ UNCHANGED <<request, overrides, mapVars, readVars, phrases, words, owners, handed, failure>>

\* ...and keeps the rest of it.
KeepPhrase ==
  LET phrase == phrases[cursor]
      rest   == [phrase EXCEPT !.wordStart = start,
                   !.span.start = IF start < phrase.wordEnd THEN spoken[start + 1].start ELSE @]
  IN /\ step = "budget" /\ cursor \in DOMAIN phrases /\ phrase.wordEnd <= start + ChunkWords
     /\ bounded' = IF start < phrase.wordEnd \/ phrase.wordStart = phrase.wordEnd
                   THEN Append(bounded, rest) ELSE bounded
     /\ start' = IF cursor < Len(phrases) THEN phrases[cursor + 1].wordStart ELSE start
     /\ NextIndex
     /\ UNCHANGED <<request, overrides, mapVars, readVars, phrases, words, owners, handed, failure>>

PhrasesBounded ==
  /\ step = "budget" /\ cursor > Len(phrases) /\ Goto("words")
  /\ phrases' = bounded
  /\ UNCHANGED <<request, overrides, mapVars, readVars, bounded, start, words, owners, handed, failure>>

-----------------------------------------------------------------------------
(* run_override_lexical_frontend: back to the spans of the request.        *)

\* Nothing to map without overrides.
KeepSpans ==
  /\ step = "words" /\ overrides = <<>> /\ Goto("resolve")
  /\ words' = spoken
  /\ replacementOf' = [i \in DOMAIN spoken |-> 0] /\ phoneOf' = [i \in DOMAIN spoken |-> 0]
  /\ UNCHANGED <<request, overrides, mapVars, readVars, phrases, bounded, start, handed, failure>>

MapWord ==
  LET mapped == MapSpan(spoken[cursor])
      hits   == Replacements(spoken[cursor])
  IN /\ step = "words" /\ overrides # <<>> /\ cursor \in DOMAIN spoken
     /\ mapped.start < mapped.end /\ \A i, j \in hits : i = j
     /\ words' = Append(words, mapped)
     /\ replacementOf' = Append(replacementOf, IF hits = {} THEN 0 ELSE Min(hits))
     /\ NextIndex
     /\ UNCHANGED <<request, overrides, mapVars, readVars, phrases, bounded, start, phoneOf, handed,
                    failure>>

\* A word that crosses two replacements.
AmbiguousWord ==
  LET mapped == MapSpan(spoken[cursor])
      hits   == Replacements(spoken[cursor])
  IN /\ step = "words" /\ overrides # <<>> /\ cursor \in DOMAIN spoken
     /\ mapped.start >= mapped.end \/ \E i, j \in hits : i # j
     /\ Reject(mapped, IF hits = {} THEN 0 ELSE Min(hits))

MapPhrases ==
  /\ step = "words" /\ overrides # <<>> /\ cursor > Len(spoken) /\ Goto("phones")
  /\ phrases' = [i \in DOMAIN phrases |-> [phrases[i] EXCEPT !.span = MapSpan(@)]]
  /\ phoneOf' = [i \in DOMAIN words |-> 0]
  /\ UNCHANGED <<request, overrides, mapVars, readVars, bounded, start, words, replacementOf, handed,
                 failure>>

\* A phone override has the span of one word and meets no other.
Matches(i) == {w \in DOMAIN words : words[w] = overrides[i].span}
Targeted(i) ==
  /\ \E w \in DOMAIN words : Matches(i) = {w}
  /\ \A w \in DOMAIN words : Overlap(overrides[i].span, words[w]) => w \in Matches(i)

FindTarget ==
  /\ step = "phones"
  /\ \/ /\ cursor \in DOMAIN overrides /\ NextIndex
        /\ overrides[cursor].kind = "phone" => Targeted(cursor)
        /\ phoneOf' = IF overrides[cursor].kind = "phone"
                      THEN [phoneOf EXCEPT ![CHOOSE w \in Matches(cursor) : TRUE] = cursor]
                      ELSE phoneOf
     \/ cursor > Len(overrides) /\ Goto("resolve") /\ UNCHANGED phoneOf
  /\ UNCHANGED <<request, overrides, mapVars, readVars, phrases, bounded, start, words, replacementOf,
                 handed, failure>>

NoTarget ==
  /\ step = "phones" /\ cursor \in DOMAIN overrides
  /\ overrides[cursor].kind = "phone" /\ ~Targeted(cursor)
  /\ Reject(overrides[cursor].span, cursor)

-----------------------------------------------------------------------------
(* run_resolved_frontend: every word is given a pronunciation or refused,  *)
(* except those of a phone override, which have one; and phrases without   *)
(* words are dropped.                                                      *)

Resolve ==
  /\ step = "resolve" /\ cursor \in DOMAIN words /\ NextIndex
  /\ UNCHANGED <<request, overrides, mapVars, readVars, phrases, bounded, start, words, owners,
                 handed, failure>>

Unresolved ==
  /\ step = "resolve" /\ cursor \in DOMAIN words /\ phoneOf[cursor] = 0
  /\ Reject(words[cursor], replacementOf[cursor])

Resolved ==
  /\ step = "resolve" /\ cursor > Len(words) /\ Goto("hand")
  /\ UNCHANGED <<request, overrides, mapVars, readVars, phrases, bounded, start, words, owners,
                 handed, failure>>

HandPhrase ==
  /\ step = "hand" /\ cursor \in DOMAIN phrases /\ NextIndex
  /\ handed' = IF phrases[cursor].wordStart = phrases[cursor].wordEnd THEN handed
               ELSE Append(handed, phrases[cursor])
  /\ UNCHANGED <<request, overrides, mapVars, readVars, phrases, bounded, start, words, owners, failure>>

AllHanded ==
  /\ step = "hand" /\ cursor > Len(phrases) /\ Goto("handed")
  /\ UNCHANGED <<request, overrides, mapVars, readVars, phrases, bounded, start, words, owners,
                 handed, failure>>

-----------------------------------------------------------------------------
\* Every character boundary of a text is one of its offsets; a grapheme is a
\* sequence of characters.
Init ==
  /\ size \in 0..MaxText
  /\ characters \in {cuts \in SUBSET (0..size) : {0, size} \subseteq cuts}
  /\ graphemes \in {cuts \in SUBSET characters : {0, size} \subseteq cuts}
  /\ step = "copy" /\ cursor = 1 /\ overrides = <<>>
  /\ map = <<>> /\ sourceCursor = 0 /\ outSize = 0
  /\ tokens = 0 /\ scan = Span(0, 0) /\ spoken = <<>> /\ builder = NewPhrase(0)
  /\ phrases = <<>> /\ bounded = <<>> /\ start = 0
  /\ words = <<>> /\ replacementOf = <<>> /\ phoneOf = <<>>
  /\ handed = <<>> /\ failure = NoFailure

Next ==
  \/ CopyEntry \/ RefuseEntry \/ Copied
  \/ AnalysisFails \/ Analyze \/ EntryInvalid \/ CheckEntry
  \/ BuildEntry \/ BuildSuffix \/ ExpandedTooLarge
  \/ Speak \/ EndPhrase \/ ReadFails \/ FinishRead
  \/ CutPhrase \/ KeepPhrase \/ PhrasesBounded
  \/ KeepSpans \/ MapWord \/ AmbiguousWord \/ MapPhrases \/ FindTarget \/ NoTarget
  \/ Resolve \/ Unresolved \/ Resolved \/ HandPhrase \/ AllHanded

Spec == Init /\ [][Next]_vars

-----------------------------------------------------------------------------
(* What serialize_model_tokens asks of words and phrases.                  *)

WordsAccepted ==
  \A w \in DOMAIN words :
    /\ words[w].start < words[w].end /\ words[w].end <= size
    /\ w > 1 => words[w - 1].start <= words[w].start

PhrasesAccepted ==
  /\ \A p \in DOMAIN handed :
       LET phrase == handed[p]
       IN /\ phrase.wordStart = (IF p = 1 THEN 0 ELSE handed[p - 1].wordEnd)
          /\ phrase.wordStart < phrase.wordEnd /\ phrase.wordEnd <= Len(words)
          /\ phrase.span.start < phrase.span.end /\ phrase.span.end <= size
          /\ p > 1 => handed[p - 1].span.start <= phrase.span.start
          /\ phrase.span.start <= words[phrase.wordStart + 1].start
          /\ words[phrase.wordEnd].end <= phrase.span.end
  /\ Len(words) = EndOf(handed)

-----------------------------------------------------------------------------
(* Properties.                                                             *)

\* Whatever the overrides, the expansions, the graphemes and the budget for
\* lexical chunks did to them, the words and phrases of a request that was
\* not rejected have the spans the serializer insists on: it refuses none
\* for its span (tokenization.cpp:647-655, 704-733).
SpansAccepted == step = "handed" => WordsAccepted /\ PhrasesAccepted

\* A word belongs to a replacement if and only if its bytes of the request
\* meet those that were replaced, and then to one only (overrides.cpp:396-418).
ReplacementsOwned ==
  step \in {"phones", "resolve", "hand", "handed"} =>
    \A w \in DOMAIN words, i \in DOMAIN overrides :
      overrides[i].kind = "text" => (replacementOf[w] = i <=> Overlap(overrides[i].span, words[w]))

\* Every phone override is spoken as one word which is exactly its bytes, no
\* other word touches them, and no replacement does (overrides.cpp:427-456).
PhonesOwned ==
  step \in {"resolve", "hand", "handed"} =>
    \A i \in DOMAIN overrides : overrides[i].kind = "phone" =>
      \E w \in DOMAIN words :
        /\ phoneOf[w] = i /\ replacementOf[w] = 0 /\ words[w] = overrides[i].span
        /\ \A v \in DOMAIN words \ {w} :
             phoneOf[v] # i /\ ~Overlap(words[v], overrides[i].span)

\* A rejection names bytes of the request, even when what was refused is a
\* byte of the expanded text, and the override it names is there
\* (overrides.cpp:195-215).
FailureLocated ==
  step = "rejected" =>
    /\ failure.span.start <= failure.span.end /\ failure.span.end <= size
    /\ failure.override # 0 => Overlap(overrides[failure.override].span, failure.span)
=============================================================================
