------------------------- MODULE SpokenSpansProofs -------------------------
(***************************************************************************)
(* Proofs about SpokenSpans.  The map of spans tiles the text that is read *)
(* and is in order on the side of the request (Tiles); so mapping keeps   *)
(* the order of starts and of ends (MapMonotone), and what holds of words  *)
(* and phrases where they were read (Ordered, Covering) holds of them in   *)
(* the request.                                                            *)
(***************************************************************************)
EXTENDS SpokenSpans, SequenceTheorems, WellFoundedInduction, TLAPS

-----------------------------------------------------------------------------
(* The inductive invariant.                                                *)

SpanType    == [start: Nat, end: Nat]
SegmentType == [out: SpanType, source: SpanType, override: Nat]
EntryType   == [span: SpanType, kind: {"text", "phone", "unknown"}, size: Nat]
PhraseType  == [wordStart: Nat, wordEnd: Nat, span: SpanType]
Late  == {"read", "budget", "words", "phones", "resolve", "hand", "handed"}
Steps == Late \cup {"copy", "analyze", "check", "build", "rejected"}

TypeOK ==
  /\ size \in Nat /\ characters \subseteq 0..size /\ graphemes \subseteq characters
  /\ step \in Steps /\ cursor \in Nat \ {0}
  /\ overrides \in Seq(EntryType)
  /\ map \in Seq(SegmentType)
  /\ sourceCursor \in Nat /\ outSize \in Nat
  /\ tokens \in Nat /\ scan \in SpanType /\ spoken \in Seq(SpanType)
  /\ builder \in [wordStart: Nat, byteStart: Nat, hasSpan: BOOLEAN, lastEnd: Nat]
  /\ phrases \in Seq(PhraseType) /\ bounded \in Seq(PhraseType) /\ handed \in Seq(PhraseType)
  /\ start \in Nat /\ words \in Seq(SpanType)
  /\ replacementOf \in Seq(Nat) /\ phoneOf \in Seq(Nat)
  /\ failure \in [span: SpanType, override: Nat]

\* The overrides the engine admitted are in order and do not meet.
EntriesInv ==
  /\ \A i \in DOMAIN overrides :
       /\ overrides[i].span.start < overrides[i].span.end /\ overrides[i].span.end <= size
       /\ overrides[i].kind \in {"text", "phone"}
       /\ overrides[i].kind = "text" => overrides[i].size > 0
  /\ \A i, j \in DOMAIN overrides : i < j => overrides[i].span.end <= overrides[j].span.start
  /\ step \in {"analyze", "check", "build", "phones"} => overrides # <<>>

\* Segments are in order on both sides; every byte to be read is in one.
Tiles(segments, total, limit) ==
  /\ \A i \in DOMAIN segments :
       /\ segments[i].out.start < segments[i].out.end /\ segments[i].out.end <= total
       /\ segments[i].source.start < segments[i].source.end /\ segments[i].source.end <= limit
       /\ segments[i].override = 0 =>
            segments[i].source.end = segments[i].source.start
                                       + (segments[i].out.end - segments[i].out.start)
       /\ segments[i].override # 0 =>
            /\ segments[i].override \in DOMAIN overrides
            /\ overrides[segments[i].override].kind = "text"
            /\ segments[i].source = overrides[segments[i].override].span
  /\ \A i, j \in DOMAIN segments : i < j =>
       /\ segments[i].out.end <= segments[j].out.start
       /\ segments[i].source.end <= segments[j].source.start
  /\ \A offset \in Nat : offset < total =>
       \E i \in DOMAIN segments : segments[i].out.start <= offset /\ offset < segments[i].out.end

Tiling(limit) == Tiles(map, outSize, limit)

\* Every replacement so far has a segment.
Replaced(last) ==
  \A i \in DOMAIN overrides : i <= last /\ overrides[i].kind = "text" =>
    \E k \in DOMAIN map : map[k].override = i

MapInv ==
  /\ step \in {"copy", "analyze", "check"} => map = <<>> /\ sourceCursor = 0 /\ outSize = 0
  /\ step = "build" =>
       /\ cursor <= Len(overrides) + 1 /\ sourceCursor = PreviousEnd(cursor)
       /\ Tiling(sourceCursor) /\ Replaced(cursor - 1)
  /\ step \in Late =>
       IF overrides = <<>> THEN outSize = size ELSE Tiling(size) /\ Replaced(Len(overrides))

Ordered(spans, limit) ==
  /\ \A w \in DOMAIN spans : spans[w].start < spans[w].end /\ spans[w].end <= limit
  /\ \A v, w \in DOMAIN spans : v < w =>
       spans[v].start <= spans[w].start /\ spans[v].end <= spans[w].end

\* Phrases follow each other, and a phrase with words starts with the first
\* of them and does not end before the last.
Covering(ranges, spans, limit) ==
  \A p \in DOMAIN ranges :
    /\ ranges[p].wordStart = (IF p = 1 THEN 0 ELSE ranges[p - 1].wordEnd)
    /\ ranges[p].wordStart <= ranges[p].wordEnd /\ ranges[p].wordEnd <= Len(spans)
    /\ ranges[p].span.start < ranges[p].span.end /\ ranges[p].span.end <= limit
    /\ ranges[p].wordStart < ranges[p].wordEnd =>
         /\ ranges[p].span.start = spans[ranges[p].wordStart + 1].start
         /\ spans[ranges[p].wordEnd].end <= ranges[p].span.end

BuilderInv ==
  /\ EndOf(phrases) = builder.wordStart /\ builder.wordStart <= Len(spoken)
  /\ builder.hasSpan <=> builder.wordStart < Len(spoken)
  /\ builder.hasSpan =>
       /\ builder.byteStart = spoken[builder.wordStart + 1].start
       /\ builder.lastEnd = spoken[Len(spoken)].end

BudgetInv ==
  /\ EndOf(phrases) = Len(spoken) /\ Covering(bounded, spoken, outSize)
  /\ cursor <= Len(phrases) + 1
  /\ IF cursor <= Len(phrases)
     THEN /\ EndOf(bounded) = start
          /\ \/ start = phrases[cursor].wordStart
             \/ phrases[cursor].wordStart < start /\ start < phrases[cursor].wordEnd
     ELSE EndOf(bounded) = Len(spoken)

ReadInv ==
  /\ step \in {"copy", "analyze", "check", "build"} =>
       /\ spoken = <<>> /\ phrases = <<>> /\ builder = NewPhrase(0) /\ scan = Span(0, 0)
  /\ step \in {"copy", "analyze", "check", "build", "read", "budget"} => words = <<>> /\ replacementOf = <<>>
  /\ step \in {"copy", "analyze", "check", "build", "read"} => bounded = <<>>
  /\ step \in Late => Ordered(spoken, outSize)
  /\ step \in {"read", "budget", "words"} => Covering(phrases, spoken, outSize)
  /\ step = "read" =>
       /\ scan.start <= scan.end /\ scan.end <= outSize
       /\ \A w \in DOMAIN spoken : spoken[w].start <= scan.start /\ spoken[w].end <= scan.end
       /\ BuilderInv
  /\ step = "budget" => BudgetInv
  /\ step = "words" => EndOf(phrases) = Len(spoken)

\* The words mapped so far, and whose they are.
Owners ==
  /\ \A w \in DOMAIN words :
       replacementOf[w] # 0 =>
         replacementOf[w] \in DOMAIN overrides /\ overrides[replacementOf[w]].kind = "text"
  /\ \A w \in DOMAIN words, i \in DOMAIN overrides :
       overrides[i].kind = "text" => (replacementOf[w] = i <=> Overlap(overrides[i].span, words[w]))

WordsInv ==
  /\ step = "words" =>
       /\ cursor = Len(words) + 1 /\ Len(words) <= Len(spoken)
       /\ \A w \in DOMAIN words :
            words[w] = MapSpan(spoken[w]) /\ words[w].start < words[w].end
       /\ overrides = <<>> => words = <<>>
  /\ step \in {"words", "phones", "resolve", "hand", "handed"} =>
       Len(replacementOf) = Len(words) /\ Owners
  /\ step \in {"phones", "resolve", "hand", "handed"} =>
       /\ Ordered(words, size) /\ Covering(phrases, words, size)
       /\ EndOf(phrases) = Len(words) /\ Len(phoneOf) = Len(words)

\* The phone overrides looked at so far have their word, the others none.
Phones(last) ==
  /\ \A w \in DOMAIN words : phoneOf[w] # 0 =>
       /\ phoneOf[w] \in DOMAIN overrides /\ phoneOf[w] <= last
       /\ words[w] = overrides[phoneOf[w]].span
  /\ \A i \in DOMAIN overrides : i <= last /\ overrides[i].kind = "phone" =>
       \E w \in DOMAIN words :
         /\ phoneOf[w] = i /\ words[w] = overrides[i].span
         /\ \A v \in DOMAIN words \ {w} : ~Overlap(words[v], overrides[i].span)

PhonesInv ==
  /\ step = "phones" => cursor <= Len(overrides) + 1 /\ Phones(cursor - 1)
  /\ step \in {"resolve", "hand", "handed"} => Phones(Len(overrides))

HandedInv ==
  /\ step \in Steps \ {"hand", "handed"} => handed = <<>>
  /\ step \in {"hand", "handed"} =>
       /\ Covering(handed, words, size)
       /\ \A p \in DOMAIN handed : handed[p].wordStart < handed[p].wordEnd
  /\ step = "hand" =>
       /\ cursor <= Len(phrases) + 1
       /\ EndOf(handed) = IF cursor <= Len(phrases) THEN phrases[cursor].wordStart ELSE Len(words)
  /\ step = "handed" => EndOf(handed) = Len(words)

IInv ==
  /\ TypeOK /\ EntriesInv /\ MapInv /\ ReadInv /\ WordsInv /\ PhonesInv /\ HandedInv
  /\ FailureLocated

-----------------------------------------------------------------------------
(* The map of spans.                                                       *)

\* What bounds a set from within is its Min, or its Max.
LEMMA MinIs ==
  ASSUME NEW S \in SUBSET Nat, NEW x \in S, \A y \in S : x <= y
  PROVE  Min(S) = x
  <1>1. \A z \in S : (\A y \in S : z <= y) => z = x
    OBVIOUS
  <1> QED
    BY <1>1, Zenon DEF Min

LEMMA MaxIs ==
  ASSUME NEW S \in SUBSET Nat, NEW x \in S, \A y \in S : y <= x
  PROVE  Max(S) = x
  <1>1. \A z \in S : (\A y \in S : y <= z) => z = x
    OBVIOUS
  <1> QED
    BY <1>1, Zenon DEF Max

\* The types of the parts of the map and of the overrides.
LEMMA MapTyped ==
  ASSUME TypeOK
  PROVE  /\ outSize \in Nat /\ size \in Nat /\ sourceCursor \in Nat
         /\ Len(map) \in Nat /\ DOMAIN map = 1..Len(map)
         /\ \A k \in DOMAIN map :
              /\ k \in Nat /\ map[k].out \in SpanType /\ map[k].source \in SpanType
              /\ map[k].out.start \in Nat /\ map[k].out.end \in Nat
              /\ map[k].source.start \in Nat /\ map[k].source.end \in Nat
              /\ map[k].override \in Nat
  <1>1. /\ outSize \in Nat /\ size \in Nat /\ sourceCursor \in Nat
        /\ map \in Seq(SegmentType)
    BY DEF TypeOK
  <1>2. Len(map) \in Nat /\ DOMAIN map = 1..Len(map)
    BY <1>1, LenProperties
  <1>3. \A k \in DOMAIN map : map[k] \in SegmentType
    BY <1>1, <1>2, ElementOfSeq
  <1>4. \A k \in DOMAIN map : k \in Nat
    BY <1>2
  <1> QED
    BY <1>1, <1>2, <1>3, <1>4 DEF SegmentType, SpanType

LEMMA OverridesTyped ==
  ASSUME TypeOK
  PROVE  /\ Len(overrides) \in Nat /\ DOMAIN overrides = 1..Len(overrides)
         /\ \A i \in DOMAIN overrides :
              /\ i \in Nat /\ i # 0 /\ i <= Len(overrides)
              /\ overrides[i].span \in SpanType /\ overrides[i].size \in Nat
              /\ overrides[i].span.start \in Nat /\ overrides[i].span.end \in Nat
  <1>1. overrides \in Seq(EntryType)
    BY DEF TypeOK
  <1>2. Len(overrides) \in Nat /\ DOMAIN overrides = 1..Len(overrides)
    BY <1>1, LenProperties
  <1>3. \A i \in DOMAIN overrides :
          overrides[i] \in EntryType
    BY <1>1, <1>2, ElementOfSeq
  <1>4. \A i \in DOMAIN overrides : i \in Nat /\ i # 0 /\ i <= Len(overrides)
    BY <1>2
  <1> QED
    BY <1>2, <1>3, <1>4 DEF EntryType, SpanType

Readable(out) == out \in SpanType /\ out.start < out.end /\ out.end <= outSize

\* i and j are the segments of the first and of the last byte of a span.
FirstAndLast(i, j, out) ==
  /\ i \in DOMAIN map /\ j \in DOMAIN map /\ i <= j
  /\ map[i].out.start <= out.start /\ out.start < map[i].out.end
  /\ map[j].out.start < out.end /\ out.end <= map[j].out.end

LEMMA Ends ==
  ASSUME TypeOK, NEW limit \in Nat, Tiling(limit), NEW out, Readable(out)
  PROVE  \E i, j \in DOMAIN map : FirstAndLast(i, j, out)
  <1> DEFINE before == out.end - 1
  <1>1. out.start \in Nat /\ before \in Nat /\ out.start <= before /\ before < outSize
        /\ out.end \in Nat /\ outSize \in Nat
    BY MapTyped DEF Readable, SpanType
  <1>2. PICK i \in DOMAIN map : map[i].out.start <= out.start /\ out.start < map[i].out.end
    BY <1>1 DEF Tiling, Tiles
  <1>3. PICK j \in DOMAIN map : map[j].out.start <= before /\ before < map[j].out.end
    BY <1>1 DEF Tiling, Tiles
  <1>4. /\ map[i].out.start \in Nat /\ map[i].out.end \in Nat /\ i \in Nat
        /\ map[j].out.start \in Nat /\ map[j].out.end \in Nat /\ j \in Nat
    BY MapTyped, <1>2, <1>3
  <1>5. i <= j
    <2>1. SUFFICES ASSUME j < i PROVE FALSE
      BY <1>4
    <2>2. map[j].out.end <= map[i].out.start
      BY <2>1, <1>2, <1>3 DEF Tiling, Tiles
    <2> QED
      BY <2>2, <1>1, <1>2, <1>3, <1>4 DEF SpanType
  <1> QED
    BY <1>1, <1>2, <1>3, <1>4, <1>5 DEF FirstAndLast, SpanType

\* The segments a span touches lie between those, and so do their pieces.
LEMMA Pieces ==
  ASSUME TypeOK, NEW limit \in Nat, Tiling(limit), NEW out, Readable(out),
         NEW i, NEW j, FirstAndLast(i, j, out)
  PROVE  /\ i \in Touched(out) /\ j \in Touched(out)
         /\ \A k \in Touched(out) :
              /\ k \in DOMAIN map /\ i <= k /\ k <= j
              /\ Piece(k, out) \in SpanType
              /\ Piece(i, out).start <= Piece(k, out).start
              /\ Piece(k, out).end <= Piece(j, out).end
              /\ Piece(k, out).start < Piece(k, out).end
              /\ map[k].source.start <= Piece(k, out).start
              /\ Piece(k, out).end <= map[k].source.end
  <1> USE DEF SpanType
  <1>1. out.start \in Nat /\ out.end \in Nat /\ out.start < out.end
    BY DEF Readable
  <1>2. \A k \in DOMAIN map :
          /\ k \in Nat /\ map[k].out.start \in Nat /\ map[k].out.end \in Nat
          /\ map[k].source \in SpanType /\ map[k].override \in Nat
          /\ map[k].source.start \in Nat /\ map[k].source.end \in Nat
    BY MapTyped
  <1>3. i \in Touched(out) /\ j \in Touched(out)
    BY <1>1, <1>2 DEF FirstAndLast, Touched, Greatest, Least, Tiling, Tiles
  <1>4. \A k \in Touched(out) :
          k \in DOMAIN map /\ map[k].out.start < out.end /\ out.start < map[k].out.end
    BY <1>1, <1>2 DEF Touched, Greatest, Least
  <1>5. \A k \in Touched(out) : i <= k /\ k <= j
    BY <1>1, <1>2, <1>4 DEF FirstAndLast, Tiling, Tiles
  <1>6. ASSUME NEW k \in Touched(out)
        PROVE  /\ Piece(k, out) \in SpanType
               /\ Piece(k, out).start < Piece(k, out).end
               /\ map[k].source.start <= Piece(k, out).start
               /\ Piece(k, out).end <= map[k].source.end
    BY <1>1, <1>2, <1>4 DEF Piece, Span, Greatest, Least, Tiling, Tiles
  <1>7. ASSUME NEW k \in Touched(out), i # k
        PROVE  Piece(i, out).start <= Piece(k, out).start
    <2>1. i < k /\ i \in DOMAIN map /\ k \in DOMAIN map
      BY <1>2, <1>3, <1>4, <1>5, <1>7
    <2>2. map[i].source.end <= map[k].source.start
      BY <2>1 DEF Tiling, Tiles
    <2> QED
      BY <2>2, <1>2, <1>3, <1>4, <1>6
  <1>8. ASSUME NEW k \in Touched(out), j # k
        PROVE  Piece(k, out).end <= Piece(j, out).end
    <2>1. k < j /\ k \in DOMAIN map /\ j \in DOMAIN map
      BY <1>2, <1>3, <1>4, <1>5, <1>8
    <2>2. map[k].source.end <= map[j].source.start
      BY <2>1 DEF Tiling, Tiles
    <2> QED
      BY <2>2, <1>2, <1>3, <1>4, <1>6
  <1> QED
    BY <1>3, <1>4, <1>5, <1>6, <1>7, <1>8

\* So a span is mapped to the hull of its first and its last piece.
LEMMA Hull ==
  ASSUME TypeOK, NEW limit \in Nat, Tiling(limit), NEW out, Readable(out),
         NEW i, NEW j, FirstAndLast(i, j, out)
  PROVE  MapSpan(out) = Span(Piece(i, out).start, Piece(j, out).end)
  <1> DEFINE starts == {Piece(k, out).start : k \in Touched(out)}
             ends   == {Piece(k, out).end : k \in Touched(out)}
  <1>1. starts \in SUBSET Nat /\ ends \in SUBSET Nat
    BY Pieces DEF SpanType
  <1>2. Piece(i, out).start \in starts /\ Piece(j, out).end \in ends
    BY Pieces
  <1>3. (\A y \in starts : Piece(i, out).start <= y) /\ (\A y \in ends : y <= Piece(j, out).end)
    BY Pieces
  <1> HIDE DEF starts, ends
  <1>4. Min(starts) = Piece(i, out).start /\ Max(ends) = Piece(j, out).end
    BY <1>1, <1>2, <1>3, MinIs, MaxIs
  <1>5. Touched(out) # {}
    BY Pieces
  <1> QED
    BY <1>4, <1>5 DEF MapSpan, starts, ends

LEMMA MapInText ==
  ASSUME TypeOK, NEW limit \in Nat, Tiling(limit), NEW out, Readable(out)
  PROVE  /\ MapSpan(out) \in SpanType
         /\ MapSpan(out).start < MapSpan(out).end /\ MapSpan(out).end <= limit
  <1>1. PICK i, j \in DOMAIN map : FirstAndLast(i, j, out)
    BY Ends
  <1>2. MapSpan(out) = Span(Piece(i, out).start, Piece(j, out).end)
    BY <1>1, Hull
  <1>3. /\ Piece(i, out) \in SpanType /\ Piece(j, out) \in SpanType
        /\ Piece(i, out).start <= Piece(j, out).start
        /\ Piece(j, out).start < Piece(j, out).end
        /\ Piece(j, out).end <= map[j].source.end
    BY <1>1, Pieces
  <1>4. map[j].source.end <= limit /\ map[j].source.end \in Nat
    BY <1>1, MapTyped DEF Tiling, Tiles, FirstAndLast
  <1> QED
    BY <1>2, <1>3, <1>4 DEF Span, SpanType

\* Mapping keeps the order of starts and the order of ends.
LEMMA MapMonotone ==
  ASSUME TypeOK, NEW limit \in Nat, Tiling(limit),
         NEW out, Readable(out), NEW other, Readable(other)
  PROVE  /\ out.start <= other.start => MapSpan(out).start <= MapSpan(other).start
         /\ out.end <= other.end => MapSpan(out).end <= MapSpan(other).end
  <1> USE DEF SpanType
  <1>0. PICK i, j \in DOMAIN map : FirstAndLast(i, j, out)
    BY Ends
  <1>1. PICK k, l \in DOMAIN map : FirstAndLast(k, l, other)
    BY Ends
  <1>2. MapSpan(out) = Span(Piece(i, out).start, Piece(j, out).end)
    BY <1>0, Hull
  <1>3. MapSpan(other) = Span(Piece(k, other).start, Piece(l, other).end)
    BY <1>1, Hull
  <1>4. \A h \in DOMAIN map :
          /\ h \in Nat /\ map[h].out.start \in Nat /\ map[h].out.end \in Nat
          /\ map[h].source.start \in Nat /\ map[h].source.end \in Nat
          /\ map[h].override \in Nat
    BY MapTyped
  <1>5. /\ Piece(i, out) \in SpanType /\ Piece(j, out) \in SpanType
        /\ Piece(i, out).end <= map[i].source.end
        /\ Piece(i, out).start < Piece(i, out).end
        /\ Piece(j, out).end <= map[j].source.end
    BY <1>0, Pieces
  <1>6. /\ Piece(k, other) \in SpanType /\ Piece(l, other) \in SpanType
        /\ map[k].source.start <= Piece(k, other).start
        /\ Piece(l, other).start < Piece(l, other).end
        /\ map[l].source.start <= Piece(l, other).start
    BY <1>1, Pieces
  <1>7. /\ out.start \in Nat /\ out.end \in Nat /\ out.start < out.end
        /\ other.start \in Nat /\ other.end \in Nat /\ other.start < other.end
    BY DEF Readable
  <1>8. ASSUME out.start <= other.start
        PROVE  Piece(i, out).start <= Piece(k, other).start
    <2>1. i <= k
      BY <1>0, <1>1, <1>4, <1>7, <1>8 DEF FirstAndLast, Tiling, Tiles
    <2>2. CASE i = k
      BY <2>2, <1>0, <1>1, <1>4, <1>7, <1>8 DEF FirstAndLast, Piece, Span, Greatest, Least
    <2>3. CASE i # k
      <3>1. i < k
        BY <2>1, <2>3, <1>0, <1>1, <1>4 DEF FirstAndLast
      <3>2. map[i].source.end <= map[k].source.start
        BY <3>1, <1>0, <1>1 DEF Tiling, Tiles, FirstAndLast
      <3> QED
        BY <3>2, <1>0, <1>1, <1>4, <1>5, <1>6
    <2> QED
      BY <2>2, <2>3
  <1>9. ASSUME out.end <= other.end
        PROVE  Piece(j, out).end <= Piece(l, other).end
    <2>1. j <= l
      BY <1>0, <1>1, <1>4, <1>7, <1>9 DEF FirstAndLast, Tiling, Tiles
    <2>2. CASE j = l
      BY <2>2, <1>0, <1>1, <1>4, <1>7, <1>9 DEF FirstAndLast, Piece, Span, Greatest, Least
    <2>3. CASE j # l
      <3>1. j < l
        BY <2>1, <2>3, <1>0, <1>1, <1>4 DEF FirstAndLast
      <3>2. map[j].source.end <= map[l].source.start
        BY <3>1, <1>0, <1>1 DEF Tiling, Tiles, FirstAndLast
      <3> QED
        BY <3>2, <1>0, <1>1, <1>4, <1>5, <1>6
    <2> QED
      BY <2>2, <2>3
  <1> QED
    BY <1>2, <1>3, <1>8, <1>9 DEF Span

\* A word meets the bytes of a replacement in the request if and only if it
\* touches the replacement where it was read.
LEMMA OwnerMeets ==
  ASSUME TypeOK, EntriesInv, NEW limit \in Nat, Tiling(limit), Replaced(Len(overrides)),
         NEW out, Readable(out),
         NEW r \in DOMAIN overrides, overrides[r].kind = "text"
  PROVE  r \in Replacements(out) <=> Overlap(overrides[r].span, MapSpan(out))
  <1> USE DEF SpanType
  <1>0. PICK i, j \in DOMAIN map : FirstAndLast(i, j, out)
    BY Ends
  <1>1. MapSpan(out) = Span(Piece(i, out).start, Piece(j, out).end)
    BY <1>0, Hull
  <1>2. r \in Nat /\ r # 0 /\ r <= Len(overrides)
    BY OverridesTyped
  <1>3. PICK k \in DOMAIN map : map[k].override = r
    BY <1>2 DEF Replaced
  <1>4. \A h \in DOMAIN map :
          /\ h \in Nat /\ map[h].out.start \in Nat /\ map[h].out.end \in Nat
          /\ map[h].source.start \in Nat /\ map[h].source.end \in Nat
          /\ map[h].source.start < map[h].source.end
          /\ map[h].override \in Nat
    BY MapTyped DEF Tiling, Tiles
  <1>5. map[k].source = overrides[r].span
    BY <1>2, <1>3 DEF Tiling, Tiles
  <1>6. out.start \in Nat /\ out.end \in Nat /\ out.start < out.end
    BY DEF Readable
  <1>7. Touched(out) \subseteq DOMAIN map /\ i \in Touched(out) /\ j \in Touched(out)
    BY <1>0, Pieces
  <1>8. \A h \in Touched(out) :
          /\ Piece(h, out) \in SpanType
          /\ Piece(i, out).start <= Piece(h, out).start
          /\ Piece(h, out).end <= Piece(j, out).end
          /\ Piece(h, out).start < Piece(h, out).end
          /\ map[h].source.start <= Piece(h, out).start
          /\ Piece(h, out).end <= map[h].source.end
    BY <1>0, Pieces
  <1>9. ASSUME r \in Replacements(out)
        PROVE  Overlap(overrides[r].span, MapSpan(out))
    <2>1. PICK h \in Touched(out) : map[h].override = r
      BY <1>9 DEF Replacements
    <2>2. Piece(h, out) = overrides[r].span
      BY <2>1, <1>2, <1>7 DEF Piece, Tiling, Tiles
    <2> QED
      BY <2>1, <2>2, <1>1, <1>7, <1>8 DEF Overlap, Span
  <1>10. ASSUME Overlap(overrides[r].span, MapSpan(out))
         PROVE  r \in Replacements(out)
    <2>1. map[k].source.start < Piece(j, out).end /\ Piece(i, out).start < map[k].source.end
      BY <1>10, <1>1, <1>5 DEF Overlap, Span
    <2>2. k <= j
      <3>1. SUFFICES ASSUME j < k PROVE FALSE
        BY <1>4
      <3>2. map[j].source.end <= map[k].source.start
        BY <3>1 DEF Tiling, Tiles
      <3> QED
        BY <3>2, <2>1, <1>4, <1>7, <1>8
    <2>3. i <= k
      <3>1. SUFFICES ASSUME k < i PROVE FALSE
        BY <1>4
      <3>2. map[k].source.end <= map[i].source.start
        BY <3>1 DEF Tiling, Tiles
      <3> QED
        BY <3>2, <2>1, <1>4, <1>7, <1>8
    <2>4. out.start < map[k].out.end
      <3>1. CASE i = k
        BY <3>1, <1>0 DEF FirstAndLast
      <3>2. CASE i # k
        <4>1. i < k
          BY <2>3, <3>2, <1>4
        <4>2. map[i].out.end <= map[k].out.start /\ map[k].out.start < map[k].out.end
          BY <4>1 DEF Tiling, Tiles
        <4>3. out.start < map[i].out.end /\ map[i].out.end \in Nat
          BY <1>0, <1>4 DEF FirstAndLast
        <4>4. map[k].out.start \in Nat /\ map[k].out.end \in Nat
          BY <1>3, <1>4
        <4> QED
          BY <4>2, <4>3, <4>4, <1>6
      <3> QED
        BY <3>1, <3>2
    <2>5. map[k].out.start < out.end
      <3>1. CASE k = j
        BY <3>1, <1>0 DEF FirstAndLast
      <3>2. CASE k # j
        <4>1. k < j
          BY <2>2, <3>2, <1>4
        <4>2. map[k].out.end <= map[j].out.start /\ map[k].out.start < map[k].out.end
          BY <4>1 DEF Tiling, Tiles
        <4>3. map[j].out.start < out.end /\ map[j].out.start \in Nat
          BY <1>0, <1>4 DEF FirstAndLast
        <4>4. map[k].out.start \in Nat /\ map[k].out.end \in Nat
          BY <1>3, <1>4
        <4> QED
          BY <4>2, <4>3, <4>4, <1>6
      <3> QED
        BY <3>1, <3>2
    <2>6. k \in Touched(out)
      BY <2>4, <2>5, <1>4, <1>6 DEF Touched, Greatest, Least, Tiling, Tiles
    <2> QED
      BY <2>6, <1>2, <1>3 DEF Replacements
  <1> QED
    BY <1>9, <1>10

\* A set of numbers has a least one.
LEMMA MinExists ==
  ASSUME NEW S \in SUBSET Nat, S # {}
  PROVE  Min(S) \in S /\ \A y \in S : Min(S) <= y
  <1>1. PICK x \in S : \A y \in S : ~(<<y, x>> \in OpToRel(<, Nat))
    BY NatLessThanWellFounded, WFMin
  <1>2. \A y \in S : ~(y < x)
    BY <1>1 DEF OpToRel
  <1>3. \A y \in S : x <= y
    BY <1>2
  <1>4. Min(S) = x
    BY <1>3, MinIs
  <1> QED
    BY <1>3, <1>4

\* One more segment, after the others.
LEMMA AppendTiles ==
  ASSUME NEW segments \in Seq(SegmentType),
         NEW total \in Nat, NEW limit \in Nat, Tiles(segments, total, limit),
         NEW to \in Nat, NEW from \in Nat, NEW last \in Nat, NEW r \in Nat,
         total <= to, limit <= from, from <= last,
         total < to => from < last,
         r = 0 => last - from = to - total,
         r # 0 => r \in DOMAIN overrides /\ overrides[r].kind = "text"
                    /\ overrides[r].span = Span(from, last),
         NEW more, more = AppendSegment(segments, Span(total, to), Span(from, last), r)
  PROVE  /\ Tiles(more, to, last)
         /\ more \in Seq(SegmentType)
         /\ DOMAIN segments \subseteq DOMAIN more
         /\ \A i \in DOMAIN segments : more[i] = segments[i]
         /\ total < to => \E i \in DOMAIN more : more[i].override = r
  <1> DEFINE segment == [out |-> Span(total, to), source |-> Span(from, last), override |-> r]
  <1>1. segment \in SegmentType
    BY DEF SegmentType, SpanType, Span
  <1>2. Len(segments) \in Nat /\ DOMAIN segments = 1..Len(segments)
    BY LenProperties
  <1>3. \A i \in DOMAIN segments : segments[i] \in SegmentType
    BY <1>2, ElementOfSeq
  <1>4. \A i \in DOMAIN segments :
          /\ i \in Nat /\ segments[i].out.start \in Nat /\ segments[i].out.end \in Nat
          /\ segments[i].source.start \in Nat /\ segments[i].source.end \in Nat
          /\ segments[i].override \in Nat
    <2>1. \A g \in SegmentType :
            /\ g.out.start \in Nat /\ g.out.end \in Nat
            /\ g.source.start \in Nat /\ g.source.end \in Nat
            /\ g.override \in Nat
      BY DEF SegmentType, SpanType
    <2> QED
      BY <1>2, <1>3, <2>1
  <1>5. CASE total = to
    <2>1. more = segments
      BY <1>5 DEF AppendSegment, Span
    <2>2. Tiles(segments, to, last)
      BY <1>4, <1>5 DEF Tiles
    <2> QED
      BY <1>5, <2>1, <2>2
  <1>6. CASE total < to
    <2>1. more = Append(segments, segment)
      BY <1>6 DEF AppendSegment, Span
    <2> HIDE DEF segment
    <2>2. /\ more \in Seq(SegmentType)
          /\ Len(more) = Len(segments) + 1
          /\ \A i \in 1..Len(segments) : more[i] = segments[i]
          /\ more[Len(segments) + 1] = segment
      BY <1>1, <2>1, AppendProperties
    <2>3. DOMAIN more = 1..Len(segments) + 1
      BY <2>2, LenProperties
    <2>4. \A i \in DOMAIN more : i = Len(segments) + 1 \/ i \in DOMAIN segments
      BY <1>2, <2>3
    <2>5. segment = [out |-> [start |-> total, end |-> to],
                     source |-> [start |-> from, end |-> last], override |-> r]
      BY DEF segment, Span
    <2>6. Tiles(more, to, last)
      <3>1. ASSUME NEW i \in DOMAIN more
            PROVE  /\ more[i].out.start < more[i].out.end /\ more[i].out.end <= to
                   /\ more[i].source.start < more[i].source.end /\ more[i].source.end <= last
                   /\ more[i].override = 0 =>
                        more[i].source.end = more[i].source.start
                                               + (more[i].out.end - more[i].out.start)
                   /\ more[i].override # 0 =>
                        /\ more[i].override \in DOMAIN overrides
                        /\ overrides[more[i].override].kind = "text"
                        /\ more[i].source = overrides[more[i].override].span
        <4>1. CASE i = Len(segments) + 1
          <5>1. more[i] = segment
            BY <4>1, <2>2
          <5> QED
            <6>1. /\ more[i].out.start = total /\ more[i].out.end = to
                  /\ more[i].source.start = from /\ more[i].source.end = last
                  /\ more[i].override = r
              BY <5>1, <2>5
            <6>2. more[i].source = Span(from, last)
              BY <5>1, <2>5 DEF Span
            <6> QED
              BY <6>1, <6>2, <1>6
        <4>2. CASE i \in DOMAIN segments
          <5>1. more[i] = segments[i]
            BY <4>2, <1>2, <2>2
          <5>2. /\ segments[i].out.end <= total /\ segments[i].source.end <= limit
                /\ segments[i].out.start < segments[i].out.end
                /\ segments[i].source.start < segments[i].source.end
                /\ segments[i].override = 0 =>
                     segments[i].source.end = segments[i].source.start
                                                + (segments[i].out.end - segments[i].out.start)
                /\ segments[i].override # 0 =>
                     /\ segments[i].override \in DOMAIN overrides
                     /\ overrides[segments[i].override].kind = "text"
                     /\ segments[i].source = overrides[segments[i].override].span
            BY <4>2, Zenon DEF Tiles
          <5> QED
            <6>1. segments[i].out.end \in Nat /\ segments[i].source.end \in Nat
              BY <4>2, <1>4
            <6>2. segments[i].out.end <= to /\ segments[i].source.end <= last
              BY <6>1, <5>2, <1>6, SMTT(20)
            <6> QED
              BY <6>2, <5>1, <5>2
        <4> QED
          BY <4>1, <4>2, <2>4
      <3>2. ASSUME NEW i \in DOMAIN more, NEW j \in DOMAIN more, i < j
            PROVE  /\ more[i].out.end <= more[j].out.start
                   /\ more[i].source.end <= more[j].source.start
        <4>1. i \in DOMAIN segments
          BY <3>2, <1>2, <2>3
        <4>2. CASE j = Len(segments) + 1
          BY <4>1, <4>2, <1>2, <1>4, <2>2, <2>5 DEF Tiles
        <4>3. CASE j \in DOMAIN segments
          BY <4>1, <4>3, <3>2, <1>2, <1>4, <2>2 DEF Tiles
        <4> QED
          BY <4>2, <4>3, <2>4
      <3>3. ASSUME NEW offset \in Nat, offset < to
            PROVE  \E i \in DOMAIN more : more[i].out.start <= offset /\ offset < more[i].out.end
        <4>1. CASE offset < total
          <5>1. PICK i \in DOMAIN segments :
                  segments[i].out.start <= offset /\ offset < segments[i].out.end
            BY <4>1 DEF Tiles
          <5> QED
            BY <5>1, <1>2, <2>2, <2>3
        <4>2. CASE total <= offset
          BY <4>2, <3>3, <1>2, <2>2, <2>3, <2>5
        <4> QED
          BY <4>1, <4>2
      <3> QED
        BY <3>1, <3>2, <3>3 DEF Tiles
    <2>7. \E i \in DOMAIN more : more[i].override = r
      BY <1>2, <2>2, <2>3, <2>5
    <2>8. DOMAIN segments \subseteq DOMAIN more /\ \A i \in DOMAIN segments : more[i] = segments[i]
      BY <1>2, <2>2, <2>3
    <2> QED
      BY <2>2, <2>6, <2>7, <2>8
  <1> QED
    BY <1>5, <1>6

\* One more phrase, after the others.
LEMMA AppendCovering ==
  ASSUME NEW ranges \in Seq(PhraseType), NEW spans \in Seq(SpanType), NEW limit \in Nat,
         Covering(ranges, spans, limit), NEW range \in PhraseType,
         range.wordStart = EndOf(ranges), range.wordStart <= range.wordEnd,
         range.wordEnd <= Len(spans),
         range.span.start < range.span.end, range.span.end <= limit,
         range.wordStart < range.wordEnd =>
           /\ range.span.start = spans[range.wordStart + 1].start
           /\ spans[range.wordEnd].end <= range.span.end
  PROVE  /\ Covering(Append(ranges, range), spans, limit)
         /\ EndOf(Append(ranges, range)) = range.wordEnd
         /\ Append(ranges, range) \in Seq(PhraseType)
  <1> DEFINE more == Append(ranges, range)
  <1>1. Len(ranges) \in Nat /\ DOMAIN ranges = 1..Len(ranges)
    BY LenProperties
  <1>2. /\ more \in Seq(PhraseType) /\ more # <<>> /\ Len(more) = Len(ranges) + 1
        /\ \A p \in 1..Len(ranges) : more[p] = ranges[p]
        /\ more[Len(ranges) + 1] = range
    BY AppendProperties
  <1>3. DOMAIN more = 1..Len(ranges) + 1
    BY <1>2, LenProperties
  <1>4. EndOf(more) = range.wordEnd
    BY <1>2 DEF EndOf
  <1>5. EndOf(ranges) = IF Len(ranges) + 1 = 1 THEN 0 ELSE ranges[Len(ranges)].wordEnd
    BY <1>1, EmptySeq DEF EndOf
  <1> HIDE DEF more
  <1>6. ASSUME NEW p \in DOMAIN more
        PROVE  /\ more[p].wordStart = (IF p = 1 THEN 0 ELSE more[p - 1].wordEnd)
               /\ more[p].wordStart <= more[p].wordEnd /\ more[p].wordEnd <= Len(spans)
               /\ more[p].span.start < more[p].span.end /\ more[p].span.end <= limit
               /\ more[p].wordStart < more[p].wordEnd =>
                    /\ more[p].span.start = spans[more[p].wordStart + 1].start
                    /\ spans[more[p].wordEnd].end <= more[p].span.end
    <2>1. CASE p = Len(ranges) + 1
      <3>1. p # 1 => p - 1 \in 1..Len(ranges) /\ p - 1 = Len(ranges)
        BY <2>1, <1>1
      <3> QED
        BY <2>1, <3>1, <1>2, <1>5
    <2>2. CASE p \in 1..Len(ranges)
      <3>1. p # 1 => p - 1 \in 1..Len(ranges)
        BY <2>2, <1>1
      <3>2. p # 1 => more[p - 1] = ranges[p - 1]
        BY <3>1, <1>2
      <3>3. more[p] = ranges[p] /\ p \in DOMAIN ranges
        BY <2>2, <1>1, <1>2
      <3> QED
        BY <3>2, <3>3, Zenon DEF Covering
    <2> QED
      BY <2>1, <2>2, <1>1, <1>3
  <1>7. Covering(more, spans, limit)
    BY <1>6, Zenon DEF Covering
  <1> QED
    BY <1>2, <1>4, <1>7 DEF more

-----------------------------------------------------------------------------
(* Every step keeps the invariant.                                         *)

LEMMA Initially == Init => IInv
  <1> SUFFICES ASSUME Init PROVE IInv
    OBVIOUS
  <1> USE DEF Init
  <1>1. size \in Nat
    BY TextAssumption
  <1>2. TypeOK
    BY <1>1 DEF TypeOK, Steps, Late, SpanType, Span, NewPhrase, NoFailure
  <1>3. EntriesInv /\ MapInv /\ WordsInv /\ PhonesInv /\ HandedInv /\ FailureLocated
    BY DEF EntriesInv, MapInv, WordsInv, PhonesInv, HandedInv, FailureLocated, Late, Steps
  <1>4. ReadInv
    BY DEF ReadInv, Late
  <1> QED
    BY <1>2, <1>3, <1>4 DEF IInv

\* A rejection keeps it, if it is located.
LEMMA RejectKeeps ==
  ASSUME IInv, NEW span \in SpanType, NEW override \in Nat, Reject(span, override),
         UNCHANGED request, span.start <= span.end, span.end <= size,
         override # 0 => Overlap(overrides[override].span, span)
  PROVE  IInv'
  <1> USE DEF IInv, Reject, request, mapVars, readVars, owners
  <1>1. TypeOK'
    BY DEF TypeOK, Steps
  <1>2. EntriesInv'
    BY DEF EntriesInv
  <1>3. MapInv' /\ WordsInv' /\ PhonesInv' /\ HandedInv'
    BY DEF MapInv, WordsInv, PhonesInv, HandedInv, Late, Steps
  <1>4. ReadInv'
    BY DEF ReadInv, Late
  <1>5. FailureLocated'
    BY DEF FailureLocated, Overlap
  <1> QED
    BY <1>1, <1>2, <1>3, <1>4, <1>5

\* A rejection without a span of its own.
LEMMA RejectNowhere ==
  ASSUME IInv, Reject(Span(0, 0), 0)
  PROVE  IInv'
  <1>1. size \in Nat /\ Span(0, 0) \in SpanType /\ Span(0, 0).start = 0 /\ Span(0, 0).end = 0
    BY DEF IInv, TypeOK, Span, SpanType
  <1> QED
    BY <1>1, RejectKeeps DEF Reject

\* The rejection of an offset in the request as it is.
LEMMA RejectOffset ==
  ASSUME IInv, NEW offset \in 0..size, Reject(OffsetSpan(offset), 0)
  PROVE  IInv'
  <1>1. size \in Nat
    BY DEF IInv, TypeOK
  <1>2. /\ OffsetSpan(offset) \in SpanType
        /\ OffsetSpan(offset).start <= OffsetSpan(offset).end /\ OffsetSpan(offset).end <= size
    BY <1>1 DEF OffsetSpan, Span, SpanType, Least
  <1> QED
    BY <1>2, RejectKeeps DEF Reject

LEMMA RefuseEntryKeeps == IInv /\ RefuseEntry => IInv'
  BY RejectNowhere DEF RefuseEntry

LEMMA AnalysisFailsKeeps == IInv /\ AnalysisFails => IInv'
  BY RejectOffset DEF AnalysisFails

LEMMA ExpandedTooLargeKeeps == IInv /\ ExpandedTooLarge => IInv'
  BY RejectNowhere DEF ExpandedTooLarge

\* An override that is rejected meets its own span.
LEMMA RejectEntry ==
  ASSUME IInv, NEW i \in DOMAIN overrides, Reject(overrides[i].span, i)
  PROVE  IInv'
  <1>1. /\ overrides[i].span \in SpanType /\ i \in Nat
        /\ overrides[i].span.start \in Nat /\ overrides[i].span.end \in Nat
    BY OverridesTyped DEF IInv
  <1>2. overrides[i].span.start < overrides[i].span.end /\ overrides[i].span.end <= size
    BY DEF IInv, EntriesInv
  <1> QED
    BY <1>1, <1>2, RejectKeeps DEF Reject, Overlap

LEMMA EntryInvalidKeeps == IInv /\ EntryInvalid => IInv'
  BY RejectEntry DEF EntryInvalid

LEMMA NoTargetKeeps == IInv /\ NoTarget => IInv'
  BY RejectEntry DEF NoTarget

LEMMA SameSpans ==
  ASSUME UNCHANGED map
  PROVE  \A out : MapSpan(out)' = MapSpan(out) /\ Replacements(out)' = Replacements(out)
  BY DEF MapSpan, Replacements, Touched, Piece

LEMMA StutterKeeps == IInv /\ UNCHANGED vars => IInv'
  <1> SUFFICES ASSUME IInv, UNCHANGED vars PROVE IInv'
    OBVIOUS
  <1> USE DEF IInv, vars, request, mapVars, readVars, owners
  <1>1. TypeOK' /\ EntriesInv' /\ FailureLocated'
    BY DEF TypeOK, EntriesInv, FailureLocated
  <1>2. MapInv'
    BY DEF MapInv, Tiling, Tiles, Replaced, PreviousEnd
  <1>3. ReadInv'
    BY DEF ReadInv, Ordered, Covering, BuilderInv, BudgetInv
  <1>4. WordsInv'
    BY SameSpans DEF WordsInv, Owners, Ordered, Covering
  <1>5. PhonesInv' /\ HandedInv'
    BY DEF PhonesInv, Phones, HandedInv, Covering
  <1> QED
    BY <1>1, <1>2, <1>3, <1>4, <1>5

-----------------------------------------------------------------------------
(* The overrides and the text to be read.                                  *)

LEMMA CopyEntryKeeps == IInv /\ CopyEntry => IInv'
  <1> SUFFICES ASSUME IInv, CopyEntry PROVE IInv'
    OBVIOUS
  <1>1. PICK entry \in Entries : Admitted(entry) /\ overrides' = Append(overrides, entry)
    BY DEF CopyEntry
  <1> USE DEF IInv, CopyEntry, Stay, request, mapVars, readVars, owners
  <1>2. overrides \in Seq(EntryType) /\ entry \in EntryType
    BY TextAssumption, OverridesAssumption DEF TypeOK, Entries, EntryType, Spans, SpanType
  <1>3. /\ Len(overrides) \in Nat /\ DOMAIN overrides = 1..Len(overrides)
        /\ \A i \in DOMAIN overrides :
             overrides[i].span.start \in Nat /\ overrides[i].span.end \in Nat
    BY OverridesTyped
  <1>4. /\ overrides' \in Seq(EntryType) /\ Len(overrides') = Len(overrides) + 1
        /\ \A i \in 1..Len(overrides) : overrides'[i] = overrides[i]
        /\ overrides'[Len(overrides) + 1] = entry
    BY <1>1, <1>2, AppendProperties
  <1>5. DOMAIN overrides' = 1..Len(overrides) + 1
    BY <1>4, LenProperties
  <1>6. TypeOK'
    BY <1>4 DEF TypeOK
  <1>7. EntriesInv'
    <2>1. /\ entry.span.start < entry.span.end /\ entry.span.end <= size
          /\ entry.kind \in {"text", "phone"}
          /\ entry.kind = "text" => entry.size > 0
          /\ entry.span.start \in Nat /\ entry.span.end \in Nat
      BY <1>1, <1>2 DEF Admitted, EntryType, SpanType
    <2>2. ASSUME NEW i \in DOMAIN overrides
          PROVE  overrides[i].span.end <= entry.span.start
      <3>1. /\ PreviousEnd(Len(overrides) + 1) = overrides[Len(overrides)].span.end
            /\ Len(overrides) \in DOMAIN overrides
        BY <1>3 DEF PreviousEnd
      <3>2. overrides[Len(overrides)].span.end <= entry.span.start
        BY <3>1, <1>1 DEF Admitted
      <3>3. i = Len(overrides) \/ i < Len(overrides)
        BY <1>3
      <3>4. i < Len(overrides) =>
              /\ overrides[i].span.end <= overrides[Len(overrides)].span.start
              /\ overrides[Len(overrides)].span.start < overrides[Len(overrides)].span.end
        BY <3>1 DEF EntriesInv
      <3> QED
        BY <3>1, <3>2, <3>3, <3>4, <2>1, <1>3
    <2>3. \A i \in DOMAIN overrides' : i \in DOMAIN overrides \/ i = Len(overrides) + 1
      BY <1>3, <1>5
    <2>4. \A i \in DOMAIN overrides' :
            /\ overrides'[i].span.start < overrides'[i].span.end /\ overrides'[i].span.end <= size
            /\ overrides'[i].kind \in {"text", "phone"}
            /\ overrides'[i].kind = "text" => overrides'[i].size > 0
      BY <2>1, <2>3, <1>3, <1>4 DEF EntriesInv
    <2>5. \A i, j \in DOMAIN overrides' :
            i < j => overrides'[i].span.end <= overrides'[j].span.start
      <3> SUFFICES ASSUME NEW i \in DOMAIN overrides', NEW j \in DOMAIN overrides', i < j
                   PROVE  overrides'[i].span.end <= overrides'[j].span.start
        OBVIOUS
      <3>1. i \in DOMAIN overrides /\ overrides'[i] = overrides[i]
        BY <1>3, <1>4, <1>5
      <3>2. CASE j = Len(overrides) + 1
        BY <3>1, <3>2, <2>2, <1>4
      <3>3. CASE j \in DOMAIN overrides
        <4>1. overrides'[j] = overrides[j]
          BY <3>3, <1>3, <1>4
        <4> QED
          BY <3>1, <3>3, <4>1 DEF EntriesInv
      <3> QED
        BY <3>2, <3>3, <2>3
    <2> QED
      BY <2>4, <2>5 DEF EntriesInv
  <1>8. MapInv' /\ WordsInv' /\ PhonesInv' /\ HandedInv' /\ FailureLocated'
    BY DEF MapInv, WordsInv, PhonesInv, HandedInv, FailureLocated, Late, Steps
  <1>9. ReadInv'
    BY DEF ReadInv, Late
  <1> QED
    BY <1>6, <1>7, <1>8, <1>9

LEMMA CopiedKeeps == IInv /\ Copied => IInv'
  <1> SUFFICES ASSUME IInv, Copied PROVE IInv'
    OBVIOUS
  <1> USE DEF IInv, Copied, Goto, request, mapVars, readVars, owners
  <1>1. TypeOK' /\ size \in Nat
    <2>1. step' \in Steps /\ cursor' \in Nat \ {0}
      BY DEF Steps, Late
    <2>2. outSize' \in Nat /\ size \in Nat
      BY DEF TypeOK
    <2> QED
      BY <2>1, <2>2 DEF TypeOK
  <1>2. EntriesInv' /\ WordsInv' /\ PhonesInv' /\ HandedInv' /\ FailureLocated'
    BY DEF EntriesInv, WordsInv, PhonesInv, HandedInv, FailureLocated, Steps, Late
  <1>3. MapInv'
    BY DEF MapInv, Late
  <1>4. /\ spoken = <<>> /\ phrases = <<>> /\ builder = NewPhrase(0) /\ scan = Span(0, 0)
        /\ words = <<>> /\ replacementOf = <<>> /\ bounded = <<>>
    BY DEF ReadInv
  <1>5. BuilderInv'
    BY <1>4 DEF BuilderInv, EndOf, NewPhrase
  <1>6. Ordered(spoken, outSize)' /\ Covering(phrases, spoken, outSize)'
    BY <1>4 DEF Ordered, Covering
  <1>7. scan'.start = 0 /\ scan'.end = 0 /\ outSize' \in Nat
    BY <1>1, <1>4 DEF Span, TypeOK
  <1>8. ReadInv'
    BY <1>4, <1>5, <1>6, <1>7 DEF ReadInv, Late
  <1> QED
    BY <1>1, <1>2, <1>3, <1>8

LEMMA AnalyzeKeeps == IInv /\ Analyze => IInv'
  <1> SUFFICES ASSUME IInv, Analyze PROVE IInv'
    OBVIOUS
  <1> USE DEF IInv, Analyze, Goto, request, mapVars, readVars, owners
  <1>1. TypeOK' /\ EntriesInv' /\ MapInv'
    BY DEF TypeOK, EntriesInv, MapInv, Steps, Late
  <1>2. WordsInv' /\ PhonesInv' /\ HandedInv' /\ FailureLocated'
    BY DEF WordsInv, PhonesInv, HandedInv, FailureLocated, Steps, Late
  <1>3. ReadInv'
    BY DEF ReadInv, Late
  <1> QED
    BY <1>1, <1>2, <1>3

LEMMA CheckEntryKeeps == IInv /\ CheckEntry => IInv'
  <1> SUFFICES ASSUME IInv, CheckEntry PROVE IInv'
    OBVIOUS
  <1> USE DEF IInv, CheckEntry, Goto, NextIndex, request, mapVars, readVars, owners
  <1>1. TypeOK' /\ EntriesInv'
    <2>1. cursor \in Nat
      BY DEF TypeOK
    <2>2. EntriesInv'
      BY DEF EntriesInv
    <2>3. step' \in Steps /\ cursor' \in Nat \ {0}
      BY <2>1 DEF Steps, Late
    <2> QED
      BY <2>2, <2>3 DEF TypeOK
  <1>2. MapInv'
    <2>1. CASE step' = "check"
      BY <2>1 DEF MapInv, Late
    <2>2. CASE step' = "build" /\ cursor' = 1
      <3>1. map' = <<>> /\ sourceCursor' = 0 /\ outSize' = 0
        BY DEF MapInv
      <3>2. Tiling(sourceCursor)'
        BY <3>1 DEF Tiling, Tiles
      <3>3. Replaced(cursor - 1)'
        BY <2>2, OverridesTyped DEF Replaced
      <3>4. PreviousEnd(cursor)' = 0 /\ cursor' <= Len(overrides') + 1
        BY <2>2, OverridesTyped DEF PreviousEnd
      <3> QED
        BY <2>2, <3>1, <3>2, <3>3, <3>4 DEF MapInv, Late
    <2> QED
      BY <2>1, <2>2
  <1>3. WordsInv' /\ PhonesInv' /\ HandedInv' /\ FailureLocated'
    BY DEF WordsInv, PhonesInv, HandedInv, FailureLocated, Steps, Late
  <1>4. ReadInv'
    BY DEF ReadInv, Late
  <1> QED
    BY <1>1, <1>2, <1>3, <1>4

LEMMA BuildEntryKeeps == IInv /\ BuildEntry => IInv'
  <1> SUFFICES ASSUME IInv, BuildEntry PROVE IInv'
    OBVIOUS
  <1> DEFINE entry  == overrides[cursor]
             before == outSize + (entry.span.start - sourceCursor)
             after  == before + (IF entry.kind = "text" THEN entry.size
                                 ELSE entry.span.end - entry.span.start)
             r      == IF entry.kind = "text" THEN cursor ELSE 0
             more   == AppendSegment(map, Span(outSize, before), Span(sourceCursor, entry.span.start), 0)
  <1>1. /\ step = "build" /\ cursor \in DOMAIN overrides
        /\ map' = AppendSegment(more, Span(before, after), entry.span, r)
        /\ outSize' = after /\ sourceCursor' = entry.span.end
        /\ step' = step /\ cursor' = cursor + 1
        /\ UNCHANGED <<request, overrides, readVars, phrases, bounded, start, words, owners, handed,
                       failure>>
    BY DEF BuildEntry, NextIndex
  <1> USE DEF IInv
  <1>2. /\ entry.span \in SpanType /\ entry.size \in Nat
        /\ entry.span.start \in Nat /\ entry.span.end \in Nat
        /\ entry.span = Span(entry.span.start, entry.span.end)
        /\ cursor \in Nat /\ cursor # 0 /\ cursor <= Len(overrides) /\ Len(overrides) \in Nat
    BY <1>1, OverridesTyped DEF SpanType, Span
  <1>3. /\ entry.span.start < entry.span.end
        /\ entry.kind \in {"text", "phone"} /\ (entry.kind = "text" => entry.size > 0)
    BY <1>1 DEF EntriesInv
  <1>4. map \in Seq(SegmentType) /\ outSize \in Nat /\ sourceCursor \in Nat
    BY DEF TypeOK
  <1>5. Tiles(map, outSize, sourceCursor) /\ Replaced(cursor - 1)
    BY <1>1 DEF MapInv, Tiling
  <1>6. sourceCursor <= entry.span.start
    <2>1. sourceCursor = PreviousEnd(cursor)
      BY <1>1 DEF MapInv
    <2>2. cursor # 1 => /\ cursor - 1 \in DOMAIN overrides /\ cursor - 1 < cursor
                        /\ sourceCursor = overrides[cursor - 1].span.end
      BY <1>2, <2>1, OverridesTyped DEF PreviousEnd
    <2>3. cursor # 1 => overrides[cursor - 1].span.end <= overrides[cursor].span.start
      BY <1>1, <2>2 DEF EntriesInv
    <2>4. cursor = 1 => sourceCursor = 0
      BY <2>1 DEF PreviousEnd
    <2> QED
      BY <1>2, <2>2, <2>3, <2>4
  <1>7. /\ before \in Nat /\ outSize <= before /\ entry.span.start - sourceCursor = before - outSize
        /\ outSize < before => sourceCursor < entry.span.start
    BY <1>2, <1>4, <1>6
  <1>8. /\ after \in Nat /\ before < after /\ r \in Nat
        /\ r = 0 => entry.span.end - entry.span.start = after - before
        /\ r # 0 => r \in DOMAIN overrides /\ overrides[r].kind = "text"
                      /\ overrides[r].span = entry.span
    BY <1>1, <1>2, <1>3, <1>7
  <1>9. r = cursor <=> entry.kind = "text"
    BY <1>2
  <1> HIDE DEF before, after, r, more
  <1>10. /\ Tiles(more, before, entry.span.start) /\ more \in Seq(SegmentType)
         /\ DOMAIN map \subseteq DOMAIN more /\ \A i \in DOMAIN map : more[i] = map[i]
    <2> DEFINE from == entry.span.start
    <2>1. /\ from \in Nat /\ sourceCursor <= from /\ sourceCursor <= sourceCursor /\ 0 \in Nat
          /\ before \in Nat /\ outSize <= before /\ (outSize < before => sourceCursor < from)
          /\ from - sourceCursor = before - outSize
      BY <1>2, <1>4, <1>6, <1>7
    <2>2. more = AppendSegment(map, Span(outSize, before), Span(sourceCursor, from), 0)
      BY DEF more
    <2> HIDE DEF IInv, from
    <2>3. /\ Tiles(more, before, from) /\ more \in Seq(SegmentType)
          /\ DOMAIN map \subseteq DOMAIN more /\ \A i \in DOMAIN map : more[i] = map[i]
      BY <1>4, <1>5, <2>1, <2>2, AppendTiles, SMTT(30)
    <2> QED
      BY <2>3 DEF from
  <1>11. /\ Tiles(map', after, entry.span.end) /\ map' \in Seq(SegmentType)
         /\ DOMAIN more \subseteq DOMAIN map' /\ \A i \in DOMAIN more : map'[i] = more[i]
         /\ \E i \in DOMAIN map' : map'[i].override = r
    <2> DEFINE from == entry.span.start
               last == entry.span.end
    <2>1. /\ from \in Nat /\ last \in Nat /\ from <= from /\ from < last /\ from <= last
          /\ before <= after /\ before < after /\ before \in Nat /\ after \in Nat /\ r \in Nat
          /\ r = 0 => last - from = after - before
          /\ r # 0 => r \in DOMAIN overrides /\ overrides[r].kind = "text"
                        /\ overrides[r].span = Span(from, last)
      BY <1>2, <1>3, <1>7, <1>8
    <2> DEFINE next == AppendSegment(more, Span(before, after), Span(from, last), r)
    <2>2. next = AppendSegment(more, Span(before, after), Span(from, last), r)
      OBVIOUS
    <2>3. Tiles(more, before, from) /\ more \in Seq(SegmentType)
      BY <1>10
    <2>4. next = map'
      BY <1>1, <1>2
    <2> HIDE DEF IInv, from, last, next
    <2>5. /\ Tiles(next, after, last) /\ next \in Seq(SegmentType)
          /\ DOMAIN more \subseteq DOMAIN next /\ \A i \in DOMAIN more : next[i] = more[i]
          /\ \E i \in DOMAIN next : next[i].override = r
      BY <2>1, <2>2, <2>3, AppendTiles, SMTT(30)
    <2> QED
      BY <2>4, <2>5 DEF last
  <1>12. Replaced(cursor - 1)'
    <2> SUFFICES ASSUME NEW i \in DOMAIN overrides, i <= cursor, overrides[i].kind = "text"
                 PROVE  \E k \in DOMAIN map' : map'[k].override = i
      BY <1>1, <1>2 DEF Replaced
    <2>1. CASE i = cursor
      BY <2>1, <1>9, <1>11
    <2>2. CASE i # cursor
      <3>1. i <= cursor - 1
        BY <2>2, <1>2, OverridesTyped
      <3>2. PICK k \in DOMAIN map : map[k].override = i
        BY <3>1, <1>5 DEF Replaced
      <3> QED
        BY <3>2, <1>10, <1>11
    <2> QED
      BY <2>1, <2>2
  <1>13. Tiling(sourceCursor)'
    BY <1>1, <1>11 DEF Tiling, Tiles
  <1> USE <1>1 DEF request, readVars, owners
  <1>14. PreviousEnd(cursor)' = sourceCursor' /\ cursor' <= Len(overrides') + 1
    BY <1>2 DEF PreviousEnd
  <1>15. MapInv'
    BY <1>12, <1>13, <1>14 DEF MapInv, Late
  <1>16. TypeOK' /\ EntriesInv' /\ FailureLocated'
    <2>1. cursor' \in Nat \ {0} /\ outSize' \in Nat /\ sourceCursor' \in Nat
      BY <1>2, <1>8
    <2>2. map' \in Seq(SegmentType)
      BY <1>11
    <2> QED
      BY <2>1, <2>2 DEF TypeOK, EntriesInv, FailureLocated
  <1>17. WordsInv' /\ PhonesInv' /\ HandedInv'
    BY DEF WordsInv, PhonesInv, HandedInv
  <1>18. ReadInv'
    BY DEF ReadInv, Late
  <1> QED
    BY <1>15, <1>16, <1>17, <1>18

LEMMA BuildSuffixKeeps == IInv /\ BuildSuffix => IInv'
  <1> SUFFICES ASSUME IInv, BuildSuffix PROVE IInv'
    OBVIOUS
  <1>1. /\ step = "build" /\ cursor > Len(overrides)
        /\ map' = AppendSegment(map, Span(outSize, SuffixEnd), Span(sourceCursor, size), 0)
        /\ outSize' = SuffixEnd /\ step' = "read" /\ cursor' = 1
        /\ UNCHANGED <<request, overrides, sourceCursor, readVars, phrases, bounded, start, words,
                       owners, handed, failure>>
    BY DEF BuildSuffix, Goto
  <1> USE DEF IInv
  <1>2. /\ map \in Seq(SegmentType) /\ outSize \in Nat /\ sourceCursor \in Nat /\ size \in Nat
        /\ cursor \in Nat /\ Len(overrides) \in Nat
    BY OverridesTyped DEF TypeOK
  <1>3. overrides # <<>> /\ Len(overrides) \in DOMAIN overrides /\ cursor = Len(overrides) + 1
    <2>1. overrides # <<>> /\ cursor <= Len(overrides) + 1
      BY <1>1 DEF EntriesInv, MapInv
    <2>2. overrides \in Seq(EntryType)
      BY DEF TypeOK
    <2>3. Len(overrides) \in Nat \ {0}
      BY <2>1, <2>2, EmptySeq
    <2> QED
      BY <1>1, <1>2, <2>1, <2>3, OverridesTyped
  <1>4. Tiles(map, outSize, sourceCursor) /\ Replaced(Len(overrides))
    BY <1>1, <1>2, <1>3 DEF MapInv, Tiling
  <1>5. sourceCursor <= size
    BY <1>1, <1>2, <1>3 DEF MapInv, EntriesInv, PreviousEnd
  <1>6. /\ SuffixEnd \in Nat /\ outSize <= SuffixEnd /\ size - sourceCursor = SuffixEnd - outSize
        /\ outSize < SuffixEnd => sourceCursor < size
        /\ sourceCursor <= sourceCursor
    BY <1>2, <1>5 DEF SuffixEnd
  <1>7. /\ Tiles(map', SuffixEnd, size) /\ map' \in Seq(SegmentType)
        /\ DOMAIN map \subseteq DOMAIN map' /\ \A i \in DOMAIN map : map'[i] = map[i]
    <2> HIDE DEF IInv
    <2> DEFINE next == AppendSegment(map, Span(outSize, SuffixEnd), Span(sourceCursor, size), 0)
    <2>1. next = AppendSegment(map, Span(outSize, SuffixEnd), Span(sourceCursor, size), 0)
      OBVIOUS
    <2> HIDE DEF next
    <2>2. /\ Tiles(next, SuffixEnd, size) /\ next \in Seq(SegmentType)
          /\ DOMAIN map \subseteq DOMAIN next /\ \A i \in DOMAIN map : next[i] = map[i]
      BY <2>1, <1>2, <1>4, <1>5, <1>6, AppendTiles, SMTT(30)
    <2> QED
      BY <2>2, <1>1 DEF next
  <1>8. Tiling(size)'
    BY <1>1, <1>7 DEF Tiling, Tiles, request
  <1>9. Replaced(Len(overrides))'
    BY <1>1, <1>4, <1>7 DEF Replaced
  <1> USE <1>1 DEF request, readVars, owners
  <1>10. MapInv'
    BY <1>3, <1>8, <1>9 DEF MapInv, Late
  <1>11. TypeOK' /\ EntriesInv' /\ FailureLocated'
    <2>1. step' \in Steps /\ cursor' \in Nat \ {0}
      BY DEF Steps, Late
    <2>2. EntriesInv' /\ FailureLocated'
      BY DEF EntriesInv, FailureLocated
    <2>3. outSize' \in Nat /\ map' \in Seq(SegmentType)
      BY <1>6, <1>7
    <2> QED
      BY <2>1, <2>2, <2>3 DEF TypeOK
  <1>12. WordsInv' /\ PhonesInv' /\ HandedInv'
    BY DEF WordsInv, PhonesInv, HandedInv, Steps
  <1>13. ReadInv'
    <2>1. /\ spoken = <<>> /\ phrases = <<>> /\ builder = NewPhrase(0) /\ scan = Span(0, 0)
          /\ words = <<>> /\ replacementOf = <<>> /\ bounded = <<>>
      BY DEF ReadInv
    <2>2. BuilderInv'
      BY <2>1 DEF BuilderInv, EndOf, NewPhrase
    <2>3. Ordered(spoken, outSize)' /\ Covering(phrases, spoken, outSize)'
      BY <2>1 DEF Ordered, Covering
    <2>4. scan'.start = 0 /\ scan'.end = 0 /\ outSize' \in Nat
      BY <1>6, <2>1 DEF Span
    <2> QED
      BY <2>1, <2>2, <2>3, <2>4 DEF ReadInv, Late
  <1> QED
    BY <1>10, <1>11, <1>12, <1>13

-----------------------------------------------------------------------------
(* Words and phrases where they are read.                                  *)

LEMMA SpansTyped ==
  ASSUME NEW spans \in Seq(SpanType)
  PROVE  /\ Len(spans) \in Nat /\ DOMAIN spans = 1..Len(spans)
         /\ \A w \in DOMAIN spans :
              w \in Nat /\ spans[w] \in SpanType /\ spans[w].start \in Nat /\ spans[w].end \in Nat
  <1>1. Len(spans) \in Nat /\ DOMAIN spans = 1..Len(spans)
    BY LenProperties
  <1>2. \A w \in DOMAIN spans : w \in Nat /\ spans[w] \in SpanType
    BY <1>1, ElementOfSeq
  <1> QED
    BY <1>1, <1>2 DEF SpanType

LEMMA RangesTyped ==
  ASSUME NEW ranges \in Seq(PhraseType)
  PROVE  /\ Len(ranges) \in Nat /\ DOMAIN ranges = 1..Len(ranges) /\ EndOf(ranges) \in Nat
         /\ ranges # <<>> <=> 1 <= Len(ranges)
         /\ \A p \in DOMAIN ranges :
              /\ p \in Nat /\ ranges[p] \in PhraseType
              /\ ranges[p].wordStart \in Nat /\ ranges[p].wordEnd \in Nat
              /\ ranges[p].span \in SpanType
              /\ ranges[p].span.start \in Nat /\ ranges[p].span.end \in Nat
  <1>1. Len(ranges) \in Nat /\ DOMAIN ranges = 1..Len(ranges)
    BY LenProperties
  <1>2. \A p \in DOMAIN ranges : p \in Nat /\ ranges[p] \in PhraseType
    BY <1>1, ElementOfSeq
  <1>3. \A range \in PhraseType :
          /\ range.wordStart \in Nat /\ range.wordEnd \in Nat /\ range.span \in SpanType
          /\ range.span.start \in Nat /\ range.span.end \in Nat
    BY DEF PhraseType, SpanType
  <1>4. ranges # <<>> <=> 1 <= Len(ranges)
    BY <1>1, EmptySeq
  <1>5. EndOf(ranges) \in Nat
    BY <1>1, <1>2, <1>3, <1>4 DEF EndOf
  <1> QED
    BY <1>1, <1>2, <1>3, <1>4, <1>5

\* Phrases do not mind words that are added behind them.
LEMMA CoveringMore ==
  ASSUME NEW ranges \in Seq(PhraseType), NEW spans \in Seq(SpanType), NEW limit \in Nat,
         Covering(ranges, spans, limit), NEW more \in Seq(SpanType), Len(spans) <= Len(more),
         \A w \in 1..Len(spans) : more[w] = spans[w]
  PROVE  Covering(ranges, more, limit)
  <1>1. ASSUME NEW p \in DOMAIN ranges
        PROVE  /\ ranges[p].wordEnd <= Len(more)
               /\ ranges[p].wordStart < ranges[p].wordEnd =>
                    /\ ranges[p].span.start = more[ranges[p].wordStart + 1].start
                    /\ more[ranges[p].wordEnd].end <= ranges[p].span.end
    <2>1. /\ ranges[p].wordEnd <= Len(spans)
          /\ ranges[p].wordStart < ranges[p].wordEnd =>
               /\ ranges[p].span.start = spans[ranges[p].wordStart + 1].start
               /\ spans[ranges[p].wordEnd].end <= ranges[p].span.end
      BY Zenon DEF Covering
    <2>2. /\ ranges[p].wordStart \in Nat /\ ranges[p].wordEnd \in Nat
          /\ Len(spans) \in Nat /\ Len(more) \in Nat
      BY RangesTyped, SpansTyped
    <2>3. ranges[p].wordStart < ranges[p].wordEnd =>
            ranges[p].wordStart + 1 \in 1..Len(spans) /\ ranges[p].wordEnd \in 1..Len(spans)
      BY <2>1, <2>2
    <2> QED
      BY <2>1, <2>2, <2>3
  <1> QED
    BY <1>1, Zenon DEF Covering

LEMMA SpeakKeeps == IInv /\ Speak => IInv'
  <1> SUFFICES ASSUME IInv, Speak PROVE IInv'
    OBVIOUS
  <1>1. PICK span \in Following, count \in 1..MaxExpansion :
          /\ scan' = span
          /\ spoken' = spoken \o [i \in 1..count |-> span]
          /\ builder' = [builder EXCEPT !.lastEnd = span.end, !.hasSpan = TRUE,
                           !.byteStart = IF builder.hasSpan THEN @ ELSE span.start]
    BY DEF Speak
  <1>2. /\ step = "read" /\ tokens' = tokens + 1 /\ step' = step /\ cursor' = cursor
        /\ UNCHANGED <<request, overrides, mapVars, phrases, bounded, start, words, owners, handed,
                       failure>>
    BY DEF Speak, Stay
  <1> USE DEF IInv
  <1>3. /\ spoken \in Seq(SpanType) /\ phrases \in Seq(PhraseType) /\ outSize \in Nat
        /\ scan.start \in Nat /\ scan.end \in Nat
        /\ builder \in [wordStart: Nat, byteStart: Nat, hasSpan: BOOLEAN, lastEnd: Nat]
    BY DEF TypeOK, SpanType
  <1>4. /\ span \in SpanType /\ span.start \in Nat /\ span.end \in Nat
        /\ span.start < span.end /\ span.end <= outSize
        /\ scan.start <= span.start /\ scan.end <= span.end
    BY <1>3 DEF Following, Spans, SpanType
  <1>5. count \in Nat /\ count >= 1
    BY TokensAssumption
  <1> DEFINE more == spoken \o [i \in 1..count |-> span]
             n == Len(spoken)
  <1>6. /\ more \in Seq(SpanType) /\ Len(more) = n + count /\ n \in Nat
        /\ \A w \in 1..n : more[w] = spoken[w]
        /\ \A w \in n + 1..n + count : more[w] = span
    <2> DEFINE copies == [i \in 1..count |-> span]
    <2>1. copies \in Seq(SpanType) /\ Len(copies) = count
      BY <1>4, <1>5
    <2>2. \A w \in 1..count : copies[w] = span
      OBVIOUS
    <2>3. n \in Nat
      BY <1>3, LenProperties
    <2> HIDE DEF copies
    <2>4. /\ spoken \o copies \in Seq(SpanType) /\ Len(spoken \o copies) = n + Len(copies)
          /\ \A w \in 1..n + Len(copies) :
               (spoken \o copies)[w] = IF w <= n THEN spoken[w] ELSE copies[w - n]
      BY <1>3, <2>1, ConcatProperties
    <2> DEFINE both == spoken \o copies
    <2>5. /\ both \in Seq(SpanType) /\ Len(both) = n + count
          /\ \A w \in 1..n + count : both[w] = IF w <= n THEN spoken[w] ELSE copies[w - n]
      BY <2>1, <2>4
    <2> HIDE DEF both, n
    <2>6. \A w \in 1..n : both[w] = spoken[w]
      BY <1>5, <2>3, <2>5
    <2>7. \A w \in n + 1..n + count : both[w] = span
      BY <1>5, <2>2, <2>3, <2>5
    <2> QED
      BY <2>3, <2>5, <2>6, <2>7 DEF both, copies
  <1>7. spoken' = more
    BY <1>1
  <1> HIDE DEF more
  <1>8. /\ DOMAIN spoken = 1..n /\ DOMAIN more = 1..n + count
        /\ \A w \in 1..n : spoken[w].start \in Nat /\ spoken[w].end \in Nat
    BY <1>3, <1>6, SpansTyped
  <1> HIDE DEF n
  <1>9. \A w \in 1..n + count : w \in 1..n \/ w \in n + 1..n + count
    BY <1>5, <1>6
  <1>10. /\ Ordered(spoken, outSize) /\ Covering(phrases, spoken, outSize) /\ BuilderInv
         /\ \A w \in 1..n : spoken[w].start <= scan.start /\ spoken[w].end <= scan.end
    <2>1. /\ Ordered(spoken, outSize) /\ Covering(phrases, spoken, outSize) /\ BuilderInv
          /\ \A w \in DOMAIN spoken : spoken[w].start <= scan.start /\ spoken[w].end <= scan.end
      BY <1>2 DEF ReadInv, Late
    <2> QED
      BY <2>1, <1>8
  <1>11. \A w \in 1..n + count : more[w].start <= span.start /\ more[w].end <= span.end
    <2>1. ASSUME NEW w \in 1..n
          PROVE  more[w].start <= span.start /\ more[w].end <= span.end
      <3>1. /\ more[w] = spoken[w] /\ spoken[w].start \in Nat /\ spoken[w].end \in Nat
            /\ spoken[w].start <= scan.start /\ spoken[w].end <= scan.end
        BY <1>6, <1>8, <1>10
      <3>2. /\ scan.start \in Nat /\ scan.end \in Nat /\ span.start \in Nat /\ span.end \in Nat
            /\ scan.start <= span.start /\ scan.end <= span.end
        BY <1>3, <1>4
      <3> HIDE DEF IInv
      <3> QED
        BY <3>1, <3>2
    <2>2. \A w \in n + 1..n + count : more[w].start <= span.start /\ more[w].end <= span.end
      BY <1>4, <1>6
    <2> QED
      BY <2>1, <2>2, <1>9
  <1>12. Ordered(more, outSize)
    <2>1. \A w \in 1..n + count : more[w].start < more[w].end /\ more[w].end <= outSize
      BY <1>4, <1>6, <1>8, <1>9, <1>10 DEF Ordered
    <2>2. ASSUME NEW v \in 1..n + count, NEW w \in 1..n + count, v < w
          PROVE  more[v].start <= more[w].start /\ more[v].end <= more[w].end
      <3>1. CASE w \in 1..n
        <4>1. v \in 1..n
          BY <3>1, <2>2, <1>6
        <4> QED
          BY <3>1, <4>1, <2>2, <1>6, <1>8, <1>10 DEF Ordered
      <3>2. CASE w \in n + 1..n + count
        BY <3>2, <1>6, <1>11
      <3> QED
        BY <3>1, <3>2, <1>9
    <2> QED
      BY <2>1, <2>2, <1>8 DEF Ordered
  <1>13. Covering(phrases, more, outSize)
    <2>1. Len(spoken) <= Len(more)
      BY <1>5, <1>6 DEF n
    <2>2. \A w \in 1..Len(spoken) : more[w] = spoken[w]
      BY <1>6 DEF n
    <2> HIDE DEF IInv
    <2> QED
      BY <1>3, <1>6, <1>10, <2>1, <2>2, CoveringMore
  <1>14. BuilderInv'
    <2>1. /\ EndOf(phrases) = builder.wordStart /\ builder.wordStart <= n
          /\ builder.hasSpan <=> builder.wordStart < n
          /\ builder.hasSpan => builder.byteStart = spoken[builder.wordStart + 1].start
      BY <1>10 DEF BuilderInv, n
    <2>2. builder.wordStart \in Nat /\ builder.hasSpan \in BOOLEAN
      BY <1>3
    <2>3. /\ builder'.wordStart = builder.wordStart /\ builder'.hasSpan = TRUE
          /\ builder'.lastEnd = span.end
          /\ builder'.byteStart = IF builder.hasSpan THEN builder.byteStart ELSE span.start
      BY <1>1, <1>3
    <2>4. more[n + count] = span /\ builder.wordStart < n + count
      BY <2>1, <2>2, <1>5, <1>6
    <2>5. EndOf(phrases') = EndOf(phrases) /\ Len(spoken') = n + count
      BY <1>2, <1>6, <1>7
    <2>6. CASE builder.hasSpan
      <3>1. builder.wordStart + 1 \in 1..n
        BY <2>1, <2>2, <2>6, <1>6
      <3>2. more[builder.wordStart + 1] = spoken[builder.wordStart + 1]
        BY <3>1, <1>6
      <3>3. builder'.byteStart = spoken'[builder'.wordStart + 1].start
        BY <3>2, <2>1, <2>3, <2>6, <1>7
      <3>4. builder'.lastEnd = spoken'[Len(spoken')].end
        BY <2>3, <2>4, <2>5, <1>7
      <3>5. builder'.wordStart <= Len(spoken') /\ builder'.wordStart < Len(spoken')
        BY <2>1, <2>2, <2>3, <2>4, <2>5, <1>5, <1>6
      <3> QED
        BY <3>3, <3>4, <3>5, <2>1, <2>3, <2>5 DEF BuilderInv
    <2>7. CASE ~builder.hasSpan
      <3>1. builder.wordStart = n /\ n + 1 \in n + 1..n + count
        BY <2>1, <2>2, <2>7, <1>5, <1>6
      <3>2. more[builder.wordStart + 1] = span
        BY <3>1, <1>6
      <3>3. builder'.byteStart = spoken'[builder'.wordStart + 1].start
        BY <3>2, <2>1, <2>3, <2>7, <1>7
      <3>4. builder'.lastEnd = spoken'[Len(spoken')].end
        BY <2>3, <2>4, <2>5, <1>7
      <3>5. builder'.wordStart <= Len(spoken') /\ builder'.wordStart < Len(spoken')
        BY <2>1, <2>2, <2>3, <2>4, <2>5, <1>5, <1>6
      <3> QED
        BY <3>3, <3>4, <3>5, <2>1, <2>3, <2>5 DEF BuilderInv
    <2> QED
      BY <2>6, <2>7
  <1> USE <1>2 DEF request, mapVars, owners
  <1>15. ReadInv'
    <2>1. /\ words' = <<>> /\ replacementOf' = <<>> /\ bounded' = <<>>
      BY DEF ReadInv
    <2>2. Ordered(spoken, outSize)' /\ Covering(phrases, spoken, outSize)'
      BY <1>7, <1>12, <1>13 DEF Ordered, Covering
    <2>3. scan'.start <= scan'.end /\ scan'.end <= outSize'
      BY <1>1, <1>4
    <2>4. \A w \in DOMAIN spoken' : spoken'[w].start <= scan'.start /\ spoken'[w].end <= scan'.end
      BY <1>1, <1>7, <1>8, <1>11
    <2> QED
      BY <2>1, <2>2, <2>3, <2>4, <1>14 DEF ReadInv, Late
  <1>16. TypeOK'
    <2>1. builder' \in [wordStart: Nat, byteStart: Nat, hasSpan: BOOLEAN, lastEnd: Nat]
      BY <1>1, <1>3, <1>4
    <2>2. scan' \in SpanType
      BY <1>1, <1>4
    <2>3. spoken' \in Seq(SpanType)
      BY <1>6, <1>7
    <2>4. cursor' \in Nat \ {0} /\ step' \in Steps /\ tokens' \in Nat
      BY DEF TypeOK
    <2> QED
      BY <2>1, <2>2, <2>3, <2>4 DEF TypeOK
  <1>17. EntriesInv' /\ FailureLocated'
    BY DEF EntriesInv, FailureLocated
  <1>18. MapInv'
    BY DEF MapInv, Tiling, Tiles, Replaced, Late
  <1>19. WordsInv' /\ PhonesInv' /\ HandedInv'
    BY DEF WordsInv, PhonesInv, HandedInv, Steps, Late
  <1> QED
    BY <1>15, <1>16, <1>17, <1>18, <1>19

\* A phrase that ends covers the words since the last one.
LEMMA PhraseEndedKeeps ==
  ASSUME IInv, step = "read", NEW boundary \in SpanType, PhraseEnded(boundary),
         UNCHANGED <<spoken, outSize>>,
         builder.hasSpan \/ boundary.start < boundary.end, boundary.end <= outSize
  PROVE  /\ Covering(phrases', spoken, outSize) /\ phrases' \in Seq(PhraseType)
         /\ EndOf(phrases') = Len(spoken)
         /\ builder' \in [wordStart: Nat, byteStart: Nat, hasSpan: BOOLEAN, lastEnd: Nat]
         /\ BuilderInv'
  <1> USE DEF IInv
  <1> DEFINE range == [wordStart |-> builder.wordStart, wordEnd |-> Len(spoken),
                       span |-> IF builder.hasSpan
                                THEN Span(builder.byteStart, Greatest(builder.lastEnd, boundary.end))
                                ELSE boundary]
             more == Append(phrases, range)
  <1>1. /\ spoken \in Seq(SpanType) /\ phrases \in Seq(PhraseType) /\ outSize \in Nat
        /\ builder \in [wordStart: Nat, byteStart: Nat, hasSpan: BOOLEAN, lastEnd: Nat]
    BY DEF TypeOK
  <1>2. /\ Len(spoken) \in Nat /\ DOMAIN spoken = 1..Len(spoken)
        /\ \A w \in DOMAIN spoken : spoken[w].start \in Nat /\ spoken[w].end \in Nat
    BY <1>1, SpansTyped
  <1>3. Ordered(spoken, outSize) /\ Covering(phrases, spoken, outSize) /\ BuilderInv
    BY DEF ReadInv, Late
  <1>4. boundary.start \in Nat /\ boundary.end \in Nat
    BY DEF SpanType
  <1>5. /\ builder.wordStart \in Nat /\ builder.byteStart \in Nat /\ builder.lastEnd \in Nat
        /\ builder.hasSpan \in BOOLEAN
    BY <1>1
  <1>6. /\ builder.wordStart = EndOf(phrases) /\ builder.wordStart <= Len(spoken)
        /\ builder.hasSpan <=> builder.wordStart < Len(spoken)
        /\ builder.hasSpan =>
             /\ builder.byteStart = spoken[builder.wordStart + 1].start
             /\ builder.lastEnd = spoken[Len(spoken)].end
    BY <1>3 DEF BuilderInv
  <1>7. builder.hasSpan => builder.byteStart < builder.lastEnd /\ builder.lastEnd <= outSize
    <2>1. SUFFICES ASSUME builder.hasSpan
                   PROVE  builder.byteStart < builder.lastEnd /\ builder.lastEnd <= outSize
      OBVIOUS
    <2> DEFINE first == builder.wordStart + 1
    <2>2. first \in DOMAIN spoken /\ Len(spoken) \in DOMAIN spoken /\ first <= Len(spoken)
      BY <2>1, <1>2, <1>5, <1>6
    <2>3. spoken[first].end <= spoken[Len(spoken)].end
      BY <2>2, <1>2, <1>3 DEF Ordered
    <2>4. spoken[first].start < spoken[first].end /\ spoken[Len(spoken)].end <= outSize
      BY <2>2, <1>3 DEF Ordered
    <2> QED
      BY <2>1, <2>2, <2>3, <2>4, <1>2, <1>6
  <1>8. /\ range.span \in SpanType
        /\ range.span.start < range.span.end /\ range.span.end <= outSize
        /\ builder.hasSpan =>
             range.span.start = builder.byteStart /\ builder.lastEnd <= range.span.end
    BY <1>1, <1>4, <1>5, <1>7 DEF Span, SpanType, Greatest
  <1>9. range \in PhraseType /\ range.wordStart = builder.wordStart /\ range.wordEnd = Len(spoken)
    BY <1>2, <1>5, <1>8 DEF PhraseType
  <1> HIDE DEF range
  <1>10. range.wordStart < range.wordEnd =>
           /\ range.span.start = spoken[range.wordStart + 1].start
           /\ spoken[range.wordEnd].end <= range.span.end
    BY <1>6, <1>8, <1>9
  <1>11. /\ Covering(more, spoken, outSize) /\ EndOf(more) = Len(spoken)
         /\ more \in Seq(PhraseType)
    <2>1. range.wordStart = EndOf(phrases) /\ range.wordStart <= range.wordEnd /\ range.wordEnd <= Len(spoken)
      BY <1>2, <1>5, <1>6, <1>9
    <2> HIDE DEF IInv
    <2> QED
      BY <2>1, <1>1, <1>3, <1>8, <1>9, <1>10, AppendCovering
  <1>12. /\ phrases' = more
         /\ builder' = [builder EXCEPT !.wordStart = Len(spoken), !.hasSpan = FALSE]
    BY DEF PhraseEnded, range
  <1>13. /\ builder' \in [wordStart: Nat, byteStart: Nat, hasSpan: BOOLEAN, lastEnd: Nat]
         /\ builder'.wordStart = Len(spoken) /\ builder'.hasSpan = FALSE
    BY <1>1, <1>2, <1>12
  <1> HIDE DEF more
  <1>14. BuilderInv'
    BY <1>2, <1>11, <1>12, <1>13 DEF BuilderInv
  <1> QED
    BY <1>11, <1>12, <1>13, <1>14

\* While the text is read the rest stays as it is.
LEMMA ReadKeepsRest ==
  ASSUME IInv, step \in {"read", "budget"}, step' \in {"read", "budget"},
         UNCHANGED <<request, overrides, mapVars, words, owners, handed, failure>>
  PROVE  EntriesInv' /\ MapInv' /\ WordsInv' /\ PhonesInv' /\ HandedInv' /\ FailureLocated'
  <1> USE DEF IInv, request, mapVars, owners
  <1>1. EntriesInv' /\ FailureLocated'
    BY DEF EntriesInv, FailureLocated
  <1>2. MapInv'
    BY DEF MapInv, Tiling, Tiles, Replaced, Late
  <1>3. WordsInv' /\ PhonesInv' /\ HandedInv'
    BY DEF WordsInv, PhonesInv, HandedInv, Steps, Late
  <1> QED
    BY <1>1, <1>2, <1>3

LEMMA EndPhraseKeeps == IInv /\ EndPhrase => IInv'
  <1> SUFFICES ASSUME IInv, EndPhrase PROVE IInv'
    OBVIOUS
  <1>1. PICK boundary \in Following, retainEmpty \in BOOLEAN :
          /\ scan' = boundary
          /\ IF builder.wordStart = Len(spoken) /\ ~retainEmpty
             THEN UNCHANGED <<phrases, builder>> ELSE PhraseEnded(boundary)
    BY DEF EndPhrase
  <1>2. /\ step = "read" /\ tokens' = tokens + 1 /\ step' = step /\ cursor' = cursor
        /\ UNCHANGED <<request, overrides, mapVars, spoken, bounded, start, words, owners, handed,
                       failure>>
    BY DEF EndPhrase, Stay
  <1> USE DEF IInv
  <1>3. /\ spoken \in Seq(SpanType) /\ phrases \in Seq(PhraseType) /\ outSize \in Nat
        /\ scan.start \in Nat /\ scan.end \in Nat
    BY DEF TypeOK, SpanType
  <1>4. /\ boundary \in SpanType /\ boundary.start \in Nat /\ boundary.end \in Nat
        /\ boundary.start < boundary.end /\ boundary.end <= outSize
        /\ scan.start <= boundary.start /\ scan.end <= boundary.end
    BY <1>3 DEF Following, Spans, SpanType
  <1>5. /\ Ordered(spoken, outSize) /\ Covering(phrases, spoken, outSize) /\ BuilderInv
        /\ \A w \in DOMAIN spoken : spoken[w].start <= scan.start /\ spoken[w].end <= scan.end
    BY <1>2 DEF ReadInv, Late
  <1>6. /\ Covering(phrases', spoken, outSize) /\ phrases' \in Seq(PhraseType)
        /\ builder' \in [wordStart: Nat, byteStart: Nat, hasSpan: BOOLEAN, lastEnd: Nat]
        /\ BuilderInv'
    <2>1. CASE UNCHANGED <<phrases, builder>>
      <3>1. BuilderInv'
        BY <2>1, <1>2, <1>5 DEF BuilderInv
      <3>2. builder' \in [wordStart: Nat, byteStart: Nat, hasSpan: BOOLEAN, lastEnd: Nat]
        BY <2>1 DEF TypeOK
      <3> QED
        BY <2>1, <3>1, <3>2, <1>3, <1>5
    <2>2. CASE PhraseEnded(boundary)
      <3> HIDE DEF IInv
      <3> QED
        BY <2>2, <1>2, <1>4, PhraseEndedKeeps DEF mapVars
    <2> QED
      BY <2>1, <2>2, <1>1
  <1> USE <1>2 DEF request, mapVars, owners
  <1>7. ReadInv'
    <2>1. words' = <<>> /\ replacementOf' = <<>> /\ bounded' = <<>>
      BY DEF ReadInv
    <2>2. Ordered(spoken, outSize)' /\ Covering(phrases, spoken, outSize)'
      BY <1>5, <1>6 DEF Ordered, Covering
    <2>3. scan'.start <= scan'.end /\ scan'.end <= outSize'
      BY <1>1, <1>4
    <2>4. \A w \in DOMAIN spoken' : spoken'[w].start <= scan'.start /\ spoken'[w].end <= scan'.end
      <3>1. \A w \in DOMAIN spoken : spoken[w].start \in Nat /\ spoken[w].end \in Nat
        BY <1>3, SpansTyped
      <3> QED
        BY <3>1, <1>1, <1>3, <1>4, <1>5
    <2> QED
      BY <2>1, <2>2, <2>3, <2>4, <1>6 DEF ReadInv, Late
  <1>8. TypeOK'
    <2>1. scan' \in SpanType
      BY <1>1, <1>4
    <2>2. tokens' \in Nat
      BY DEF TypeOK
    <2> QED
      BY <2>1, <2>2, <1>6 DEF TypeOK
  <1>9. EntriesInv' /\ MapInv' /\ WordsInv' /\ PhonesInv' /\ HandedInv' /\ FailureLocated'
    BY ReadKeepsRest
  <1> QED
    BY <1>7, <1>8, <1>9

LEMMA FinishReadKeeps == IInv /\ FinishRead => IInv'
  <1> SUFFICES ASSUME IInv, FinishRead PROVE IInv'
    OBVIOUS
  <1> DEFINE boundary == Span(builder.byteStart, builder.lastEnd)
  <1>1. /\ step = "read" /\ step' = "budget" /\ cursor' = 1
        /\ IF builder.wordStart < Len(spoken) THEN PhraseEnded(boundary)
           ELSE UNCHANGED <<phrases, builder>>
        /\ start' = IF phrases' = <<>> THEN 0 ELSE phrases'[1].wordStart
        /\ UNCHANGED <<request, overrides, mapVars, tokens, scan, spoken, bounded, words, owners,
                       handed, failure>>
    BY DEF FinishRead, Goto
  <1> USE DEF IInv
  <1>2. /\ spoken \in Seq(SpanType) /\ phrases \in Seq(PhraseType) /\ outSize \in Nat
        /\ builder \in [wordStart: Nat, byteStart: Nat, hasSpan: BOOLEAN, lastEnd: Nat]
    BY DEF TypeOK
  <1>3. Len(spoken) \in Nat /\ DOMAIN spoken = 1..Len(spoken)
    BY <1>2, SpansTyped
  <1>4. Ordered(spoken, outSize) /\ Covering(phrases, spoken, outSize) /\ BuilderInv
    BY <1>1 DEF ReadInv, Late
  <1>5. /\ Covering(phrases', spoken, outSize) /\ phrases' \in Seq(PhraseType)
        /\ EndOf(phrases') = Len(spoken)
        /\ builder' \in [wordStart: Nat, byteStart: Nat, hasSpan: BOOLEAN, lastEnd: Nat]
    <2>1. CASE ~(builder.wordStart < Len(spoken))
      <3>1. EndOf(phrases) = builder.wordStart /\ builder.wordStart <= Len(spoken)
        BY <1>4 DEF BuilderInv
      <3>2. builder.wordStart \in Nat
        BY <1>2
      <3>3. EndOf(phrases) = Len(spoken)
        BY <2>1, <3>1, <3>2, <1>3
      <3>4. phrases' = phrases /\ builder' = builder
        BY <2>1, <1>1
      <3> QED
        BY <3>3, <3>4, <1>2, <1>4
    <2>2. CASE builder.wordStart < Len(spoken)
      <3>1. PhraseEnded(boundary) /\ boundary \in SpanType /\ boundary.end = builder.lastEnd
        BY <2>2, <1>1, <1>2 DEF Span, SpanType
      <3>2. builder.hasSpan /\ builder.lastEnd = spoken[Len(spoken)].end
        BY <2>2, <1>4 DEF BuilderInv
      <3>3. Len(spoken) \in DOMAIN spoken
        BY <2>2, <1>2, <1>3
      <3>4. boundary.end <= outSize
        BY <3>1, <3>2, <3>3, <1>4 DEF Ordered
      <3> HIDE DEF IInv, boundary
      <3> QED
        BY <3>1, <3>2, <3>4, <1>1, PhraseEndedKeeps DEF mapVars
    <2> QED
      BY <2>1, <2>2
  <1> USE <1>1 DEF request, mapVars, owners
  <1>6. words' = <<>> /\ replacementOf' = <<>> /\ bounded' = <<>>
    BY DEF ReadInv
  <1>7. /\ Len(phrases') \in Nat /\ DOMAIN phrases' = 1..Len(phrases')
        /\ phrases' # <<>> <=> 1 <= Len(phrases')
    <2> DEFINE ranges == phrases'
    <2>1. ranges \in Seq(PhraseType)
      BY <1>5
    <2> HIDE DEF IInv, ranges
    <2>2. Len(ranges) \in Nat /\ DOMAIN ranges = 1..Len(ranges) /\ (ranges # <<>> <=> 1 <= Len(ranges))
      BY <2>1, RangesTyped
    <2> QED
      BY <2>2 DEF ranges
  <1>8. start' = 0
    <2>1. CASE phrases' # <<>>
      <3>1. 1 \in DOMAIN phrases'
        BY <2>1, <1>7
      <3> QED
        BY <2>1, <3>1, <1>5 DEF Covering
    <2> QED
      BY <2>1
  <1>9. BudgetInv'
    <2>1. EndOf(bounded') = 0 /\ Covering(bounded, spoken, outSize)'
      BY <1>6 DEF EndOf, Covering
    <2>2. CASE phrases' = <<>>
      <3>1. EndOf(phrases') = 0 /\ ~(1 <= Len(phrases'))
        BY <2>2, <1>7 DEF EndOf
      <3> QED
        BY <2>1, <3>1, <1>5, <1>7 DEF BudgetInv
    <2>3. CASE phrases' # <<>>
      <3>1. start' = phrases'[cursor'].wordStart /\ cursor' <= Len(phrases')
        BY <2>3, <1>7
      <3> QED
        BY <2>1, <3>1, <1>5, <1>7, <1>8 DEF BudgetInv
    <2> QED
      BY <2>2, <2>3
  <1>10. ReadInv'
    <2>1. Ordered(spoken, outSize)' /\ Covering(phrases, spoken, outSize)'
      BY <1>4, <1>5 DEF Ordered, Covering
    <2> QED
      BY <2>1, <1>6, <1>9 DEF ReadInv, Late
  <1>11. TypeOK'
    <2>1. cursor' \in Nat \ {0} /\ step' \in Steps /\ start' \in Nat
      BY <1>8 DEF Steps, Late
    <2> QED
      BY <2>1, <1>5 DEF TypeOK
  <1>12. EntriesInv' /\ MapInv' /\ WordsInv' /\ PhonesInv' /\ HandedInv' /\ FailureLocated'
    BY ReadKeepsRest
  <1> QED
    BY <1>10, <1>11, <1>12

\* The byte of the request that stands for a byte that was read, and the
\* replacement it lies in.
LEMMA OffsetLocated ==
  ASSUME TypeOK, Tiling(size), NEW offset \in 0..outSize
  PROVE  LET span == MapOffset(offset)
         IN /\ span \in SpanType /\ span.start <= span.end /\ span.end <= size
            /\ ReplacementAt(span) \in Nat
            /\ ReplacementAt(span) # 0 => Overlap(overrides[ReplacementAt(span)].span, span)
  <1> DEFINE span == MapOffset(offset)
             At   == {i \in DOMAIN map : map[i].out.start <= offset /\ offset < map[i].out.end}
             hits == {k \in DOMAIN map : map[k].override # 0 /\ Overlap(map[k].source, span)}
             mapped(i) == map[i].source.start + (offset - map[i].out.start)
  <1>1. /\ offset \in Nat /\ size \in Nat
        /\ \A k \in DOMAIN map :
             /\ k \in Nat /\ map[k].source \in SpanType
             /\ map[k].out.start \in Nat /\ map[k].out.end \in Nat
             /\ map[k].source.start \in Nat /\ map[k].source.end \in Nat
             /\ map[k].override \in Nat
    BY MapTyped
  <1>2. span \in SpanType /\ span.start <= span.end /\ span.end <= size
    <2>1. CASE At = {}
      <3>1. span = IF offset = 0 THEN Span(0, 0) ELSE Span(size, size)
        BY <2>1 DEF MapOffset
      <3> QED
        BY <3>1, <1>1 DEF Span, SpanType
    <2>2. CASE At # {}
      <3> DEFINE i == CHOOSE j \in At : TRUE
      <3>1. i \in At
        BY <2>2
      <3>2. span = IF map[i].override # 0 THEN map[i].source
                   ELSE Span(mapped(i), Least(size, mapped(i) + 1))
        <4>1. map[i].override # 0 => span = map[i].source
          BY <2>2 DEF MapOffset
        <4>2. map[i].override = 0 => span = Span(mapped(i), Least(size, mapped(i) + 1))
          BY <2>2 DEF MapOffset
        <4> QED
          BY <4>1, <4>2
      <3> HIDE DEF i, span
      <3>3. /\ mapped(i) \in Nat /\ map[i].source.start < map[i].source.end
            /\ map[i].source.end <= size /\ (map[i].override = 0 => mapped(i) < size)
        BY <3>1, <1>1 DEF Tiling, Tiles
      <3> QED
        BY <3>1, <3>2, <3>3, <1>1 DEF Span, SpanType, Least
    <2> QED
      BY <2>1, <2>2
  <1> HIDE DEF span
  <1>3. CASE hits = {}
    <2>1. ReplacementAt(span) = 0
      BY <1>3 DEF ReplacementAt
    <2> QED
      BY <2>1, <1>2 DEF span
  <1>4. CASE hits # {}
    <2>1. hits \in SUBSET Nat
      BY <1>1
    <2> DEFINE k == Min(hits)
    <2>2. k \in hits
      BY <1>4, <2>1, MinExists
    <2>3. ReplacementAt(span) = map[k].override
      BY <1>4 DEF ReplacementAt
    <2> HIDE DEF k
    <2>4. /\ map[k].override # 0 /\ Overlap(map[k].source, span) /\ k \in DOMAIN map
      BY <2>2
    <2>5. map[k].source = overrides[map[k].override].span
      BY <2>4 DEF Tiling, Tiles
    <2> QED
      BY <2>3, <2>4, <2>5, <1>1, <1>2 DEF span
  <1> QED
    BY <1>3, <1>4

LEMMA ReadFailsKeeps == IInv /\ ReadFails => IInv'
  <1> SUFFICES ASSUME IInv, ReadFails PROVE IInv'
    OBVIOUS
  <1>1. PICK offset \in 0..outSize :
          IF overrides = <<>> THEN Reject(OffsetSpan(offset), 0)
          ELSE Reject(MapOffset(offset), ReplacementAt(MapOffset(offset)))
    BY DEF ReadFails
  <1>2. step = "read"
    BY DEF ReadFails
  <1>3. CASE overrides = <<>>
    <2>1. outSize = size
      BY <1>2, <1>3 DEF IInv, MapInv, Late
    <2> QED
      BY <2>1, <1>1, <1>3, RejectOffset
  <1>4. CASE overrides # <<>>
    <2>1. TypeOK /\ Tiling(size)
      BY <1>2, <1>4 DEF IInv, MapInv, Late
    <2> DEFINE span == MapOffset(offset)
               owner == ReplacementAt(span)
    <2>2. /\ span \in SpanType /\ span.start <= span.end /\ span.end <= size
          /\ owner \in Nat /\ (owner # 0 => Overlap(overrides[owner].span, span))
      BY <2>1, OffsetLocated
    <2>3. Reject(span, owner)
      BY <1>1, <1>4
    <2> HIDE DEF span, owner
    <2> QED
      BY <2>2, <2>3, RejectKeeps DEF Reject
  <1> QED
    BY <1>3, <1>4

LEMMA CutPhraseKeeps == IInv /\ CutPhrase => IInv'
  <1> SUFFICES ASSUME IInv, CutPhrase PROVE IInv'
    OBVIOUS
  <1> DEFINE end   == start + ChunkWords
             range == [wordStart |-> start, wordEnd |-> end,
                       span |-> Span(spoken[start + 1].start, spoken[end].end)]
             more  == Append(bounded, range)
  <1>1. /\ step = "budget" /\ cursor \in DOMAIN phrases /\ phrases[cursor].wordEnd > end
        /\ bounded' = more /\ start' = end /\ step' = step /\ cursor' = cursor
        /\ UNCHANGED <<request, overrides, mapVars, readVars, phrases, words, owners, handed, failure>>
    BY DEF CutPhrase, Stay
  <1> USE DEF IInv
  <1>2. /\ spoken \in Seq(SpanType) /\ phrases \in Seq(PhraseType) /\ outSize \in Nat
        /\ bounded \in Seq(PhraseType) /\ start \in Nat
    BY DEF TypeOK
  <1>3. /\ Len(spoken) \in Nat /\ DOMAIN spoken = 1..Len(spoken)
        /\ \A w \in DOMAIN spoken : spoken[w].start \in Nat /\ spoken[w].end \in Nat
    BY <1>2, SpansTyped
  <1>4. /\ Len(phrases) \in Nat /\ cursor \in Nat /\ cursor <= Len(phrases)
        /\ phrases[cursor].wordStart \in Nat /\ phrases[cursor].wordEnd \in Nat
    BY <1>1, <1>2, RangesTyped
  <1>5. Ordered(spoken, outSize) /\ Covering(phrases, spoken, outSize) /\ BudgetInv
    BY <1>1 DEF ReadInv, Late
  <1>6. phrases[cursor].wordEnd <= Len(spoken)
    BY <1>1, <1>5 DEF Covering
  <1>7. /\ EndOf(phrases) = Len(spoken) /\ Covering(bounded, spoken, outSize) /\ EndOf(bounded) = start
        /\ \/ start = phrases[cursor].wordStart
           \/ phrases[cursor].wordStart < start /\ start < phrases[cursor].wordEnd
    BY <1>4, <1>5 DEF BudgetInv
  <1>8. end \in Nat /\ start + 1 <= end /\ start + 1 \in DOMAIN spoken /\ end \in DOMAIN spoken
    BY <1>1, <1>2, <1>3, <1>4, <1>6, ChunkAssumption
  <1>9. spoken[start + 1].start < spoken[end].end /\ spoken[end].end <= outSize
    <2>1. /\ spoken[start + 1].start < spoken[start + 1].end
          /\ spoken[end].end <= outSize
      BY <1>5, <1>8 DEF Ordered
    <2>2. start + 1 = end \/ spoken[start + 1].end <= spoken[end].end
      BY <1>2, <1>5, <1>8 DEF Ordered
    <2> QED
      BY <2>1, <2>2, <1>3, <1>8
  <1>10. /\ range \in PhraseType /\ range.wordStart = start /\ range.wordEnd = end
         /\ range.span.start = spoken[start + 1].start /\ range.span.end = spoken[end].end
    BY <1>2, <1>3, <1>8 DEF PhraseType, SpanType, Span
  <1> HIDE DEF range
  <1>11. /\ Covering(more, spoken, outSize) /\ EndOf(more) = end /\ more \in Seq(PhraseType)
    <2>1. /\ range.wordStart = EndOf(bounded) /\ range.wordStart <= range.wordEnd
          /\ range.wordEnd <= Len(spoken) /\ spoken[range.wordEnd].end <= range.span.end
          /\ range.span.start < range.span.end /\ range.span.end <= outSize
          /\ range.span.start = spoken[range.wordStart + 1].start
      BY <1>2, <1>3, <1>7, <1>8, <1>9, <1>10
    <2>2. Covering(bounded, spoken, outSize)
      BY <1>7
    <2> HIDE DEF IInv, end
    <2> QED
      BY <2>1, <2>2, <1>2, <1>10, AppendCovering
  <1> HIDE DEF more
  <1> USE <1>1 DEF request, mapVars, readVars, owners
  <1>12. BudgetInv'
    <2>1. phrases[cursor].wordStart < end /\ end < phrases[cursor].wordEnd
      BY <1>2, <1>4, <1>7, <1>8
    <2>2. EndOf(bounded') = end /\ EndOf(phrases') = Len(spoken') /\ cursor' <= Len(phrases')
      BY <1>4, <1>7, <1>11
    <2>3. Covering(bounded, spoken, outSize)'
      BY <1>11 DEF Covering
    <2> HIDE DEF end
    <2> QED
      BY <2>1, <2>2, <2>3, <1>4 DEF BudgetInv
  <1>13. ReadInv'
    <2>1. Ordered(spoken, outSize)' /\ Covering(phrases, spoken, outSize)'
      BY <1>5 DEF Ordered, Covering
    <2>2. words' = <<>> /\ replacementOf' = <<>>
      BY DEF ReadInv
    <2> QED
      BY <2>1, <2>2, <1>12 DEF ReadInv, Late
  <1>14. TypeOK'
    BY <1>8, <1>11 DEF TypeOK
  <1>15. EntriesInv' /\ MapInv' /\ WordsInv' /\ PhonesInv' /\ HandedInv' /\ FailureLocated'
    BY ReadKeepsRest
  <1> QED
    BY <1>13, <1>14, <1>15

LEMMA KeepPhraseKeeps == IInv /\ KeepPhrase => IInv'
  <1> SUFFICES ASSUME IInv, KeepPhrase PROVE IInv'
    OBVIOUS
  <1> DEFINE phrase == phrases[cursor]
             rest   == [phrase EXCEPT !.wordStart = start,
                          !.span.start = IF start < phrase.wordEnd THEN spoken[start + 1].start ELSE @]
             more   == Append(bounded, rest)
  <1>1. /\ step = "budget" /\ cursor \in DOMAIN phrases
        /\ bounded' = IF start < phrase.wordEnd \/ phrase.wordStart = phrase.wordEnd
                      THEN more ELSE bounded
        /\ start' = IF cursor < Len(phrases) THEN phrases[cursor + 1].wordStart ELSE start
        /\ step' = step /\ cursor' = cursor + 1
        /\ UNCHANGED <<request, overrides, mapVars, readVars, phrases, words, owners, handed, failure>>
    BY DEF KeepPhrase, NextIndex
  <1> USE DEF IInv
  <1>2. /\ spoken \in Seq(SpanType) /\ phrases \in Seq(PhraseType) /\ outSize \in Nat
        /\ bounded \in Seq(PhraseType) /\ start \in Nat
    BY DEF TypeOK
  <1>3. /\ Len(spoken) \in Nat /\ DOMAIN spoken = 1..Len(spoken)
        /\ \A w \in DOMAIN spoken : spoken[w].start \in Nat /\ spoken[w].end \in Nat
    BY <1>2, SpansTyped
  <1>4. /\ Len(phrases) \in Nat /\ cursor \in Nat /\ cursor <= Len(phrases) /\ 1 <= cursor
        /\ phrase \in PhraseType /\ phrase.wordStart \in Nat /\ phrase.wordEnd \in Nat
        /\ phrase.span.start \in Nat /\ phrase.span.end \in Nat
        /\ DOMAIN phrases = 1..Len(phrases)
    BY <1>1, <1>2, RangesTyped
  <1>5. Ordered(spoken, outSize) /\ Covering(phrases, spoken, outSize) /\ BudgetInv
    BY <1>1 DEF ReadInv, Late
  <1>6. /\ phrase.wordStart <= phrase.wordEnd /\ phrase.wordEnd <= Len(spoken)
        /\ phrase.span.start < phrase.span.end /\ phrase.span.end <= outSize
        /\ phrase.wordStart < phrase.wordEnd => spoken[phrase.wordEnd].end <= phrase.span.end
    BY <1>1, <1>5 DEF Covering
  <1>7. /\ EndOf(phrases) = Len(spoken) /\ Covering(bounded, spoken, outSize) /\ EndOf(bounded) = start
        /\ \/ start = phrase.wordStart
           \/ phrase.wordStart < start /\ start < phrase.wordEnd
    BY <1>4, <1>5 DEF BudgetInv
  <1> HIDE DEF phrase
  <1>8. start < phrase.wordEnd \/ (start = phrase.wordEnd /\ phrase.wordStart = phrase.wordEnd)
    BY <1>2, <1>4, <1>6, <1>7
  <1>9. start < phrase.wordEnd =>
          spoken[start + 1].start < phrase.span.end /\ spoken[start + 1].start \in Nat
    <2>1. SUFFICES ASSUME start < phrase.wordEnd
                   PROVE  spoken[start + 1].start < phrase.span.end /\ spoken[start + 1].start \in Nat
      OBVIOUS
    <2>2. start + 1 \in DOMAIN spoken /\ phrase.wordEnd \in DOMAIN spoken /\ start + 1 <= phrase.wordEnd
      BY <2>1, <1>2, <1>3, <1>4, <1>6
    <2>3. spoken[start + 1].start < spoken[start + 1].end
      BY <2>2, <1>5 DEF Ordered
    <2>4. start + 1 = phrase.wordEnd \/ spoken[start + 1].end <= spoken[phrase.wordEnd].end
      BY <2>2, <1>2, <1>4, <1>5 DEF Ordered
    <2>5. spoken[phrase.wordEnd].end <= phrase.span.end
      BY <2>1, <1>2, <1>4, <1>6, <1>7
    <2> QED
      BY <2>2, <2>3, <2>4, <2>5, <1>3, <1>4
  <1>10. /\ rest \in PhraseType /\ rest.wordStart = start /\ rest.wordEnd = phrase.wordEnd
         /\ rest.span.end = phrase.span.end
         /\ rest.span.start = IF start < phrase.wordEnd THEN spoken[start + 1].start
                              ELSE phrase.span.start
    BY <1>2, <1>4, <1>9 DEF PhraseType, SpanType
  <1> HIDE DEF rest
  <1>11. /\ Covering(more, spoken, outSize) /\ EndOf(more) = phrase.wordEnd
         /\ more \in Seq(PhraseType)
    <2>1. /\ rest.wordStart = EndOf(bounded) /\ rest.wordStart <= rest.wordEnd
          /\ rest.wordEnd <= Len(spoken)
          /\ rest.span.start < rest.span.end /\ rest.span.end <= outSize
      BY <1>2, <1>4, <1>6, <1>7, <1>8, <1>9, <1>10
    <2>2. rest.wordStart < rest.wordEnd =>
            /\ spoken[rest.wordEnd].end <= rest.span.end
            /\ rest.span.start = spoken[rest.wordStart + 1].start
      BY <1>2, <1>4, <1>6, <1>7, <1>10
    <2>3. Covering(bounded, spoken, outSize)
      BY <1>7
    <2> HIDE DEF IInv
    <2> QED
      BY <2>1, <2>2, <2>3, <1>2, <1>10, AppendCovering
  <1>12. bounded' = more
    BY <1>1, <1>8
  <1> HIDE DEF more
  <1> USE <1>1 DEF request, mapVars, readVars, owners
  <1>13. start' \in Nat
    <2>1. cursor < Len(phrases) => cursor + 1 \in DOMAIN phrases
      BY <1>4
    <2>2. cursor < Len(phrases) => phrases[cursor + 1].wordStart \in Nat
      BY <2>1, <1>2, RangesTyped
    <2> QED
      BY <2>2, <1>2
  <1>14. BudgetInv'
    <2>1. /\ EndOf(bounded') = phrase.wordEnd /\ EndOf(phrases') = Len(spoken')
          /\ cursor' <= Len(phrases') + 1
      BY <1>4, <1>7, <1>11, <1>12
    <2>2. Covering(bounded, spoken, outSize)'
      BY <1>11, <1>12 DEF Covering
    <2>3. CASE cursor < Len(phrases)
      <3>1. cursor' \in DOMAIN phrases /\ cursor' # 1 /\ cursor' - 1 = cursor /\ cursor' <= Len(phrases')
        BY <2>3, <1>4
      <3>2. phrases[cursor'].wordStart = phrase.wordEnd
        BY <3>1, <1>5 DEF Covering, phrase
      <3>3. start' = phrases'[cursor'].wordStart
        BY <2>3
      <3> QED
        BY <3>1, <3>2, <3>3, <2>1, <2>2 DEF BudgetInv
    <2>4. CASE cursor = Len(phrases)
      <3>1. ~(cursor' <= Len(phrases'))
        BY <2>4, <1>4
      <3>2. phrase.wordEnd = Len(spoken)
        <4>1. phrases # <<>>
          BY <1>2, <1>4, RangesTyped
        <4> QED
          BY <4>1, <2>4, <1>7 DEF EndOf, phrase
      <3> QED
        BY <3>1, <3>2, <2>1, <2>2 DEF BudgetInv
    <2> QED
      BY <2>3, <2>4, <1>4
  <1>15. ReadInv'
    <2>1. Ordered(spoken, outSize)' /\ Covering(phrases, spoken, outSize)'
      BY <1>5 DEF Ordered, Covering
    <2>2. words' = <<>> /\ replacementOf' = <<>>
      BY DEF ReadInv
    <2> QED
      BY <2>1, <2>2, <1>14 DEF ReadInv, Late
  <1>16. TypeOK'
    <2>1. cursor' \in Nat \ {0} /\ bounded' \in Seq(PhraseType)
      BY <1>4, <1>11, <1>12
    <2> QED
      BY <2>1, <1>13 DEF TypeOK
  <1>17. EntriesInv' /\ MapInv' /\ WordsInv' /\ PhonesInv' /\ HandedInv' /\ FailureLocated'
    BY ReadKeepsRest
  <1> QED
    BY <1>15, <1>16, <1>17

LEMMA PhrasesBoundedKeeps == IInv /\ PhrasesBounded => IInv'
  <1> SUFFICES ASSUME IInv, PhrasesBounded PROVE IInv'
    OBVIOUS
  <1>1. /\ step = "budget" /\ cursor > Len(phrases) /\ step' = "words" /\ cursor' = 1
        /\ phrases' = bounded
        /\ UNCHANGED <<request, overrides, mapVars, readVars, bounded, start, words, owners, handed,
                       failure>>
    BY DEF PhrasesBounded, Goto
  <1> USE <1>1 DEF IInv, request, mapVars, readVars, owners
  <1>2. /\ bounded \in Seq(PhraseType) /\ phrases \in Seq(PhraseType)
        /\ cursor \in Nat /\ Len(phrases) \in Nat
    BY RangesTyped DEF TypeOK
  <1>3. /\ Ordered(spoken, outSize) /\ words = <<>> /\ replacementOf = <<>>
        /\ Covering(bounded, spoken, outSize) /\ EndOf(bounded) = Len(spoken)
    BY <1>2 DEF ReadInv, BudgetInv, Late
  <1>4. TypeOK' /\ EntriesInv' /\ FailureLocated'
    BY <1>2 DEF TypeOK, EntriesInv, FailureLocated, Steps, Late
  <1>5. MapInv'
    BY DEF MapInv, Tiling, Tiles, Replaced, Late
  <1>6. ReadInv'
    <2>1. Ordered(spoken, outSize)' /\ Covering(phrases, spoken, outSize)' /\ EndOf(phrases') = Len(spoken')
      BY <1>3 DEF Ordered, Covering
    <2> QED
      BY <2>1 DEF ReadInv, Late
  <1>7. WordsInv'
    <2>1. Len(words') = 0 /\ Len(replacementOf') = 0 /\ DOMAIN words' = {}
      BY <1>3
    <2>2. Len(spoken') \in Nat
      BY SpansTyped DEF TypeOK
    <2>3. Owners'
      BY <2>1 DEF Owners
    <2> QED
      BY <2>1, <2>2, <2>3, <1>3 DEF WordsInv
  <1>8. PhonesInv' /\ HandedInv'
    BY DEF PhonesInv, HandedInv, Steps, Late
  <1> QED
    BY <1>4, <1>5, <1>6, <1>7, <1>8

-----------------------------------------------------------------------------
(* Words and phrases in the request.                                       *)

LEMMA KeepSpansKeeps == IInv /\ KeepSpans => IInv'
  <1> SUFFICES ASSUME IInv, KeepSpans PROVE IInv'
    OBVIOUS
  <1>1. /\ step = "words" /\ overrides = <<>> /\ step' = "resolve" /\ cursor' = 1
        /\ words' = spoken
        /\ replacementOf' = [i \in DOMAIN spoken |-> 0] /\ phoneOf' = [i \in DOMAIN spoken |-> 0]
        /\ UNCHANGED <<request, overrides, mapVars, readVars, phrases, bounded, start, handed,
                       failure>>
    BY DEF KeepSpans, Goto
  <1> USE <1>1 DEF IInv, request, mapVars, readVars
  <1>2. spoken \in Seq(SpanType) /\ Len(spoken) \in Nat /\ DOMAIN spoken = 1..Len(spoken)
    BY SpansTyped DEF TypeOK
  <1>3. /\ Ordered(spoken, outSize) /\ Covering(phrases, spoken, outSize)
        /\ EndOf(phrases) = Len(spoken) /\ outSize = size
    BY DEF ReadInv, MapInv, Late
  <1>4. /\ replacementOf' \in Seq(Nat) /\ phoneOf' \in Seq(Nat)
        /\ Len(replacementOf') = Len(spoken) /\ Len(phoneOf') = Len(spoken)
    BY <1>2
  <1>5. TypeOK'
    BY <1>2, <1>4 DEF TypeOK, Steps, Late
  <1>6. EntriesInv' /\ MapInv' /\ HandedInv' /\ FailureLocated'
    BY DEF EntriesInv, MapInv, HandedInv, FailureLocated, Steps, Late
  <1>7. ReadInv'
    BY <1>3 DEF ReadInv, Ordered, Late
  <1>8. DOMAIN overrides' = {}
    OBVIOUS
  <1>9. WordsInv'
    <2>1. Owners'
      BY <1>8 DEF Owners
    <2>2. Ordered(words, size)' /\ Covering(phrases, words, size)'
      BY <1>3 DEF Ordered, Covering
    <2> QED
      BY <2>1, <2>2, <1>3, <1>4 DEF WordsInv
  <1>10. PhonesInv'
    BY <1>8 DEF PhonesInv, Phones
  <1> QED
    BY <1>5, <1>6, <1>7, <1>9, <1>10

\* The span of every word that was read can be mapped.
LEMMA WordReadable ==
  ASSUME IInv, step = "words", NEW w \in DOMAIN spoken
  PROVE  Readable(spoken[w])
  <1>1. Ordered(spoken, outSize) /\ spoken \in Seq(SpanType)
    BY DEF IInv, ReadInv, TypeOK, Late
  <1>2. spoken[w] \in SpanType
    BY <1>1, SpansTyped
  <1> QED
    BY <1>1, <1>2 DEF Ordered, Readable

LEMMA OwnersTyped ==
  ASSUME TypeOK, NEW out
  PROVE  Replacements(out) \in SUBSET Nat /\ 0 \notin Replacements(out)
  <1>1. Touched(out) \subseteq DOMAIN map
    BY DEF Touched
  <1> QED
    BY <1>1, MapTyped DEF Replacements

LEMMA MapWordKeeps == IInv /\ MapWord => IInv'
  <1> SUFFICES ASSUME IInv, MapWord PROVE IInv'
    OBVIOUS
  <1> DEFINE out    == spoken[cursor]
             mapped == MapSpan(out)
             hits   == Replacements(out)
             owner  == IF hits = {} THEN 0 ELSE Min(hits)
             n      == Len(words)
  <1>1. /\ step = "words" /\ overrides # <<>> /\ cursor \in DOMAIN spoken
        /\ mapped.start < mapped.end /\ \A i, j \in hits : i = j
        /\ words' = Append(words, mapped)
        /\ replacementOf' = Append(replacementOf, owner)
        /\ step' = step /\ cursor' = cursor + 1
        /\ UNCHANGED <<request, overrides, mapVars, readVars, phrases, bounded, start, phoneOf,
                       handed, failure>>
    BY DEF MapWord, NextIndex
  <1> USE DEF IInv
  <1>2. TypeOK /\ EntriesInv /\ Tiling(size) /\ Replaced(Len(overrides)) /\ size \in Nat
    BY <1>1 DEF MapInv, Late, TypeOK
  <1>3. Readable(out)
    BY <1>1, WordReadable
  <1>4. mapped \in SpanType
    BY <1>2, <1>3, MapInText
  <1>5. \A r \in DOMAIN overrides :
          overrides[r].kind = "text" => (r \in hits <=> Overlap(overrides[r].span, mapped))
    <2> HIDE DEF IInv
    <2> QED
      BY <1>2, <1>3, OwnerMeets
  <1>6. hits \in SUBSET Nat /\ 0 \notin hits
    BY <1>2, OwnersTyped
  <1>7. \A r \in hits : r \in DOMAIN overrides /\ overrides[r].kind = "text"
    <2>1. SUFFICES ASSUME NEW r \in hits PROVE r \in DOMAIN overrides /\ overrides[r].kind = "text"
      OBVIOUS
    <2>2. PICK k \in Touched(out) : map[k].override = r
      BY DEF Replacements
    <2>3. k \in DOMAIN map /\ r # 0
      BY <1>6 DEF Touched
    <2> QED
      BY <2>2, <2>3, <1>2 DEF Tiling, Tiles
  <1> HIDE DEF hits
  <1>8. owner \in Nat /\ (owner # 0 => owner \in hits) /\ \A r \in hits : owner = r
    <2>1. CASE hits = {}
      BY <2>1
    <2>2. CASE hits # {}
      <3>1. owner = Min(hits) /\ Min(hits) \in hits
        BY <2>2, <1>6, MinExists
      <3> QED
        BY <3>1, <1>1, <1>6
    <2> QED
      BY <2>1, <2>2
  <1> HIDE DEF owner, mapped, out
  <1>9. /\ n = cursor - 1 /\ cursor \in Nat /\ n \in Nat /\ Len(replacementOf) = n /\ Owners
        /\ Len(spoken) \in Nat /\ cursor <= Len(spoken)
        /\ \A w \in DOMAIN words : words[w] = MapSpan(spoken[w]) /\ words[w].start < words[w].end
    <2>1. cursor = n + 1 /\ Len(replacementOf) = n /\ Owners
          /\ \A w \in DOMAIN words : words[w] = MapSpan(spoken[w]) /\ words[w].start < words[w].end
      BY <1>1 DEF WordsInv
    <2>2. n \in Nat /\ Len(spoken) \in Nat /\ DOMAIN spoken = 1..Len(spoken)
      BY SpansTyped DEF TypeOK
    <2> QED
      BY <2>1, <2>2, <1>1
  <1>10. /\ words \in Seq(SpanType) /\ replacementOf \in Seq(Nat) /\ DOMAIN words = 1..n
    BY SpansTyped DEF TypeOK
  <1> HIDE DEF n
  <1>11. /\ words' \in Seq(SpanType) /\ Len(words') = n + 1 /\ words'[n + 1] = mapped
         /\ \A w \in 1..n : words'[w] = words[w]
    BY <1>1, <1>4, <1>10, AppendProperties DEF n
  <1>12. /\ replacementOf' \in Seq(Nat) /\ Len(replacementOf') = n + 1
         /\ replacementOf'[n + 1] = owner
         /\ \A w \in 1..n : replacementOf'[w] = replacementOf[w]
    BY <1>1, <1>8, <1>9, <1>10, AppendProperties
  <1>13. DOMAIN words' = 1..n + 1 /\ \A w \in 1..n + 1 : w \in 1..n \/ w = n + 1
    BY <1>9, <1>11, LenProperties
  <1> USE <1>1 DEF request, mapVars, readVars
  <1>14. Owners'
    <2>1. ASSUME NEW w \in DOMAIN words', replacementOf'[w] # 0
          PROVE  /\ replacementOf'[w] \in DOMAIN overrides
                 /\ overrides[replacementOf'[w]].kind = "text"
      <3>1. CASE w \in 1..n
        <4>1. replacementOf'[w] = replacementOf[w]
          BY <3>1, <1>12
        <4> QED
          BY <2>1, <3>1, <4>1, <1>9, <1>10 DEF Owners
      <3>2. CASE w = n + 1
        BY <2>1, <3>2, <1>7, <1>8, <1>12
      <3> QED
        BY <3>1, <3>2, <1>13
    <2>2. ASSUME NEW w \in DOMAIN words', NEW i \in DOMAIN overrides, overrides[i].kind = "text"
          PROVE  replacementOf'[w] = i <=> Overlap(overrides[i].span, words'[w])
      <3>1. CASE w \in 1..n
        <4>1. replacementOf'[w] = replacementOf[w] /\ words'[w] = words[w]
          BY <3>1, <1>11, <1>12
        <4> QED
          BY <2>2, <3>1, <4>1, <1>9, <1>10 DEF Owners
      <3>2. CASE w = n + 1
        <4>1. replacementOf'[w] = owner /\ words'[w] = mapped
          BY <3>2, <1>11, <1>12
        <4>2. i # 0
          BY <1>2, OverridesTyped
        <4>3. owner = i <=> i \in hits
          BY <4>2, <1>8
        <4>4. i \in hits <=> Overlap(overrides[i].span, mapped)
          BY <2>2, <1>5
        <4> QED
          BY <4>1, <4>3, <4>4
      <3> QED
        BY <3>1, <3>2, <1>13
    <2>3. overrides' = overrides
      OBVIOUS
    <2> HIDE <1>1 DEF IInv
    <2> QED
      BY <2>1, <2>2, <2>3 DEF Owners, Overlap
  <1>15. WordsInv'
    <2>1. \A w \in DOMAIN words' :
            words'[w] = MapSpan(spoken[w])' /\ words'[w].start < words'[w].end
      <3>1. \A w \in 1..n : words'[w] = MapSpan(spoken[w]) /\ words'[w].start < words'[w].end
        BY <1>9, <1>10, <1>11
      <3>2. words'[n + 1] = MapSpan(spoken[n + 1]) /\ words'[n + 1].start < words'[n + 1].end
        <4>1. n + 1 = cursor
          BY <1>9
        <4> QED
          BY <4>1, <1>11 DEF mapped, out
      <3>3. \A w : MapSpan(spoken[w])' = MapSpan(spoken[w])
        BY DEF MapSpan, Touched, Piece
      <3> QED
        BY <3>1, <3>2, <3>3, <1>13
    <2>2. cursor' = Len(words') + 1 /\ Len(words') <= Len(spoken') /\ Len(replacementOf') = Len(words')
      BY <1>9, <1>11, <1>12
    <2> QED
      BY <2>1, <2>2, <1>14 DEF WordsInv
  <1>16. TypeOK'
    <2>1. cursor' \in Nat \ {0}
      BY <1>9
    <2> QED
      BY <2>1, <1>11, <1>12 DEF TypeOK
  <1>17. EntriesInv' /\ FailureLocated'
    BY DEF EntriesInv, FailureLocated
  <1>18. MapInv'
    BY DEF MapInv, Tiling, Tiles, Replaced, Late
  <1>19. ReadInv'
    <2>1. Ordered(spoken, outSize) /\ Covering(phrases, spoken, outSize) /\ EndOf(phrases) = Len(spoken)
      BY DEF ReadInv, Late
    <2>2. Ordered(spoken, outSize)' /\ Covering(phrases, spoken, outSize)' /\ EndOf(phrases') = Len(spoken')
      BY <2>1 DEF Ordered, Covering
    <2> QED
      BY <2>2 DEF ReadInv, Late
  <1>20. PhonesInv' /\ HandedInv'
    BY DEF PhonesInv, HandedInv, Steps, Late
  <1> QED
    BY <1>14, <1>15, <1>16, <1>17, <1>18, <1>19, <1>20

LEMMA AmbiguousWordKeeps == IInv /\ AmbiguousWord => IInv'
  <1> SUFFICES ASSUME IInv, AmbiguousWord PROVE IInv'
    OBVIOUS
  <1> DEFINE out    == spoken[cursor]
             mapped == MapSpan(out)
             hits   == Replacements(out)
             owner  == IF hits = {} THEN 0 ELSE Min(hits)
  <1>1. step = "words" /\ overrides # <<>> /\ cursor \in DOMAIN spoken /\ Reject(mapped, owner)
    BY DEF AmbiguousWord
  <1>2. TypeOK /\ EntriesInv /\ Tiling(size) /\ Replaced(Len(overrides)) /\ size \in Nat
    BY <1>1 DEF IInv, MapInv, Late, TypeOK
  <1>3. Readable(out)
    BY <1>1, WordReadable
  <1>4. mapped \in SpanType /\ mapped.start < mapped.end /\ mapped.end <= size
    BY <1>2, <1>3, MapInText
  <1>5. hits \in SUBSET Nat
    BY <1>2, OwnersTyped
  <1>6. owner \in Nat /\ (owner # 0 => Overlap(overrides[owner].span, mapped))
    <2>1. CASE hits = {}
      BY <2>1
    <2>2. CASE hits # {}
      <3>1. owner \in hits
        BY <2>2, <1>5, MinExists
      <3>2. PICK k \in Touched(out) : map[k].override = owner
        BY <3>1 DEF Replacements
      <3> HIDE DEF owner
      <3>3. owner # 0 /\ owner \in Nat
        BY <3>1, <1>2, OwnersTyped
      <3>4. owner \in DOMAIN overrides /\ overrides[owner].kind = "text"
        BY <3>2, <3>3, <1>2 DEF Touched, Tiling, Tiles
      <3> QED
        BY <3>1, <3>3, <3>4, <1>2, <1>3, OwnerMeets
    <2> QED
      BY <2>1, <2>2
  <1>7. mapped.start <= mapped.end
    BY <1>4 DEF SpanType
  <1> HIDE DEF mapped, owner
  <1> QED
    BY <1>1, <1>4, <1>6, <1>7, RejectKeeps DEF Reject

LEMMA MapPhrasesKeeps == IInv /\ MapPhrases => IInv'
  <1> SUFFICES ASSUME IInv, MapPhrases PROVE IInv'
    OBVIOUS
  <1> DEFINE mapped == [i \in DOMAIN phrases |-> [phrases[i] EXCEPT !.span = MapSpan(@)]]
  <1>1. /\ step = "words" /\ overrides # <<>> /\ cursor > Len(spoken)
        /\ step' = "phones" /\ cursor' = 1
        /\ phrases' = mapped /\ phoneOf' = [i \in DOMAIN words |-> 0]
        /\ UNCHANGED <<request, overrides, mapVars, readVars, bounded, start, words, replacementOf,
                       handed, failure>>
    BY DEF MapPhrases, Goto
  <1> USE DEF IInv
  <1>2. /\ TypeOK /\ Tiling(size) /\ size \in Nat /\ outSize \in Nat
        /\ phrases \in Seq(PhraseType) /\ spoken \in Seq(SpanType) /\ words \in Seq(SpanType)
    BY <1>1 DEF MapInv, Late, TypeOK
  <1>3. /\ Len(spoken) \in Nat /\ Len(words) = Len(spoken) /\ Len(replacementOf) = Len(words) /\ Owners
        /\ DOMAIN words = 1..Len(words) /\ DOMAIN spoken = 1..Len(words)
        /\ \A w \in DOMAIN words : words[w] = MapSpan(spoken[w])
    <2>1. /\ cursor = Len(words) + 1 /\ Len(words) <= Len(spoken) /\ Len(replacementOf) = Len(words)
          /\ Owners /\ \A w \in DOMAIN words : words[w] = MapSpan(spoken[w])
      BY <1>1 DEF WordsInv
    <2>2. /\ Len(spoken) \in Nat /\ Len(words) \in Nat
          /\ DOMAIN words = 1..Len(words) /\ DOMAIN spoken = 1..Len(spoken)
      BY <1>2, SpansTyped
    <2> QED
      BY <2>1, <2>2, <1>1
  <1>4. /\ Ordered(spoken, outSize) /\ Covering(phrases, spoken, outSize)
        /\ EndOf(phrases) = Len(spoken)
    BY <1>1 DEF ReadInv, Late
  <1>5. \A w \in DOMAIN words : Readable(spoken[w])
    BY <1>1, <1>3, WordReadable
  <1>6. Ordered(words, size)
    <2>1. \A w \in DOMAIN words : words[w].start < words[w].end /\ words[w].end <= size
      BY <1>2, <1>3, <1>5, MapInText
    <2>2. ASSUME NEW v \in DOMAIN words, NEW w \in DOMAIN words, v < w
          PROVE  words[v].start <= words[w].start /\ words[v].end <= words[w].end
      <3>1. spoken[v].start <= spoken[w].start /\ spoken[v].end <= spoken[w].end
        BY <2>2, <1>3, <1>4 DEF Ordered
      <3> HIDE DEF IInv
      <3>2. /\ MapSpan(spoken[v]).start <= MapSpan(spoken[w]).start
            /\ MapSpan(spoken[v]).end <= MapSpan(spoken[w]).end
        BY <3>1, <1>2, <1>5, MapMonotone
      <3> QED
        BY <3>2, <1>3
    <2> QED
      BY <2>1, <2>2 DEF Ordered
  <1>7. /\ Len(phrases) \in Nat /\ DOMAIN phrases = 1..Len(phrases)
        /\ \A p \in DOMAIN phrases :
             /\ phrases[p] \in PhraseType /\ phrases[p].span \in SpanType
             /\ phrases[p].wordStart \in Nat /\ phrases[p].wordEnd \in Nat
    BY <1>2, RangesTyped
  <1>8. \A p \in DOMAIN phrases : Readable(phrases[p].span)
    BY <1>4, <1>7 DEF Covering, Readable
  <1>9. \A p \in DOMAIN phrases :
          /\ MapSpan(phrases[p].span) \in SpanType
          /\ MapSpan(phrases[p].span).start < MapSpan(phrases[p].span).end
          /\ MapSpan(phrases[p].span).end <= size
    BY <1>2, <1>8, MapInText
  <1>10. /\ DOMAIN mapped = DOMAIN phrases
         /\ \A p \in DOMAIN phrases :
              /\ mapped[p] \in PhraseType
              /\ mapped[p].wordStart = phrases[p].wordStart /\ mapped[p].wordEnd = phrases[p].wordEnd
              /\ mapped[p].span = MapSpan(phrases[p].span)
    BY <1>7, <1>9 DEF PhraseType
  <1>11. mapped \in Seq(PhraseType) /\ Len(mapped) = Len(phrases)
    <2>1. mapped \in [1..Len(phrases) -> PhraseType]
      BY <1>7, <1>10, Zenon
    <2> HIDE DEF IInv, mapped
    <2> QED
      BY <2>1, <1>7
  <1> HIDE DEF mapped
  <1>12. Covering(mapped, words, size)
    <2>1. ASSUME NEW p \in DOMAIN phrases
          PROVE  /\ mapped[p].wordStart = (IF p = 1 THEN 0 ELSE mapped[p - 1].wordEnd)
                 /\ mapped[p].wordStart <= mapped[p].wordEnd /\ mapped[p].wordEnd <= Len(words)
      <3>1. /\ phrases[p].wordStart = (IF p = 1 THEN 0 ELSE phrases[p - 1].wordEnd)
            /\ phrases[p].wordStart <= phrases[p].wordEnd /\ phrases[p].wordEnd <= Len(spoken)
        BY <1>4 DEF Covering
      <3>2. p # 1 => p - 1 \in DOMAIN phrases
        BY <1>7
      <3> QED
        BY <3>1, <3>2, <1>3, <1>10
    <2>2. ASSUME NEW p \in DOMAIN phrases, phrases[p].wordStart < phrases[p].wordEnd
          PROVE  /\ MapSpan(phrases[p].span).start = words[phrases[p].wordStart + 1].start
                 /\ words[phrases[p].wordEnd].end <= MapSpan(phrases[p].span).end
      <3> DEFINE span  == phrases[p].span
                 first == spoken[phrases[p].wordStart + 1]
                 last  == spoken[phrases[p].wordEnd]
      <3>1. /\ phrases[p].wordEnd <= Len(spoken) /\ span.start = first.start /\ last.end <= span.end
        BY <2>2, <1>4 DEF Covering
      <3>2. phrases[p].wordStart + 1 \in DOMAIN words /\ phrases[p].wordEnd \in DOMAIN words
        BY <2>2, <3>1, <1>3, <1>7
      <3>3. Readable(span) /\ Readable(first) /\ Readable(last)
        BY <3>2, <1>5, <1>8
      <3>4. first.start \in Nat /\ span.start \in Nat
        BY <3>3 DEF Readable, SpanType
      <3>5. span.start <= first.start /\ first.start <= span.start
        BY <3>1, <3>4
      <3> HIDE DEF IInv, span, first, last
      <3>6. /\ MapSpan(span).start <= MapSpan(first).start
            /\ MapSpan(first).start <= MapSpan(span).start
            /\ MapSpan(last).end <= MapSpan(span).end
        BY <3>1, <3>3, <3>5, <1>2, MapMonotone
      <3>7. MapSpan(span) \in SpanType /\ MapSpan(first) \in SpanType
        BY <3>3, <1>2, MapInText
      <3>8. MapSpan(span).start = MapSpan(first).start
        BY <3>6, <3>7 DEF SpanType
      <3> QED
        BY <3>2, <3>6, <3>8, <1>3 DEF span, first, last
    <2> QED
      BY <2>1, <2>2, <1>9, <1>10 DEF Covering
  <1>13. EndOf(mapped) = Len(words)
    <2>1. mapped = <<>> <=> phrases = <<>>
      BY <1>2, <1>7, <1>11, RangesTyped
    <2>2. phrases # <<>> => Len(phrases) \in DOMAIN phrases
      BY <1>2, <1>7, RangesTyped
    <2> QED
      BY <2>1, <2>2, <1>3, <1>4, <1>10, <1>11 DEF EndOf
  <1> USE <1>1 DEF request, mapVars, readVars
  <1>14. phoneOf' \in Seq(Nat) /\ Len(phoneOf') = Len(words) /\ \A w \in DOMAIN words : phoneOf'[w] = 0
    BY <1>3
  <1>15. WordsInv'
    <2>1. Ordered(words, size)' /\ Covering(phrases, words, size)'
      BY <1>6, <1>12 DEF Ordered, Covering
    <2>2. Owners'
      BY <1>3 DEF Owners, Overlap
    <2>3. EndOf(phrases') = Len(words') /\ Len(phoneOf') = Len(words') /\ Len(replacementOf') = Len(words')
      BY <1>3, <1>13, <1>14
    <2> QED
      BY <2>1, <2>2, <2>3 DEF WordsInv
  <1>16. PhonesInv'
    <2>1. Phones(cursor - 1)'
      <3>1. \A w \in DOMAIN words' : phoneOf'[w] = 0
        BY <1>14
      <3>2. \A i \in DOMAIN overrides' : ~(i <= cursor' - 1)
        BY <1>2, OverridesTyped
      <3> QED
        BY <3>1, <3>2 DEF Phones
    <2>2. cursor' <= Len(overrides') + 1
      BY <1>2, OverridesTyped
    <2> QED
      BY <2>1, <2>2 DEF PhonesInv
  <1>17. TypeOK'
    <2>1. phrases' \in Seq(PhraseType) /\ cursor' \in Nat \ {0} /\ step' \in Steps
      BY <1>11 DEF Steps, Late
    <2> QED
      BY <2>1, <1>14 DEF TypeOK
  <1>18. EntriesInv' /\ HandedInv' /\ FailureLocated'
    BY DEF EntriesInv, HandedInv, FailureLocated, Steps, Late
  <1>19. MapInv'
    BY DEF MapInv, Tiling, Tiles, Replaced, Late
  <1>20. ReadInv'
    BY <1>4 DEF ReadInv, Ordered, Late
  <1> QED
    BY <1>15, <1>16, <1>17, <1>18, <1>19, <1>20

-----------------------------------------------------------------------------
(* Phone overrides, and what is handed on.                                 *)

\* The spans stay as they are.
LEMMA SpansKept ==
  ASSUME IInv, step \in {"phones", "resolve", "hand"},
         step' \in {"phones", "resolve", "hand", "handed"}, step' = "phones" => step = "phones",
         Len(phoneOf') = Len(words),
         UNCHANGED <<request, overrides, mapVars, readVars, phrases, bounded, start, words,
                     replacementOf, failure>>
  PROVE  EntriesInv' /\ MapInv' /\ ReadInv' /\ WordsInv' /\ FailureLocated'
  <1> USE DEF IInv, request, mapVars, readVars
  <1>1. EntriesInv' /\ FailureLocated'
    BY DEF EntriesInv, FailureLocated
  <1>2. MapInv'
    BY DEF MapInv, Tiling, Tiles, Replaced, Late
  <1>3. ReadInv'
    BY DEF ReadInv, Ordered, Late
  <1>4. WordsInv'
    BY DEF WordsInv, Owners, Ordered, Covering, Overlap
  <1> QED
    BY <1>1, <1>2, <1>3, <1>4

LEMMA FindTargetKeeps == IInv /\ FindTarget => IInv'
  <1> SUFFICES ASSUME IInv, FindTarget PROVE IInv'
    OBVIOUS
  <1>1. /\ step = "phones"
        /\ UNCHANGED <<request, overrides, mapVars, readVars, phrases, bounded, start, words,
                       replacementOf, handed, failure>>
    BY DEF FindTarget
  <1> USE DEF IInv
  <1>2. /\ words \in Seq(SpanType) /\ phoneOf \in Seq(Nat) /\ Len(phoneOf) = Len(words)
        /\ cursor \in Nat /\ cursor # 0 /\ cursor <= Len(overrides) + 1 /\ Phones(cursor - 1)
    BY <1>1 DEF TypeOK, WordsInv, PhonesInv
  <1>3. /\ Len(words) \in Nat /\ DOMAIN words = 1..Len(words)
        /\ \A w \in DOMAIN words : words[w].start \in Nat /\ words[w].end \in Nat
    BY <1>2, SpansTyped
  <1>4. DOMAIN phoneOf = 1..Len(words) /\ \A w \in DOMAIN words : phoneOf[w] \in Nat
    BY <1>2, <1>3, ElementOfSeq, LenProperties
  <1>5. /\ Len(overrides) \in Nat /\ DOMAIN overrides = 1..Len(overrides)
        /\ \A i \in DOMAIN overrides :
             /\ i \in Nat /\ overrides[i].span.start \in Nat /\ overrides[i].span.end \in Nat
             /\ overrides[i].span.start < overrides[i].span.end
             /\ overrides[i].kind \in {"text", "phone"}
    BY OverridesTyped DEF EntriesInv
  <1>6. \A i, j \in DOMAIN overrides : overrides[i].span = overrides[j].span => i = j
    <2>1. ASSUME NEW i \in DOMAIN overrides, NEW j \in DOMAIN overrides, i < j
          PROVE  overrides[i].span # overrides[j].span
      <3>1. overrides[i].span.end <= overrides[j].span.start
        BY <2>1 DEF EntriesInv
      <3> QED
        BY <3>1, <1>5
    <2> QED
      BY <2>1, <1>5
  <1>7. CASE /\ cursor \in DOMAIN overrides /\ overrides[cursor].kind # "phone"
             /\ step' = step /\ cursor' = cursor + 1 /\ phoneOf' = phoneOf
    <2>1. Phones(cursor)
      <3>1. \A i \in DOMAIN overrides : i <= cursor /\ overrides[i].kind = "phone" => i <= cursor - 1
        BY <1>2, <1>5, <1>7
      <3>2. \A w \in DOMAIN words : phoneOf[w] <= cursor - 1 => phoneOf[w] <= cursor
        BY <1>2, <1>4
      <3> QED
        BY <3>1, <3>2, <1>2 DEF Phones
    <2>2. PhonesInv'
      <3>1. cursor' - 1 = cursor /\ cursor' <= Len(overrides') + 1
        BY <1>1, <1>2, <1>5, <1>7
      <3> QED
        BY <2>1, <3>1, <1>1, <1>7 DEF PhonesInv, Phones, Overlap
    <2>3. TypeOK' /\ HandedInv'
      <3>1. cursor' \in Nat \ {0}
        BY <1>2, <1>7
      <3> QED
        BY <3>1, <1>1, <1>7 DEF TypeOK, HandedInv, request, mapVars, readVars, Steps
    <2>4. EntriesInv' /\ MapInv' /\ ReadInv' /\ WordsInv' /\ FailureLocated'
      BY <1>1, <1>2, <1>7, SpansKept
    <2> QED
      BY <2>2, <2>3, <2>4
  <1>8. CASE /\ cursor \in DOMAIN overrides /\ overrides[cursor].kind = "phone" /\ Targeted(cursor)
             /\ step' = step /\ cursor' = cursor + 1
             /\ phoneOf' = [phoneOf EXCEPT ![CHOOSE w \in Matches(cursor) : TRUE] = cursor]
    <2>1. PICK w \in DOMAIN words : Matches(cursor) = {w}
      BY <1>8 DEF Targeted
    <2>2. (CHOOSE v \in Matches(cursor) : TRUE) = w
      BY <2>1
    <2>3. phoneOf' = [phoneOf EXCEPT ![w] = cursor]
      BY <2>2, <1>8
    <2>4. /\ phoneOf' \in Seq(Nat) /\ Len(phoneOf') = Len(words) /\ phoneOf'[w] = cursor
          /\ \A v \in DOMAIN words : v # w => phoneOf'[v] = phoneOf[v]
      <3>1. /\ [phoneOf EXCEPT ![w] = cursor] \in Seq(Nat)
            /\ Len([phoneOf EXCEPT ![w] = cursor]) = Len(phoneOf)
            /\ \A v \in 1..Len(phoneOf) :
                 [phoneOf EXCEPT ![w] = cursor][v] = IF v = w THEN cursor ELSE phoneOf[v]
        BY <1>2, <1>3, ExceptSeq
      <3> QED
        BY <2>3, <3>1, <1>2, <1>3
    <2>5. /\ words[w] = overrides[cursor].span
          /\ \A v \in DOMAIN words \ {w} : ~Overlap(overrides[cursor].span, words[v])
      BY <2>1, <1>8 DEF Targeted, Matches
    <2>6. ASSUME NEW i \in DOMAIN overrides, i <= cursor, overrides[i].kind = "phone"
          PROVE  \E v \in DOMAIN words :
                   /\ phoneOf'[v] = i /\ words[v] = overrides[i].span
                   /\ \A u \in DOMAIN words \ {v} : ~Overlap(words[u], overrides[i].span)
      <3>1. CASE i = cursor
        <4>1. \A u \in DOMAIN words \ {w} : ~Overlap(words[u], overrides[i].span)
          BY <3>1, <2>5 DEF Overlap
        <4> QED
          BY <3>1, <4>1, <2>4, <2>5
      <3>2. CASE i # cursor
        <4>1. i <= cursor - 1
          BY <2>6, <3>2, <1>2, <1>5
        <4>2. PICK v \in DOMAIN words :
                /\ phoneOf[v] = i /\ words[v] = overrides[i].span
                /\ \A u \in DOMAIN words \ {v} : ~Overlap(words[u], overrides[i].span)
          BY <2>6, <4>1, <1>2 DEF Phones
        <4>3. v # w
          BY <3>2, <4>2, <2>5, <1>6, <1>8
        <4> QED
          BY <4>2, <4>3, <2>4
      <3> QED
        BY <3>1, <3>2
    <2>7. ASSUME NEW v \in DOMAIN words, phoneOf'[v] # 0
          PROVE  /\ phoneOf'[v] \in DOMAIN overrides /\ phoneOf'[v] <= cursor
                 /\ words[v] = overrides[phoneOf'[v]].span
      <3>1. CASE v = w
        BY <3>1, <2>4, <2>5, <1>2, <1>8
      <3>2. CASE v # w
        <4>1. phoneOf'[v] = phoneOf[v]
          BY <3>2, <2>4
        <4>2. /\ phoneOf[v] \in DOMAIN overrides /\ phoneOf[v] <= cursor - 1
              /\ words[v] = overrides[phoneOf[v]].span
          BY <2>7, <4>1, <1>2 DEF Phones
        <4> QED
          BY <4>1, <4>2, <1>2, <1>5
      <3> QED
        BY <3>1, <3>2
    <2>8. PhonesInv'
      <3>1. cursor' - 1 = cursor /\ cursor' <= Len(overrides') + 1
        BY <1>1, <1>2, <1>5, <1>8
      <3>2. words' = words /\ overrides' = overrides /\ step' = "phones"
        BY <1>1, <1>8
      <3>3. Phones(cursor - 1)'
        <4> HIDE DEF IInv
        <4> QED
          BY <2>6, <2>7, <3>1, <3>2 DEF Phones, Overlap
      <3> QED
        BY <3>1, <3>2, <3>3 DEF PhonesInv
    <2>9. TypeOK' /\ HandedInv'
      <3>1. cursor' \in Nat \ {0}
        BY <1>2, <1>8
      <3> QED
        BY <3>1, <2>4, <1>1, <1>8 DEF TypeOK, HandedInv, request, mapVars, readVars, Steps
    <2>10. EntriesInv' /\ MapInv' /\ ReadInv' /\ WordsInv' /\ FailureLocated'
      BY <2>4, <1>1, <1>8, SpansKept
    <2> QED
      BY <2>8, <2>9, <2>10
  <1>9. CASE cursor > Len(overrides) /\ step' = "resolve" /\ cursor' = 1 /\ phoneOf' = phoneOf
    <2>1. cursor - 1 = Len(overrides)
      BY <1>2, <1>5, <1>9
    <2>2. PhonesInv'
      BY <2>1, <1>1, <1>2, <1>9 DEF PhonesInv, Phones, Overlap
    <2>3. TypeOK' /\ HandedInv'
      <3>1. step' \in Steps /\ cursor' \in Nat \ {0}
        BY <1>9 DEF Steps, Late
      <3>2. HandedInv'
        BY <1>1, <1>9 DEF HandedInv, Steps, Late
      <3> QED
        BY <3>1, <3>2, <1>1, <1>9 DEF TypeOK, request, mapVars, readVars
    <2>4. EntriesInv' /\ MapInv' /\ ReadInv' /\ WordsInv' /\ FailureLocated'
      BY <1>1, <1>2, <1>9, SpansKept
    <2> QED
      BY <2>2, <2>3, <2>4
  <1>10. \/ /\ cursor \in DOMAIN overrides /\ overrides[cursor].kind # "phone"
            /\ step' = step /\ cursor' = cursor + 1 /\ phoneOf' = phoneOf
         \/ /\ cursor \in DOMAIN overrides /\ overrides[cursor].kind = "phone" /\ Targeted(cursor)
            /\ step' = step /\ cursor' = cursor + 1
            /\ phoneOf' = [phoneOf EXCEPT ![CHOOSE w \in Matches(cursor) : TRUE] = cursor]
         \/ cursor > Len(overrides) /\ step' = "resolve" /\ cursor' = 1 /\ phoneOf' = phoneOf
    BY DEF FindTarget, NextIndex, Goto
  <1> QED
    BY <1>7, <1>8, <1>9, <1>10

\* From here on the owners stay as they are too.
LEMMA OwnersKept ==
  ASSUME IInv, step \in {"resolve", "hand"}, step' \in {"resolve", "hand", "handed"},
         cursor' \in Nat \ {0}, handed' \in Seq(PhraseType),
         UNCHANGED <<request, overrides, mapVars, readVars, phrases, bounded, start, words, owners,
                     failure>>
  PROVE  /\ TypeOK' /\ PhonesInv'
         /\ EntriesInv' /\ MapInv' /\ ReadInv' /\ WordsInv' /\ FailureLocated'
  <1>1. PhonesInv'
    BY DEF IInv, PhonesInv, Phones, Overlap, owners
  <1>2. TypeOK'
    BY DEF IInv, TypeOK, Steps, Late, request, mapVars, readVars, owners
  <1>3. Len(phoneOf') = Len(words)
    BY DEF IInv, WordsInv, owners
  <1>4. EntriesInv' /\ MapInv' /\ ReadInv' /\ WordsInv' /\ FailureLocated'
    BY <1>3, SpansKept DEF owners
  <1> QED
    BY <1>1, <1>2, <1>4

LEMMA ResolveKeeps == IInv /\ Resolve => IInv'
  <1> SUFFICES ASSUME IInv, Resolve PROVE IInv'
    OBVIOUS
  <1>1. cursor' \in Nat \ {0} /\ handed' \in Seq(PhraseType) /\ handed = <<>>
    BY DEF IInv, TypeOK, HandedInv, Resolve, NextIndex, Steps, Late
  <1>2. HandedInv'
    BY <1>1 DEF HandedInv, Resolve, NextIndex
  <1> QED
    BY <1>1, <1>2, OwnersKept DEF IInv, Resolve, NextIndex

LEMMA UnresolvedKeeps == IInv /\ Unresolved => IInv'
  <1> SUFFICES ASSUME IInv, Unresolved PROVE IInv'
    OBVIOUS
  <1> DEFINE owner == replacementOf[cursor]
             span  == words[cursor]
  <1>1. step = "resolve" /\ cursor \in DOMAIN words /\ Reject(span, owner)
    BY DEF Unresolved
  <1>2. /\ words \in Seq(SpanType) /\ replacementOf \in Seq(Nat)
        /\ Len(replacementOf) = Len(words)
        /\ Ordered(words, size) /\ Owners
    BY <1>1 DEF IInv, TypeOK, WordsInv, PhonesInv
  <1>3. /\ span \in SpanType /\ span.start < span.end /\ span.end <= size
        /\ owner \in Nat
    BY <1>1, <1>2, SpansTyped, ElementOfSeq DEF Ordered
  <1>4. owner # 0 => Overlap(overrides[owner].span, span)
    BY <1>1, <1>2 DEF Owners
  <1>5. span.start <= span.end
    BY <1>3 DEF SpanType
  <1> HIDE DEF owner, span
  <1> QED
    BY <1>1, <1>3, <1>4, <1>5, RejectKeeps DEF Reject

LEMMA ResolvedKeeps == IInv /\ Resolved => IInv'
  <1> SUFFICES ASSUME IInv, Resolved PROVE IInv'
    OBVIOUS
  <1>1. cursor' \in Nat \ {0} /\ handed' \in Seq(PhraseType) /\ handed = <<>>
    BY DEF IInv, TypeOK, HandedInv, Resolved, Goto, Steps, Late
  <1>2. HandedInv'
    <2>1. /\ phrases \in Seq(PhraseType) /\ Covering(phrases, words, size)
          /\ EndOf(phrases) = Len(words)
      BY DEF IInv, TypeOK, WordsInv, Resolved
    <2>2. Len(phrases) \in Nat /\ DOMAIN phrases = 1..Len(phrases) /\ (phrases # <<>> <=> 1 <= Len(phrases))
      BY <2>1, RangesTyped
    <2>3. 1 <= Len(phrases) => phrases[1].wordStart = 0
      BY <2>1, <2>2 DEF Covering
    <2>4. ~(1 <= Len(phrases)) => Len(words) = 0
      BY <2>1, <2>2 DEF EndOf
    <2>5. EndOf(handed') = 0 /\ DOMAIN handed' = {}
      BY <1>1 DEF Resolved, EndOf
    <2> QED
      BY <2>2, <2>3, <2>4, <2>5, <1>1 DEF HandedInv, Covering, Resolved, Goto
  <1> QED
    BY <1>1, <1>2, OwnersKept DEF IInv, Resolved, Goto

LEMMA HandPhraseKeeps == IInv /\ HandPhrase => IInv'
  <1> SUFFICES ASSUME IInv, HandPhrase PROVE IInv'
    OBVIOUS
  <1> DEFINE phrase == phrases[cursor]
             more   == Append(handed, phrase)
  <1>1. /\ step = "hand" /\ cursor \in DOMAIN phrases /\ step' = step /\ cursor' = cursor + 1
        /\ handed' = IF phrase.wordStart = phrase.wordEnd THEN handed ELSE more
        /\ UNCHANGED <<request, overrides, mapVars, readVars, phrases, bounded, start, words, owners,
                       failure>>
    BY DEF HandPhrase, NextIndex
  <1>2. /\ phrases \in Seq(PhraseType) /\ handed \in Seq(PhraseType) /\ words \in Seq(SpanType)
        /\ size \in Nat
    BY DEF IInv, TypeOK
  <1>3. /\ Covering(phrases, words, size) /\ EndOf(phrases) = Len(words)
        /\ Covering(handed, words, size) /\ EndOf(handed) = phrase.wordStart
        /\ \A p \in DOMAIN handed : handed[p].wordStart < handed[p].wordEnd
    <2>1. /\ Covering(phrases, words, size) /\ EndOf(phrases) = Len(words)
          /\ Covering(handed, words, size)
          /\ \A p \in DOMAIN handed : handed[p].wordStart < handed[p].wordEnd
          /\ EndOf(handed) = IF cursor <= Len(phrases) THEN phrases[cursor].wordStart ELSE Len(words)
      BY <1>1 DEF IInv, WordsInv, HandedInv
    <2>2. cursor <= Len(phrases)
      BY <1>1, <1>2, RangesTyped
    <2> QED
      BY <2>1, <2>2
  <1>4. /\ phrase \in PhraseType /\ cursor \in Nat /\ Len(phrases) \in Nat /\ 1 <= cursor
        /\ cursor <= Len(phrases) /\ DOMAIN phrases = 1..Len(phrases)
        /\ phrase.wordStart \in Nat /\ phrase.wordEnd \in Nat
        /\ Len(handed) \in Nat /\ DOMAIN handed = 1..Len(handed)
    BY <1>1, <1>2, RangesTyped
  <1>5. /\ phrase.wordStart <= phrase.wordEnd /\ phrase.wordEnd <= Len(words)
        /\ phrase.span.start < phrase.span.end /\ phrase.span.end <= size
        /\ phrase.wordStart < phrase.wordEnd =>
             /\ phrase.span.start = words[phrase.wordStart + 1].start
             /\ words[phrase.wordEnd].end <= phrase.span.end
    BY <1>1, <1>3 DEF Covering
  <1>6. /\ Covering(handed', words, size) /\ handed' \in Seq(PhraseType)
        /\ EndOf(handed') = phrase.wordEnd
        /\ \A p \in DOMAIN handed' : handed'[p].wordStart < handed'[p].wordEnd
    <2> HIDE DEF phrase
    <2>1. CASE phrase.wordStart = phrase.wordEnd
      BY <2>1, <1>1, <1>2, <1>3
    <2>2. CASE phrase.wordStart # phrase.wordEnd
      <3>1. handed' = more
        BY <2>2, <1>1
      <3>2. /\ Covering(more, words, size) /\ more \in Seq(PhraseType)
            /\ EndOf(more) = phrase.wordEnd
        BY <1>2, <1>3, <1>4, <1>5, AppendCovering
      <3>3. /\ \A p \in 1..Len(handed) : more[p] = handed[p]
            /\ more[Len(handed) + 1] = phrase
            /\ Len(more) = Len(handed) + 1
        BY <1>2, <1>4, AppendProperties
      <3>4. DOMAIN more = 1..Len(handed) + 1
        BY <3>2, <3>3, LenProperties
      <3> HIDE DEF more
      <3>5. phrase.wordStart < phrase.wordEnd
        BY <2>2, <1>4, <1>5
      <3>6. ASSUME NEW p \in DOMAIN more
            PROVE  more[p].wordStart < more[p].wordEnd
        <4>1. CASE p = Len(handed) + 1
          BY <4>1, <3>3, <3>5
        <4>2. CASE p \in DOMAIN handed
          BY <4>2, <3>3, <1>3, <1>4
        <4> QED
          BY <4>1, <4>2, <3>4, <1>4
      <3> QED
        BY <3>1, <3>2, <3>6
    <2> QED
      BY <2>1, <2>2
  <1>7. HandedInv'
    <2>1. Covering(handed, words, size)'
      BY <1>1, <1>6 DEF Covering, request
    <2>2. CASE cursor < Len(phrases)
      <3>1. cursor' \in DOMAIN phrases /\ cursor' # 1 /\ cursor' - 1 = cursor /\ cursor' <= Len(phrases)
        BY <2>2, <1>1, <1>4
      <3>2. phrases[cursor'].wordStart = phrase.wordEnd
        BY <3>1, <1>3 DEF Covering
      <3>3. EndOf(handed') = phrases'[cursor'].wordStart /\ cursor' <= Len(phrases')
        BY <3>1, <3>2, <1>1, <1>6
      <3>4. cursor' <= Len(phrases') + 1
        BY <3>1, <1>1, <1>4
      <3> QED
        BY <2>1, <3>3, <3>4, <1>1, <1>6 DEF HandedInv, Steps
    <2>3. CASE cursor = Len(phrases)
      <3>1. phrase.wordEnd = Len(words)
        BY <2>3, <1>2, <1>3, <1>4, RangesTyped DEF EndOf
      <3>2. /\ ~(cursor' <= Len(phrases')) /\ cursor' <= Len(phrases') + 1
            /\ EndOf(handed') = Len(words')
        BY <2>3, <3>1, <1>1, <1>4, <1>6
      <3> QED
        BY <2>1, <3>2, <1>1, <1>6 DEF HandedInv, Steps
    <2>4. cursor < Len(phrases) \/ cursor = Len(phrases)
      <3>1. cursor \in Nat /\ Len(phrases) \in Nat /\ cursor <= Len(phrases)
        BY <1>4
      <3> QED
        BY <3>1
    <2> QED
      BY <2>2, <2>3, <2>4
  <1>8. cursor' \in Nat \ {0}
    BY <1>1, <1>4
  <1> QED
    BY <1>1, <1>6, <1>7, <1>8, OwnersKept DEF IInv

LEMMA AllHandedKeeps == IInv /\ AllHanded => IInv'
  <1> SUFFICES ASSUME IInv, AllHanded PROVE IInv'
    OBVIOUS
  <1>1. cursor' \in Nat \ {0} /\ handed' \in Seq(PhraseType)
    BY DEF IInv, TypeOK, AllHanded, Goto
  <1>2. HandedInv'
    <2>1. cursor \in Nat /\ Len(phrases) \in Nat /\ ~(cursor <= Len(phrases))
      BY RangesTyped DEF IInv, TypeOK, AllHanded
    <2> QED
      BY <2>1 DEF IInv, HandedInv, Covering, AllHanded, Goto, request
  <1> QED
    BY <1>1, <1>2, OwnersKept DEF IInv, AllHanded, Goto

-----------------------------------------------------------------------------
(* The theorems.                                                           *)

LEMMA Inductive == IInv /\ [Next]_vars => IInv'
  BY CopyEntryKeeps, RefuseEntryKeeps, CopiedKeeps, AnalysisFailsKeeps, AnalyzeKeeps,
     EntryInvalidKeeps, CheckEntryKeeps, BuildEntryKeeps, BuildSuffixKeeps, ExpandedTooLargeKeeps,
     SpeakKeeps, EndPhraseKeeps, ReadFailsKeeps, FinishReadKeeps,
     CutPhraseKeeps, KeepPhraseKeeps, PhrasesBoundedKeeps,
     KeepSpansKeeps, MapWordKeeps, AmbiguousWordKeeps, MapPhrasesKeeps, FindTargetKeeps, NoTargetKeeps,
     ResolveKeeps, UnresolvedKeeps, ResolvedKeeps, HandPhraseKeeps, AllHandedKeeps, StutterKeeps
  DEF Next

\* The inductive invariant holds of every request: the map tiles the text
\* that is read, words and phrases are in order there and in the request, and
\* every word has the owners that meet it (overrides.cpp, pipeline.cpp).
THEOREM Invariance == Spec => []IInv
  BY Initially, Inductive, PTL DEF Spec

\* The state of the front end has its types (overrides.cpp, pipeline.cpp).
THEOREM Typing == Spec => []TypeOK
  <1>1. IInv => TypeOK
    BY DEF IInv
  <1> QED
    BY <1>1, Invariance, PTL

\* The serializer refuses no word and no phrase for its span, however long
\* the request and whatever was overridden (tokenization.cpp:647-655, 704-733).
THEOREM SerializerAccepts == Spec => []SpansAccepted
  <1>1. IInv => SpansAccepted
    <2> SUFFICES ASSUME IInv, step = "handed" PROVE WordsAccepted /\ PhrasesAccepted
      BY DEF SpansAccepted
    <2>1. /\ Ordered(words, size) /\ Covering(handed, words, size)
          /\ words \in Seq(SpanType) /\ handed \in Seq(PhraseType)
          /\ EndOf(handed) = Len(words)
          /\ \A p \in DOMAIN handed : handed[p].wordStart < handed[p].wordEnd
      BY DEF IInv, TypeOK, WordsInv, HandedInv
    <2>2. /\ Len(words) \in Nat /\ DOMAIN words = 1..Len(words)
          /\ \A w \in DOMAIN words : words[w].start \in Nat /\ words[w].end \in Nat
      BY <2>1, SpansTyped
    <2>3. /\ Len(handed) \in Nat /\ DOMAIN handed = 1..Len(handed)
          /\ \A p \in DOMAIN handed :
               /\ handed[p].wordStart \in Nat /\ handed[p].wordEnd \in Nat
               /\ handed[p].span.start \in Nat /\ handed[p].span.end \in Nat
      BY <2>1, RangesTyped
    <2>4. WordsAccepted
      <3>1. \A w \in DOMAIN words : w > 1 => w - 1 \in DOMAIN words /\ w - 1 < w
        BY <2>2
      <3> QED
        BY <3>1, <2>1 DEF WordsAccepted, Ordered
    <2>5. ASSUME NEW p \in DOMAIN handed
          PROVE  /\ handed[p].wordStart = (IF p = 1 THEN 0 ELSE handed[p - 1].wordEnd)
                 /\ handed[p].wordStart < handed[p].wordEnd /\ handed[p].wordEnd <= Len(words)
                 /\ handed[p].span.start < handed[p].span.end /\ handed[p].span.end <= size
                 /\ handed[p].span.start = words[handed[p].wordStart + 1].start
                 /\ words[handed[p].wordEnd].end <= handed[p].span.end
      BY <2>1 DEF Covering
    <2>6. ASSUME NEW p \in DOMAIN handed, p > 1
          PROVE  handed[p - 1].span.start <= handed[p].span.start
      <3> DEFINE v == handed[p - 1].wordStart + 1
                 w == handed[p].wordStart + 1
      <3>1. p - 1 \in DOMAIN handed /\ p # 1
        BY <2>3, <2>6
      <3>2. handed[p].wordStart = handed[p - 1].wordEnd
        BY <3>1, <2>5
      <3>3. handed[p - 1].wordStart < handed[p - 1].wordEnd
        BY <3>1, <2>5
      <3>4. v \in DOMAIN words /\ w \in DOMAIN words /\ v < w
        <4>1. handed[p].wordStart < handed[p].wordEnd /\ handed[p].wordEnd <= Len(words)
          BY <2>5
        <4>2. handed[p].wordStart \in Nat /\ handed[p].wordEnd \in Nat /\ handed[p - 1].wordStart \in Nat
          BY <3>1, <2>3
        <4>3. v < w /\ v \in 1..Len(words) /\ w \in 1..Len(words)
          <5>1. Len(words) \in Nat
            BY <2>2
          <5> QED
            BY <5>1, <4>1, <4>2, <3>2, <3>3
        <4> QED
          BY <4>3, <2>2
      <3>5. handed[p - 1].span.start = words[v].start /\ handed[p].span.start = words[w].start
        BY <3>1, <2>5
      <3> HIDE DEF v, w
      <3> QED
        BY <3>4, <3>5, <2>1 DEF Ordered
    <2>7. ASSUME NEW p \in DOMAIN handed
          PROVE  handed[p].span.start <= words[handed[p].wordStart + 1].start
      <3>1. handed[p].span.start = words[handed[p].wordStart + 1].start /\ handed[p].span.start \in Nat
        BY <2>3, <2>5
      <3> QED
        BY <3>1
    <2>8. PhrasesAccepted
      BY <2>1, <2>5, <2>6, <2>7 DEF PhrasesAccepted
    <2> QED
      BY <2>4, <2>8
  <1> QED
    BY <1>1, Invariance, PTL

\* A replacement owns the words that meet its bytes and no others, whatever
\* text it is replaced by (overrides.cpp:396-418).
THEOREM ReplacementsOwnTheirs == Spec => []ReplacementsOwned
  <1>1. IInv => ReplacementsOwned
    BY DEF IInv, WordsInv, Owners, ReplacementsOwned
  <1> QED
    BY <1>1, Invariance, PTL

\* Every phone override has its word, its word alone (overrides.cpp:427-456).
THEOREM PhonesHaveTheirWord == Spec => []PhonesOwned
  <1>1. IInv => PhonesOwned
    <2> SUFFICES ASSUME IInv, step \in {"resolve", "hand", "handed"},
                        NEW i \in DOMAIN overrides, overrides[i].kind = "phone"
                 PROVE  \E w \in DOMAIN words :
                          /\ phoneOf[w] = i /\ replacementOf[w] = 0 /\ words[w] = overrides[i].span
                          /\ \A v \in DOMAIN words \ {w} :
                               phoneOf[v] # i /\ ~Overlap(words[v], overrides[i].span)
      BY DEF PhonesOwned
    <2>1. Owners /\ Phones(Len(overrides)) /\ EntriesInv
      BY DEF IInv, WordsInv, PhonesInv
    <2>2. /\ i \in Nat /\ i # 0 /\ i <= Len(overrides)
          /\ \A j \in DOMAIN overrides :
               j \in Nat /\ overrides[j].span.start \in Nat /\ overrides[j].span.end \in Nat
      BY OverridesTyped DEF IInv
    <2>3. PICK w \in DOMAIN words :
            /\ phoneOf[w] = i /\ words[w] = overrides[i].span
            /\ \A v \in DOMAIN words \ {w} : ~Overlap(words[v], overrides[i].span)
      BY <2>1, <2>2 DEF Phones
    <2>4. replacementOf[w] = 0
      <3> SUFFICES ASSUME replacementOf[w] # 0 PROVE FALSE
        OBVIOUS
      <3> DEFINE r == replacementOf[w]
      <3>1. r \in DOMAIN overrides /\ overrides[r].kind = "text"
        BY <2>1 DEF Owners
      <3>2. Overlap(overrides[r].span, overrides[i].span)
        BY <3>1, <2>1, <2>3 DEF Owners
      <3> HIDE DEF r
      <3>3. r < i \/ i < r
        BY <3>1, <2>2
      <3>4. \/ overrides[r].span.end <= overrides[i].span.start
            \/ overrides[i].span.end <= overrides[r].span.start
        BY <3>1, <3>3, <2>1 DEF EntriesInv
      <3> QED
        BY <3>1, <3>2, <3>4, <2>2 DEF Overlap
    <2>5. ASSUME NEW v \in DOMAIN words \ {w}, phoneOf[v] = i
          PROVE  FALSE
      <3>1. words[v] = overrides[i].span
        BY <2>1, <2>2, <2>5 DEF Phones
      <3>2. overrides[i].span.start < overrides[i].span.end
        BY <2>1 DEF EntriesInv
      <3> QED
        BY <3>1, <3>2, <2>3 DEF Overlap
    <2> QED
      BY <2>3, <2>4, <2>5
  <1> QED
    BY <1>1, Invariance, PTL

\* A rejection names bytes of the request and an override that meets them,
\* even when a byte of the expanded text was refused (overrides.cpp:195-215).
THEOREM RejectionsLocated == Spec => []FailureLocated
  <1>1. IInv => FailureLocated
    BY DEF IInv
  <1> QED
    BY <1>1, Invariance, PTL
=============================================================================
