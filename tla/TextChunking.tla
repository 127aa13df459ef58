----------------------------- MODULE TextChunking -----------------------------
(***************************************************************************)
(* chunk_document and the chunk_text loop under it                         *)
(* (src/src/core/text_chunking.py): how a document becomes the overlapping *)
(* windows that are embedded and compared.                                 *)
(*                                                                         *)
(* A character is the kind it has for the chunker.  Positions are Python's: *)
(* character i of t is t[i + 1], a range [a, b) has a..(b - 1).  Searches  *)
(* are relations (IsWindowEnd(.., e): the search yields e).                *)
(*                                                                         *)
(* An operator named after a slip stands above the definition it is a      *)
(* mutated form of; no behaviour uses it.                                  *)
(***************************************************************************)
EXTENDS Integers, Sequences, FiniteSets

CONSTANTS Texts,        \* bound: the documents
          ChunkSizes,   \* values of chunk_size
          Overlap,      \* chunk_overlap
          MinSize,      \* MIN_CHUNK_SIZE
          Forward,      \* max_search of the searches for a chunk's end
          Backward,     \* ... and for the next chunk's start
          MinWords, MinTail, MaxChunks   \* min_words, min_chunk_length, max_chunks

\* A word is a letter, a capital where white space stands before it; a stop ends
\* a sentence; a space is a line break, two of them a paragraph break; a heading
\* stands for a Markdown heading with its title.
Kinds == {"word", "stop", "space", "heading"}

ASSUME ChunkAssumption ==
    /\ Texts \subseteq Seq(Kinds)
    /\ Overlap \in Nat /\ MinSize \in Nat \ {0}
    /\ Forward \in Nat /\ Backward \in Nat
    /\ MinWords \in Nat /\ MinTail \in Nat /\ MaxChunks \in Nat \ {0}
    /\ ChunkSizes \subseteq Nat
    /\ \A n \in ChunkSizes : Overlap < n     \* chunk_text raises otherwise

VARIABLES
    text,      \* the document
    size,      \* chunk_size
    begin,     \* where the section that is being chunked begins
    section,   \* its text, stripped
    lead,      \* the white space that was stripped from its front
    at,        \* "open" | "window" | "close" | "done" | "compared"
    start,     \* of the next window
    pieces,    \* what chunk_text has cut from this section
    result,    \* what chunk_document returns
    dropped,   \* history: pieces with too few words
    full       \* history: a section was cut short by max_chunks

chunkVars == <<text, size, begin, section, lead, at, start, pieces, result, dropped, full>>

Lesser(a, b)  == IF a < b THEN a ELSE b
Greater(a, b) == IF a > b THEN a ELSE b

\* The chunk size of the loop: at least MIN_CHUNK_SIZE.
LoopSize == Greater(size, MinSize)

Range2(s, e) == s..(e - 1)

-----------------------------------------------------------------------------
(* The searches for boundaries, in a text t *)

\* e is just behind a sentence: its terminator is the last character, or white
\* space and a capital follow.
IsSentenceEnd(t, e) ==
    /\ t[e] = "stop"
    /\ \E tail \in e..Len(t) :
          /\ \A i \in e..(tail - 1) : t[i + 1] = "space"
          /\ tail = Len(t) \/ (tail > e /\ t[tail + 1] = "word")

IsParagraphBreak(t, pos) == t[pos + 1] = "space" /\ t[pos + 2] = "space"

\* _find_sentence_boundary: the first one, or i itself
IsSentenceForward(t, i, e) ==
    LET ends == {n \in (i + 1)..Lesser(Len(t), i + Forward) : IsSentenceEnd(t, n)} IN
    IF i < Len(t) /\ ends # {} THEN e \in ends /\ \A n \in ends : e <= n ELSE e = i

\* ... the last one
IsSentenceBackward(t, i, reach, e) ==
    LET ends == {n \in (Greater(0, i - reach) + 1)..i : IsSentenceEnd(t, n)} IN
    IF i < Len(t) /\ ends # {} THEN e \in ends /\ \A n \in ends : e >= n ELSE e = i

\* _find_paragraph_boundary, for the end and for the start of a window
ParagraphsForward(t, i)  == {n \in i..(Lesser(Len(t), i + Forward) - 2) : IsParagraphBreak(t, n)}
ParagraphsBackward(t, i) == {n \in Greater(0, i - Backward)..(i - 2) : IsParagraphBreak(t, n)}

\* The boundary behind raw: a paragraph's if there is one within the cap.
IsBoundary(t, raw, cap, e) ==
    LET breaks == ParagraphsForward(t, raw)
        near   == {n \in breaks : (\A m \in breaks : n <= m) /\ n + 2 <= cap} IN
    IF near # {} THEN e - 2 \in near ELSE IsSentenceForward(t, raw, e)

\* Where the window that starts at s ends.  A boundary beyond the cap gives way
\* to the last one before it.
IsWindowEndUncapped(t, s, e) ==
    LET raw == Lesser(s + LoopSize, Len(t))
        cap == Lesser(s + 2 * LoopSize, Len(t)) IN
    IF raw = Len(t) THEN e = raw ELSE IsBoundary(t, raw, cap, e)
IsWindowEnd(t, s, e) ==
    LET raw == Lesser(s + LoopSize, Len(t))
        cap == Lesser(s + 2 * LoopSize, Len(t)) IN
    IF raw = Len(t) THEN e = raw
    ELSE \E n \in raw..Len(t) :
           /\ IsBoundary(t, raw, cap, n)
           /\ IF n <= cap THEN e = n
              ELSE \E prev \in 0..cap :
                     /\ IsSentenceBackward(t, cap, cap - s, prev)
                     /\ e = IF prev > s THEN prev ELSE cap

\* Where the window after [s, e) starts.
IsPaddedFarBack(t, i, n) ==
    IF i > 0 THEN IsSentenceBackward(t, i, LoopSize, n) ELSE n = i
IsPadded(t, i, n) ==
    LET breaks == ParagraphsBackward(t, i) IN
    IF i > 0
    THEN IF breaks # {} THEN n \in breaks /\ \A m \in breaks : n >= m
         ELSE IsSentenceBackward(t, i, Backward, n)
    ELSE n = i
IsNextStartUnguarded(t, s, e, next) == IsPadded(t, e - Overlap, next)
IsNextStartWithoutOverlap(t, s, e, next) ==
    \E n \in 0..Len(t) : IsPadded(t, e, n) /\ next = IF n <= s THEN e ELSE n
IsNextStart(t, s, e, next) ==
    \E n \in (-Overlap)..Len(t) :
        /\ IsPadded(t, e - Overlap, n)
        /\ next = IF n <= s THEN s + LoopSize - Overlap ELSE n

-----------------------------------------------------------------------------
(* Sections *)

IsHeader(i)   == text[i + 1] = "heading" /\ (i > 0 => text[i] = "space")
Boundaries    == {0, Len(text)} \cup {i \in 0..(Len(text) - 1) : IsHeader(i)}
IsSectionEnd(e) == e \in Boundaries /\ e > begin /\ \A n \in Boundaries : n > begin => e <= n

\* strip leaves [a, b) of raw.
IsTrimmed(raw, a, b) ==
    /\ \A i \in (1..a) \cup ((b + 1)..Len(raw)) : raw[i] = "space"
    /\ IF a < b THEN raw[a + 1] # "space" /\ raw[b] # "space" ELSE a = Len(raw) /\ b = a

Piece(s, e, shift) == [start |-> s, end |-> e, from |-> s + shift, to |-> e + shift]

\* _character_fallback_chunking, for a text without white space
FallbackStep    == Greater(1, size - Overlap)
FallbackEnd(t, k) == Lesser((k - 1) * FallbackStep + size, Len(t))
FallbackCount(t, n) ==
    /\ \A k \in 1..(n - 1) : FallbackEnd(t, k) < Len(t)
    /\ IF t = <<>> THEN n = 0 ELSE n > 0 /\ FallbackEnd(t, n) = Len(t)
Fallback(t, shift, n) ==
    [k \in 1..n |-> Piece((k - 1) * FallbackStep, FallbackEnd(t, k), shift)]

Room       == Greater(1, MaxChunks - Len(result))
CutOneLate(s, n) == SubSeq(s, 1, Lesser(Len(s), n + 1))
Cut(s, n)  == SubSeq(s, 1, Lesser(Len(s), n))

Placed(p) == [start |-> begin + p.start, end |-> begin + p.end,
              from |-> begin + p.from, to |-> begin + p.to]

\* The words of a placed piece, and its length without white space at its ends.
Text(c)   == Range2(c.from, c.to)
InWord(i) == text[i + 1] \in {"word", "heading"}
Words(c)  == Cardinality({i \in Text(c) : InWord(i) /\ (i - 1 \in Text(c) => ~InWord(i - 1))})
Length(c) == LET inked == {i \in Text(c) : text[i + 1] # "space"} IN
             Cardinality({i \in Text(c) : (\E j \in inked : j <= i) /\ \E j \in inked : i <= j})
Wordy(c)  == Words(c) >= MinWords

\* The last piece goes into the one before it when it is short; the text is cut
\* anew from the section, which is not stripped.
MergeTailOnly(ps) ==
    LET n == Len(ps) IN
    IF n > 1 /\ Length(Placed(ps[n])) < MinTail THEN SubSeq(ps, 1, n - 1) ELSE ps
MergeTail(ps) ==
    LET n == Len(ps) IN
    IF n > 1 /\ Length(Placed(ps[n])) < MinTail
    THEN Append(SubSeq(ps, 1, n - 2), Piece(ps[n - 1].start, ps[n].end, 0))
    ELSE ps

\* The indexes of the pieces with enough words, in order.
KeptIndexes(ps) ==
    {f \in UNION {[1..n -> DOMAIN ps] : n \in 0..Len(ps)} :
        /\ \A i, k \in DOMAIN f : i < k => f[i] < f[k]
        /\ \A j \in DOMAIN ps : Wordy(Placed(ps[j])) <=> \E i \in DOMAIN f : f[i] = j}

-----------------------------------------------------------------------------
ChunkInit ==
    /\ text \in Texts
    /\ \E i \in 1..Len(text) : text[i] # "space"   \* chunk_document returns [] otherwise
    /\ size \in ChunkSizes
    /\ begin = 0 /\ section = <<>> /\ lead = 0
    /\ at = "open" /\ start = 0
    /\ pieces = <<>> /\ result = <<>> /\ dropped = {} /\ full = FALSE

OpenSection ==
    /\ at = "open"
    /\ \E e \in 0..Len(text) : IsSectionEnd(e) /\
         LET raw == SubSeq(text, begin + 1, e) IN
         \E a, b \in 0..Len(raw) :
            /\ IsTrimmed(raw, a, b)
            /\ lead' = a
            /\ section' = SubSeq(raw, a + 1, b)
            /\ IF \E i \in DOMAIN section' : section'[i] \in {"space", "heading"}
               THEN at' = "window" /\ pieces' = <<>> /\ full' = full
               ELSE \E n \in 0..Len(section') :
                    /\ FallbackCount(section', n)
                    /\ at' = "close"
                    /\ pieces' = Cut(Fallback(section', a, n), Room)
                    /\ full' = (full \/ n > Room)
    /\ start' = 0
    /\ UNCHANGED <<text, size, begin, result, dropped>>

\* One round of the loop in chunk_text.
CutWindow ==
    /\ at = "window"
    /\ \E e \in 0..Len(section) :
          /\ IsWindowEnd(section, start, e)
          /\ pieces' = Append(pieces, Piece(start, e, lead))
          /\ IF Len(pieces) + 1 >= Room \/ e >= Len(section)
             THEN at' = "close" /\ start' = start /\ full' = (full \/ e < Len(section))
             ELSE full' = full /\ \E next \in 0..(Len(section) + LoopSize) :
                    /\ IsNextStart(section, start, e, next)
                    /\ start' = next
                    /\ at' = IF next < Len(section) THEN "window" ELSE "close"
    /\ UNCHANGED <<text, size, begin, section, lead, result, dropped>>

CloseSection ==
    /\ at = "close"
    /\ LET merged == MergeTail(pieces) IN
       /\ \E f \in KeptIndexes(merged) :
            result' = Cut(result \o [i \in DOMAIN f |-> Placed(merged[f[i]])], MaxChunks)
       /\ dropped' = dropped \cup {Placed(merged[i]) : i \in {j \in DOMAIN merged :
                                                             ~Wordy(Placed(merged[j]))}}
    /\ \E e \in 0..Len(text) : IsSectionEnd(e) /\
         IF Len(result') >= MaxChunks \/ e = Len(text)
         THEN at' = "done" /\ begin' = begin /\ full' = (full \/ e < Len(text))
         ELSE at' = "open" /\ begin' = e /\ full' = full
    /\ section' = <<>> /\ lead' = 0 /\ start' = 0 /\ pieces' = <<>>
    /\ UNCHANGED <<text, size>>

ChunkNext == OpenSection \/ CutWindow \/ CloseSection
ChunkSpec == ChunkInit /\ [][ChunkNext]_chunkVars

-----------------------------------------------------------------------------
(* Properties *)

PieceAt(n, m) == [start : 0..n, end : 0..n, from : 0..m, to : 0..m]

ChunkTypeOK ==
    /\ text \in Seq(Kinds) /\ size \in ChunkSizes
    /\ begin \in 0..Len(text) /\ section \in Seq(Kinds)
    /\ lead \in Nat /\ start \in Nat
    /\ at \in {"open", "window", "close", "done", "compared"}
    /\ pieces \in Seq(PieceAt(Len(section), Len(section) + lead))
    /\ Len(pieces) <= MaxChunks
    /\ result \in Seq(PieceAt(Len(text), Len(text))) /\ Len(result) <= MaxChunks
    /\ full \in BOOLEAN

\* The loop goes forward without a gap: every window of a section starts behind
\* the start of the one before it and shares at least chunk_overlap characters
\* with it, whatever boundaries the searches find (next_start and its guard).
\* A chunk size below max_search lets the size cap pull an end back too far.
OverlapKept ==
    LoopSize >= Forward =>
        /\ pieces # <<>> => pieces[1].start = 0
        /\ \A i \in 1..(Len(pieces) - 1) :
              /\ pieces[i + 1].start > pieces[i].start
              /\ pieces[i + 1].start <= pieces[i].end - Overlap

\* No window lies in an earlier one: when the chunk size leaves room for the
\* overlap and the search behind it, every window ends behind the one before it,
\* so that no passage is embedded and matched twice over.
EachIsNew ==
    (LoopSize >= Forward /\ LoopSize > Overlap + Backward) =>
        \A i \in 1..(Len(pieces) - 1) : pieces[i + 1].end > pieces[i].end

\* "Hard cap to prevent chunks from growing too large for embedding models": no
\* window is longer than twice the chunk size, however far the boundary is.
CapKept == \A i \in DOMAIN pieces : pieces[i].end - pieces[i].start <= 2 * LoopSize

\* No word is lost between windows, at section borders or in the merged tail:
\* when max_chunks did not cut the document, every character of a word is in a
\* chunk or in a piece left out for having too few words.  White space in front
\* of the document shifts the merged tail, which then loses characters.
WordsKept ==
    (at = "done" /\ ~full /\ LoopSize >= Forward /\ text[1] # "space") =>
        \A i \in 0..(Len(text) - 1) :
            InWord(i) => \E c \in dropped \cup {result[k] : k \in DOMAIN result} : i \in Text(c)

\* The chunks come in the order of the document with positions that
\* chunk_offsets accepts (char_end > char_start): one that does not would make it
\* throw away the positions of all.
PositionsUsable ==
    \A i \in DOMAIN result :
        /\ result[i].start < result[i].end
        /\ i > 1 => result[i].start > result[i - 1].start
=============================================================================
