------------------------ MODULE PassageDetectionProofs ------------------------
(***************************************************************************)
(* Proofs about PassageDetection: the windows of a section overlap, go     *)
(* forward and keep to the cap, for every document and every value of the  *)
(* constants.                                                              *)
(*                                                                         *)
(* The cap, the overlap and the newness of a window follow from what a     *)
(* search may yield (EndLemma, NextLemma); WindowInv adds what holds of    *)
(* the place where the next window starts.                                 *)
(***************************************************************************)
EXTENDS PassageDetection, FiniteSetTheorems, TLAPS

\* Sizes are numbers and the overlap is smaller than the chunk size.
LEMMA SizeLemma ==
    ASSUME size \in ChunkSizes
    PROVE  /\ size \in Nat /\ Overlap \in Nat /\ Forward \in Nat /\ Backward \in Nat
           /\ LoopSize \in Nat /\ size <= LoopSize /\ size > 0 /\ Overlap < size
           /\ MaxChunks \in Nat \ {0}
BY ChunkAssumption DEF ChunkAssumption, LoopSize, Greater

\* A window is not empty, ends within the cap and, when the search for its end cannot leave the
\* cap, not before the chunk size.
LEMMA EndLemma ==
    ASSUME size \in ChunkSizes,
           NEW t \in Seq(Kinds), NEW s \in Nat, s < Len(t),
           NEW e \in 0..Len(t), IsWindowEnd(t, s, e)
    PROVE  /\ e > s
           /\ e - s <= 2 * LoopSize
           /\ (LoopSize >= Forward /\ e < Len(t)) => e >= s + LoopSize
<1> DEFINE raw == Lesser(s + LoopSize, Len(t))
           cap == Lesser(s + 2 * LoopSize, Len(t))
<1>1. /\ LoopSize \in Nat /\ Forward \in Nat /\ Len(t) \in Nat
      /\ raw \in Nat /\ cap \in Nat /\ raw <= cap /\ raw > s
      /\ raw < Len(t) => raw = s + LoopSize
      /\ cap <= s + 2 * LoopSize /\ cap <= Len(t)
      /\ cap < Len(t) => cap = s + 2 * LoopSize
  BY SizeLemma DEF Lesser
<1>2. CASE raw = Len(t)
  BY <1>1, <1>2 DEF IsWindowEnd
<1>3. CASE raw # Len(t)
  <2>0. raw = s + LoopSize /\ raw < Len(t)
    BY <1>1, <1>3 DEF Lesser
  <2>1. PICK n \in raw..Len(t) :
           /\ IsBoundary(t, raw, cap, n)
           /\ IF n <= cap THEN e = n
              ELSE \E prev \in 0..cap :
                     /\ IsSentenceBackward(t, cap, cap - s, prev)
                     /\ e = IF prev > s THEN prev ELSE cap
    BY <1>3 DEF IsWindowEnd
  <2>2. e <= cap
    BY <2>1, <1>1
  <2>3. n <= cap \/ n <= raw + Forward
    BY <2>1, <1>1, <2>0 DEF IsBoundary, IsSentenceForward, Lesser
  <2>4. LoopSize >= Forward => n <= cap
    BY <2>3, <2>1, <2>0, <1>1
  <2> QED
    BY <2>1, <2>2, <2>4, <2>0, <1>1
<1> QED
  BY <1>2, <1>3

\* The next start lies behind this one; it keeps the overlap when the window is
\* no shorter than the chunk size, and never goes back further than the search.
LEMMA NextLemma ==
    ASSUME size \in ChunkSizes,
           NEW t \in Seq(Kinds), NEW s \in Nat, NEW e \in 0..Len(t),
           NEW next \in Nat, IsNextStart(t, s, e, next)
    PROVE  /\ next > s
           /\ e >= s + LoopSize => next <= e - Overlap
           /\ (e >= s + LoopSize /\ LoopSize > Overlap + Backward) => next >= e - Overlap - Backward
<1>1. PICK n \in (-Overlap)..Len(t) :
        /\ IsPadded(t, e - Overlap, n)
        /\ next = IF n <= s THEN s + LoopSize - Overlap ELSE n
  BY DEF IsNextStart
<1>2. /\ LoopSize \in Nat /\ Overlap \in Nat /\ Overlap < LoopSize /\ Backward \in Nat
  BY SizeLemma
<1>3. n <= e - Overlap /\ n >= e - Overlap - Backward
  BY <1>1, <1>2 DEF IsPadded, ParagraphsBackward, IsSentenceBackward, Greater
<1> QED
  BY <1>1, <1>2, <1>3

-----------------------------------------------------------------------------
(* The invariant *)

\* The section lies in the document, before the end the next step looks up.
SectionInv ==
    /\ text \in Seq(Kinds) /\ size \in ChunkSizes
    /\ begin \in 0..Len(text) /\ section \in Seq(Kinds)
    /\ lead \in Nat /\ start \in Nat
    /\ at \in {"open", "window", "close", "done", "compared"}
    /\ full \in BOOLEAN
    /\ at \in {"window", "close"} =>
         \A e \in 0..Len(text) : IsSectionEnd(e) => begin + lead + Len(section) <= e
    /\ at \notin {"window", "close"} => section = <<>> /\ lead = 0 /\ pieces = <<>>

\* Two windows that follow each other, for a chunk size step.
Follows(step, w, v) ==
    step >= Forward =>
        /\ v.start <= w.end - Overlap
        /\ step > Overlap + Backward => v.end > w.end

PiecesAre(ps, n, m) ==
    /\ ps \in Seq(PieceAt(n, m))
    /\ \A i \in DOMAIN ps : ps[i].start < ps[i].end
    /\ \A i, k \in DOMAIN ps : i < k => ps[i].start < ps[k].start

WindowsAre(step, ps) ==
    /\ ps # <<>> => ps[1].start = 0
    /\ \A i \in DOMAIN ps : ps[i].end - ps[i].start <= 2 * step
    /\ \A i \in 1..(Len(ps) - 1) : Follows(step, ps[i], ps[i + 1])

PiecesInv ==
    /\ PiecesAre(pieces, Len(section), Len(section) + lead)
    /\ WindowsAre(LoopSize, pieces)
    /\ Len(pieces) <= Room
    /\ at = "window" => Len(pieces) < Room

\* Where the next window starts, seen from the last one.
StartInv ==
    at = "window" =>
        /\ start < Len(section)
        /\ pieces = <<>> => start = 0
        /\ pieces # <<>> =>
             LET last == pieces[Len(pieces)] IN
             /\ last.end < Len(section)
             /\ start > last.start
             /\ LoopSize >= Forward =>
                  /\ start <= last.end - Overlap
                  /\ LoopSize > Overlap + Backward => start >= last.end - Overlap - Backward

\* The chunks, all of sections before the one in work.
ResultInv ==
    /\ PiecesAre(result, Len(text), Len(text))
    /\ Len(result) <= MaxChunks
    /\ at \in {"open", "window", "close"} =>
         /\ Len(result) < MaxChunks
         /\ \A i \in DOMAIN result : result[i].start < begin

ChunkInv == SectionInv /\ PiecesInv /\ StartInv /\ ResultInv

LEMMA RoomLemma ==
    ASSUME ResultInv
    PROVE  /\ Len(result) \in Nat
           /\ Room \in Nat \ {0} /\ Room <= MaxChunks
<1>1. Len(result) \in Nat /\ MaxChunks \in Nat \ {0}
  BY ChunkAssumption DEF ResultInv, PiecesAre, ChunkAssumption
<1> QED
  BY <1>1 DEF Room, Greater

LEMMA ChunkInvImplies ==
    ASSUME ChunkInv
    PROVE  ChunkTypeOK /\ OverlapKept /\ EachIsNew /\ CapKept /\ PositionsUsable
<1>1. Room \in Nat /\ Room <= MaxChunks /\ Len(pieces) \in Nat /\ MaxChunks \in Nat
  BY RoomLemma, ChunkAssumption DEF ChunkInv, PiecesInv, PiecesAre, ChunkAssumption
<1>2. ChunkTypeOK
  BY <1>1 DEF ChunkInv, SectionInv, PiecesInv, PiecesAre, ResultInv, ChunkTypeOK
<1>3. OverlapKept /\ EachIsNew /\ CapKept
  BY <1>1 DEF ChunkInv, PiecesInv, PiecesAre, WindowsAre, Follows, OverlapKept, EachIsNew, CapKept
<1>4. PositionsUsable
  <2>1. \A i \in DOMAIN result : i \in Nat /\ (i > 1 => i - 1 \in DOMAIN result)
    BY DEF ChunkInv, ResultInv, PiecesAre
  <2> QED
    BY <2>1 DEF ChunkInv, ResultInv, PiecesAre, PositionsUsable
<1> QED
  BY <1>2, <1>3, <1>4

LEMMA InitChunk == ASSUME Init PROVE ChunkInv
<1>1. text \in Seq(Kinds) /\ MaxChunks \in Nat \ {0}
  BY ChunkAssumption DEF Init, ChunkInit, ChunkAssumption
<1>2. SectionInv
  <2>1. full \in BOOLEAN
    BY DEF Init, ChunkInit
  <2>2. /\ section = <<>> /\ pieces = <<>> /\ lead = 0 /\ start = 0 /\ begin = 0
        /\ at = "open" /\ size \in ChunkSizes
    BY DEF Init, ChunkInit
  <2> QED
    BY <1>1, <2>1, <2>2 DEF SectionInv
<1>3. ResultInv /\ StartInv
  BY <1>1 DEF Init, ChunkInit, ResultInv, PiecesAre, StartInv
<1>4. PiecesInv
  BY <1>1, <1>3, RoomLemma DEF Init, ChunkInit, PiecesInv, PiecesAre, WindowsAre
<1> QED
  BY <1>2, <1>3, <1>4 DEF ChunkInv

\* One window more.
LEMMA CutKeeps ==
    ASSUME ChunkInv, CutWindow
    PROVE  ChunkInv'
<1>1. /\ at = "window" /\ size \in ChunkSizes /\ size' = size /\ text' = text /\ begin' = begin
      /\ section \in Seq(Kinds) /\ lead \in Nat /\ start \in Nat /\ start < Len(section)
      /\ section' = section /\ lead' = lead /\ result' = result
      /\ Len(section) \in Nat
  BY DEF ChunkInv, SectionInv, StartInv, CutWindow
<1>2. PICK e \in 0..Len(section) :
        /\ IsWindowEnd(section, start, e)
        /\ pieces' = Append(pieces, Piece(start, e, lead))
        /\ IF Len(pieces) + 1 >= Room \/ e >= Len(section)
           THEN at' = "close" /\ start' = start /\ full' = (full \/ e < Len(section))
           ELSE full' = full /\ \E next \in 0..(Len(section) + LoopSize) :
                  /\ IsNextStart(section, start, e, next)
                  /\ start' = next
                  /\ at' = IF next < Len(section) THEN "window" ELSE "close"
  BY DEF CutWindow
<1>3. LoopSize' = LoopSize /\ Room' = Room
  BY <1>1 DEF LoopSize, Room
<1>4. /\ LoopSize \in Nat /\ Overlap \in Nat /\ Backward \in Nat /\ Forward \in Nat
      /\ Overlap < LoopSize /\ Room \in Nat \ {0}
  BY <1>1, SizeLemma, RoomLemma DEF ChunkInv
<1>5. /\ e > start /\ e - start <= 2 * LoopSize
      /\ (LoopSize >= Forward /\ e < Len(section)) => e >= start + LoopSize
  BY <1>1, <1>2, EndLemma
<1> DEFINE w == Piece(start, e, lead)
           n == Len(pieces)
           At == PieceAt(Len(section), Len(section) + lead)
<1>6. /\ w \in At /\ w.start = start /\ w.end = e
      /\ pieces \in Seq(At) /\ n \in Nat /\ (pieces = <<>> <=> n = 0)
      /\ pieces' = Append(pieces, w) /\ n < Room
  BY <1>1, <1>2 DEF Piece, PieceAt, ChunkInv, PiecesInv, PiecesAre
<1>7. /\ pieces' \in Seq(At) /\ Len(pieces') = n + 1 /\ pieces'[n + 1] = w
      /\ \A i \in 1..n : pieces'[i] = pieces[i]
      /\ DOMAIN pieces' = 1..(n + 1) /\ DOMAIN pieces = 1..n
  BY <1>6
<1>8. ASSUME n > 0
      PROVE  /\ pieces[n].end < Len(section) /\ pieces[n].end \in Nat /\ pieces[n].start \in Nat
             /\ start > pieces[n].start
             /\ LoopSize >= Forward =>
                  /\ start <= pieces[n].end - Overlap
                  /\ LoopSize > Overlap + Backward => start >= pieces[n].end - Overlap - Backward
  <2>1. pieces[n] \in At
    BY <1>6, <1>8
  <2>2. pieces[n].end \in Nat /\ pieces[n].start \in Nat
    BY <2>1 DEF PieceAt
  <2> QED
    BY <2>2, <1>1, <1>6, <1>8 DEF ChunkInv, StartInv
<1>9. n > 0 => Follows(LoopSize, pieces[n], w)
  BY <1>1, <1>4, <1>5, <1>6, <1>8 DEF Follows
<1>10. PiecesAre(pieces', Len(section), Len(section) + lead)
  <2>1. \A i \in 1..n : pieces[i].start < pieces[i].end
    BY <1>7 DEF ChunkInv, PiecesInv, PiecesAre
  <2>2. \A i, k \in 1..n : i < k => pieces[i].start < pieces[k].start
    BY <1>7 DEF ChunkInv, PiecesInv, PiecesAre
  <2>3. \A i \in 1..n : pieces[i].start < start
    <3> SUFFICES ASSUME NEW i \in 1..n PROVE pieces[i].start < start
      OBVIOUS
    <3>0. pieces[i] \in At
      BY <1>6
    <3>1. pieces[i].start \in Nat
      BY <3>0 DEF PieceAt
    <3>2. n > 0 /\ n \in 1..n /\ (i < n \/ i = n)
      BY <1>6
    <3>3. i < n => pieces[i].start < pieces[n].start
      BY <2>2, <3>2
    <3> QED
      BY <1>1, <1>8, <3>1, <3>2, <3>3
  <2>4. \A i \in 1..(n + 1) : i \in 1..n \/ i = n + 1
    BY <1>6
  <2>5. \A i \in 1..(n + 1) : pieces'[i].start < pieces'[i].end
    BY <1>5, <1>6, <1>7, <2>1, <2>4
  <2>6. ASSUME NEW i \in 1..(n + 1), NEW k \in 1..(n + 1), i < k
        PROVE  pieces'[i].start < pieces'[k].start
    <3>1. i \in 1..n
      BY <1>6, <2>6
    <3> QED
      BY <1>6, <1>7, <2>2, <2>3, <2>4, <2>6, <3>1
  <2> QED
    BY <1>7, <2>5, <2>6 DEF PiecesAre
<1>11. WindowsAre(LoopSize, pieces')
  <2>1. pieces'[1].start = 0
    <3>1. CASE n = 0
      BY <3>1, <1>1, <1>6, <1>7 DEF ChunkInv, StartInv
    <3>2. CASE n > 0
      BY <3>2, <1>6, <1>7 DEF ChunkInv, PiecesInv, WindowsAre
    <3> QED
      BY <3>1, <3>2, <1>6
  <2>2. ASSUME NEW i \in 1..(n + 1)
        PROVE  pieces'[i].end - pieces'[i].start <= 2 * LoopSize
    BY <1>5, <1>6, <1>7 DEF ChunkInv, PiecesInv, WindowsAre
  <2>3. ASSUME NEW i \in 1..n PROVE Follows(LoopSize, pieces'[i], pieces'[i + 1])
    <3>1. CASE i = n
      BY <3>1, <1>6, <1>7, <1>9
    <3>2. CASE i < n
      <4>1. i + 1 \in 1..n /\ i \in 1..(n - 1)
        BY <3>2, <1>6
      <4> QED
        BY <4>1, <1>7 DEF ChunkInv, PiecesInv, WindowsAre
    <3> QED
      BY <3>1, <3>2, <1>6
  <2>4. Len(pieces') - 1 = n
    BY <1>6, <1>7
  <2> QED
    BY <2>1, <2>2, <2>3, <2>4, <1>7 DEF WindowsAre
<1>12. PiecesInv'
  <2>1. Len(pieces') <= Room
    BY <1>4, <1>6, <1>7
  <2>2. at' = "window" => Len(pieces') < Room
    BY <1>2, <1>4, <1>6, <1>7
  <2> QED
    BY <1>1, <1>3, <1>10, <1>11, <2>1, <2>2 DEF PiecesInv
<1>13. at' \in {"window", "close"} /\ start' \in Nat /\ full' \in BOOLEAN
  <2>1. full' \in BOOLEAN
    <3>1. full \in BOOLEAN
      BY DEF ChunkInv, SectionInv
    <3>2. full' = full \/ full' = (full \/ e < Len(section))
      BY <1>2
    <3> QED
      BY <3>1, <3>2
  <2>2. at' \in {"window", "close"} /\ start' \in Nat
    BY <1>1, <1>2, <1>4
  <2> QED
    BY <2>1, <2>2
<1>14. SectionInv'
  BY <1>1, <1>13 DEF ChunkInv, SectionInv, IsSectionEnd, Boundaries, IsHeader
<1>15. StartInv'
  <2> SUFFICES ASSUME at' = "window" PROVE StartInv'
    BY DEF StartInv
  <2>1. PICK next \in 0..(Len(section) + LoopSize) :
          e < Len(section) /\ IsNextStart(section, start, e, next)
          /\ start' = next /\ next < Len(section)
    BY <1>2, <1>4, <1>1
  <2>2. next \in Nat
    BY <2>1, <1>1, <1>4
  <2>3. /\ next > start
        /\ e >= start + LoopSize => next <= e - Overlap
        /\ (e >= start + LoopSize /\ LoopSize > Overlap + Backward) => next >= e - Overlap - Backward
    BY <1>1, <2>1, <2>2, NextLemma
  <2> QED
    BY <1>1, <1>3, <1>5, <1>6, <1>7, <2>1, <2>2, <2>3 DEF StartInv
<1>16. ResultInv'
  BY <1>1, <1>13 DEF ChunkInv, ResultInv
<1> QED
  BY <1>12, <1>14, <1>15, <1>16 DEF ChunkInv

\* The pieces of a text without white space.
LEMMA FallbackKeeps ==
    ASSUME size \in ChunkSizes, NEW t \in Seq(Kinds), NEW shift \in Nat,
           NEW n \in 0..Len(t), FallbackCount(t, n), NEW m \in Nat \ {0},
           NEW ps, ps = Cut(Fallback(t, shift, n), m)
    PROVE  /\ PiecesAre(ps, Len(t), Len(t) + shift)
           /\ WindowsAre(LoopSize, ps)
           /\ Len(ps) <= m
<1> DEFINE all == Fallback(t, shift, n)
           k == Lesser(n, m)
           First(i) == (i - 1) * FallbackStep
           At == PieceAt(Len(t), Len(t) + shift)
<1>1. /\ size \in Nat /\ Overlap \in Nat /\ Overlap < size /\ LoopSize \in Nat
      /\ size <= LoopSize /\ Len(t) \in Nat /\ n \in Nat
      /\ FallbackStep \in Nat /\ FallbackStep = size - Overlap /\ FallbackStep > 0
  BY SizeLemma DEF FallbackStep, Greater
<1>2. ASSUME NEW i \in 1..n
      PROVE  /\ First(i) \in Nat
             /\ FallbackEnd(t, i) \in Nat
             /\ FallbackEnd(t, i) = Lesser(First(i) + size, Len(t))
             /\ FallbackEnd(t, i) <= First(i) + size
             /\ FallbackEnd(t, i) <= Len(t)
             /\ FallbackEnd(t, i) < Len(t) => FallbackEnd(t, i) = First(i) + size
  <2>1. i - 1 \in Nat
    BY <1>1
  <2>2. (i - 1) * FallbackStep \in Nat
    BY <2>1, <1>1
  <2> QED
    BY <2>2, <1>1 DEF FallbackEnd, Lesser
<1>3. ASSUME NEW i \in 1..n, i > 1
      PROVE  i - 1 \in 1..n /\ First(i) = First(i - 1) + FallbackStep
  <2>1. i - 1 \in 1..n /\ i - 1 \in 1..(n - 1)
    BY <1>1, <1>3
  <2>2. (i - 1) * FallbackStep = ((i - 1) - 1) * FallbackStep + FallbackStep
    BY <1>1, <2>1
  <2> QED
    BY <2>1, <2>2
<1>4. ASSUME NEW i \in 1..n
      PROVE  First(i) < FallbackEnd(t, i)
  <2>1. Len(t) > 0
    BY <1>1
  <2>2. CASE i = 1
    <3>1. First(i) = 0
      BY <2>2, <1>1
    <3> QED
      BY <3>1, <2>1, <1>1, <1>2 DEF Lesser
  <2>3. CASE i > 1
    <3>1. i - 1 \in 1..n /\ First(i) = First(i - 1) + FallbackStep
      BY <2>3, <1>3
    <3>2. i - 1 \in 1..(n - 1)
      BY <2>3, <1>1
    <3>3. FallbackEnd(t, i - 1) < Len(t)
      BY <3>2 DEF FallbackCount
    <3>4. First(i - 1) \in Nat /\ FallbackEnd(t, i - 1) = First(i - 1) + size
      BY <3>1, <3>3, <1>2
    <3>5. First(i) < Len(t)
      BY <3>1, <3>3, <3>4, <1>1
    <3> QED
      BY <3>5, <1>1, <1>2 DEF Lesser
  <2> QED
    BY <2>2, <2>3, <1>1
<1>5. ASSUME NEW i \in 1..n, NEW j \in 1..n, i < j
      PROVE  First(i) < First(j)
  <2>1. i - 1 \in Nat /\ j - 1 \in Nat /\ (j - 1) - (i - 1) \in Nat \ {0}
    BY <1>1, <1>5
  <2>2. ((j - 1) - (i - 1)) * FallbackStep > 0
    BY <2>1, <1>1
  <2>3. ((j - 1) - (i - 1)) * FallbackStep = (j - 1) * FallbackStep - (i - 1) * FallbackStep
    BY <2>1, <1>1
  <2>4. (j - 1) * FallbackStep \in Nat /\ (i - 1) * FallbackStep \in Nat
    BY <1>2
  <2> QED
    BY <2>2, <2>3, <2>4
<1>6. /\ all \in Seq(At) /\ Len(all) = n
      /\ \A i \in 1..n : all[i].start = First(i) /\ all[i].end = FallbackEnd(t, i)
  <2>1. ASSUME NEW i \in 1..n
        PROVE  Piece(First(i), FallbackEnd(t, i), shift) \in At
    BY <1>1, <1>2, <1>4 DEF Piece, PieceAt
  <2> QED
    BY <2>1, <1>1 DEF Fallback, Piece
<1>7. /\ k \in Nat /\ k <= n /\ k <= m
      /\ ps \in Seq(At) /\ Len(ps) = k /\ DOMAIN ps = 1..k
      /\ \A i \in 1..k : ps[i] = all[i] /\ i \in 1..n
  BY <1>1, <1>6 DEF Cut, Lesser
<1>8. ASSUME NEW i \in 1..(k - 1)
      PROVE  Follows(LoopSize, ps[i], ps[i + 1])
  <2>1. i \in 1..n /\ i + 1 \in 1..n /\ i \in 1..(n - 1) /\ i \in 1..k /\ i + 1 \in 1..k
    BY <1>1, <1>7
  <2>2. FallbackEnd(t, i) < Len(t)
    BY <2>1 DEF FallbackCount
  <2>3. First(i + 1) = First(i) + FallbackStep
    <3>1. (i + 1) - 1 = i /\ i + 1 > 1
      BY <2>1
    <3>2. First((i + 1) - 1) = First(i)
      BY <3>1
    <3> HIDE DEF First
    <3>3. First(i + 1) = First((i + 1) - 1) + FallbackStep
      BY <3>1, <2>1, <1>3
    <3> QED
      BY <3>2, <3>3
  <2>4. FallbackEnd(t, i) = First(i) + size /\ First(i) \in Nat /\ FallbackEnd(t, i) \in Nat
    BY <2>1, <2>2, <1>2
  <2>5. FallbackEnd(t, i + 1) = Lesser(First(i) + FallbackStep + size, Len(t))
    BY <2>1, <2>3, <1>2
  <2>6. FallbackEnd(t, i + 1) > FallbackEnd(t, i)
    BY <1>1, <2>2, <2>4, <2>5 DEF Lesser
  <2>7. /\ ps[i].start = First(i) /\ ps[i].end = FallbackEnd(t, i)
        /\ ps[i + 1].start = First(i + 1) /\ ps[i + 1].end = FallbackEnd(t, i + 1)
    BY <1>6, <1>7, <2>1
  <2> HIDE DEF First
  <2> QED
    BY <1>1, <2>3, <2>4, <2>6, <2>7 DEF Follows
<1>9. ps # <<>> => ps[1].start = 0
  <2>1. ps # <<>> => k >= 1
    BY <1>7
  <2>2. First(1) = 0
    BY <1>1
  <2> QED
    BY <2>1, <2>2, <1>6, <1>7
<1> HIDE DEF First, all
<1>10. ASSUME NEW i \in 1..k
       PROVE  ps[i].start < ps[i].end /\ ps[i].end - ps[i].start <= 2 * LoopSize
  <2>1. i \in 1..n /\ ps[i].start = First(i) /\ ps[i].end = FallbackEnd(t, i)
    BY <1>6, <1>7
  <2>2. /\ First(i) \in Nat /\ FallbackEnd(t, i) \in Nat
        /\ FallbackEnd(t, i) <= First(i) + size /\ First(i) < FallbackEnd(t, i)
    BY <2>1, <1>2, <1>4
  <2> QED
    BY <2>1, <2>2, <1>1
<1>11. ASSUME NEW i \in 1..k, NEW j \in 1..k, i < j
       PROVE  ps[i].start < ps[j].start
  <2>1. /\ i \in 1..n /\ j \in 1..n
        /\ ps[i].start = First(i) /\ ps[j].start = First(j)
    BY <1>6, <1>7
  <2>2. First(i) < First(j)
    BY <1>5, <1>11, <2>1
  <2> QED
    BY <2>1, <2>2
<1>12. PiecesAre(ps, Len(t), Len(t) + shift)
  BY <1>7, <1>10, <1>11 DEF PiecesAre
<1> QED
  BY <1>7, <1>8, <1>9, <1>10, <1>12 DEF WindowsAre

\* There is one end of the section.
LEMMA OneEnd ==
    ASSUME text \in Seq(Kinds), begin \in 0..Len(text),
           NEW d \in 0..Len(text), NEW e \in 0..Len(text),
           IsSectionEnd(d), IsSectionEnd(e)
    PROVE  d = e
<1>1. d <= e /\ e <= d
  BY DEF IsSectionEnd
<1> QED
  BY <1>1

LEMMA OpenKeeps ==
    ASSUME ChunkInv, OpenSection
    PROVE  ChunkInv'
<1>1. /\ at = "open" /\ text \in Seq(Kinds) /\ size \in ChunkSizes /\ begin \in 0..Len(text)
      /\ pieces = <<>> /\ full \in BOOLEAN /\ Len(text) \in Nat
      /\ text' = text /\ size' = size /\ begin' = begin /\ result' = result /\ start' = 0
  BY DEF OpenSection, ChunkInv, SectionInv
<1>2. PICK e \in 0..Len(text) : IsSectionEnd(e) /\
         LET raw == SubSeq(text, begin + 1, e) IN
         \E a, b \in 0..Len(raw) :
            /\ IsTrimmed(raw, a, b)
            /\ lead' = a
            /\ section' = SubSeq(raw, a + 1, b)
            /\ IF \E i \in DOMAIN section' : section'[i] \in {"space", "heading"}
               THEN at' = "window" /\ pieces' = <<>> /\ full' = full
               ELSE \E n \in 0..Len(section') :
                    /\ FallbackCount(section', n)
                    /\ at' = "close"
                    /\ pieces' = Cut(Fallback(section', a, n), Room)
                    /\ full' = (full \/ n > Room)
  BY DEF OpenSection
<1> DEFINE raw == SubSeq(text, begin + 1, e)
<1>3. raw \in Seq(Kinds) /\ Len(raw) = e - begin /\ begin < e
  <2>1. begin < e /\ begin \in Nat /\ e \in Nat /\ e <= Len(text)
    BY <1>1, <1>2 DEF IsSectionEnd
  <2>2. \A i \in (begin + 1)..e : text[i] \in Kinds
    BY <2>1, <1>1
  <2> QED
    BY <2>1, <2>2, <1>1
<1>4. PICK a \in 0..Len(raw), b \in 0..Len(raw) :
            /\ IsTrimmed(raw, a, b)
            /\ lead' = a
            /\ section' = SubSeq(raw, a + 1, b)
            /\ IF \E i \in DOMAIN section' : section'[i] \in {"space", "heading"}
               THEN at' = "window" /\ pieces' = <<>> /\ full' = full
               ELSE \E n \in 0..Len(section') :
                    /\ FallbackCount(section', n)
                    /\ at' = "close"
                    /\ pieces' = Cut(Fallback(section', a, n), Room)
                    /\ full' = (full \/ n > Room)
  BY <1>2
<1>5. a <= b /\ a \in Nat /\ b \in Nat
  BY <1>3, <1>4 DEF IsTrimmed
<1>6. /\ section' \in Seq(Kinds) /\ Len(section') = b - a /\ lead' \in Nat
      /\ begin + lead' + Len(section') <= e
  <2>1. Len(raw) \in Nat /\ b <= Len(raw)
    BY <1>3, <1>1, <1>2
  <2>2. section' = SubSeq(raw, a + 1, b)
    BY <1>4
  <2> HIDE DEF raw
  <2>3. section' \in Seq(Kinds) /\ Len(section') = b - a
    BY <2>1, <2>2, <1>3, <1>5
  <2>4. lead' = a /\ Len(raw) = e - begin /\ begin \in Nat /\ e \in Nat
    BY <1>1, <1>2, <1>3, <1>4
  <2> QED
    BY <2>1, <2>3, <2>4, <1>5
<1>7. Room' = Room /\ LoopSize' = LoopSize /\ Room \in Nat \ {0}
  BY <1>1, RoomLemma DEF Room, LoopSize, ChunkInv
<1>8. full' \in BOOLEAN
  <2>1. full' = full \/ \E n \in 0..Len(section') : full' = (full \/ n > Room)
    BY <1>4
  <2> QED
    BY <2>1, <1>1
<1>9. at' \in {"window", "close"}
  BY <1>4
<1>10. SectionInv'
  <2>1. \A d \in 0..Len(text) : IsSectionEnd(d)' => begin + lead' + Len(section') <= d
    <3> SUFFICES ASSUME NEW d \in 0..Len(text), IsSectionEnd(d)'
                 PROVE  begin + lead' + Len(section') <= d
      OBVIOUS
    <3>1. IsSectionEnd(d)
      BY <1>1 DEF IsSectionEnd, Boundaries, IsHeader
    <3> QED
      BY <3>1, <1>1, <1>2, <1>6, OneEnd
  <2> QED
    BY <2>1, <1>1, <1>6, <1>8, <1>9 DEF SectionInv
<1>11. ResultInv'
  BY <1>1, <1>9 DEF ChunkInv, ResultInv
<1>12. CASE at' = "window"
  <2>1. pieces' = <<>> /\ Len(section') > 0
    BY <1>4, <1>6, <1>12
  <2>2. PiecesInv'
    BY <2>1, <1>7 DEF PiecesInv, PiecesAre, WindowsAre
  <2>3. StartInv'
    BY <2>1, <1>1 DEF StartInv
  <2> QED
    BY <2>2, <2>3, <1>10, <1>11 DEF ChunkInv
<1>13. CASE at' = "close"
  <2>1. PICK n \in 0..Len(section') :
           FallbackCount(section', n) /\ pieces' = Cut(Fallback(section', lead', n), Room)
    BY <1>4, <1>13
  <2>2. /\ FallbackCount(section', n)
        /\ PiecesAre(pieces', Len(section'), Len(section') + lead')
        /\ WindowsAre(LoopSize, pieces') /\ Len(pieces') <= Room
    BY <2>1, <1>1, <1>6, <1>7, FallbackKeeps
  <2>3. PiecesInv'
    BY <2>2, <1>7, <1>13 DEF PiecesInv
  <2>4. StartInv'
    BY <1>13 DEF StartInv
  <2> QED
    BY <2>3, <2>4, <1>10, <1>11 DEF ChunkInv
<1> QED
  BY <1>9, <1>12, <1>13

\* The merged tail: still pieces of the section, in order.
LEMMA MergeKeeps ==
    ASSUME NEW n \in Nat, NEW shift \in Nat, NEW ps, PiecesAre(ps, n, n + shift)
    PROVE  PiecesAre(MergeTail(ps), n, n + shift)
<1> DEFINE m == Len(ps)
           At == PieceAt(n, n + shift)
           w == Piece(ps[m - 1].start, ps[m].end, 0)
           qs == Append(SubSeq(ps, 1, m - 2), w)
<1>1. CASE MergeTail(ps) = ps
  BY <1>1
<1>2. CASE m > 1 /\ MergeTail(ps) = qs
  <2>1. /\ ps \in Seq(At) /\ m \in Nat /\ DOMAIN ps = 1..m
        /\ m \in 1..m /\ m - 1 \in 1..m /\ m - 1 < m /\ m - 2 \in Nat
    BY <1>2 DEF PiecesAre
  <2>2. /\ \A i \in 1..m : ps[i].start < ps[i].end
        /\ \A i, k \in 1..m : i < k => ps[i].start < ps[k].start
    BY <2>1 DEF PiecesAre
  <2>3. ps[m] \in At /\ ps[m - 1] \in At
    BY <2>1
  <2>4. /\ ps[m].start \in 0..n /\ ps[m].end \in 0..n /\ ps[m - 1].start \in 0..n
    BY <2>3 DEF PieceAt
  <2>5. ps[m - 1].start < ps[m].start /\ ps[m].start < ps[m].end
    BY <2>1, <2>2
  <2>6. /\ w \in At /\ w.start = ps[m - 1].start /\ w.start < w.end
    BY <2>4, <2>5 DEF Piece, PieceAt
  <2> HIDE DEF w
  <2>7. /\ qs \in Seq(At) /\ DOMAIN qs = 1..(m - 1) /\ qs[m - 1] = w
        /\ \A i \in 1..(m - 2) : qs[i] = ps[i]
    <3>1. SubSeq(ps, 1, m - 2) \in Seq(At) /\ Len(SubSeq(ps, 1, m - 2)) = m - 2
      BY <2>1
    <3>2. \A i \in 1..(m - 2) : SubSeq(ps, 1, m - 2)[i] = ps[i]
      BY <2>1
    <3> DEFINE sub == SubSeq(ps, 1, m - 2)
    <3> HIDE DEF sub
    <3>3. sub \in Seq(At) /\ Len(sub) = m - 2 /\ \A i \in 1..(m - 2) : sub[i] = ps[i]
      BY <3>1, <3>2 DEF sub
    <3>4. qs = Append(sub, w)
      BY DEF sub
    <3>5. /\ Append(sub, w) \in Seq(At) /\ Len(Append(sub, w)) = m - 1
          /\ Append(sub, w)[m - 1] = w
          /\ \A i \in 1..(m - 2) : Append(sub, w)[i] = sub[i]
      BY <3>3, <2>1, <2>6
    <3> QED
      BY <3>3, <3>4, <3>5, <2>1
  <2> HIDE DEF qs
  <2>8. \A i \in 1..(m - 1) : qs[i].start = ps[i].start /\ qs[i].start < qs[i].end
    <3> SUFFICES ASSUME NEW i \in 1..(m - 1)
                 PROVE  qs[i].start = ps[i].start /\ qs[i].start < qs[i].end
      OBVIOUS
    <3>1. CASE i = m - 1
      BY <3>1, <2>6, <2>7
    <3>2. CASE i \in 1..(m - 2)
      BY <3>2, <2>1, <2>2, <2>7
    <3>0. m \in Nat
      BY <2>1
    <3> HIDE DEF m
    <3>3. i = m - 1 \/ i \in 1..(m - 2)
      BY <3>0
    <3> QED
      BY <3>1, <3>2, <3>3
  <2>9. \A i \in 1..(m - 1) : i \in 1..m
    BY <2>1
  <2> QED
    BY <1>2, <2>2, <2>7, <2>8, <2>9 DEF PiecesAre
<1> QED
  BY <1>1, <1>2 DEF MergeTail

LEMMA PieceLemma ==
    ASSUME NEW n \in Nat, NEW m \in Nat, NEW p \in PieceAt(n, m)
    PROVE  p.start \in Nat /\ p.end \in Nat
BY DEF PieceAt

\* Two sequences of pieces one behind the other, cut to a length.
LEMMA JoinLemma ==
    ASSUME NEW n \in Nat, NEW b \in Nat, NEW m \in Nat, NEW h \in Nat,
           NEW one, PiecesAre(one, n, n), \A i \in DOMAIN one : one[i].start < b,
           NEW two \in Seq(PieceAt(n, n)),
           \A i \in 1..Len(two) : two[i].start < two[i].end /\ two[i].start >= b /\ two[i].start < b + h,
           \A i, j \in 1..Len(two) : i < j => two[i].start < two[j].start,
           NEW rs, rs = Cut(one \o two, m)
    PROVE  /\ PiecesAre(rs, n, n)
           /\ Len(rs) <= m
           /\ \A i \in DOMAIN rs : rs[i].start < b + h
<1> DEFINE At == PieceAt(n, n)
           r == Len(one)
           c == Len(two)
           all == one \o two
           k == Lesser(r + c, m)
<1>1. /\ one \in Seq(At) /\ r \in Nat /\ c \in Nat /\ DOMAIN one = 1..r
      /\ \A i \in 1..r : one[i] \in At /\ one[i].start < one[i].end /\ one[i].start < b
      /\ \A i, j \in 1..r : i < j => one[i].start < one[j].start
  BY DEF PiecesAre
<1>2. /\ all \in Seq(At) /\ Len(all) = r + c
      /\ \A i \in 1..r : all[i] = one[i]
      /\ \A i \in 1..c : all[r + i] = two[i]
  BY <1>1
<1>3. /\ \A i \in 1..c : two[i] \in At /\ two[i].start < two[i].end
                         /\ two[i].start >= b /\ two[i].start < b + h
      /\ \A i, j \in 1..c : i < j => two[i].start < two[j].start
  BY <1>1
<1>4. rs = SubSeq(all, 1, k) /\ k \in Nat /\ k <= r + c /\ k <= m
  BY <1>1, <1>2 DEF Cut, Lesser
<1> HIDE DEF all, k, r, c
<1>5. ASSUME NEW i \in 1..(r + c)
      PROVE  (i \in 1..r /\ all[i] = one[i]) \/ (i - r \in 1..c /\ all[i] = two[i - r])
  <2>1. CASE i <= r
    BY <2>1, <1>1, <1>2
  <2>2. CASE i > r
    <3>1. i - r \in 1..c /\ r + (i - r) = i
      BY <2>2, <1>1
    <3> QED
      BY <3>1, <1>2
  <2> QED
    BY <2>1, <2>2, <1>1
<1>6. ASSUME NEW i \in 1..(r + c)
      PROVE  all[i].start < all[i].end /\ all[i].start < b + h
  <2>1. CASE i \in 1..r /\ all[i] = one[i]
    <3>1. one[i].start \in Nat
      BY <2>1, <1>1 DEF PieceAt
    <3> QED
      BY <2>1, <3>1, <1>1
  <2>2. CASE i - r \in 1..c /\ all[i] = two[i - r]
    BY <2>2, <1>3
  <2> QED
    BY <2>1, <2>2, <1>5
<1>7. ASSUME NEW i \in 1..(r + c), NEW j \in 1..(r + c), i < j
      PROVE  all[i].start < all[j].start
  <2>1. CASE i \in 1..r /\ all[i] = one[i] /\ j \in 1..r /\ all[j] = one[j]
    BY <2>1, <1>1, <1>7
  <2>2. CASE i \in 1..r /\ all[i] = one[i] /\ j - r \in 1..c /\ all[j] = two[j - r]
    <3>1. one[i].start \in Nat /\ two[j - r].start \in Nat
      BY <2>2, <1>1, <1>3, PieceLemma
    <3> QED
      BY <2>2, <3>1, <1>1, <1>3
  <2>3. CASE i - r \in 1..c /\ all[i] = two[i - r] /\ j - r \in 1..c /\ all[j] = two[j - r]
    <3>1. i - r < j - r
      BY <1>1, <1>7
    <3> QED
      BY <2>3, <3>1, <1>3
  <2>4. ~(i - r \in 1..c /\ j \in 1..r)
    BY <1>1, <1>7
  <2> QED
    BY <2>1, <2>2, <2>3, <2>4, <1>5
<1>8. /\ rs \in Seq(At) /\ Len(rs) = k /\ DOMAIN rs = 1..k
      /\ \A i \in 1..k : rs[i] = all[i] /\ i \in 1..(r + c)
  BY <1>1, <1>2, <1>4
<1> QED
  BY <1>4, <1>6, <1>7, <1>8 DEF PiecesAre

\* A piece of the section, placed in the document.
LEMMA PlacedLemma ==
    ASSUME text \in Seq(Kinds), NEW n \in Nat, NEW shift \in Nat,
           begin \in Nat, begin + n + shift <= Len(text),
           NEW p \in PieceAt(n, n + shift), p.start < p.end
    PROVE  /\ Placed(p) \in PieceAt(Len(text), Len(text))
           /\ Placed(p).start = begin + p.start
           /\ Placed(p).start < Placed(p).end
           /\ Placed(p).start >= begin
           /\ Placed(p).start < begin + n
<1>1. /\ p.start \in 0..n /\ p.end \in 0..n
      /\ p.from \in 0..(n + shift) /\ p.to \in 0..(n + shift)
  BY DEF PieceAt
<1>2. PICK l \in Nat : l = Len(text) /\ begin + n + shift <= l
  OBVIOUS
<1>3. \A x \in Nat : x <= n + shift => begin + x \in 0..l
  BY <1>2
<1>4. /\ begin + p.start \in 0..l /\ begin + p.end \in 0..l
      /\ begin + p.from \in 0..l /\ begin + p.to \in 0..l
  <2>1. \A x \in 0..n : x \in Nat /\ x <= n + shift
    OBVIOUS
  <2>2. \A x \in 0..(n + shift) : x \in Nat /\ x <= n + shift
    OBVIOUS
  <2> QED
    BY <1>1, <1>3, <2>1, <2>2
<1>5. /\ begin + p.start < begin + p.end
      /\ begin + p.start < begin + n /\ begin + p.start >= begin
  BY <1>1
<1> QED
  BY <1>2, <1>4, <1>5 DEF Placed, PieceAt

\* The kept pieces behind the chunks that are there.
LEMMA AppendKeeps ==
    ASSUME text \in Seq(Kinds), NEW n \in Nat, NEW shift \in Nat,
           begin \in Nat, begin + n + shift <= Len(text),
           PiecesAre(result, Len(text), Len(text)),
           \A i \in DOMAIN result : result[i].start < begin,
           NEW ps, PiecesAre(ps, n, n + shift),
           NEW f \in KeptIndexes(ps),
           NEW rs, rs = Cut(result \o [i \in DOMAIN f |-> Placed(ps[f[i]])], MaxChunks)
    PROVE  /\ PiecesAre(rs, Len(text), Len(text))
           /\ Len(rs) <= MaxChunks
           /\ \A i \in DOMAIN rs : rs[i].start < begin + n
<1> DEFINE At == PieceAt(Len(text), Len(text))
           r == Len(result)
           c == Len(f)
           more == [i \in DOMAIN f |-> Placed(ps[f[i]])]
<1>1. /\ result \in Seq(At) /\ r \in Nat /\ DOMAIN result = 1..r /\ Len(text) \in Nat
      /\ MaxChunks \in Nat \ {0}
  BY ChunkAssumption DEF PiecesAre, ChunkAssumption
<1>2. PICK d \in Nat : f \in [1..d -> DOMAIN ps]
  <2>1. PICK d \in 0..Len(ps) : f \in [1..d -> DOMAIN ps]
    BY DEF KeptIndexes
  <2>2. Len(ps) \in Nat
    BY DEF PiecesAre
  <2>3. d \in Nat
    BY <2>1, <2>2
  <2> QED
    BY <2>1, <2>3
<1>3. c = d /\ c \in Nat /\ DOMAIN f = 1..c /\ f \in Seq(DOMAIN ps)
  BY <1>2
<1>4. \A i, j \in 1..c : i < j => f[i] < f[j]
  BY <1>3 DEF KeptIndexes
<1>5. ASSUME NEW i \in 1..c
      PROVE  /\ f[i] \in DOMAIN ps
             /\ Placed(ps[f[i]]) \in At
             /\ Placed(ps[f[i]]).start = begin + ps[f[i]].start
             /\ Placed(ps[f[i]]).start < Placed(ps[f[i]]).end
             /\ Placed(ps[f[i]]).start >= begin
             /\ Placed(ps[f[i]]).start < begin + n
  <2>1. f[i] \in DOMAIN ps
    BY <1>2, <1>3
  <2>2. ps[f[i]] \in PieceAt(n, n + shift) /\ ps[f[i]].start < ps[f[i]].end
    BY <2>1 DEF PiecesAre
  <2> QED
    BY <2>1, <2>2, PlacedLemma
<1>6. /\ more \in Seq(At) /\ Len(more) = c
      /\ \A i \in 1..c : more[i] = Placed(ps[f[i]])
  BY <1>3, <1>5
<1> HIDE DEF more
<1>7. \A i, j \in 1..c : i < j => more[i].start < more[j].start
  <2> SUFFICES ASSUME NEW i \in 1..c, NEW j \in 1..c, i < j
               PROVE  more[i].start < more[j].start
    OBVIOUS
  <2>1. f[i] < f[j] /\ f[i] \in DOMAIN ps /\ f[j] \in DOMAIN ps
    BY <1>4, <1>5
  <2>2. /\ ps[f[i]].start < ps[f[j]].start
        /\ ps[f[i]] \in PieceAt(n, n + shift) /\ ps[f[j]] \in PieceAt(n, n + shift)
    BY <2>1 DEF PiecesAre
  <2>3. ps[f[i]].start \in Nat /\ ps[f[j]].start \in Nat
    BY <2>2, PieceLemma
  <2>4. more[i].start = begin + ps[f[i]].start /\ more[j].start = begin + ps[f[j]].start
    BY <1>5, <1>6
  <2>5. \A x, y \in Nat : x < y => begin + x < begin + y
    OBVIOUS
  <2> QED
    BY <2>2, <2>3, <2>4, <2>5
<1>8. \A i \in 1..c : more[i].start < more[i].end /\ more[i].start >= begin /\ more[i].start < begin + n
  BY <1>5, <1>6
<1>9. rs = Cut(result \o more, MaxChunks) /\ MaxChunks \in Nat
  BY <1>1 DEF more
<1>10. /\ more \in Seq(PieceAt(Len(text), Len(text))) /\ Len(text) \in Nat
       /\ \A i \in 1..Len(more) : /\ more[i].start < more[i].end
                                   /\ more[i].start >= begin /\ more[i].start < begin + n
       /\ \A i, j \in 1..Len(more) : i < j => more[i].start < more[j].start
  BY <1>1, <1>6, <1>7, <1>8
<1> HIDE DEF At, r, c
<1> QED
  BY <1>9, <1>10, JoinLemma

LEMMA CloseKeeps ==
    ASSUME ChunkInv, CloseSection
    PROVE  ChunkInv'
<1> DEFINE merged == MergeTail(pieces)
           h == Len(section)
<1>1. /\ at = "close" /\ text \in Seq(Kinds) /\ size \in ChunkSizes /\ begin \in 0..Len(text)
      /\ text' = text /\ size' = size /\ full \in BOOLEAN /\ lead \in Nat /\ h \in Nat
      /\ section' = <<>> /\ lead' = 0 /\ start' = 0 /\ pieces' = <<>>
      /\ Len(text) \in Nat /\ begin \in Nat
      /\ \A e \in 0..Len(text) : IsSectionEnd(e) => begin + lead + Len(section) <= e
  BY DEF CloseSection, ChunkInv, SectionInv
<1>2. PICK e \in 0..Len(text) : IsSectionEnd(e) /\
         IF Len(result') >= MaxChunks \/ e = Len(text)
         THEN at' = "done" /\ begin' = begin /\ full' = (full \/ e < Len(text))
         ELSE at' = "open" /\ begin' = e /\ full' = full
  BY DEF CloseSection
<1>3. PICK f \in KeptIndexes(merged) :
        result' = Cut(result \o [i \in DOMAIN f |-> Placed(merged[f[i]])], MaxChunks)
  BY DEF CloseSection
<1>4. begin + lead + h <= e /\ e <= Len(text) /\ e \in Nat
  BY <1>1, <1>2
<1>5. begin + h + lead <= Len(text) /\ begin + h <= e
  BY <1>1, <1>4
<1>6. PiecesAre(merged, h, h + lead)
  BY <1>1, MergeKeeps DEF ChunkInv, PiecesInv
<1>7. PiecesAre(result, Len(text), Len(text)) /\ \A i \in DOMAIN result : result[i].start < begin
  BY <1>1 DEF ChunkInv, ResultInv
<1> HIDE DEF merged, h
<1>8. /\ PiecesAre(result', Len(text), Len(text))
      /\ Len(result') <= MaxChunks
      /\ \A i \in DOMAIN result' : result'[i].start < begin + h
  BY <1>1, <1>3, <1>5, <1>6, <1>7, AppendKeeps
<1>9. /\ at' \in {"done", "open"} /\ begin' \in 0..Len(text)
      /\ at' = "open" => begin' = e /\ ~(Len(result') >= MaxChunks)
  BY <1>1, <1>2
<1>10. full' \in BOOLEAN
  <2>1. full' = full \/ full' = (full \/ e < Len(text))
    BY <1>2
  <2> QED
    BY <2>1, <1>1
<1>11. SectionInv'
  <2>1. /\ section' = <<>> /\ lead' = 0 /\ start' = 0 /\ pieces' = <<>>
        /\ text' \in Seq(Kinds) /\ size' \in ChunkSizes
        /\ begin' \in 0..Len(text') /\ at' \in {"done", "open"}
    BY <1>1, <1>9
  <2>2. at' \notin {"window", "close"} /\ lead' \in Nat /\ start' \in Nat
    BY <2>1
  <2>3. section' \in Seq(Kinds)
    BY <2>1
  <2> QED
    BY <2>1, <2>2, <2>3, <1>10 DEF SectionInv
<1>12. ResultInv'
  <2>1. Len(result') \in Nat /\ MaxChunks \in Nat
    BY <1>8, ChunkAssumption DEF PiecesAre, ChunkAssumption
  <2>2. at' = "open" => Len(result') < MaxChunks
    BY <1>9, <2>1
  <2>3. ASSUME at' = "open", NEW i \in DOMAIN result'
        PROVE  result'[i].start < begin'
    <3>1. result'[i] \in PieceAt(Len(text), Len(text))
      BY <1>8, <2>3 DEF PiecesAre
    <3>2. result'[i].start \in Nat
      BY <3>1, <1>1 DEF PieceAt
    <3>3. result'[i].start < begin + h
      BY <1>8, <2>3
    <3>4. begin' = e /\ h \in Nat
      BY <1>1, <1>9, <2>3 DEF h
    <3> QED
      BY <3>2, <3>3, <3>4, <1>1, <1>4, <1>5
  <2> QED
    BY <1>1, <1>8, <1>9, <2>2, <2>3 DEF ResultInv
<1>13. PiecesInv' /\ StartInv'
  <2>1. Room' \in Nat \ {0}
    <3>1. Len(result') \in Nat /\ MaxChunks \in Nat
      BY <1>8, ChunkAssumption DEF PiecesAre, ChunkAssumption
    <3> QED
      BY <3>1 DEF Room, Greater
  <2> QED
    BY <1>1, <1>9, <2>1 DEF PiecesInv, PiecesAre, WindowsAre, StartInv
<1> QED
  BY <1>11, <1>12, <1>13 DEF ChunkInv

\* When the text is forgotten, what is left of the invariant is about nothing.
LEMMA CompareKeeps ==
    ASSUME ChunkInv, Compare
    PROVE  ChunkInv'
<1>1. /\ at' = "compared" /\ text' = <<>> /\ begin' = 0 /\ result' = <<>> /\ full' = FALSE
      /\ size' = size /\ section' = section /\ lead' = lead /\ start' = start /\ pieces' = pieces
      /\ at = "done"
  BY DEF Compare
<1>2. size \in ChunkSizes /\ section = <<>> /\ lead = 0 /\ pieces = <<>> /\ start \in Nat
  BY <1>1 DEF ChunkInv, SectionInv
<1>3. MaxChunks \in Nat \ {0}
  BY ChunkAssumption DEF ChunkAssumption
<1>4. SectionInv'
  <2>1. full' \in BOOLEAN
    BY <1>1
  <2>2. /\ text' = <<>> /\ begin' = 0 /\ size' \in ChunkSizes /\ section' = <<>>
        /\ lead' = 0 /\ start' \in Nat /\ pieces' = <<>> /\ at' = "compared"
    BY <1>1, <1>2
  <2> QED
    BY <2>1, <2>2 DEF SectionInv
<1>5. ResultInv' /\ StartInv'
  BY <1>1, <1>3 DEF ResultInv, PiecesAre, StartInv
<1>6. PiecesInv'
  <2>1. Room' \in Nat \ {0}
    BY <1>1, <1>3 DEF Room, Greater
  <2> QED
    BY <1>1, <1>2, <2>1 DEF PiecesInv, PiecesAre, WindowsAre
<1> QED
  BY <1>4, <1>5, <1>6 DEF ChunkInv

LEMMA StutterKeeps ==
    ASSUME ChunkInv, UNCHANGED chunkVars
    PROVE  ChunkInv'
BY DEF chunkVars, ChunkInv, SectionInv, PiecesInv, StartInv, ResultInv, PiecesAre, WindowsAre,
       Follows, LoopSize, Room, IsSectionEnd, Boundaries, IsHeader

LEMMA ChunkInvariant == Spec => []ChunkInv
<1>1. Init => ChunkInv
  BY InitChunk
<1>2. ChunkInv /\ [Next]_vars => ChunkInv'
  <2> SUFFICES ASSUME ChunkInv, [Next]_vars PROVE ChunkInv'
    OBVIOUS
  <2>1. CASE OpenSection
    BY <2>1, OpenKeeps
  <2>2. CASE CutWindow
    BY <2>2, CutKeeps
  <2>3. CASE CloseSection
    BY <2>3, CloseKeeps
  <2>4. CASE Compare
    BY <2>4, CompareKeeps
  <2>5. CASE UNCHANGED chunkVars
    BY <2>5, StutterKeeps
  <2> QED
    BY <2>1, <2>2, <2>3, <2>4, <2>5 DEF Next, ChunkNext, vars
<1> QED
  BY <1>1, <1>2, PTL DEF Spec

-----------------------------------------------------------------------------
(* The length of a union *)

\* A range that is not empty.
Ranges == {r \in Nat \X Nat : r[1] < r[2]}

\* Of finitely many ranges one comes last.
LEMMA RightmostLemma ==
    ASSUME NEW S \in SUBSET Ranges, IsFiniteSet(S), S # {}
    PROVE  Rightmost(S) \in S /\ \A q \in S : q[1] <= Rightmost(S)[1]
<1>1. \E r \in S : \A q \in S \ {r} : LeftOf(q, r)
  <2> DEFINE right(x) == {z \in S : LeftOf(x, z)}
             T == {right(x) : x \in S}
  <2>1. T \subseteq FiniteSubsetsOf(S)
    BY FS_FiniteSubsetsOfFinite
  <2>2. T # {}
    OBVIOUS
  <2>3. PICK u \in T : \A v \in T : <<v, u>> \notin StrictSubsetOrdering(S)
    <3> HIDE DEF T
    <3> QED
      BY <2>1, <2>2, FS_StrictSubsetOrderingWellFounded, WFMin
  <2>4. PICK m \in S : u = right(m)
    OBVIOUS
  <2>5. \A z \in S : z = <<z[1], z[2]>> /\ z[1] \in Nat /\ z[2] \in Nat
    BY DEF Ranges
  <2>6. ASSUME NEW i \in S, LeftOf(m, i) PROVE FALSE
    <3>1. \A z \in S : LeftOf(i, z) => LeftOf(m, z)
      BY <2>5, <2>6 DEF LeftOf
    <3>2. ~LeftOf(i, i)
      BY <2>5 DEF LeftOf
    <3>3. right(i) \subseteq right(m) /\ i \in right(m) /\ i \notin right(i)
      BY <2>6, <3>1, <3>2
    <3>4. <<right(i), u>> \in StrictSubsetOrdering(S)
      BY <3>3, <2>4 DEF StrictSubsetOrdering
    <3> QED
      BY <2>3, <3>4
  <2>7. \A q \in S : LeftOf(q, m) \/ LeftOf(m, q) \/ q = m
    <3> SUFFICES ASSUME NEW q \in S, ~LeftOf(q, m), ~LeftOf(m, q) PROVE q = m
      OBVIOUS
    <3>1. q[1] = m[1] /\ q[2] = m[2]
      BY <2>5 DEF LeftOf
    <3> QED
      BY <3>1, <2>5
  <2> QED
    BY <2>6, <2>7
<1>2. Rightmost(S) \in S /\ \A q \in S \ {Rightmost(S)} : LeftOf(q, Rightmost(S))
  BY <1>1 DEF Rightmost
<1>3. \A q \in S : q[1] \in Nat
  BY DEF Ranges
<1> QED
  BY <1>2, <1>3 DEF LeftOf

\* What the loop of _union_length has found when it has been through s.
FarEnd(s) == IF s = {} THEN 0 ELSE CHOOSE e \in {r[2] : r \in s} : \A r \in s : r[2] <= e
Found(s)  == [length |-> Cardinality(Positions(s)), end |-> FarEnd(s)]

LEMMA FarEndLemma ==
    ASSUME NEW s \in SUBSET Ranges, IsFiniteSet(s), s # {}
    PROVE  /\ FarEnd(s) \in Nat
           /\ \A r \in s : r[2] <= FarEnd(s)
           /\ \E r \in s : r[2] = FarEnd(s)
<1> DEFINE beyond(x) == {z \in s : z[2] > x[2]}
           T == {beyond(x) : x \in s}
<1>1. T \subseteq FiniteSubsetsOf(s)
  BY FS_FiniteSubsetsOfFinite
<1>2. T # {}
  OBVIOUS
<1>3. PICK u \in T : \A v \in T : <<v, u>> \notin StrictSubsetOrdering(s)
  <2> HIDE DEF T
  <2> QED
    BY <1>1, <1>2, FS_StrictSubsetOrderingWellFounded, WFMin
<1>4. PICK m \in s : u = beyond(m)
  OBVIOUS
<1>5. \A z \in s : z[2] \in Nat
  BY DEF Ranges
<1>6. ASSUME NEW i \in s, i[2] > m[2] PROVE FALSE
  <2>1. \A z \in s : z[2] > i[2] => z[2] > m[2]
    BY <1>5, <1>6
  <2>2. ~(i[2] > i[2])
    BY <1>5
  <2>3. beyond(i) \subseteq beyond(m) /\ i \in beyond(m) /\ i \notin beyond(i)
    BY <1>6, <2>1, <2>2
  <2>4. <<beyond(i), u>> \in StrictSubsetOrdering(s)
    BY <2>3, <1>4 DEF StrictSubsetOrdering
  <2> QED
    BY <1>3, <2>4
<1>7. \A r \in s : r[2] <= m[2]
  BY <1>5, <1>6
<1>8. \E e \in {r[2] : r \in s} : \A r \in s : r[2] <= e
  BY <1>7
<1>9. FarEnd(s) \in {r[2] : r \in s} /\ \A r \in s : r[2] <= FarEnd(s)
  BY <1>8 DEF FarEnd
<1> QED
  BY <1>5, <1>9

\* The loop's step: a range that comes after those of s adds what lies behind their ends.
LEMMA FoundStep ==
    ASSUME NEW s \in SUBSET Ranges, IsFiniteSet(s),
           NEW r \in Ranges, \A q \in s : q[1] <= r[1]
    PROVE  /\ Found(s \cup {r}) = Extended(Found(s), r)
           /\ IsFiniteSet(Positions(s))
<1> DEFINE e == FarEnd(s)
           t == s \cup {r}
           first == IF r[1] > e THEN r[1] ELSE e
           new == first..(r[2] - 1)
<1>1. /\ r[1] \in Nat /\ r[2] \in Nat /\ r[1] < r[2]
      /\ \A q \in s : q[1] \in Nat /\ q[2] \in Nat /\ q[1] < q[2]
  BY DEF Ranges
<1>2. /\ e \in Nat
      /\ \A q \in s : q[2] <= e
      /\ s # {} => \E q \in s : q[2] = e
      /\ s = {} => e = 0
  BY FarEndLemma DEF FarEnd
<1> HIDE DEF e
<1>3. Positions(s) \subseteq 0..e
  BY <1>1, <1>2 DEF Positions
<1>4. IsFiniteSet(Positions(s)) /\ Cardinality(Positions(s)) \in Nat
  <2>1. IsFiniteSet(0..e)
    BY <1>2, FS_Interval
  <2> QED
    BY <1>3, <2>1, FS_Subset, FS_CardinalityType
<1>5. Positions(t) = Positions(s) \cup r[1]..(r[2] - 1)
  BY DEF Positions
<1>6. Positions(t) = Positions(s) \cup new
  <2>1. CASE r[1] > e
    BY <2>1, <1>5
  <2>2. CASE r[1] <= e /\ s = {}
    BY <2>2, <1>1, <1>2, <1>5
  <2>3. CASE r[1] <= e /\ s # {}
    <3>1. PICK q \in s : q[2] = e
      BY <2>3, <1>2
    <3>2. r[1]..(e - 1) \subseteq Positions(s)
      BY <3>1, <1>1 DEF Positions
    <3>3. r[1]..(r[2] - 1) \subseteq r[1]..(e - 1) \cup new /\ new \subseteq r[1]..(r[2] - 1)
      BY <2>3, <1>1, <1>2
    <3> QED
      BY <1>5, <3>2, <3>3
  <2> QED
    BY <2>1, <2>2, <2>3, <1>1, <1>2
<1>7. new \cap Positions(s) = {}
  <2>1. \A x \in Positions(s) : x \in Int /\ x < e
    BY <1>1, <1>2 DEF Positions
  <2>2. \A x \in new : x \in Int /\ x >= e
    BY <1>1, <1>2
  <2> QED
    BY <2>1, <2>2, <1>2
<1>8. first \in Nat /\ IsFiniteSet(new)
      /\ Cardinality(new) = IF r[2] > first THEN r[2] - first ELSE 0
  <2>1. first \in Nat
    BY <1>1, <1>2
  <2> HIDE DEF first
  <2>2. first \in Int /\ r[2] - 1 \in Int
    BY <2>1, <1>1
  <2>3. IsFiniteSet(new) /\ Cardinality(new) = IF first > r[2] - 1 THEN 0 ELSE (r[2] - 1) - first + 1
    BY <2>2, FS_Interval
  <2> QED
    BY <2>1, <2>3, <1>1
<1>9. Cardinality(Positions(t)) = Cardinality(Positions(s)) + Cardinality(new)
  <2>0. IsFiniteSet(new)
    BY <1>8
  <2>1. Cardinality(Positions(s) \cap new) = 0
    BY <1>7, FS_EmptySet
  <2> DEFINE P == Positions(s)
  <2> HIDE DEF new, P
  <2>4. IsFiniteSet(P)
    BY <1>4 DEF P
  <2>5. Cardinality(P \cup new) = Cardinality(P) + Cardinality(new) - Cardinality(P \cap new)
    BY <2>0, <2>4, FS_Union
  <2>2. Cardinality(Positions(s) \cup new)
          = Cardinality(Positions(s)) + Cardinality(new) - Cardinality(Positions(s) \cap new)
    BY <2>5 DEF P
  <2>3. Cardinality(new) \in Nat
    BY <2>0, FS_CardinalityType
  <2> HIDE DEF t
  <2> QED
    BY <2>1, <2>2, <2>3, <1>4, <1>6
<1>10. FarEnd(t) = IF r[2] > e THEN r[2] ELSE e
  <2>1. t \in SUBSET Ranges /\ IsFiniteSet(t) /\ t # {}
    BY FS_AddElement
  <2>2. /\ FarEnd(t) \in Nat
        /\ \A q \in t : q[2] <= FarEnd(t)
        /\ \E q \in t : q[2] = FarEnd(t)
    BY <2>1, FarEndLemma
  <2>3. r[2] <= FarEnd(t) /\ (FarEnd(t) = r[2] \/ \E q \in s : q[2] = FarEnd(t))
    BY <2>2
  <2>4. s # {} => e <= FarEnd(t)
    BY <2>2, <1>2
  <2>5. FarEnd(t) = r[2] \/ FarEnd(t) <= e
    BY <2>3, <1>2
  <2> QED
    BY <2>2, <2>3, <2>4, <2>5, <1>1, <1>2
<1>11. Found(t) = Extended(Found(s), r)
  <2>1. Found(s).length = Cardinality(Positions(s)) /\ Found(s).end = e
    BY DEF Found, e
  <2>2. Found(s) = [length |-> Cardinality(Positions(s)), end |-> e]
    BY DEF Found, e
  <2>3. Found(t) = [length |-> Cardinality(Positions(t)), end |-> FarEnd(t)]
    BY DEF Found
  <2>4. CASE r[1] > e
    <3>1. Cardinality(Positions(t)) = Cardinality(Positions(s)) + (r[2] - r[1]) /\ FarEnd(t) = r[2]
      BY <2>4, <1>1, <1>2, <1>4, <1>8, <1>9, <1>10
    <3> QED
      BY <2>1, <2>3, <2>4, <3>1 DEF Extended
  <2>5. CASE r[1] <= e /\ r[2] > e
    <3>1. Cardinality(Positions(t)) = Cardinality(Positions(s)) + (r[2] - e) /\ FarEnd(t) = r[2]
      BY <2>5, <1>1, <1>2, <1>4, <1>8, <1>9, <1>10
    <3>2. ~(r[1] > e)
      BY <2>5, <1>1, <1>2
    <3> QED
      BY <2>1, <2>3, <2>5, <3>1, <3>2 DEF Extended
  <2>6. CASE r[1] <= e /\ r[2] <= e
    <3>1. Cardinality(Positions(t)) = Cardinality(Positions(s)) /\ FarEnd(t) = e
      BY <2>6, <1>1, <1>2, <1>4, <1>8, <1>9, <1>10
    <3>2. ~(r[1] > e) /\ ~(r[2] > e)
      BY <2>6, <1>1, <1>2
    <3> QED
      BY <2>1, <2>2, <2>3, <3>1, <3>2 DEF Extended
  <2> QED
    BY <2>4, <2>5, <2>6, <1>1, <1>2
<1> QED
  BY <1>4, <1>11

\* _union_length computes the number of positions in a union of ranges.
LEMMA UnionLengthLemma ==
    ASSUME NEW S \in SUBSET Ranges, IsFiniteSet(S)
    PROVE  UnionLength(S) = Cardinality(Positions(S))
<1> DEFINE none == [length |-> 0, end |-> 0]
           After(h) == [s \in SUBSET S |->
                          IF s = {} THEN none ELSE Extended(h[s \ {Rightmost(s)}], Rightmost(s))]
           iter == CHOOSE h : h = After(h)
           found == [s \in SUBSET S |-> Found(s)]
<1>1. \A s \in SUBSET S : s \in SUBSET Ranges /\ IsFiniteSet(s)
  BY FS_Subset
<1>2. Found({}) = none
  <2>1. Positions({}) = {}
    BY DEF Positions
  <2> QED
    BY <2>1, FS_EmptySet DEF Found, FarEnd
<1>3. ASSUME NEW s \in SUBSET S, s # {}
      PROVE  /\ Rightmost(s) \in s /\ s \ {Rightmost(s)} \in SUBSET S
             /\ Found(s) = Extended(Found(s \ {Rightmost(s)}), Rightmost(s))
  <2>1. Rightmost(s) \in s /\ \A q \in s : q[1] <= Rightmost(s)[1]
    BY <1>1, <1>3, RightmostLemma
  <2> DEFINE r == Rightmost(s)
             rest == s \ {r}
  <2> HIDE DEF r
  <2>2. /\ rest \in SUBSET S /\ rest \in SUBSET Ranges /\ IsFiniteSet(rest) /\ r \in Ranges
        /\ \A q \in rest : q[1] <= r[1]
        /\ rest \cup {r} = s
    BY <1>1, <2>1 DEF r
  <2> HIDE DEF rest
  <2>3. Found(rest \cup {r}) = Extended(Found(rest), r)
    BY <2>2, FoundStep
  <2> QED
    BY <2>1, <2>2, <2>3 DEF r, rest
<1>4. found = After(found)
  <2> SUFFICES ASSUME NEW s \in SUBSET S
               PROVE  Found(s) = IF s = {} THEN none
                                 ELSE Extended(found[s \ {Rightmost(s)}], Rightmost(s))
    OBVIOUS
  <2>1. CASE s = {}
    BY <2>1, <1>2
  <2>2. CASE s # {}
    <3>1. found[s \ {Rightmost(s)}] = Found(s \ {Rightmost(s)})
      BY <1>3, <2>2
    <3> QED
      BY <1>3, <2>2, <3>1
  <2> QED
    BY <2>1, <2>2
<1>5. iter = After(iter)
  <2> HIDE DEF After, found
  <2> QED
    BY <1>4
<1> HIDE DEF iter
<1>6. \A s \in SUBSET S : iter[s] = Found(s)
  <2> DEFINE Wrong == {s \in SUBSET S : iter[s] # Found(s)}
  <2> SUFFICES ASSUME Wrong # {} PROVE FALSE
    OBVIOUS
  <2>1. Wrong \subseteq FiniteSubsetsOf(S)
    BY FS_FiniteSubsetsOfFinite
  <2>2. PICK s \in Wrong : \A v \in Wrong : <<v, s>> \notin StrictSubsetOrdering(S)
    <3> HIDE DEF Wrong
    <3> QED
      BY <2>1, FS_StrictSubsetOrderingWellFounded, WFMin
  <2>3. CASE s = {}
    <3>1. iter[s] = none
      BY <2>3, <1>5
    <3> QED
      BY <3>1, <2>3, <1>2
  <2>4. CASE s # {}
    <3> DEFINE rest == s \ {Rightmost(s)}
    <3>1. /\ Rightmost(s) \in s /\ rest \in SUBSET S
          /\ Found(s) = Extended(Found(rest), Rightmost(s))
      BY <1>3, <2>4
    <3>2. <<rest, s>> \in StrictSubsetOrdering(S)
      BY <3>1 DEF StrictSubsetOrdering
    <3>3. iter[rest] = Found(rest)
      BY <2>2, <3>1, <3>2
    <3>4. iter[s] = Extended(iter[rest], Rightmost(s))
      BY <2>4, <1>5
    <3> QED
      BY <3>1, <3>3, <3>4
  <2> QED
    BY <2>3, <2>4
<1>7. UnionLength(S) = iter[S].length
  BY DEF UnionLength, MapThenFoldSet, iter
<1>8. iter[S] = Found(S)
  BY <1>6
<1>9. Found(S).length = Cardinality(Positions(S))
  BY DEF Found
<1> QED
  BY <1>7, <1>8, <1>9

-----------------------------------------------------------------------------
(* Matches and passages *)

\* The ranges run from the least start to the greatest end without a hole.
Solid(ranges) ==
    \E a, b \in Nat :
        /\ a < b
        /\ \E r \in ranges : r[1] = a
        /\ \E r \in ranges : r[2] = b
        /\ \A r \in ranges : r \in Nat \X Nat /\ a <= r[1] /\ r[1] < r[2] /\ r[2] <= b
        /\ Positions(ranges) = a..(b - 1)

LEMMA SolidOne ==
    ASSUME NEW r \in Nat \X Nat, r[1] < r[2]
    PROVE  Solid({r})
<1>1. Positions({r}) = r[1]..(r[2] - 1)
  BY DEF Positions
<1>2. r[1] \in Nat /\ r[2] \in Nat
  OBVIOUS
<1> QED
  BY <1>1, <1>2 DEF Solid

LEMMA SolidAdd ==
    ASSUME NEW ranges, Solid(ranges),
           NEW r \in Nat \X Nat, r[1] < r[2],
           NEW q \in ranges, TouchOrOverlap(q[1], q[2], r[1], r[2])
    PROVE  Solid(ranges \cup {r})
<1>1. PICK a \in Nat, b \in Nat :
        /\ a < b
        /\ \E x \in ranges : x[1] = a
        /\ \E x \in ranges : x[2] = b
        /\ \A x \in ranges : x \in Nat \X Nat /\ a <= x[1] /\ x[1] < x[2] /\ x[2] <= b
        /\ Positions(ranges) = a..(b - 1)
  BY DEF Solid
<1>2. /\ r[1] \in Nat /\ r[2] \in Nat /\ q[1] \in Nat /\ q[2] \in Nat
      /\ a <= q[1] /\ q[2] <= b /\ q[1] <= r[2] /\ r[1] <= q[2]
  BY <1>1 DEF TouchOrOverlap
<1> DEFINE c == Lesser(a, r[1])
           d == Greater(b, r[2])
<1>3. /\ c \in Nat /\ d \in Nat /\ c < d /\ c <= a /\ b <= d /\ c <= r[1] /\ r[2] <= d
      /\ c = a \/ c = r[1]
      /\ d = b \/ d = r[2]
  BY <1>1, <1>2 DEF Lesser, Greater
<1>4. Positions(ranges \cup {r}) = Positions(ranges) \cup r[1]..(r[2] - 1)
  BY DEF Positions
<1>5. a..(b - 1) \cup r[1]..(r[2] - 1) = c..(d - 1)
  BY <1>1, <1>2, <1>3 DEF Lesser, Greater
<1>6. \A x \in ranges \cup {r} : x \in Nat \X Nat /\ c <= x[1] /\ x[1] < x[2] /\ x[2] <= d
  <2> SUFFICES ASSUME NEW x \in ranges \cup {r}
               PROVE  x \in Nat \X Nat /\ c <= x[1] /\ x[1] < x[2] /\ x[2] <= d
    OBVIOUS
  <2>1. CASE x = r
    BY <2>1, <1>3
  <2>2. CASE x \in ranges
    <3>1. x \in Nat \X Nat /\ a <= x[1] /\ x[1] < x[2] /\ x[2] <= b
      BY <2>2, <1>1
    <3> QED
      BY <3>1, <1>3
  <2> QED
    BY <2>1, <2>2
<1>7. (\E x \in ranges \cup {r} : x[1] = c) /\ \E x \in ranges \cup {r} : x[2] = d
  BY <1>1, <1>3
<1>8. Positions(ranges \cup {r}) = c..(d - 1)
  BY <1>1, <1>4, <1>5
<1> HIDE DEF c, d
<1> QED
  BY <1>3, <1>6, <1>7, <1>8 DEF Solid

\* Solid ranges are what lies between their least start and their greatest end.
LEMMA SolidSpan ==
    ASSUME NEW ranges, Solid(ranges)
    PROVE  /\ Min({r[1] : r \in ranges})..(Max({r[2] : r \in ranges}) - 1) = Positions(ranges)
           /\ <<Min({r[1] : r \in ranges}), Max({r[2] : r \in ranges})>> \in Ranges
<1>1. PICK a \in Nat, b \in Nat :
        /\ a < b
        /\ \E r \in ranges : r[1] = a
        /\ \E r \in ranges : r[2] = b
        /\ \A r \in ranges : r \in Nat \X Nat /\ a <= r[1] /\ r[2] <= b
        /\ Positions(ranges) = a..(b - 1)
  BY DEF Solid
<1>2. \A r \in ranges : r[1] \in Nat /\ r[2] \in Nat /\ a <= r[1] /\ r[2] <= b
  BY <1>1
<1>3. Min({r[1] : r \in ranges}) = a
  BY <1>1, <1>2 DEF Min
<1>4. Max({r[2] : r \in ranges}) = b
  BY <1>1, <1>2 DEF Max
<1> QED
  BY <1>1, <1>3, <1>4 DEF Ranges

\* What _build_segment reports of a solid group.
LEMMA SolidSegment ==
    ASSUME NEW group, Solid(Sources(group)), Solid(Targets(group))
    PROVE  LET s == Segment(group) IN
           /\ s.source_start..(s.source_end - 1) = Positions(Sources(group))
           /\ s.target_start..(s.target_end - 1) = Positions(Targets(group))
           /\ <<s.target_start, s.target_end>> \in Ranges
<1>1. /\ {m.source_start : m \in group} = {r[1] : r \in Sources(group)}
      /\ {m.source_end : m \in group} = {r[2] : r \in Sources(group)}
  <2>1. \A m \in group : <<m.source_start, m.source_end>> \in Sources(group)
    BY DEF Sources
  <2>2. \A r \in Sources(group) : \E m \in group : r[1] = m.source_start /\ r[2] = m.source_end
    BY DEF Sources
  <2>3. \A m \in group : \E r \in Sources(group) : r[1] = m.source_start /\ r[2] = m.source_end
    BY <2>1
  <2> QED
    BY <2>2, <2>3
<1>2. /\ {m.target_start : m \in group} = {r[1] : r \in Targets(group)}
      /\ {m.target_end : m \in group} = {r[2] : r \in Targets(group)}
  <2>1. \A m \in group : <<m.target_start, m.target_end>> \in Targets(group)
    BY DEF Targets
  <2>2. \A r \in Targets(group) : \E m \in group : r[1] = m.target_start /\ r[2] = m.target_end
    BY DEF Targets
  <2>3. \A m \in group : \E r \in Targets(group) : r[1] = m.target_start /\ r[2] = m.target_end
    BY <2>1
  <2> QED
    BY <2>2, <2>3
<1> QED
  BY <1>1, <1>2, SolidSpan DEF Segment

\* What a function makes of a finite set is finite.
LEMMA ImageLemma ==
    ASSUME NEW S, IsFiniteSet(S), NEW f, f = [x \in S |-> f[x]]
    PROVE  IsFiniteSet({f[x] : x \in S})
<1>1. f \in Surjection(S, {f[x] : x \in S})
  BY DEF Surjection
<1> QED
  BY <1>1, FS_Surjection

\* The matches are those of real chunks, finitely many; each one that is placed is in one group,
\* and the groups are solid on both sides.
MatchInv ==
    /\ matches \subseteq {m \in Match : /\ m.source_start < m.source_end
                                        /\ m.target_start < m.target_end}
    /\ IsFiniteSet(matches)
    /\ todo \subseteq matches
    /\ groups \in Seq(SUBSET matches)
    /\ matches = todo \cup UNION {groups[i] : i \in DOMAIN groups}
    /\ \A i, k \in DOMAIN groups : i # k => groups[i] \cap groups[k] = {}
    /\ \A i \in DOMAIN groups : /\ groups[i] \cap todo = {}
                                /\ Solid(Sources(groups[i])) /\ Solid(Targets(groups[i]))

LEMMA MatchInvImplies ==
    ASSUME MatchInv
    PROVE  MatchTypeOK /\ SegmentsAreSolid
BY SolidSegment DEF MatchInv, MatchTypeOK, SegmentsAreSolid

\* The ranges of a group are finitely many, and none is empty.
LEMMA GroupRanges ==
    ASSUME MatchInv, NEW group \in SUBSET matches
    PROVE  /\ Sources(group) \in SUBSET Ranges /\ IsFiniteSet(Sources(group))
           /\ Targets(group) \in SUBSET Ranges /\ IsFiniteSet(Targets(group))
<1> DEFINE f == [m \in group |-> <<m.source_start, m.source_end>>]
           g == [m \in group |-> <<m.target_start, m.target_end>>]
<1>1. IsFiniteSet(group)
  BY FS_Subset DEF MatchInv
<1>2. IsFiniteSet({f[m] : m \in group}) /\ IsFiniteSet({g[m] : m \in group})
  BY <1>1, ImageLemma
<1>3. Sources(group) = {f[m] : m \in group} /\ Targets(group) = {g[m] : m \in group}
  BY DEF Sources, Targets
<1>4. \A m \in group : m \in Match /\ m.source_start < m.source_end /\ m.target_start < m.target_end
  BY DEF MatchInv
<1>5. Sources(group) \in SUBSET Ranges /\ Targets(group) \in SUBSET Ranges
  BY <1>4 DEF Sources, Targets, Ranges, Match
<1> QED
  BY <1>2, <1>3, <1>5

LEMMA GroupCoverage ==
    ASSUME MatchInv, NEW i \in DOMAIN groups
    PROVE  /\ SourceCovered(groups[i]) = Cardinality(Positions(Sources(groups[i])))
           /\ TargetCovered(groups[i]) = Cardinality(Positions(Targets(groups[i])))
<1>1. groups[i] \in SUBSET matches
  BY DEF MatchInv
<1> QED
  BY <1>1, GroupRanges, UnionLengthLemma DEF SourceCovered, TargetCovered

\* The passages lie where the matches lie.
LEMMA ReportCoverage ==
    ASSUME MatchInv, todo = {}
    PROVE  Covered = Cardinality(Positions(Targets(matches)))
<1> DEFINE D == DOMAIN groups
           f == [i \in D |-> <<Segment(groups[i]).target_start, Segment(groups[i]).target_end>>]
           passages == Targets({Segment(groups[i]) : i \in D})
<1>1. \A i \in D : /\ f[i] \in Ranges
                    /\ f[i][1]..(f[i][2] - 1) = Positions(Targets(groups[i]))
  BY SolidSegment DEF MatchInv
<1>2. passages = {f[i] : i \in D}
  BY DEF Targets
<1>3. IsFiniteSet(D)
  <2>1. D = 1..Len(groups) /\ Len(groups) \in Nat
    BY DEF MatchInv
  <2> QED
    BY <2>1, FS_Interval
<1>4. passages \in SUBSET Ranges /\ IsFiniteSet(passages)
  <2>1. IsFiniteSet({f[i] : i \in D})
    BY <1>3, ImageLemma
  <2> QED
    BY <1>1, <1>2, <2>1
<1>5. Positions(passages) = Positions(Targets(matches))
  <2>1. Positions(passages) = UNION {Positions(Targets(groups[i])) : i \in D}
    <3>1. Positions(passages) = UNION {f[i][1]..(f[i][2] - 1) : i \in D}
      <4> HIDE DEF f
      <4> QED
        BY <1>2 DEF Positions
    <3> QED
      BY <1>1, <3>1
  <2>2. Targets(matches) = UNION {Targets(groups[i]) : i \in D}
    BY DEF MatchInv, Targets
  <2>3. Positions(Targets(matches)) = UNION {Positions(Targets(groups[i])) : i \in D}
    BY <2>2 DEF Positions
  <2> QED
    BY <2>1, <2>3
<1>6. UnionLength(passages) = Cardinality(Positions(passages))
  BY <1>4, UnionLengthLemma
<1> QED
  BY <1>5, <1>6 DEF Covered

LEMMA InitMatch == ASSUME Init PROVE MatchInv
BY FS_EmptySet DEF Init, MatchInv

\* A match of two chunks has two ranges that are not empty.
LEMMA CompareMatch ==
    ASSUME ChunkInv, Compare
    PROVE  MatchInv'
<1>1. \A k \in DOMAIN result : /\ result[k].end > result[k].start
                               /\ <<result[k].start, result[k].end>> \in Nat \X Nat
  <2> SUFFICES ASSUME NEW k \in DOMAIN result
               PROVE  /\ result[k].end > result[k].start
                      /\ <<result[k].start, result[k].end>> \in Nat \X Nat
    OBVIOUS
  <2>1. result[k] \in PieceAt(Len(text), Len(text)) /\ result[k].start < result[k].end
    BY DEF ChunkInv, ResultInv, PiecesAre
  <2>2. result[k].start \in Nat /\ result[k].end \in Nat
    BY <2>1 DEF PieceAt, ChunkInv, SectionInv
  <2> QED
    BY <2>1, <2>2
<1>2. ChunkOffsets = {<<result[k].start, result[k].end>> : k \in DOMAIN result}
  BY <1>1 DEF ChunkOffsets
<1>3. \A r \in ChunkOffsets \cup OtherChunks : r[1] \in Nat /\ r[2] \in Nat /\ r[1] < r[2]
  BY <1>1, <1>2, DetectionAssumption DEF DetectionAssumption
<1>4. matches' \subseteq {[source_start |-> a[1], source_end |-> a[2],
                           target_start |-> b[1], target_end |-> b[2]] :
                          a \in ChunkOffsets, b \in OtherChunks}
  BY DEF Compare
<1>5. matches' \subseteq {m \in Match : /\ m.source_start < m.source_end
                                        /\ m.target_start < m.target_end}
  BY <1>3, <1>4 DEF Match
<1>6. todo' = matches' /\ groups' = <<>>
  BY DEF Compare
<1>7. IsFiniteSet(matches')
  <2> DEFINE D == DOMAIN result
             f == [p \in D \X OtherChunks |->
                     [source_start |-> result[p[1]].start, source_end |-> result[p[1]].end,
                      target_start |-> p[2][1], target_end |-> p[2][2]]]
  <2>1. IsFiniteSet(D)
    <3>1. D = 1..Len(result) /\ Len(result) \in Nat
      BY DEF ChunkInv, ResultInv, PiecesAre
    <3> QED
      BY <3>1, FS_Interval
  <2>2. IsFiniteSet(D \X OtherChunks)
    BY <2>1, FS_Product, DetectionAssumption DEF DetectionAssumption
  <2>3. IsFiniteSet({f[p] : p \in D \X OtherChunks})
    <3>1. f = [p \in D \X OtherChunks |-> f[p]]
      OBVIOUS
    <3> HIDE DEF D, f
    <3> QED
      BY <2>2, <3>1, ImageLemma
  <2>4. matches' \subseteq {f[p] : p \in D \X OtherChunks}
    <3> SUFFICES ASSUME NEW m \in matches'
                 PROVE  \E p \in D \X OtherChunks : m = f[p]
      OBVIOUS
    <3>1. PICK a \in ChunkOffsets, b \in OtherChunks :
                 m = [source_start |-> a[1], source_end |-> a[2],
                      target_start |-> b[1], target_end |-> b[2]]
      BY <1>4
    <3>2. PICK k \in D : a = <<result[k].start, result[k].end>>
      BY <1>2
    <3>3. <<k, b>> \in D \X OtherChunks
      OBVIOUS
    <3>4. f[<<k, b>>] = m
      BY <3>1, <3>2, <3>3
    <3> QED
      BY <3>3, <3>4
  <2> QED
    BY <2>3, <2>4, FS_Subset
<1> QED
  BY <1>5, <1>6, <1>7 DEF MatchInv

LEMMA ConsolidateMatch ==
    ASSUME MatchInv, Consolidate
    PROVE  MatchInv'
<1>1. PICK m \in todo : Place(m) /\ todo' = todo \ {m} /\ matches' = matches
  BY DEF Consolidate
<1> DEFINE n == Len(groups)
           Source == <<m.source_start, m.source_end>>
           Target == <<m.target_start, m.target_end>>
<1>2. /\ m \in matches /\ m \in Match
      /\ groups \in Seq(SUBSET matches) /\ n \in Nat /\ DOMAIN groups = 1..n
      /\ \A i \in 1..n : groups[i] \subseteq matches /\ m \notin groups[i]
  BY <1>1 DEF MatchInv
<1>3. /\ Source \in Nat \X Nat /\ Source[1] < Source[2]
      /\ Target \in Nat \X Nat /\ Target[1] < Target[2]
  BY <1>1, <1>2 DEF MatchInv, Match
<1>4. \A g : /\ Sources(g \cup {m}) = Sources(g) \cup {Source}
             /\ Targets(g \cup {m}) = Targets(g) \cup {Target}
             /\ Sources({m}) = {Source} /\ Targets({m}) = {Target}
  BY DEF Sources, Targets
<1> HIDE DEF Source, Target
<1>5. CASE Joins(m)
  <2> DEFINE joined == groups[n] \cup {m}
  <2>1. groups # <<>>
    BY <1>5 DEF Joins
  <2>2. groups' = [groups EXCEPT ![n] = joined]
    BY <1>1, <1>5 DEF Place
  <2>3. n \in 1..n
    BY <1>2, <2>1
  <2>4. PICK x \in groups[n] : Compatible(x, m)
    BY <1>5 DEF Joins
  <2>5. /\ <<x.source_start, x.source_end>> \in Sources(groups[n])
        /\ <<x.target_start, x.target_end>> \in Targets(groups[n])
        /\ TouchOrOverlap(x.source_start, x.source_end, Source[1], Source[2])
        /\ TouchOrOverlap(x.target_start, x.target_end, Target[1], Target[2])
    BY <2>4 DEF Compatible, SourcesTouch, TargetsTouch, Sources, Targets, Source, Target
  <2>6. Solid(Sources(groups[n])) /\ Solid(Targets(groups[n]))
    BY <1>2, <2>3 DEF MatchInv
  <2>7. Solid(Sources(joined))
    BY <1>3, <1>4, <2>5, <2>6, SolidAdd
  <2>8. Solid(Targets(joined))
    BY <1>3, <1>4, <2>5, <2>6, SolidAdd
  <2>9. /\ groups' \in Seq(SUBSET matches) /\ DOMAIN groups' = 1..n
        /\ \A i \in 1..n : groups'[i] = IF i = n THEN joined ELSE groups[i]
    BY <1>2, <2>2, <2>3
  <2> QED
    BY <1>1, <1>2, <2>2, <2>3, <2>7, <2>8, <2>9 DEF MatchInv
<1>6. CASE ~Joins(m)
  <2>1. groups' = Append(groups, {m})
    BY <1>1, <1>6 DEF Place
  <2>2. /\ groups' \in Seq(SUBSET matches) /\ DOMAIN groups' = 1..(n + 1)
        /\ groups'[n + 1] = {m}
        /\ \A i \in 1..n : groups'[i] = groups[i]
    BY <1>2, <2>1
  <2>3. Solid(Sources({m})) /\ Solid(Targets({m}))
    BY <1>3, <1>4, SolidOne
  <2>4. \A i \in 1..(n + 1) : i \in 1..n \/ i = n + 1
    BY <1>2
  <2>5. matches = todo' \cup UNION {groups'[i] : i \in 1..(n + 1)}
    <3>1. UNION {groups'[i] : i \in 1..(n + 1)} = {m} \cup UNION {groups[i] : i \in 1..n}
      BY <1>2, <2>2, <2>4
    <3>2. matches = todo \cup UNION {groups[i] : i \in 1..n}
      BY <1>2 DEF MatchInv
    <3> QED
      BY <1>1, <3>1, <3>2
  <2>6. \A i, k \in 1..(n + 1) : i # k => groups'[i] \cap groups'[k] = {}
    <3>1. \A i, k \in 1..n : i # k => groups[i] \cap groups[k] = {}
      BY <1>2 DEF MatchInv
    <3> QED
      BY <1>2, <2>2, <2>4, <3>1
  <2>7. \A i \in 1..(n + 1) : /\ groups'[i] \cap todo' = {}
                              /\ Solid(Sources(groups'[i])) /\ Solid(Targets(groups'[i]))
    <3>1. \A i \in 1..n : /\ groups[i] \cap todo = {}
                          /\ Solid(Sources(groups[i])) /\ Solid(Targets(groups[i]))
      BY <1>2 DEF MatchInv
    <3> QED
      BY <1>1, <2>2, <2>3, <2>4, <3>1
  <2>8. /\ matches' \subseteq {x \in Match : /\ x.source_start < x.source_end
                                             /\ x.target_start < x.target_end}
        /\ todo' \subseteq matches' /\ groups' \in Seq(SUBSET matches')
    BY <1>1, <2>2 DEF MatchInv
  <2> QED
    BY <1>1, <2>2, <2>5, <2>6, <2>7, <2>8 DEF MatchInv
<1> QED
  BY <1>5, <1>6

LEMMA MatchInvariant == Spec => []MatchInv
<1>1. Init => MatchInv
  BY InitMatch
<1>2. ChunkInv /\ MatchInv /\ [Next]_vars => MatchInv'
  <2> SUFFICES ASSUME ChunkInv, MatchInv, [Next]_vars PROVE MatchInv'
    OBVIOUS
  <2>1. CASE Compare
    BY <2>1, CompareMatch
  <2>2. CASE Consolidate
    BY <2>2, ConsolidateMatch
  <2>3. CASE UNCHANGED matchVars
    BY <2>3 DEF matchVars, MatchInv
  <2> QED
    BY <2>1, <2>2, <2>3 DEF Next, vars
<1> QED
  BY <1>1, <1>2, ChunkInvariant, PTL DEF Spec

-----------------------------------------------------------------------------
(* Theorems *)

\* The variables keep their types: in particular the chunks stay within max_chunks
\* and every position within the document.
THEOREM DetectionTypeCorrect == Spec => []TypeOK
<1>1. ChunkInv /\ MatchInv => TypeOK
  BY ChunkInvImplies, MatchInvImplies DEF TypeOK
<1> QED
  BY <1>1, ChunkInvariant, MatchInvariant, PTL

\* The windows of a section share chunk_overlap characters and go forward, for every
\* document, chunk size and overlap (the chunk_text loop).
THEOREM WindowsOverlap == Spec => []OverlapKept
<1>1. ChunkInv => OverlapKept
  BY ChunkInvImplies
<1> QED
  BY <1>1, ChunkInvariant, PTL

\* No window lies within the one before it.
THEOREM WindowsAreNew == Spec => []EachIsNew
<1>1. ChunkInv => EachIsNew
  BY ChunkInvImplies
<1> QED
  BY <1>1, ChunkInvariant, PTL

\* No window is longer than twice the chunk size.
THEOREM WindowsAreCapped == Spec => []CapKept
<1>1. ChunkInv => CapKept
  BY ChunkInvImplies
<1> QED
  BY <1>1, ChunkInvariant, PTL

\* The chunks of a document have positions that chunk_offsets can use, in order.
THEOREM PositionsAreUsable == Spec => []PositionsUsable
<1>1. ChunkInv => PositionsUsable
  BY ChunkInvImplies
<1> QED
  BY <1>1, ChunkInvariant, PTL

\* Every coverage of the report counts a character once, however the matches overlap
\* (_union_length and consolidated_target_coverage).
THEOREM CoverageIsCounted == Spec => []CoverageCounts
<1>1. ASSUME MatchInv PROVE CoverageCounts
  BY <1>1, GroupCoverage, ReportCoverage DEF CoverageCounts
<1> QED
  BY <1>1, MatchInvariant, PTL

\* A passage of the report has no hole on either side, and every match is in one.
THEOREM PassagesAreSolid == Spec => []SegmentsAreSolid
<1>1. MatchInv => SegmentsAreSolid
  BY MatchInvImplies
<1> QED
  BY <1>1, MatchInvariant, PTL
=============================================================================
