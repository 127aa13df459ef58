---------------------------- MODULE WordsKeptProofs ----------------------------
(***************************************************************************)
(* Proof that chunk_document loses no word, for every document without     *)
(* white space at its front and all values of the constants for which the  *)
(* searches stay below the chunk size.                                     *)
(*                                                                         *)
(* A section but the first begins with a heading, so that nothing is       *)
(* stripped from its front (FrontInv).  Its windows leave no hole          *)
(* (CoverLemma) and the last one reaches its end, unless max_chunks cut it *)
(* short (ReachInv); behind its stripped text there are only spaces        *)
(* (TrimInv).  So the words before begin stay covered (WordsInv).          *)
(***************************************************************************)
EXTENDS PassageDetectionProofs

Premise == LoopSize >= Forward /\ text[1] # "space"

\* A position that is in a chunk or in a piece left out for too few words.
Kept(i) == \E c \in dropped \cup {result[k] : k \in DOMAIN result} : i \in Text(c)

FrontInv == at # "compared" => Len(text) > 0 /\ (begin > 0 => text[begin + 1] = "heading")

\* The pieces are where their positions say.
Unshifted(ps) == \A i \in DOMAIN ps : ps[i].from = ps[i].start /\ ps[i].to = ps[i].end

TrimInv ==
    at \in {"window", "close"} =>
        /\ lead = 0 /\ Len(section) > 0
        /\ \A e \in 0..Len(text) : IsSectionEnd(e) =>
             \A i \in (begin + Len(section))..(e - 1) : text[i + 1] = "space"
        /\ Unshifted(pieces)

Reaches(ps, n) == ps # <<>> /\ ps[Len(ps)].end = n

ReachInv == at = "close" /\ ~full => Reaches(pieces, Len(section))

\* The text that is dealt with.
Past == IF at = "done" THEN Len(text) ELSE begin

CoveredInv == ~full => \A i \in 0..(Past - 1) : InWord(i) => Kept(i)

WordsInv == FrontInv /\ (Premise /\ at # "compared" => TrimInv /\ ReachInv /\ CoveredInv)

-----------------------------------------------------------------------------
(* Pieces *)

\* A finite set of numbers has a greatest element.
LEMMA GreatestIndex ==
    ASSUME NEW n \in Nat, NEW S \in SUBSET (1..n), S # {}
    PROVE  \E m \in S : \A i \in S : i <= m
<1> DEFINE above(x) == {z \in S : z > x}
           T == {above(x) : x \in S}
<1>1. IsFiniteSet(S)
  <2>1. 1 \in Int /\ n \in Int /\ S \subseteq 1..n
    OBVIOUS
  <2>2. IsFiniteSet(1..n)
    BY <2>1, FS_Interval
  <2> QED
    BY <2>1, <2>2, FS_Subset
<1>2. T \subseteq FiniteSubsetsOf(S) /\ T # {}
  <2>1. \A x \in S : above(x) \subseteq S
    OBVIOUS
  <2>2. \A x \in S : above(x) \in FiniteSubsetsOf(S)
    <3> HIDE DEF above
    <3> QED
      BY <1>1, <2>1, FS_FiniteSubsetsOfFinite
  <2> QED
    BY <2>2
<1>3. PICK u \in T : \A v \in T : <<v, u>> \notin StrictSubsetOrdering(S)
  <2> HIDE DEF T
  <2> QED
    BY <1>1, <1>2, FS_StrictSubsetOrderingWellFounded, WFMin
<1>4. PICK m \in S : u = above(m)
  OBVIOUS
<1>5. ASSUME NEW i \in S, i > m PROVE FALSE
  <2>0. i \in Nat /\ m \in Nat /\ \A z \in S : z \in Nat
    OBVIOUS
  <2>3. \A z \in S : z > i => z > m
    BY <1>5, <2>0
  <2>4. ~(i > i)
    BY <2>0
  <2>1. above(i) \subseteq above(m) /\ i \in above(m) /\ i \notin above(i)
    BY <1>5, <2>3, <2>4
  <2>2. <<above(i), u>> \in StrictSubsetOrdering(S)
    BY <2>1, <1>4 DEF StrictSubsetOrdering
  <2> QED
    BY <1>3, <2>2
<1>6. \A i \in S : i \in Nat
  OBVIOUS
<1> QED
  BY <1>4, <1>5, <1>6

\* Windows that follow each other up to the end leave no hole.
LEMMA CoverLemma ==
    ASSUME NEW n \in Nat, NEW m \in Nat, NEW step \in Nat, NEW ps,
           PiecesAre(ps, n, m), WindowsAre(step, ps), step >= Forward, Overlap \in Nat,
           Reaches(ps, n), NEW j \in 0..(n - 1)
    PROVE  \E k \in DOMAIN ps : ps[k].start <= j /\ j < ps[k].end
<1> DEFINE l == Len(ps)
           S == {k \in 1..l : ps[k].start <= j}
<1>1. ps \in Seq(PieceAt(n, m)) /\ l \in Nat /\ l > 0 /\ DOMAIN ps = 1..l
  BY DEF PiecesAre, Reaches
<1>2. \A k \in 1..l : ps[k].start \in Nat /\ ps[k].end \in Nat
  <2>1. \A k \in 1..l : ps[k] \in PieceAt(n, m)
    BY <1>1
  <2> QED
    BY <2>1 DEF PieceAt
<1>3. 1 \in S
  BY <1>1 DEF WindowsAre
<1>4. PICK k \in S : \A i \in S : i <= k
  BY <1>1, <1>3, GreatestIndex
<1>5. CASE k = l
  <2>1. k \in 1..l /\ ps[k].start <= j
    OBVIOUS
  <2>2. ps[k].end = n /\ j < n
    BY <1>5 DEF Reaches
  <2> QED
    BY <1>1, <2>1, <2>2
<1>6. CASE k < l
  <2>1. k + 1 \in 1..l /\ k \in 1..(l - 1) /\ k + 1 \notin S
    BY <1>1, <1>4, <1>6
  <2>2. ps[k + 1].start > j
    BY <2>1, <1>2
  <2>3. Follows(step, ps[k], ps[k + 1])
    BY <2>1 DEF WindowsAre
  <2>4. ps[k + 1].start <= ps[k].end - Overlap
    BY <2>3 DEF Follows
  <2>5. ps[k].end \in Nat /\ ps[k + 1].start \in Nat /\ ps[k].start <= j /\ k \in 1..l
    BY <2>1, <1>2
  <2> QED
    BY <2>2, <2>4, <2>5, <1>1
<1>7. k \in 1..l
  OBVIOUS
<1>8. k = l \/ k < l
  <2> HIDE DEF l, S
  <2> QED
    BY <1>1, <1>7
<1> QED
  BY <1>5, <1>6, <1>8

\* Merging the tail keeps what is covered.
LEMMA MergeCovers ==
    ASSUME NEW n \in Nat, NEW ps, PiecesAre(ps, n, n), Unshifted(ps), Reaches(ps, n)
    PROVE  /\ Unshifted(MergeTail(ps))
           /\ Len(MergeTail(ps)) <= Len(ps)
           /\ \A j \in 0..(n - 1) :
                (\E k \in DOMAIN ps : ps[k].start <= j /\ j < ps[k].end) =>
                \E k \in DOMAIN MergeTail(ps) : MergeTail(ps)[k].start <= j /\ j < MergeTail(ps)[k].end
<1> DEFINE m == Len(ps)
           At == PieceAt(n, n)
           w == Piece(ps[m - 1].start, ps[m].end, 0)
           sub == SubSeq(ps, 1, m - 2)
           qs == Append(sub, w)
<1>0. ps \in Seq(At) /\ m \in Nat /\ DOMAIN ps = 1..m
  BY DEF PiecesAre
<1>1. CASE MergeTail(ps) = ps
  BY <1>0, <1>1
<1>2. CASE m > 1 /\ MergeTail(ps) = qs
  <2>1. m \in 1..m /\ m - 1 \in 1..m /\ m - 2 \in Nat /\ ps[m] \in At /\ ps[m - 1] \in At
    BY <1>0, <1>2
  <2>2. ps[m].start \in Nat /\ ps[m - 1].start \in Nat /\ ps[m].end = n
        /\ ps[m - 1].start < ps[m].start
    <3>1. m - 1 < m
      BY <1>0
    <3>2. \A i, k \in 1..m : i < k => ps[i].start < ps[k].start
      BY <1>0 DEF PiecesAre
    <3>3. ps[m - 1].start < ps[m].start
      BY <2>1, <3>1, <3>2
    <3>4. ps[m].end = n
      BY DEF Reaches
    <3> QED
      BY <2>1, <3>3, <3>4 DEF PieceAt
  <2>3. w.start = ps[m - 1].start /\ w.end = n /\ w.from = w.start /\ w.to = w.end
    BY <2>2 DEF Piece
  <2>4. sub \in Seq(At) /\ Len(sub) = m - 2 /\ \A i \in 1..(m - 2) : sub[i] = ps[i]
    BY <1>0, <2>1
  <2> HIDE DEF w, sub
  <2>5. /\ DOMAIN qs = 1..(m - 1) /\ Len(qs) = m - 1 /\ qs[m - 1] = w
        /\ \A i \in 1..(m - 2) : qs[i] = ps[i]
    BY <2>4, <2>1
  <2> HIDE DEF qs
  <2>6. \A i \in 1..(m - 1) : i = m - 1 \/ (i \in 1..(m - 2) /\ i \in 1..m)
    <3>1. m \in Nat
      BY <1>0
    <3> HIDE DEF m
    <3> QED
      BY <3>1
  <2>7. Unshifted(qs)
    BY <1>0, <2>3, <2>5, <2>6 DEF Unshifted
  <2>8. ASSUME NEW j \in 0..(n - 1), NEW k \in 1..m, ps[k].start <= j /\ j < ps[k].end
        PROVE  \E i \in DOMAIN qs : qs[i].start <= j /\ j < qs[i].end
    <3>1. CASE k \in 1..(m - 2)
      <4>1. k \in DOMAIN qs /\ qs[k] = ps[k]
        BY <3>1, <2>5, <1>0
      <4> QED
        BY <4>1, <2>8
    <3>2. CASE k = m - 1 \/ k = m
      <4>1. ps[m - 1].start <= j
        BY <3>2, <2>2, <2>8
      <4>2. m - 1 \in DOMAIN qs
        BY <2>5, <1>2, <1>0
      <4> QED
        BY <4>1, <4>2, <2>3, <2>5
    <3>3. m \in Nat /\ k \in 1..m
      BY <1>0
    <3> HIDE DEF m
    <3>4. k \in 1..(m - 2) \/ k = m - 1 \/ k = m
      BY <3>3
    <3> QED
      BY <3>1, <3>2, <3>4
  <2> QED
    BY <1>0, <1>2, <2>5, <2>7, <2>8
<1> QED
  BY <1>1, <1>2 DEF MergeTail
-----------------------------------------------------------------------------
(* The steps *)

\* The text of a section that is opened: nothing is stripped from its front.
LEMMA OpenWords ==
    ASSUME ChunkInv, WordsInv, OpenSection
    PROVE  WordsInv'
<1>1. /\ at = "open" /\ text \in Seq(Kinds) /\ size \in ChunkSizes /\ begin \in 0..Len(text)
      /\ full \in BOOLEAN /\ Len(text) \in Nat
      /\ text' = text /\ size' = size /\ begin' = begin /\ result' = result /\ dropped' = dropped
  BY DEF OpenSection, ChunkInv, SectionInv
<1>2. PICK e \in 0..Len(text) : IsSectionEnd(e) /\
         LET raw == SubSeq(text, begin + 1, e) IN
         \E a, b \in 0..Len(raw) :
            /\ IsTrimmed(raw, a, b)
            /\ lead' = a
            /\ section' = SubSeq(raw, a + 1, b)
            /\ IF \E i \in DOMAIN section' : section'[i] \in {"space", "heading"}
               THEN at' = "window" /\ pieces' = <<>> /\ full' = full
               ELSE \E n \in 0..Len(section') :
                    /\ FallbackCount(section', n)
                    /\ at' = "close"
                    /\ pieces' = Cut(Fallback(section', a, n), Room)
                    /\ full' = (full \/ n > Room)
  BY DEF OpenSection
<1> DEFINE raw == SubSeq(text, begin + 1, e)
<1>3. begin < e /\ begin \in Nat /\ e \in Nat /\ e <= Len(text)
  BY <1>1, <1>2 DEF IsSectionEnd
<1>4. raw \in Seq(Kinds) /\ Len(raw) = e - begin /\ \A i \in 1..(e - begin) : raw[i] = text[begin + i]
  <2>1. \A i \in (begin + 1)..e : text[i] \in Kinds
    BY <1>1, <1>3
  <2> QED
    BY <2>1, <1>1, <1>3
<1>5. PICK a \in 0..Len(raw), b \in 0..Len(raw) :
            /\ IsTrimmed(raw, a, b)
            /\ lead' = a
            /\ section' = SubSeq(raw, a + 1, b)
            /\ IF \E i \in DOMAIN section' : section'[i] \in {"space", "heading"}
               THEN at' = "window" /\ pieces' = <<>> /\ full' = full
               ELSE \E n \in 0..Len(section') :
                    /\ FallbackCount(section', n)
                    /\ at' = "close"
                    /\ pieces' = Cut(Fallback(section', a, n), Room)
                    /\ full' = (full \/ n > Room)
  BY <1>2
<1> HIDE DEF raw
<1>6. FrontInv'
  BY <1>1 DEF WordsInv, FrontInv
<1>7. LoopSize' = LoopSize /\ (Premise' <=> Premise) /\ at' \in {"window", "close"}
  BY <1>1, <1>5 DEF LoopSize, Premise
<1>8. SUFFICES ASSUME Premise
               PROVE  TrimInv' /\ ReachInv' /\ CoveredInv'
  BY <1>6, <1>7 DEF WordsInv
<1>9. raw[1] # "space"
  <2>1. raw[1] = text[begin + 1]
    BY <1>3, <1>4
  <2>2. CASE begin = 0
    BY <2>1, <2>2, <1>8 DEF Premise
  <2>3. CASE begin > 0
    BY <2>1, <2>3, <1>1 DEF WordsInv, FrontInv
  <2> QED
    BY <2>2, <2>3, <1>3
<1>10. a = 0 /\ b > 0 /\ b \in Nat /\ b <= e - begin
       /\ \A i \in (b + 1)..(e - begin) : raw[i] = "space"
  <2>1. a \in Nat /\ b \in Nat /\ a <= e - begin /\ b <= e - begin
    BY <1>3, <1>4
  <2>2. /\ \A i \in 1..a : raw[i] = "space"
        /\ \A i \in (b + 1)..(e - begin) : raw[i] = "space"
        /\ a < b \/ a = e - begin
    BY <1>4, <1>5 DEF IsTrimmed
  <2>3. ~(1 \in 1..a)
    BY <2>2, <1>9
  <2> QED
    BY <2>1, <2>2, <2>3, <1>3
<1>11. lead' = 0 /\ section' \in Seq(Kinds) /\ Len(section') = b
  <2>1. section' = SubSeq(raw, 1, b) /\ b <= Len(raw)
    BY <1>4, <1>5, <1>10
  <2> QED
    BY <2>1, <1>4, <1>5, <1>10
<1>12. \A d \in 0..Len(text) : IsSectionEnd(d)' =>
         \A i \in (begin + b)..(d - 1) : text[i + 1] = "space"
  <2> SUFFICES ASSUME NEW d \in 0..Len(text), IsSectionEnd(d)',
                      NEW i \in (begin + b)..(d - 1)
               PROVE  text[i + 1] = "space"
    OBVIOUS
  <2>1. IsSectionEnd(d)
    BY <1>1 DEF IsSectionEnd, Boundaries, IsHeader
  <2>2. d = e
    BY <2>1, <1>1, <1>2, OneEnd
  <2>3. (i - begin) + 1 \in (b + 1)..(e - begin) /\ (i - begin) + 1 \in 1..(e - begin)
        /\ begin + ((i - begin) + 1) = i + 1
    BY <2>2, <1>3, <1>10
  <2> QED
    BY <2>3, <1>4, <1>10
<1>13. ASSUME at' = "close"
       PROVE  Unshifted(pieces') /\ (~full' => Reaches(pieces', b))
  <2>1. PICK n \in 0..Len(section') :
          /\ FallbackCount(section', n)
          /\ pieces' = Cut(Fallback(section', 0, n), Room)
          /\ full' = (full \/ n > Room)
    BY <1>5, <1>10, <1>13
  <2> DEFINE all == Fallback(section', 0, n)
             First(k) == (k - 1) * FallbackStep
  <2>2. /\ n \in Nat /\ n > 0 /\ FallbackEnd(section', n) = b
    BY <2>1, <1>10, <1>11 DEF FallbackCount
  <2>3. FallbackStep \in Nat /\ Room \in Nat \ {0} /\ size \in Nat
    BY <1>1, SizeLemma, RoomLemma DEF FallbackStep, Greater, ChunkInv
  <2>4. ASSUME NEW k \in 1..n
        PROVE  First(k) \in Nat /\ FallbackEnd(section', k) \in Nat
    <3>1. k - 1 \in Nat
      OBVIOUS
    <3>2. First(k) \in Nat
      BY <3>1, <2>3
    <3> QED
      BY <3>2, <2>3, <1>10, <1>11 DEF FallbackEnd, Lesser
  <2>5. /\ all = [k \in 1..n |-> Piece(First(k), FallbackEnd(section', k), 0)]
    BY DEF Fallback
  <2> HIDE DEF First, all
  <2>6. /\ Len(all) = n /\ all \in Seq({all[k] : k \in 1..n})
        /\ \A k \in 1..n : /\ all[k].from = all[k].start /\ all[k].to = all[k].end
                            /\ all[k].end = FallbackEnd(section', k)
    <3>1. \A k \in 1..n : all[k] = Piece(First(k), FallbackEnd(section', k), 0)
      BY <2>5
    <3>2. \A k \in 1..n : /\ all[k].from = all[k].start /\ all[k].to = all[k].end
                            /\ all[k].end = FallbackEnd(section', k)
      <4>1. \A x, y \in Nat : LET p == Piece(x, y, 0) IN p.from = p.start /\ p.to = p.end /\ p.end = y
        BY DEF Piece
      <4> QED
        BY <4>1, <3>1, <2>4
    <3>3. DOMAIN all = 1..n /\ all \in [1..n -> {all[k] : k \in 1..n}]
      BY <2>5
    <3>4. Len(all) = n /\ all \in Seq({all[k] : k \in 1..n})
      <4> DEFINE A == {all[k] : k \in 1..n}
      <4>1. all \in [1..n -> A] /\ n \in Nat
        BY <3>3, <2>2
      <4> HIDE DEF A
      <4>2. Len(all) = n /\ all \in Seq(A)
        BY <4>1
      <4> QED
        BY <4>2 DEF A
    <3> QED
      BY <3>2, <3>4
  <2> DEFINE c == Lesser(n, Room)
  <2>7. c \in Nat /\ c <= n /\ (n <= Room => c = n)
    BY <2>2, <2>3 DEF Lesser
  <2>8. pieces' = SubSeq(all, 1, c)
    BY <2>1, <2>6 DEF Cut, all
  <2> HIDE DEF c
  <2>9. /\ Len(pieces') = c /\ DOMAIN pieces' = 1..c
        /\ \A k \in 1..c : pieces'[k] = all[k] /\ k \in 1..n
    BY <2>6, <2>7, <2>8
  <2>10. Unshifted(pieces')
    BY <2>6, <2>9 DEF Unshifted
  <2>11. ASSUME ~full' PROVE Reaches(pieces', b)
    <3>1. c = n
      <4>1. ~(n > Room)
        BY <2>1, <2>11
      <4> QED
        BY <4>1, <2>2, <2>3, <2>7
    <3>2. n \in 1..n /\ pieces' # <<>>
      BY <3>1, <2>2, <2>9
    <3> QED
      BY <3>1, <3>2, <2>2, <2>6, <2>9 DEF Reaches
  <2> QED
    BY <2>10, <2>11
<1>14. Unshifted(pieces')
  <2>1. CASE at' = "window"
    <3>1. pieces' = <<>>
      BY <2>1, <1>5
    <3> QED
      BY <3>1 DEF Unshifted
  <2> QED
    BY <2>1, <1>7, <1>13
<1>15. TrimInv'
  BY <1>1, <1>10, <1>11, <1>12, <1>14 DEF TrimInv, Unshifted
<1>16. ReachInv'
  BY <1>11, <1>13 DEF ReachInv, Reaches
<1>17. CoveredInv'
  <2>1. full => full'
    BY <1>5
  <2>2. Past' = Past
    BY <1>1, <1>7 DEF Past
  <2>3. CoveredInv
    BY <1>1, <1>8 DEF WordsInv
  <2> QED
    BY <2>1, <2>2, <2>3, <1>1 DEF CoveredInv, Kept, InWord, Text
<1> QED
  BY <1>15, <1>16, <1>17

\* One window more.
LEMMA CutWords ==
    ASSUME ChunkInv, WordsInv, CutWindow
    PROVE  WordsInv'
<1>1. /\ at = "window" /\ size \in ChunkSizes /\ size' = size /\ text' = text /\ begin' = begin
      /\ section \in Seq(Kinds) /\ start \in Nat /\ start < Len(section)
      /\ section' = section /\ lead' = lead /\ result' = result /\ dropped' = dropped
      /\ Len(section) \in Nat
  BY DEF ChunkInv, SectionInv, StartInv, CutWindow
<1>2. PICK e \in 0..Len(section) :
        /\ IsWindowEnd(section, start, e)
        /\ pieces' = Append(pieces, Piece(start, e, lead))
        /\ IF Len(pieces) + 1 >= Room \/ e >= Len(section)
           THEN at' = "close" /\ start' = start /\ full' = (full \/ e < Len(section))
           ELSE full' = full /\ \E next \in 0..(Len(section) + LoopSize) :
                  /\ IsNextStart(section, start, e, next)
                  /\ start' = next
                  /\ at' = IF next < Len(section) THEN "window" ELSE "close"
  BY DEF CutWindow
<1>3. LoopSize' = LoopSize /\ (Premise' <=> Premise) /\ at' \in {"window", "close"}
  BY <1>1, <1>2 DEF LoopSize, Premise
<1>4. FrontInv'
  BY <1>1 DEF WordsInv, FrontInv
<1>5. SUFFICES ASSUME Premise
               PROVE  TrimInv' /\ ReachInv' /\ CoveredInv'
  BY <1>3, <1>4 DEF WordsInv
<1>6. TrimInv /\ CoveredInv /\ lead = 0
  BY <1>1, <1>5 DEF WordsInv, TrimInv
<1> DEFINE n == Len(pieces)
<1>7. /\ n \in Nat /\ DOMAIN pieces = 1..n /\ DOMAIN pieces' = 1..(n + 1) /\ Len(pieces') = n + 1
      /\ pieces'[n + 1] = Piece(start, e, 0)
      /\ \A i \in 1..n : pieces'[i] = pieces[i]
  <2>1. pieces \in Seq(PieceAt(Len(section), Len(section) + lead))
    BY DEF ChunkInv, PiecesInv, PiecesAre
  <2>2. Piece(start, e, 0) \in PieceAt(Len(section), Len(section) + lead)
    BY <1>1, <1>6, <1>2, EndLemma DEF Piece, PieceAt
  <2> QED
    BY <2>1, <2>2, <1>2, <1>6
<1>8. /\ Piece(start, e, 0).from = Piece(start, e, 0).start
      /\ Piece(start, e, 0).to = Piece(start, e, 0).end
      /\ Piece(start, e, 0).end = e
  BY <1>1 DEF Piece
<1>9. TrimInv'
  <2>1. Unshifted(pieces')
    <3>1. \A i \in 1..(n + 1) : i \in 1..n \/ i = n + 1
      BY <1>7
    <3> QED
      BY <3>1, <1>6, <1>7, <1>8, <1>1 DEF TrimInv, Unshifted
  <2> QED
    BY <2>1, <1>1, <1>6 DEF TrimInv, IsSectionEnd, Boundaries, IsHeader
<1>10. ReachInv'
  <2> SUFFICES ASSUME at' = "close", ~full'
               PROVE  Reaches(pieces', Len(section))
    BY <1>1 DEF ReachInv, Reaches
  <2>1. CASE e < Len(section)
    <3>1. ~(Len(pieces) + 1 >= Room \/ e >= Len(section))
      <4>1. CASE Len(pieces) + 1 >= Room \/ e >= Len(section)
        BY <4>1, <2>1, <1>2
      <4> QED
        BY <4>1
    <3>2. PICK next \in 0..(Len(section) + LoopSize) :
            IsNextStart(section, start, e, next) /\ ~(next < Len(section))
      BY <3>1, <1>2
    <3>3. /\ LoopSize \in Nat /\ Overlap \in Nat /\ next \in Nat
      BY <1>1, SizeLemma
    <3>4. LoopSize >= Forward
      BY <1>5 DEF Premise
    <3>5. e >= start + LoopSize
      BY <1>1, <1>2, <2>1, <3>4, EndLemma
    <3>6. next <= e - Overlap
      BY <1>1, <3>2, <3>3, <3>5, NextLemma
    <3> QED
      BY <2>1, <3>2, <3>3, <3>6, <1>1
  <2>2. CASE e = Len(section)
    BY <2>2, <1>7, <1>8 DEF Reaches
  <2> QED
    BY <2>1, <2>2, <1>1
<1>11. CoveredInv'
  <2>1. full => full'
    BY <1>2
  <2>2. Past' = Past
    BY <1>1, <1>3 DEF Past
  <2> QED
    BY <2>1, <2>2, <1>6, <1>1 DEF CoveredInv, Kept, InWord, Text
<1> QED
  BY <1>9, <1>10, <1>11

\* A piece that is left out is in dropped, any other one in the result.
LEMMA CloseFiles ==
    ASSUME ChunkInv, CloseSection
    PROVE  LET merged == MergeTail(pieces) IN
           /\ dropped \subseteq dropped'
           /\ Len(merged) <= Len(pieces) =>
                /\ \A k \in DOMAIN result : \E i \in DOMAIN result' : result'[i] = result[k]
                /\ \A k \in DOMAIN merged :
                     Placed(merged[k]) \in dropped' \cup {result'[i] : i \in DOMAIN result'}
<1> DEFINE merged == MergeTail(pieces)
           r == Len(result)
<1>1. PICK f \in KeptIndexes(merged) :
        result' = Cut(result \o [i \in DOMAIN f |-> Placed(merged[f[i]])], MaxChunks)
  BY DEF CloseSection
<1>2. dropped' = dropped \cup {Placed(merged[i]) : i \in {j \in DOMAIN merged :
                                                             ~Wordy(Placed(merged[j]))}}
  BY DEF CloseSection
<1>3. SUFFICES ASSUME Len(merged) <= Len(pieces)
      PROVE  /\ \A k \in DOMAIN result : \E i \in DOMAIN result' : result'[i] = result[k]
             /\ \A k \in DOMAIN merged :
                  Placed(merged[k]) \in dropped' \cup {result'[i] : i \in DOMAIN result'}
  BY <1>2
<1>4. /\ at = "close" /\ r \in Nat /\ r < MaxChunks /\ MaxChunks \in Nat
      /\ result \in Seq(PieceAt(Len(text), Len(text))) /\ Len(pieces) \in Nat
      /\ Len(pieces) <= Room /\ Room = MaxChunks - r
  <2>1. at = "close"
    BY DEF CloseSection
  <2>2. /\ r < MaxChunks /\ result \in Seq(PieceAt(Len(text), Len(text))) /\ Len(pieces) <= Room
        /\ MaxChunks \in Nat /\ pieces \in Seq(PieceAt(Len(section), Len(section) + lead))
    BY <2>1, ChunkAssumption DEF ChunkAssumption, ChunkInv, PiecesInv, PiecesAre, ResultInv
  <2>3. r \in Nat /\ Len(pieces) \in Nat
    BY <2>2
  <2> QED
    BY <2>1, <2>2, <2>3 DEF Room, Greater
<1>5. PICK d \in 0..Len(merged) : f \in [1..d -> DOMAIN merged]
  BY DEF KeptIndexes
<1>6. Len(merged) \in Nat
  <2>1. lead \in Nat /\ Len(section) \in Nat
    BY DEF ChunkInv, SectionInv
  <2>2. PiecesAre(merged, Len(section), Len(section) + lead)
    BY <2>1, MergeKeeps DEF ChunkInv, PiecesInv
  <2> QED
    BY <2>2 DEF PiecesAre
<1>7. \A j \in DOMAIN merged : Wordy(Placed(merged[j])) => \E i \in DOMAIN f : f[i] = j
  BY DEF KeptIndexes
<1> DEFINE more == [i \in DOMAIN f |-> Placed(merged[f[i]])]
           all == result \o more
<1>8. more \in Seq({more[i] : i \in 1..d}) /\ Len(more) = d /\ DOMAIN more = 1..d /\ d \in Nat
  <2>1. d \in Nat
    BY <1>5, <1>6
  <2>2. DOMAIN f = 1..d
    BY <1>5
  <2>3. more = [i \in 1..d |-> Placed(merged[f[i]])]
    BY <2>2
  <2> HIDE DEF more
  <2>4. more \in [1..d -> {more[i] : i \in 1..d}]
    BY <2>3
  <2> DEFINE A == {more[i] : i \in 1..d}
  <2> HIDE DEF A
  <2>5. more \in [1..d -> A]
    BY <2>4 DEF A
  <2>6. more \in Seq(A) /\ Len(more) = d /\ DOMAIN more = 1..d
    BY <2>1, <2>5
  <2> QED
    BY <2>1, <2>6 DEF A
<1>9. \A i \in 1..d : more[i] = Placed(merged[f[i]])
  BY <1>5
<1>10. result' = Cut(all, MaxChunks)
  BY <1>1
<1> HIDE DEF more
<1>11. r + d <= MaxChunks
  <2>1. d \in Nat /\ d <= Len(merged)
    BY <1>5, <1>6
  <2> QED
    BY <2>1, <1>3, <1>4, <1>6
<1>12. /\ DOMAIN result' = 1..(r + d)
       /\ \A i \in 1..r : result'[i] = result[i]
       /\ \A i \in 1..d : result'[r + i] = more[i]
  <2> DEFINE B == PieceAt(Len(text), Len(text)) \cup {more[i] : i \in 1..d}
  <2>1. result \in Seq(B) /\ more \in Seq(B)
    <3>1. \A i \in 1..r : result[i] \in B
      BY <1>4
    <3>2. \A i \in 1..d : more[i] \in B
      OBVIOUS
    <3> HIDE DEF B
    <3>3. result \in Seq(B)
      BY <3>1, <1>4
    <3>4. more \in Seq(B)
      BY <3>2, <1>8
    <3> QED
      BY <3>3, <3>4
  <2> HIDE DEF B
  <2>2. /\ all \in Seq(B) /\ Len(all) = r + d
        /\ \A i \in 1..r : all[i] = result[i]
        /\ \A i \in 1..d : all[r + i] = more[i]
    <3>1. r \in Nat /\ Len(result) = r /\ Len(more) = d
      BY <2>1, <1>8, <1>4
    <3>2. /\ result \o more \in Seq(B) /\ Len(result \o more) = Len(result) + Len(more)
          /\ \A i \in 1..Len(result) : (result \o more)[i] = result[i]
          /\ \A i \in 1..Len(more) : (result \o more)[Len(result) + i] = more[i]
      BY <2>1
    <3> QED
      BY <3>1, <3>2
  <2> HIDE DEF all
  <2>3. Lesser(Len(all), MaxChunks) = r + d
    <3>1. r \in Nat /\ d \in Nat /\ MaxChunks \in Nat
      BY <1>4, <1>8
    <3> HIDE DEF r
    <3>2. Len(all) = r + d
      BY <2>2
    <3> QED
      BY <3>1, <3>2, <1>11 DEF Lesser
  <2>4. result' = SubSeq(all, 1, r + d)
    BY <2>3, <1>10 DEF Cut
  <2>5. /\ DOMAIN result' = 1..(r + d)
        /\ \A i \in 1..(r + d) : result'[i] = all[i]
    BY <2>2, <2>4, <1>4, <1>8
  <2>6. \A i \in 1..r : i \in 1..(r + d)
    BY <1>4, <1>8
  <2>7. \A i \in 1..d : r + i \in 1..(r + d)
    BY <1>4, <1>8
  <2> QED
    BY <2>2, <2>5, <2>6, <2>7
<1>13. \A k \in DOMAIN result : \E i \in DOMAIN result' : result'[i] = result[k]
  <2>1. DOMAIN result = 1..r /\ \A i \in 1..r : i \in 1..(r + d)
    BY <1>4, <1>8
  <2> QED
    BY <2>1, <1>12
<1>14. ASSUME NEW k \in DOMAIN merged
       PROVE  Placed(merged[k]) \in dropped' \cup {result'[i] : i \in DOMAIN result'}
  <2> HIDE DEF merged
  <2>1. CASE ~Wordy(Placed(merged[k]))
    BY <2>1, <1>2
  <2>2. CASE Wordy(Placed(merged[k]))
    <3>1. PICK i \in 1..d : f[i] = k
      BY <2>2, <1>5, <1>7
    <3>2. result'[r + i] = Placed(merged[k])
      BY <3>1, <1>9, <1>12
    <3>3. r + i \in DOMAIN result'
      BY <1>12, <1>4, <1>8
    <3> QED
      BY <3>2, <3>3
  <2> QED
    BY <2>1, <2>2
<1> QED
  BY <1>13, <1>14

\* The section is dealt with: its words are covered as well.
LEMMA CloseWords ==
    ASSUME ChunkInv, WordsInv, CloseSection
    PROVE  WordsInv'
<1> DEFINE merged == MergeTail(pieces)
           h == Len(section)
<1>1. /\ at = "close" /\ text \in Seq(Kinds) /\ size \in ChunkSizes /\ begin \in 0..Len(text)
      /\ text' = text /\ size' = size /\ full \in BOOLEAN /\ h \in Nat
      /\ Len(text) \in Nat /\ begin \in Nat
  BY DEF CloseSection, ChunkInv, SectionInv
<1>2. PICK e \in 0..Len(text) : IsSectionEnd(e) /\
         IF Len(result') >= MaxChunks \/ e = Len(text)
         THEN at' = "done" /\ begin' = begin /\ full' = (full \/ e < Len(text))
         ELSE at' = "open" /\ begin' = e /\ full' = full
  BY DEF CloseSection
<1>3. at' \in {"open", "done"} /\ (Premise' <=> Premise)
  BY <1>1, <1>2 DEF Premise, LoopSize
<1>4. FrontInv'
  <2>1. CASE at' = "done"
    BY <2>1, <1>1, <1>2 DEF WordsInv, FrontInv
  <2>2. CASE at' = "open"
    <3>1. begin' = e /\ e # Len(text)
      BY <2>2, <1>2
    <3>2. e > 0 => IsHeader(e)
      BY <3>1, <1>2 DEF IsSectionEnd, Boundaries
    <3> QED
      BY <3>1, <3>2, <1>1 DEF WordsInv, FrontInv, IsHeader
  <2> QED
    BY <2>1, <2>2, <1>3
<1>5. TrimInv' /\ ReachInv'
  BY <1>3 DEF TrimInv, ReachInv
<1>6. SUFFICES ASSUME Premise, ~full'
               PROVE  \A i \in 0..(e - 1) : InWord(i) => Kept(i)'
  <2>1. ~full' => Past' = e
    <3> SUFFICES ASSUME ~full' PROVE Past' = e
      OBVIOUS
    <3>1. CASE at' = "done"
      <4>1. full' = (full \/ e < Len(text))
        BY <3>1, <1>2
      <4>2. ~(e < Len(text))
        BY <4>1
      <4> QED
        BY <3>1, <4>2, <1>1 DEF Past
    <3>2. CASE at' = "open"
      BY <3>2, <1>2 DEF Past
    <3> QED
      BY <3>1, <3>2, <1>3
  <2> QED
    BY <2>1, <1>1, <1>3, <1>4, <1>5 DEF WordsInv, CoveredInv, InWord
<1>7. ~full
  BY <1>2, <1>6
<1>8. /\ lead = 0 /\ Unshifted(pieces) /\ Reaches(pieces, h)
      /\ \A i \in (begin + h)..(e - 1) : text[i + 1] = "space"
      /\ \A i \in 0..(begin - 1) : InWord(i) => Kept(i)
  BY <1>1, <1>2, <1>6, <1>7 DEF WordsInv, TrimInv, ReachInv, CoveredInv, Past
<1>9. PiecesAre(pieces, h, h) /\ WindowsAre(LoopSize, pieces)
  <2>1. h + 0 = h
    BY <1>1
  <2> QED
    BY <2>1, <1>8 DEF ChunkInv, PiecesInv
<1>10. /\ Unshifted(merged) /\ Len(merged) <= Len(pieces)
       /\ \A j \in 0..(h - 1) :
             (\E k \in DOMAIN pieces : pieces[k].start <= j /\ j < pieces[k].end) =>
             \E k \in DOMAIN merged : merged[k].start <= j /\ j < merged[k].end
  BY <1>1, <1>8, <1>9, MergeCovers
<1>11. /\ dropped \subseteq dropped'
       /\ \A k \in DOMAIN result : \E i \in DOMAIN result' : result'[i] = result[k]
       /\ \A k \in DOMAIN merged :
            Placed(merged[k]) \in dropped' \cup {result'[i] : i \in DOMAIN result'}
  BY <1>10, CloseFiles
<1>12. PiecesAre(merged, h, h)
  <2>1. h + 0 = h
    BY <1>1
  <2> QED
    BY <2>1, <1>1, <1>9, MergeKeeps
<1> HIDE DEF merged, h
<1>13. SUFFICES ASSUME NEW i \in 0..(e - 1), InWord(i)
                PROVE  \E c \in dropped' \cup {result'[k] : k \in DOMAIN result'} : i \in Text(c)
  BY DEF Kept, Text
<1>14. i \in Nat /\ i < e /\ e \in Nat
  BY <1>1, <1>2
<1>15. CASE i < begin
  <2>1. PICK c \in dropped \cup {result[k] : k \in DOMAIN result} : i \in Text(c)
    BY <1>1, <1>8, <1>13, <1>14, <1>15 DEF Kept
  <2> QED
    BY <2>1, <1>11
<1>16. CASE begin <= i /\ i < begin + h
  <2>1. i - begin \in 0..(h - 1)
    BY <1>1, <1>14, <1>16
  <2>2. LoopSize \in Nat /\ Overlap \in Nat /\ LoopSize >= Forward
    BY <1>1, <1>6, SizeLemma DEF Premise
  <2>3. \E k \in DOMAIN pieces : pieces[k].start <= i - begin /\ i - begin < pieces[k].end
    BY <2>1, <2>2, <1>1, <1>8, <1>9, CoverLemma
  <2>4. PICK k \in DOMAIN merged : merged[k].start <= i - begin /\ i - begin < merged[k].end
    BY <2>1, <2>3, <1>10
  <2>5. merged[k].start \in Nat /\ merged[k].end \in Nat
    <3>1. merged[k] \in PieceAt(h, h)
      BY <1>12 DEF PiecesAre
    <3> QED
      BY <3>1, <1>1 DEF PieceAt
  <2>6. merged[k].from = merged[k].start /\ merged[k].to = merged[k].end
    BY <1>10 DEF Unshifted
  <2>7. i \in (begin + merged[k].from)..((begin + merged[k].to) - 1)
    BY <2>4, <2>5, <2>6, <1>1, <1>14
  <2>8. i \in Text(Placed(merged[k]))
    BY <2>7 DEF Text, Range2, Placed
  <2> QED
    BY <2>8, <1>11
<1>17. CASE begin + h <= i
  <2>1. i \in (begin + h)..(e - 1)
    BY <1>1, <1>14, <1>17
  <2>2. text[i + 1] = "space"
    BY <2>1, <1>8
  <2> QED
    BY <2>2, <1>13 DEF InWord
<1> QED
  BY <1>1, <1>14, <1>15, <1>16, <1>17

LEMMA InitWords == ASSUME Init PROVE WordsInv
<1>1. text \in Seq(Kinds)
  BY ChunkAssumption DEF Init, ChunkInit, ChunkAssumption
<1>2. /\ begin = 0 /\ at = "open" /\ \E i \in 1..Len(text) : text[i] # "space"
  BY DEF Init, ChunkInit
<1>3. FrontInv
  BY <1>1, <1>2 DEF FrontInv
<1> QED
  BY <1>2, <1>3 DEF WordsInv, TrimInv, ReachInv, CoveredInv, Past

LEMMA WordsInvariant == Spec => []WordsInv
<1>1. Init => WordsInv
  BY InitWords
<1>2. ChunkInv /\ WordsInv /\ [Next]_vars => WordsInv'
  <2> SUFFICES ASSUME ChunkInv, WordsInv, [Next]_vars PROVE WordsInv'
    OBVIOUS
  <2>1. CASE OpenSection
    BY <2>1, OpenWords
  <2>2. CASE CutWindow
    BY <2>2, CutWords
  <2>3. CASE CloseSection
    BY <2>3, CloseWords
  <2>4. CASE Compare
    BY <2>4 DEF Compare, WordsInv, FrontInv
  <2>5. CASE UNCHANGED chunkVars
    BY <2>5 DEF chunkVars, WordsInv, FrontInv, Premise, LoopSize, TrimInv, ReachInv, Reaches,
           CoveredInv, Past, Kept, InWord, Text, Unshifted, IsSectionEnd, Boundaries, IsHeader
  <2> QED
    BY <2>1, <2>2, <2>3, <2>4, <2>5 DEF Next, ChunkNext, vars
<1> QED
  BY <1>1, <1>2, ChunkInvariant, PTL DEF Spec

\* Every character of a word is in a chunk or in a piece left out for its few words, if
\* max_chunks did not cut the document: chunk_document loses nothing between windows, at
\* section borders and in the merged tail.
THEOREM NoWordIsLost == Spec => []WordsKept
<1>1. WordsInv => WordsKept
  BY DEF WordsInv, Premise, CoveredInv, Past, Kept, WordsKept
<1> QED
  BY <1>1, WordsInvariant, PTL
=============================================================================
