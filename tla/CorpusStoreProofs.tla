--------------------------- MODULE CorpusStoreProofs ---------------------------
(***************************************************************************)
(* Proofs about CorpusStore, for any files, names, sizes and clerks: the   *)
(* tables have their types, no operation, batch, purge or death loses a    *)
(* chunk, and with one clerk none changes the order of two.                *)
(*                                                                         *)
(* The first lemmas are about tables indexed by vector_id: what joining,   *)
(* thinning out and renumbering one does to the set of its rows.           *)
(* TablesInv is what the operations need of each other; it speaks of the   *)
(* tables only, since a clerk's lists may be as stale as they like.        *)
(***************************************************************************)
EXTENDS CorpusStore, FiniteSetTheorems, TLAPS

-----------------------------------------------------------------------------
(* Tables *)

\* A finite set of numbers has a greatest element.
LEMMA GreatestLemma ==
    ASSUME NEW S \in SUBSET Nat, IsFiniteSet(S), S # {}
    PROVE  \E m \in S : \A i \in S : i <= m
<1> DEFINE above(x) == {z \in S : z > x}
<1> DEFINE T == {above(x) : x \in S}
<1>1. T \subseteq FiniteSubsetsOf(S)
  BY FS_FiniteSubsetsOfFinite
<1>2. T # {}
  OBVIOUS
<1>3. PICK u \in T : \A v \in T : <<v, u>> \notin StrictSubsetOrdering(S)
  <2> HIDE DEF T
  <2> QED BY <1>1, <1>2, FS_StrictSubsetOrderingWellFounded, WFMin
<1>4. PICK m \in S : u = above(m)
  OBVIOUS
<1>5. ASSUME NEW i \in S, i > m PROVE FALSE
  <2>1. i \in Nat /\ m \in Nat /\ \A z \in S : z \in Nat
    OBVIOUS
  <2>3. \A z \in S : z > i => z > m
    BY <1>5, <2>1
  <2>4. ~(i > i)
    BY <2>1
  <2>5. above(i) \subseteq above(m) /\ i \in above(m) /\ i \notin above(i)
    BY <1>5, <2>3, <2>4
  <2>2. <<above(i), u>> \in StrictSubsetOrdering(S)
    BY <2>5, <1>4 DEF StrictSubsetOrdering
  <2> QED BY <1>3, <2>2
<1>6. \A i \in S : i \in Nat
  OBVIOUS
<1> QED BY <1>4, <1>5, <1>6

\* The next vector_id is a number above all that are taken.
LEMMA NextIdLemma ==
    ASSUME IsFiniteSet(DOMAIN chunks), DOMAIN chunks \subseteq Nat
    PROVE  NextId \in Nat /\ \A i \in DOMAIN chunks : i < NextId
<1> DEFINE C == {0} \cup {i + 1 : i \in DOMAIN chunks}
<1>1. \E n \in C : \A i \in DOMAIN chunks : i < n
  <2>1. CASE DOMAIN chunks = {}
    BY <2>1
  <2>2. CASE DOMAIN chunks # {}
    <3>1. PICK m \in DOMAIN chunks : \A i \in DOMAIN chunks : i <= m
      BY <2>2, GreatestLemma
    <3> QED BY <3>1
  <2> QED BY <2>1, <2>2
<1>2. C \subseteq Nat
  OBVIOUS
<1>3. NextId \in C /\ \A i \in DOMAIN chunks : i < NextId
  <2> HIDE DEF C
  <2> SUFFICES (CHOOSE n \in C : \A i \in DOMAIN chunks : i < n) = NextId
    BY <1>1
  <2> QED BY DEF NextId, C
<1> QED BY <1>2, <1>3

\* The new id of a row is a number, and selected rows keep their order.
LEMMA RankLemma ==
    ASSUME NEW L \in SUBSET Nat, NEW i \in Nat
    PROVE  IsFiniteSet({j \in L : j < i}) /\ Rank(i, L) \in Nat /\ NewId(i, L) \in Nat
<1>1. {j \in L : j < i} \subseteq 0..i
  <2> SUFFICES ASSUME NEW j \in L, j < i PROVE j \in 0..i
    OBVIOUS
  <2>1. j \in Nat
    OBVIOUS
  <2> QED BY <2>1
<1>2. IsFiniteSet(0..i)
  BY FS_Interval
<1>3. IsFiniteSet({j \in L : j < i})
  BY <1>1, <1>2, FS_Subset
<1> QED BY <1>3, FS_CardinalityType DEF Rank, NewId

LEMMA RankGrows ==
    ASSUME NEW L \in SUBSET Nat, NEW i \in L, NEW j \in L, i < j
    PROVE  Rank(i, L) < Rank(j, L)
<1> DEFINE low == {k \in L : k < i}
<1> DEFINE high == {k \in L : k < j}
<1>1. low \subseteq high /\ i \in high /\ i \notin low
  <2>1. i \in Nat /\ j \in Nat /\ \A k \in L : k \in Nat
    OBVIOUS
  <2>2. \A k \in L : k < i => k < j
    BY <2>1
  <2>3. ~(i < i)
    BY <2>1
  <2> QED BY <2>2, <2>3
<1>2. IsFiniteSet(low) /\ IsFiniteSet(high)
  BY RankLemma
<1>3. Cardinality(low) <= Cardinality(high) /\ Cardinality(low) # Cardinality(high)
  BY <1>1, <1>2, FS_Subset
<1>4. Cardinality(low) \in Nat /\ Cardinality(high) \in Nat
  BY <1>2, FS_CardinalityType
<1> QED BY <1>3, <1>4 DEF Rank

\* The ranks in a finite set are the numbers below its size.
LEMMA RankOnto ==
    ASSUME NEW L, L \subseteq Nat, IsFiniteSet(L)
    PROVE  /\ \A i \in L : Rank(i, L) \in 0..(Cardinality(L) - 1)
           /\ \A i, j \in L : Rank(i, L) = Rank(j, L) => i = j
           /\ \A r \in 0..(Cardinality(L) - 1) : \E i \in L : Rank(i, L) = r
<1> DEFINE N == Cardinality(L)
<1> DEFINE f == [i \in L |-> Rank(i, L)]
<1>1. N \in Nat
  BY FS_CardinalityType
<1>2. ASSUME NEW i \in L PROVE Rank(i, L) \in 0..(N - 1)
  <2> DEFINE low == {j \in L : j < i}
  <2>1. low \subseteq L /\ i \notin low
    OBVIOUS
  <2>2. IsFiniteSet(low) /\ Cardinality(low) <= N /\ Cardinality(low) # N /\ Cardinality(low) \in Nat
    BY <2>1, FS_Subset, FS_CardinalityType
  <2> QED BY <1>1, <2>2 DEF Rank
<1>3. f \in Injection(L, 0..(N - 1))
  <2>1. f \in [L -> 0..(N - 1)]
    BY <1>2
  <2>2. ASSUME NEW i \in L, NEW j \in L, f[i] = f[j] PROVE i = j
    <3>1. i \in Nat /\ j \in Nat /\ Rank(i, L) = Rank(j, L) /\ Rank(i, L) \in Nat
      BY <1>2, <2>2
    <3>2. L \in SUBSET Nat
      OBVIOUS
    <3>3. i < j => Rank(i, L) < Rank(j, L)
      BY <3>2, RankGrows
    <3>4. j < i => Rank(j, L) < Rank(i, L)
      BY <3>2, RankGrows
    <3> QED BY <3>1, <3>3, <3>4
  <2> QED BY <2>1, <2>2 DEF Injection, IsInjective
<1>4. f \in Surjection(L, 0..(N - 1))
  <2>1. IsFiniteSet(0..(N - 1)) /\ Cardinality(0..(N - 1)) = N
    <3> HIDE DEF N
    <3>1. 0 \in Int /\ N - 1 \in Int
      BY <1>1
    <3>2. IsFiniteSet(0..(N - 1)) /\ Cardinality(0..(N - 1)) = IF 0 > N - 1 THEN 0 ELSE N - 1 - 0 + 1
      BY <3>1, FS_Interval
    <3> QED BY <1>1, <3>2
  <2> QED BY <1>3, <2>1, FS_Injection
<1>5. \A r \in 0..(N - 1) : \E i \in L : Rank(i, L) = r
  BY <1>4 DEF Surjection
<1>6. \A i, j \in L : Rank(i, L) = Rank(j, L) => i = j
  BY <1>3 DEF Injection, IsInjective
<1> QED BY <1>2, <1>5, <1>6

\* What every table is.
IsTable(t) == IsFiniteSet(DOMAIN t) /\ DOMAIN t \subseteq Nat /\ Range(t) \subseteq Row

\* Renumbering invents no row, and loses none if it does not run into an id.
LEMMA RenumberLemma ==
    ASSUME NEW t, IsTable(t), NEW L \in SUBSET Nat
    PROVE  /\ IsTable(Renumbered(t, L))
           /\ Range(Renumbered(t, L)) \subseteq Range(t)
           /\ CanRenumber(t, L) => Range(Renumbered(t, L)) = Range(t)
<1> DEFINE D == {NewId(i, L) : i \in DOMAIN t}
<1> DEFINE f == [i \in DOMAIN t |-> NewId(i, L)]
<1> DEFINE old(r) == CHOOSE i \in DOMAIN t : NewId(i, L) = r
<1>1. f \in Surjection(DOMAIN t, D)
  BY DEF Surjection
<1>2. IsFiniteSet(D)
  BY <1>1, FS_Surjection DEF IsTable
<1>3. D \subseteq Nat
  BY RankLemma DEF IsTable
<1>4. ASSUME NEW r \in D PROVE old(r) \in DOMAIN t /\ NewId(old(r), L) = r
  OBVIOUS
<1>5. Renumbered(t, L) = [r \in D |-> t[old(r)]]
  BY DEF Renumbered
<1>6. Range(Renumbered(t, L)) \subseteq Range(t)
  <2> HIDE DEF D, old
  <2> QED BY <1>4, <1>5 DEF Range
<1>7. ASSUME CanRenumber(t, L), NEW i \in DOMAIN t PROVE t[i] \in Range(Renumbered(t, L))
  <2>1. NewId(i, L) \in D
    OBVIOUS
  <2>2. old(NewId(i, L)) = i
    BY <1>4, <1>7, <2>1 DEF CanRenumber
  <2> HIDE DEF D, old
  <2> QED BY <1>5, <2>1, <2>2 DEF Range
<1>8. Range(t) \subseteq Range(Renumbered(t, L)) \/ ~CanRenumber(t, L)
  BY <1>7 DEF Range
<1>9. IsTable(Renumbered(t, L))
  <2> HIDE DEF D, old
  <2> QED BY <1>2, <1>3, <1>5, <1>6 DEF IsTable
<1> QED BY <1>6, <1>8, <1>9

\* Compacting a whole table always succeeds and keeps its rows.
LEMMA CompactLemma ==
    ASSUME NEW t, IsTable(t)
    PROVE  IsTable(Compacted(t)) /\ Range(Compacted(t)) = Range(t)
<1>1. CanRenumber(t, DOMAIN t)
  BY RankOnto DEF CanRenumber, NewId, IsTable
<1> QED BY <1>1, RenumberLemma DEF Compacted, IsTable

\* A table without gaps, which is what compacting yields.
IsDense(t) == \E N \in Nat : DOMAIN t = 0..(N - 1)

LEMMA CompactIsDense ==
    ASSUME NEW t, IsTable(t)
    PROVE  IsDense(Compacted(t))
<1> DEFINE N == Cardinality(DOMAIN t)
<1>1. N \in Nat
  BY FS_CardinalityType DEF IsTable
<1>2. DOMAIN Compacted(t) = {Rank(i, DOMAIN t) : i \in DOMAIN t}
  BY DEF Compacted, Renumbered, NewId
<1>3. {Rank(i, DOMAIN t) : i \in DOMAIN t} = 0..(N - 1)
  BY RankOnto DEF IsTable
<1> HIDE DEF N
<1> QED BY <1>1, <1>2, <1>3 DEF IsDense

\* The rows of two tables with different ids, together.
LEMMA JoinLemma ==
    ASSUME NEW t, IsTable(t), NEW u, IsTable(u), DOMAIN t \cap DOMAIN u = {}
    PROVE  IsTable(Join(t, u)) /\ Range(Join(t, u)) = Range(t) \cup Range(u)
<1>1. DOMAIN Join(t, u) = DOMAIN t \cup DOMAIN u
  BY DEF Join
<1>2. \A i \in DOMAIN t : Join(t, u)[i] = t[i]
  BY DEF Join
<1>3. \A i \in DOMAIN u : Join(t, u)[i] = u[i]
  BY DEF Join
<1>4. Range(Join(t, u)) = Range(t) \cup Range(u)
  BY <1>1, <1>2, <1>3 DEF Range
<1>5. IsFiniteSet(DOMAIN Join(t, u))
  BY <1>1, FS_Union DEF IsTable
<1> QED BY <1>1, <1>4, <1>5 DEF IsTable

\* The rows of a table without those of some documents, and those alone.
LEMMA WithoutLemma ==
    ASSUME NEW t, IsTable(t), NEW S
    PROVE  /\ IsTable(Without(t, S)) /\ IsTable(Restrict(t, IdsOf(t, S)))
           /\ Range(Without(t, S)) = {r \in Range(t) : r.doc \notin S}
           /\ Range(Restrict(t, IdsOf(t, S))) = {r \in Range(t) : r.doc \in S}
           /\ DOMAIN Restrict(t, IdsOf(t, S)) = IdsOf(t, S)
           /\ IsFiniteSet(IdsOf(t, S)) /\ IdsOf(t, S) \subseteq DOMAIN t
<1>1. DOMAIN Without(t, S) = {i \in DOMAIN t : t[i].doc \notin S}
  BY DEF Without, IdsOf, Restrict
<1>2. \A i \in DOMAIN Without(t, S) : Without(t, S)[i] = t[i]
  BY DEF Without, IdsOf, Restrict
<1>3. Range(Without(t, S)) = {r \in Range(t) : r.doc \notin S}
  BY <1>1, <1>2 DEF Range
<1>4. IdsOf(t, S) \subseteq DOMAIN t /\ DOMAIN Restrict(t, IdsOf(t, S)) = IdsOf(t, S)
  BY DEF IdsOf, Restrict
<1>5. Range(Restrict(t, IdsOf(t, S))) = {r \in Range(t) : r.doc \in S}
  BY DEF Range, IdsOf, Restrict
<1>6. IsFiniteSet(IdsOf(t, S)) /\ IsFiniteSet(DOMAIN Without(t, S))
  BY <1>1, <1>4, FS_Subset DEF IsTable
<1> QED BY <1>1, <1>3, <1>4, <1>5, <1>6 DEF IsTable

-----------------------------------------------------------------------------
(* The tables, whatever is done to them *)

\* A name made of a digest is given to the file with that digest only, so an
\* upload never finds a document under the name it takes.
TablesInv ==
    /\ content \in [Names -> Files \cup {NoFile}]
    /\ \A m, n \in Present : content[m] = content[n] => m = n
    /\ \A f \in Files : content[f] \in {f, NoFile}
    /\ trashed \subseteq Present
    /\ IsTable(chunks) /\ IsTable(trash)
    /\ NothingLost

LEMMA NamesLemma ==
    ASSUME NEW f \in Files
    PROVE  f \in Names /\ BaseName[f] \in Names /\ BaseName[f] \notin Files
           /\ Size[f] \in Nat /\ Size[f] > 0 /\ f # NoFile
BY CorpusAssumption DEF CorpusAssumption, Names

\* What a document has in the tables is told by the sets of rows.
LEMMA NothingLostBy ==
    ASSUME NEW C, NEW T, Range(chunks') = C, Range(trash') = T,
           \A n \in Live' : RowsOf(n, content'[n]) \subseteq C,
           \A n \in trashed' : RowsOf(n, content'[n]) \subseteq T,
           \A r \in C : r.doc \in Live'
    PROVE  NothingLost'
BY DEF NothingLost, RowsOf

\* persist_analyzed_documents: the new rows are those of the file, under ids
\* nobody has.
LEMMA PersistKeeps ==
    ASSUME TablesInv, NEW f \in Files, Persist(f)
    PROVE  TablesInv'
<1> DEFINE n == IF content[BaseName[f]] = NoFile THEN BaseName[f] ELSE f
<1> DEFINE new == [i \in NextId..(NextId + Size[f] - 1) |->
                      [doc |-> n, file |-> f, k |-> i - NextId]]
<1>1. f \in Names /\ n \in Names /\ Size[f] \in Nat /\ Size[f] > 0 /\ f # NoFile
      /\ (n = f \/ n \notin Files)
  BY NamesLemma
<1>2. \A m \in Names : content[m] # f
  BY DEF Persist
<1>3. content[n] = NoFile
  BY <1>1, <1>2 DEF TablesInv
<1>4. content' = [content EXCEPT ![n] = f] /\ chunks' = Join(chunks, new)
      /\ UNCHANGED <<trashed, trash>>
  BY DEF Persist, StoreFile
<1>5. Present' = Present \cup {n} /\ Live' = Live \cup {n} /\ n \notin Present
  <2>1. \A m \in Names : content'[m] = IF m = n THEN f ELSE content[m]
    BY <1>4 DEF TablesInv
  <2>2. Present' = Present \cup {n} /\ n \notin Present
    BY <1>1, <1>3, <2>1 DEF Present
  <2>3. n \notin trashed
    BY <2>2 DEF TablesInv
  <2> QED BY <1>4, <2>2, <2>3 DEF Live
<1>6. NextId \in Nat /\ \A i \in DOMAIN chunks : i < NextId
  BY NextIdLemma DEF TablesInv, IsTable
<1>7. Range(new) = RowsOf(n, f)
  <2> HIDE DEF n
  <2>1. \A i \in DOMAIN new : i - NextId \in 0..(Size[f] - 1)
    BY <1>1, <1>6
  <2>2. \A k \in 0..(Size[f] - 1) : NextId + k \in DOMAIN new /\ (NextId + k) - NextId = k
    BY <1>1, <1>6
  <2>3. Range(new) \subseteq RowsOf(n, f)
    BY <2>1 DEF Range, RowsOf
  <2>4. RowsOf(n, f) \subseteq Range(new)
    <3> SUFFICES ASSUME NEW k \in 0..(Size[f] - 1)
                 PROVE  [doc |-> n, file |-> f, k |-> k] \in Range(new)
      BY DEF RowsOf
    <3>1. new[NextId + k] = [doc |-> n, file |-> f, k |-> k]
      BY <2>2
    <3> QED BY <2>2, <3>1 DEF Range
  <2> QED BY <2>3, <2>4
<1>8. IsTable(new) /\ DOMAIN chunks \cap DOMAIN new = {}
  <2> HIDE DEF n
  <2>1. RowsOf(n, f) \subseteq Row
    BY <1>1 DEF RowsOf, Row
  <2>2. IsFiniteSet(NextId..(NextId + Size[f] - 1))
    BY <1>1, <1>6, FS_Interval
  <2>3. DOMAIN new \subseteq Nat
    BY <1>1, <1>6
  <2>4. DOMAIN chunks \cap DOMAIN new = {}
    BY <1>1, <1>6 DEF TablesInv, IsTable
  <2> QED BY <1>7, <2>1, <2>2, <2>3, <2>4 DEF IsTable
<1> HIDE DEF n, new
<1>9. IsTable(chunks') /\ Range(chunks') = Range(chunks) \cup RowsOf(n, f)
  BY <1>4, <1>7, <1>8, JoinLemma DEF TablesInv
<1>10. \A m \in Names : content'[m] = IF m = n THEN f ELSE content[m]
  BY <1>4 DEF TablesInv
<1>11. NothingLost'
  <2>1. \A r \in RowsOf(n, f) : r.doc = n
    BY DEF RowsOf
  <2>2. \A m \in Live : m # n /\ content'[m] = content[m]
    BY <1>5, <1>10 DEF Live, Present
  <2>3. \A m \in trashed : m # n /\ content'[m] = content[m]
    BY <1>5, <1>10 DEF TablesInv, Present
  <2> QED BY <1>1, <1>4, <1>5, <1>9, <1>10, <2>1, <2>2, <2>3 DEF NothingLost, TablesInv, RowsOf
<1> QED
  <2>1. content' \in [Names -> Files \cup {NoFile}]
    BY <1>4 DEF TablesInv
  <2>2. \A m \in Present : m # n /\ content[m] # f /\ content'[m] = content[m]
    BY <1>2, <1>5, <1>10 DEF Present
  <2>3. \A k, m \in Present' : content'[k] = content'[m] => k = m
    BY <1>1, <1>5, <1>10, <2>2 DEF TablesInv
  <2>4. \A g \in Files : content'[g] \in {g, NoFile}
    BY <1>1, <1>10, NamesLemma DEF TablesInv
  <2>5. trashed' \subseteq Present'
    BY <1>4, <1>5 DEF TablesInv
  <2> QED BY <1>4, <1>9, <1>11, <2>1, <2>3, <2>4, <2>5 DEF TablesInv

\* Documents S go, whatever becomes of what deleted_chunks has of them.
LEMMA RemoveKeeps ==
    ASSUME TablesInv, NEW S,
           content' = [n \in Names |-> IF n \in S THEN NoFile ELSE content[n]],
           trashed' = trashed \ S,
           IsTable(chunks'), Range(chunks') = {r \in Range(chunks) : r.doc \notin S},
           IsTable(trash'), Range(trash') \subseteq Range(trash),
           \A r \in Range(trash) : r.doc \notin S => r \in Range(trash')
    PROVE  TablesInv'
<1>1. \A n \in Names : content'[n] = IF n \in S THEN NoFile ELSE content[n]
  OBVIOUS
<1>2. Present' = Present \ S /\ Live' = Live \ S
  <2>1. Present' = Present \ S
    BY <1>1 DEF Present
  <2> QED BY <2>1 DEF Live
<1>3. \A n, f : \A r \in RowsOf(n, f) : r.doc = n
  BY DEF RowsOf
<1>4. \A n \in Present' : content'[n] = content[n] /\ n \in Present /\ n \notin S
  BY <1>1, <1>2 DEF Present
<1>5. NothingLost'
  <2>1. ASSUME NEW n \in Live' PROVE RowsOf(n, content'[n]) \subseteq Range(chunks')
    <3>1. n \in Live /\ n \notin S /\ content'[n] = content[n]
      BY <1>2, <1>4 DEF Live
    <3>2. RowsOf(n, content[n]) \subseteq Range(chunks)
      BY <3>1 DEF TablesInv, NothingLost
    <3> QED BY <1>3, <3>1, <3>2
  <2>2. ASSUME NEW n \in trashed' PROVE RowsOf(n, content'[n]) \subseteq Range(trash')
    <3>1. n \in trashed /\ n \notin S /\ content'[n] = content[n]
      BY <1>2, <1>4 DEF TablesInv
    <3>2. RowsOf(n, content[n]) \subseteq Range(trash)
      BY <3>1 DEF TablesInv, NothingLost
    <3> QED BY <1>3, <3>1, <3>2
  <2>3. ASSUME NEW r \in Range(chunks') PROVE r.doc \in Live'
    BY <1>2 DEF TablesInv, NothingLost
  <2> QED BY <2>1, <2>2, <2>3, NothingLostBy
<1>6. content' \in [Names -> Files \cup {NoFile}]
  BY DEF TablesInv
<1>7. \A m, n \in Present' : content'[m] = content'[n] => m = n
  BY <1>4 DEF TablesInv
<1>8. \A f \in Files : content'[f] \in {f, NoFile}
  BY <1>1, NamesLemma DEF TablesInv
<1>9. trashed' \subseteq Present'
  BY <1>2 DEF TablesInv
<1> QED BY <1>5, <1>6, <1>7, <1>8, <1>9 DEF TablesInv

LEMMA DeleteKeeps ==
    ASSUME TablesInv, NEW n, DeleteDocument(n)
    PROVE  TablesInv'
<1>1. content' = [m \in Names |-> IF m \in {n} THEN NoFile ELSE content[m]]
  BY DEF DeleteDocument, TablesInv
<1>2. IsTable(chunks') /\ Range(chunks') = {r \in Range(chunks) : r.doc \notin {n}}
  <2>1. IsTable(Without(chunks, {n}))
        /\ Range(Without(chunks, {n})) = {r \in Range(chunks) : r.doc \notin {n}}
    BY WithoutLemma DEF TablesInv
  <2> QED BY <2>1, CompactLemma DEF DeleteDocument
<1>3. trash' = trash /\ trashed' = trashed \ {n}
  BY DEF DeleteDocument
<1> QED BY <1>1, <1>2, <1>3, RemoveKeeps DEF TablesInv

LEMMA EmptyTrashKeeps ==
    ASSUME TablesInv, EmptyTrash
    PROVE  TablesInv'
<1>1. content' = [n \in Names |-> IF n \in trashed THEN NoFile ELSE content[n]]
      /\ trashed' = trashed \ trashed /\ trash' = trash
  BY DEF EmptyTrash
<1>2. IsTable(chunks') /\ Range(chunks') = {r \in Range(chunks) : r.doc \notin trashed}
  BY WithoutLemma DEF EmptyTrash, TablesInv
<1> QED BY <1>1, <1>2, RemoveKeeps DEF TablesInv

LEMMA BatchDeleteKeeps ==
    ASSUME TablesInv, NEW c, NEW S, BatchDelete(c, S)
    PROVE  TablesInv'
<1>1. content' = [n \in Names |-> IF n \in S THEN NoFile ELSE content[n]]
      /\ trashed' = trashed \ S
  BY DEF BatchDelete
<1>2. IsTable(chunks') /\ Range(chunks') = {r \in Range(chunks) : r.doc \notin S}
  BY WithoutLemma DEF BatchDelete, TablesInv
<1>3. IsTable(trash') /\ Range(trash') = {r \in Range(trash) : r.doc \notin S}
  BY WithoutLemma DEF BatchDelete, TablesInv
<1> QED BY <1>1, <1>2, <1>3, RemoveKeeps

LEMMA ClearKeeps ==
    ASSUME TablesInv, ClearAllData
    PROVE  TablesInv'
<1>1. IsTable(<<>>) /\ Range(<<>>) = {}
  BY FS_EmptySet DEF IsTable, Range
<1>2. Present' = {} /\ Live' = {}
  BY DEF ClearAllData, Present, Live
<1>3. NothingLost'
  BY <1>1, <1>2 DEF ClearAllData, NothingLost
<1> QED BY <1>1, <1>2, <1>3, NamesLemma DEF ClearAllData, TablesInv

\* Rows of S move from chunks to deleted_chunks.
LEMMA TrashKeeps ==
    ASSUME TablesInv, NEW S \in SUBSET Present, MoveToTrash(S),
           IsTable(chunks'), Range(chunks') = {r \in Range(chunks) : r.doc \notin S}
    PROVE  TablesInv'
<1> DEFINE moved == Restrict(chunks, IdsOf(chunks, S))
<1>1. IsTable(moved) /\ Range(moved) = {r \in Range(chunks) : r.doc \in S}
      /\ DOMAIN moved = IdsOf(chunks, S)
  BY WithoutLemma DEF TablesInv
<1>2. trash' = Join(trash, moved) /\ DOMAIN trash \cap DOMAIN moved = {}
      /\ trashed' = trashed \cup S /\ content' = content
  BY <1>1 DEF MoveToTrash
<1> HIDE DEF moved
<1>3. IsTable(trash') /\ Range(trash') = Range(trash) \cup Range(moved)
  BY <1>1, <1>2, JoinLemma DEF TablesInv
<1>4. Present' = Present /\ Live' = Live \ S
  BY <1>2 DEF Present, Live
<1>5. \A n, f : \A r \in RowsOf(n, f) : r.doc = n
  BY DEF RowsOf
<1>6. NothingLost'
  <2>1. ASSUME NEW n \in Live' PROVE RowsOf(n, content'[n]) \subseteq Range(chunks')
    BY <1>2, <1>4, <1>5 DEF TablesInv, NothingLost
  <2>2. ASSUME NEW n \in trashed' PROVE RowsOf(n, content'[n]) \subseteq Range(trash')
    <3>1. CASE n \in trashed
      BY <1>2, <1>3, <3>1 DEF TablesInv, NothingLost
    <3>2. CASE n \in Live /\ n \in S
      <4>1. RowsOf(n, content[n]) \subseteq Range(chunks)
        BY <3>2 DEF TablesInv, NothingLost
      <4> QED BY <1>1, <1>2, <1>3, <1>5, <3>2, <4>1
    <3> QED BY <1>2, <3>1, <3>2 DEF Live
  <2>3. ASSUME NEW r \in Range(chunks') PROVE r.doc \in Live'
    BY <1>4 DEF TablesInv, NothingLost
  <2> QED BY <2>1, <2>2, <2>3, NothingLostBy
<1> QED BY <1>2, <1>3, <1>4, <1>6 DEF TablesInv

LEMMA SoftDeleteKeeps ==
    ASSUME TablesInv, NEW n, SoftDelete(n)
    PROVE  TablesInv'
<1>1. {n} \in SUBSET Present /\ MoveToTrash({n})
  BY DEF SoftDelete, Live
<1>2. IsTable(chunks') /\ Range(chunks') = {r \in Range(chunks) : r.doc \notin {n}}
  <2>1. IsTable(Without(chunks, {n}))
        /\ Range(Without(chunks, {n})) = {r \in Range(chunks) : r.doc \notin {n}}
    BY WithoutLemma DEF TablesInv
  <2> QED BY <2>1, CompactLemma DEF SoftDelete
<1> QED BY <1>1, <1>2, TrashKeeps

LEMMA BatchSoftDeleteKeeps ==
    ASSUME TablesInv, NEW c, NEW S \in SUBSET Present, BatchSoftDelete(c, S)
    PROVE  TablesInv'
<1>1. IsTable(chunks') /\ Range(chunks') = {r \in Range(chunks) : r.doc \notin S}
  BY WithoutLemma DEF BatchSoftDelete, TablesInv
<1> QED BY <1>1, TrashKeeps DEF BatchSoftDelete

\* restore_document: in whatever order the rows come back, all come back.
LEMMA RestoreRows ==
    ASSUME TablesInv, NEW n, Restore(n)
    PROVE  \E new : /\ IsTable(new) /\ DOMAIN chunks \cap DOMAIN new = {}
                    /\ Range(new) = {r \in Range(trash) : r.doc \in {n}}
                    /\ chunks' = Compacted(Join(chunks, new))
<1> DEFINE R == IdsOf(trash, {n})
<1>1. PICK s \in Orders(R) :
          chunks' = Compacted(Join(chunks, [i \in {NextId + j : j \in DOMAIN s} |->
                                               trash[s[i - NextId]]]))
  BY DEF Restore
<1> DEFINE new == [i \in {NextId + j : j \in DOMAIN s} |-> trash[s[i - NextId]]]
<1>2. IsFiniteSet(R) /\ R \subseteq DOMAIN trash
  BY WithoutLemma DEF TablesInv
<1>3. {trash[i] : i \in R} = {r \in Range(trash) : r.doc \in {n}}
  BY DEF IdsOf, Range
<1>4. Cardinality(R) \in Nat
  BY <1>2, FS_CardinalityType
<1>5. DOMAIN s = 0..(Cardinality(R) - 1) /\ Range(s) = R
  BY DEF Orders
<1>6. NextId \in Nat /\ \A i \in DOMAIN chunks : i < NextId
  BY NextIdLemma DEF TablesInv, IsTable
<1>7. /\ DOMAIN new \subseteq Nat /\ DOMAIN chunks \cap DOMAIN new = {}
      /\ DOMAIN new \subseteq NextId..(NextId + Cardinality(R))
  <2> HIDE DEF R
  <2>1. \A j \in DOMAIN s : j \in Nat /\ j <= Cardinality(R)
    BY <1>4, <1>5
  <2> QED BY <1>4, <1>6, <2>1 DEF TablesInv, IsTable
<1>8. Range(new) = {r \in Range(trash) : r.doc \in {n}}
  <2>1. \A j \in DOMAIN s : NextId + j \in DOMAIN new /\ (NextId + j) - NextId = j
    BY <1>4, <1>5, <1>6
  <2>2. Range(new) = {trash[s[j]] : j \in DOMAIN s}
    <3>1. \A j \in DOMAIN s : new[NextId + j] = trash[s[j]]
      BY <2>1
    <3>2. \A i \in DOMAIN new : \E j \in DOMAIN s : i = NextId + j
      OBVIOUS
    <3> HIDE DEF new
    <3> QED BY <2>1, <3>1, <3>2 DEF Range
  <2>3. {trash[s[j]] : j \in DOMAIN s} = {trash[i] : i \in R}
    <3> HIDE DEF R
    <3> QED BY <1>5 DEF Range
  <2> QED BY <1>3, <2>2, <2>3
<1>9. IsTable(new)
  <2>1. IsFiniteSet(NextId..(NextId + Cardinality(R)))
    BY <1>4, <1>6, FS_Interval
  <2>2. IsFiniteSet(DOMAIN new)
    BY <1>7, <2>1, FS_Subset
  <2> QED BY <1>7, <1>8, <2>2 DEF IsTable, TablesInv
<1> QED BY <1>1, <1>7, <1>8, <1>9

LEMMA RestoreKeeps ==
    ASSUME TablesInv, NEW n, Restore(n)
    PROVE  TablesInv'
<1>1. PICK new : /\ IsTable(new) /\ DOMAIN chunks \cap DOMAIN new = {}
                 /\ Range(new) = {r \in Range(trash) : r.doc \in {n}}
                 /\ chunks' = Compacted(Join(chunks, new))
  BY RestoreRows
<1>2. n \in trashed /\ trashed' = trashed \ {n} /\ trash' = Without(trash, {n}) /\ content' = content
  BY DEF Restore
<1>3. IsTable(trash') /\ Range(trash') = {r \in Range(trash) : r.doc \notin {n}}
  BY <1>2, WithoutLemma DEF TablesInv
<1>4. IsTable(chunks') /\ Range(chunks') = Range(chunks) \cup Range(new)
  <2>1. IsTable(Join(chunks, new)) /\ Range(Join(chunks, new)) = Range(chunks) \cup Range(new)
    BY <1>1, JoinLemma DEF TablesInv
  <2> QED BY <1>1, <2>1, CompactLemma
<1>5. Present' = Present /\ Live' = Live \cup {n}
  BY <1>2 DEF Present, Live, TablesInv
<1>6. \A m, f : \A r \in RowsOf(m, f) : r.doc = m
  BY DEF RowsOf
<1>7. NothingLost'
  <2>1. ASSUME NEW m \in Live' PROVE RowsOf(m, content'[m]) \subseteq Range(chunks')
    <3>1. CASE m \in Live
      BY <1>2, <1>4, <3>1 DEF TablesInv, NothingLost
    <3>2. CASE m = n
      <4>1. RowsOf(n, content[n]) \subseteq Range(trash)
        BY <1>2 DEF TablesInv, NothingLost
      <4> QED BY <1>2, <1>1, <1>4, <1>6, <3>2, <4>1
    <3> QED BY <1>5, <3>1, <3>2
  <2>2. ASSUME NEW m \in trashed' PROVE RowsOf(m, content'[m]) \subseteq Range(trash')
    <3>1. m \in trashed /\ m # n /\ content'[m] = content[m]
      BY <1>2
    <3>2. RowsOf(m, content[m]) \subseteq Range(trash)
      BY <3>1 DEF TablesInv, NothingLost
    <3> QED BY <1>3, <1>6, <3>1, <3>2
  <2>3. ASSUME NEW r \in Range(chunks') PROVE r.doc \in Live'
    BY <1>1, <1>4, <1>5 DEF TablesInv, NothingLost
  <2> QED BY <2>1, <2>2, <2>3, NothingLostBy
<1> QED BY <1>2, <1>3, <1>4, <1>5, <1>7 DEF TablesInv

\* The second transaction of a batch, with ids as old as it likes.
LEMMA RenumberKeeps ==
    ASSUME TablesInv, NEW c, Renumber(c), ids[c] \subseteq Nat
    PROVE  TablesInv'
<1>1. IsTable(chunks') /\ Range(chunks') = Range(chunks) /\ UNCHANGED <<content, trashed, trash>>
  <2>1. UNCHANGED <<content, trashed, trash>>
        /\ chunks' = IF CanRenumber(chunks, ids[c]) THEN Renumbered(chunks, ids[c]) ELSE chunks
    BY DEF Renumber, RenumberTo
  <2> QED BY <2>1, RenumberLemma DEF TablesInv
<1>2. Present' = Present /\ Live' = Live
  BY <1>1 DEF Present, Live
<1>3. NothingLost'
  BY <1>1, <1>2 DEF TablesInv, NothingLost
<1> QED BY <1>1, <1>2, <1>3 DEF TablesInv

LEMMA SameTablesKeep ==
    ASSUME TablesInv, UNCHANGED tables
    PROVE  TablesInv'
BY DEF TablesInv, NothingLost, Present, Live, RowsOf, tables

LEMMA InitTables ==
    ASSUME Init
    PROVE  TablesInv
<1>1. IsTable(<<>>) /\ Range(<<>>) = {}
  BY FS_EmptySet DEF IsTable, Range
<1>2. Present = {} /\ Live = {}
  BY DEF Init, Present, Live
<1> QED BY <1>1, <1>2, NamesLemma DEF Init, TablesInv, NothingLost

-----------------------------------------------------------------------------
(* The store and its clerks *)

ClerksInv ==
    /\ pc \in [Clerks -> {"idle", "select", "renumber", "purge"}]
    /\ ids \in [Clerks -> SUBSET Nat]
    /\ names \in [Clerks -> SUBSET Names]
    /\ \A c \in Clerks : (names[c] # {}) <=> (pc[c] = "purge")

StoreInv == TablesInv /\ ClerksInv

LEMMA StoreInvImplies ==
    ASSUME StoreInv
    PROVE  TypeOK /\ NothingLost
BY DEF StoreInv, TablesInv, ClerksInv, TypeOK, IsTable

LEMMA SameClerksKeep ==
    ASSUME ClerksInv, UNCHANGED clerkVars
    PROVE  ClerksInv'
BY DEF ClerksInv, clerkVars

\* Each step of a clerk, the tables it works on included.
LEMMA ClerkKeeps ==
    ASSUME StoreInv, NEW c \in Clerks,
           \/ \E S \in SUBSET Present : BatchSoftDelete(c, S)
           \/ \E S \in (SUBSET Present) \ {{}} : BatchDelete(c, S)
           \/ SelectIds(c)
           \/ Renumber(c)
           \/ \E S \in (SUBSET trashed) \ {{}} : SelectStaleTrash(c, S)
           \/ \E n \in Names : PurgeOne(c, n) \/ PurgeFails(c, n)
           \/ Crash(c)
    PROVE  StoreInv'
<1> USE DEF StoreInv
<1>1. ASSUME NEW S \in SUBSET Present, BatchSoftDelete(c, S) PROVE StoreInv'
  <2>1. TablesInv'
    BY <1>1, BatchSoftDeleteKeeps
  <2>2. ClerksInv'
    BY <1>1 DEF BatchSoftDelete, ClerksInv
  <2> QED BY <2>1, <2>2
<1>2. ASSUME NEW S \in (SUBSET Present) \ {{}}, BatchDelete(c, S) PROVE StoreInv'
  <2>1. TablesInv'
    BY <1>2, BatchDeleteKeeps
  <2>2. ClerksInv'
    BY <1>2 DEF BatchDelete, ClerksInv
  <2> QED BY <2>1, <2>2
<1>3. ASSUME SelectIds(c) PROVE StoreInv'
  <2>1. TablesInv'
    BY <1>3, SameTablesKeep DEF SelectIds
  <2>2. DOMAIN chunks \in SUBSET Nat
    BY DEF TablesInv, IsTable
  <2>3. ClerksInv'
    BY <1>3, <2>2 DEF SelectIds, ClerksInv
  <2> QED BY <2>1, <2>3
<1>4. ASSUME Renumber(c) PROVE StoreInv'
  <2>1. TablesInv'
    BY <1>4, RenumberKeeps DEF ClerksInv
  <2>2. ClerksInv'
    BY <1>4 DEF Renumber, RenumberTo, ClerksInv
  <2> QED BY <2>1, <2>2
<1>5. ASSUME NEW S \in (SUBSET trashed) \ {{}}, SelectStaleTrash(c, S) PROVE StoreInv'
  <2>1. TablesInv'
    BY <1>5, SameTablesKeep DEF SelectStaleTrash
  <2>2. S \subseteq Names /\ S # {}
    <3>1. trashed \subseteq Names
      BY DEF TablesInv, Present
    <3>2. S \subseteq trashed /\ S # {}
      OBVIOUS
    <3> QED BY <3>1, <3>2
  <2>3. ClerksInv'
    BY <1>5, <2>2 DEF SelectStaleTrash, ClerksInv
  <2> QED BY <2>1, <2>3
<1>6. ASSUME NEW n \in Names, PurgeOne(c, n) \/ PurgeFails(c, n) PROVE StoreInv'
  <2>1. TablesInv'
    BY <1>6, DeleteKeeps, SameTablesKeep DEF PurgeOne, PurgeFails
  <2>2. TakeName(c, n)
    BY <1>6 DEF PurgeOne, PurgeFails
  <2>3. ClerksInv'
    <3>1. names[c] \ {n} \in SUBSET Names /\ (names[c] \ {n} = {} <=> names[c] = {n})
      BY <2>2 DEF ClerksInv, TakeName
    <3> QED BY <2>2, <3>1 DEF TakeName, ClerksInv
  <2> QED BY <2>1, <2>3
<1>7. ASSUME Crash(c) PROVE StoreInv'
  <2>1. TablesInv'
    BY <1>7, SameTablesKeep DEF Crash
  <2>2. ClerksInv'
    BY <1>7 DEF Crash, ClerksInv
  <2> QED BY <2>1, <2>2
<1> QED BY <1>1, <1>2, <1>3, <1>4, <1>5, <1>6, <1>7

LEMMA StoreInvariant == Spec => []StoreInv
<1>1. ASSUME Init PROVE StoreInv
  <2>1. ClerksInv
    BY <1>1 DEF Init, ClerksInv
  <2> QED BY <1>1, <2>1, InitTables DEF StoreInv
<1>2. ASSUME StoreInv, [Next]_storeVars PROVE StoreInv'
  <2>1. ASSUME UNCHANGED clerkVars,
               \/ \E f \in Files : Persist(f)
               \/ \E n \in Names : DeleteDocument(n) \/ SoftDelete(n) \/ Restore(n)
               \/ EmptyTrash
               \/ ClearAllData
        PROVE  StoreInv'
    <3>1. TablesInv'
      BY <1>2, <2>1, PersistKeeps, DeleteKeeps, SoftDeleteKeeps, RestoreKeeps, EmptyTrashKeeps,
         ClearKeeps DEF StoreInv
    <3> QED BY <1>2, <2>1, <3>1, SameClerksKeep DEF StoreInv
  <2>2. ASSUME UNCHANGED storeVars PROVE StoreInv'
    BY <1>2, <2>2, SameTablesKeep, SameClerksKeep DEF StoreInv, storeVars
  <2> QED BY <1>2, <2>1, <2>2, ClerkKeeps DEF Next
<1> QED BY <1>1, <1>2, PTL DEF Spec

\* The tables and the clerks have their types; no two documents have one
\* file_hash, and only documents that exist are in the trash.
THEOREM StoreTypeCorrect == Spec => []TypeOK
<1>1. StoreInv => TypeOK
  BY StoreInvImplies
<1> QED BY <1>1, StoreInvariant, PTL

\* Whatever is uploaded, deleted, restored and purged, in batches that die
\* half-way or renumber by an old list: each document keeps all its chunks, and
\* what the index is built from belongs to live documents.
THEOREM ChunksAreKept == Spec => []NothingLost
<1>1. StoreInv => NothingLost
  BY StoreInvImplies
<1> QED BY <1>1, StoreInvariant, PTL

-----------------------------------------------------------------------------
(* The order of the rows, with one clerk *)

\* Rows of t that v still has, and which t has once, keep their order.
OrderOf(t, v) == \A r, s \in Once(t) \cap Range(v) : Before(t, r, s) => Before(v, r, s)

LEMMA WithoutKeepsOrder ==
    ASSUME NEW t, NEW S
    PROVE  OrderOf(t, Without(t, S))
<1> DEFINE v == Without(t, S)
<1>1. DOMAIN v \subseteq DOMAIN t /\ \A i \in DOMAIN v : v[i] = t[i]
  BY DEF Without, Restrict
<1> HIDE DEF v
<1> SUFFICES ASSUME NEW r \in Once(t) \cap Range(v), NEW s \in Once(t) \cap Range(v), Before(t, r, s)
             PROVE  Before(v, r, s)
  BY DEF OrderOf, v
<1>2. PICK i \in DOMAIN t, j \in DOMAIN t : i < j /\ t[i] = r /\ t[j] = s
  BY DEF Before
<1>3. i \in DOMAIN v /\ j \in DOMAIN v
  BY <1>1, <1>2 DEF Once, Range
<1> QED BY <1>1, <1>2, <1>3 DEF Before

LEMMA JoinKeepsOrder ==
    ASSUME NEW t, NEW u
    PROVE  OrderOf(t, Join(t, u))
BY DEF OrderOf, Before, Join

\* Renumbering by an increasing map keeps the order.
LEMMA RenumberKeepsOrder ==
    ASSUME NEW t, IsTable(t), NEW L \in SUBSET Nat, CanRenumber(t, L),
           \A i, j \in DOMAIN t : i < j => NewId(i, L) < NewId(j, L),
           NEW r, NEW s, Before(t, r, s)
    PROVE  Before(Renumbered(t, L), r, s)
<1> DEFINE D == {NewId(i, L) : i \in DOMAIN t}
<1> DEFINE old(x) == CHOOSE i \in DOMAIN t : NewId(i, L) = x
<1>1. PICK i \in DOMAIN t, j \in DOMAIN t : i < j /\ t[i] = r /\ t[j] = s
  BY DEF Before
<1>2. \A k \in DOMAIN t : NewId(k, L) \in D /\ old(NewId(k, L)) = k
  BY DEF CanRenumber
<1>3. Renumbered(t, L) = [x \in D |-> t[old(x)]]
  BY DEF Renumbered
<1> HIDE DEF D, old
<1>4. \A k \in DOMAIN t : Renumbered(t, L)[NewId(k, L)] = t[k]
  BY <1>2, <1>3
<1> QED BY <1>1, <1>2, <1>3, <1>4 DEF Before

LEMMA CompactKeepsOrder ==
    ASSUME NEW t, NEW v, IsTable(v), OrderOf(t, v)
    PROVE  OrderOf(t, Compacted(v))
<1>1. CanRenumber(v, DOMAIN v) /\ \A i \in DOMAIN v : NewId(i, DOMAIN v) = Rank(i, DOMAIN v)
  BY RankOnto DEF CanRenumber, NewId, IsTable
<1>2. \A i, j \in DOMAIN v : i < j => NewId(i, DOMAIN v) < NewId(j, DOMAIN v)
  <2>1. DOMAIN v \in SUBSET Nat
    BY DEF IsTable
  <2> QED BY <1>1, <2>1, RankGrows
<1>3. \A r, s : Before(v, r, s) => Before(Compacted(v), r, s)
  BY <1>1, <1>2, RenumberKeepsOrder DEF Compacted, IsTable
<1>4. Range(Compacted(v)) = Range(v)
  BY CompactLemma
<1> QED BY <1>3, <1>4 DEF OrderOf

\* A list of ids selected earlier is harmless if since then rows were only
\* appended, and if not, that is after a compaction, it changes nothing.
Appended(t, L) == L \subseteq DOMAIN t /\ \A i \in DOMAIN t \ L, j \in L : j < i

LEMMA LeastLemma ==
    ASSUME NEW S \in SUBSET Nat, IsFiniteSet(S), S # {}
    PROVE  \E m \in S : \A i \in S : m <= i
<1> DEFINE below(x) == {z \in S : z < x}
<1> DEFINE T == {below(x) : x \in S}
<1>1. T \subseteq FiniteSubsetsOf(S)
  BY FS_FiniteSubsetsOfFinite
<1>2. T # {}
  OBVIOUS
<1>3. PICK u \in T : \A v \in T : <<v, u>> \notin StrictSubsetOrdering(S)
  <2> HIDE DEF T
  <2> QED BY <1>1, <1>2, FS_StrictSubsetOrderingWellFounded, WFMin
<1>4. PICK m \in S : u = below(m)
  OBVIOUS
<1>5. \A i \in S : i \in Nat
  OBVIOUS
<1>6. ASSUME NEW i \in S, i < m PROVE FALSE
  <2>1. \A z \in S : z < i => z < m
    BY <1>5, <1>6
  <2>2. ~(i < i)
    BY <1>5
  <2>3. below(i) \subseteq below(m) /\ i \in below(m) /\ i \notin below(i)
    BY <1>6, <2>1, <2>2
  <2>4. <<below(i), u>> \in StrictSubsetOrdering(S)
    BY <1>4, <2>3 DEF StrictSubsetOrdering
  <2> QED BY <1>3, <2>4
<1> QED BY <1>4, <1>5, <1>6

LEMMA RankAtMost ==
    ASSUME NEW L \in SUBSET Nat, NEW i \in Nat
    PROVE  Rank(i, L) <= i
<1>1. {j \in L : j < i} \subseteq 0..(i - 1)
  <2> SUFFICES ASSUME NEW j \in L, j < i PROVE j \in 0..(i - 1)
    OBVIOUS
  <2>1. j \in Nat
    OBVIOUS
  <2> QED BY <2>1
<1>2. IsFiniteSet(0..(i - 1)) /\ Cardinality(0..(i - 1)) = i
  BY FS_Interval
<1> QED BY <1>1, <1>2, FS_Subset DEF Rank

LEMMA StaleListKeepsOrder ==
    ASSUME NEW t, IsTable(t), NEW L \in SUBSET Nat, CanRenumber(t, L), IsDense(t) \/ Appended(t, L)
    PROVE  \A i, j \in DOMAIN t : i < j => NewId(i, L) < NewId(j, L)
<1>1. \A i \in DOMAIN t : i \in Nat /\ Rank(i, L) \in Nat /\ Rank(i, L) <= i
  BY RankLemma, RankAtMost DEF IsTable
<1>2. CASE IsDense(t)
  <2> DEFINE D == {i \in DOMAIN t : NewId(i, L) # i}
  <2>1. CASE D = {}
    BY <1>1, <2>1
  <2>2. CASE D # {}
    <3>1. D \in SUBSET Nat /\ IsFiniteSet(D)
      BY <1>1, FS_Subset DEF IsTable
    <3>2. PICK m \in D : \A i \in D : m <= i
      BY <2>2, <3>1, LeastLemma
    <3>3. m \in L /\ NewId(m, L) = Rank(m, L) /\ Rank(m, L) < m
      BY <1>1, <3>2 DEF NewId
    <3>4. Rank(m, L) \in DOMAIN t
      BY <1>1, <1>2, <3>2, <3>3 DEF IsDense
    <3>5. NewId(Rank(m, L), L) = Rank(m, L)
      BY <1>1, <3>2, <3>3, <3>4
    <3> QED BY <1>1, <3>2, <3>3, <3>4, <3>5 DEF CanRenumber
  <2> QED BY <2>1, <2>2
<1>3. CASE Appended(t, L)
  <2> SUFFICES ASSUME NEW i \in DOMAIN t, NEW j \in DOMAIN t, i < j
               PROVE  NewId(i, L) < NewId(j, L)
    OBVIOUS
  <2>1. CASE i \in L /\ j \in L
    BY <2>1, RankGrows DEF NewId
  <2>2. CASE j \notin L
    BY <1>1, <2>2 DEF NewId
  <2>3. CASE i \notin L /\ j \in L
    BY <1>1, <1>3, <2>3 DEF Appended
  <2> QED BY <2>1, <2>2, <2>3
<1> QED BY <1>2, <1>3

\* The list of the only clerk.
ListInv(c) == pc[c] = "renumber" => IsDense(chunks) \/ Appended(chunks, ids[c])

\* An upload leaves a table without gaps without gaps, and appends.
LEMMA PersistAppends ==
    ASSUME TablesInv, NEW f \in Files, Persist(f)
    PROVE  /\ OrderOf(chunks, chunks')
           /\ IsDense(chunks) => IsDense(chunks')
           /\ \A L : Appended(chunks, L) => Appended(chunks', L)
<1> DEFINE n == IF content[BaseName[f]] = NoFile THEN BaseName[f] ELSE f
<1> DEFINE new == [i \in NextId..(NextId + Size[f] - 1) |->
                      [doc |-> n, file |-> f, k |-> i - NextId]]
<1>1. chunks' = Join(chunks, new) /\ DOMAIN new = NextId..(NextId + Size[f] - 1)
  BY DEF Persist, StoreFile
<1>2. NextId \in Nat /\ \A i \in DOMAIN chunks : i < NextId
  BY NextIdLemma DEF TablesInv, IsTable
<1>3. Size[f] \in Nat /\ Size[f] > 0
  BY NamesLemma
<1> HIDE DEF new
<1>4. DOMAIN chunks' = DOMAIN chunks \cup NextId..(NextId + Size[f] - 1)
  BY <1>1 DEF Join
<1>5. ASSUME NEW N \in Nat, DOMAIN chunks = 0..(N - 1) PROVE IsDense(chunks')
  <2>1. NextId = N
    <3>1. NextId \in {0} \cup {i + 1 : i \in DOMAIN chunks}
      <4>1. N = 0 \/ (N - 1 \in DOMAIN chunks /\ N = (N - 1) + 1)
        BY <1>5
      <4>2. N \in {0} \cup {i + 1 : i \in DOMAIN chunks} /\ \A i \in DOMAIN chunks : i < N
        BY <1>5, <4>1
      <4> QED BY <4>2 DEF NextId
    <3>2. NextId <= N
      BY <1>5, <3>1
    <3> QED BY <1>2, <1>5, <3>2
  <2> DEFINE M == N + Size[f]
  <2>2. M \in Nat /\ DOMAIN chunks' = 0..(M - 1)
    BY <1>3, <1>4, <1>5, <2>1
  <2> HIDE DEF M
  <2> QED BY <2>2 DEF IsDense
<1>6. \A L : Appended(chunks, L) => Appended(chunks', L)
  <2> SUFFICES ASSUME NEW L, Appended(chunks, L), NEW i \in DOMAIN chunks' \ L, NEW j \in L
               PROVE  j < i
    BY <1>4 DEF Appended
  <2>1. j \in DOMAIN chunks /\ j \in Nat
    BY DEF Appended, TablesInv, IsTable
  <2>2. CASE i \in DOMAIN chunks
    BY <2>2 DEF Appended
  <2>3. CASE i \in NextId..(NextId + Size[f] - 1)
    BY <1>2, <2>1, <2>3
  <2> QED BY <1>4, <2>2, <2>3
<1>7. OrderOf(chunks, chunks')
  BY <1>1, JoinKeepsOrder
<1> QED BY <1>5, <1>6, <1>7 DEF IsDense

\* Every operation that compacts keeps the order and leaves no gaps.
LEMMA CompactingKeepsOrder ==
    ASSUME TablesInv, NEW n, DeleteDocument(n) \/ SoftDelete(n) \/ Restore(n) \/ ClearAllData
    PROVE  OrderOf(chunks, chunks') /\ IsDense(chunks')
<1>1. ASSUME DeleteDocument(n) \/ SoftDelete(n) PROVE OrderOf(chunks, chunks') /\ IsDense(chunks')
  <2>1. chunks' = Compacted(Without(chunks, {n})) /\ IsTable(Without(chunks, {n}))
    BY <1>1, WithoutLemma DEF DeleteDocument, SoftDelete, TablesInv
  <2> QED BY <2>1, WithoutKeepsOrder, CompactKeepsOrder, CompactIsDense
<1>2. ASSUME Restore(n) PROVE OrderOf(chunks, chunks') /\ IsDense(chunks')
  <2>1. PICK new : /\ IsTable(new) /\ DOMAIN chunks \cap DOMAIN new = {}
                   /\ chunks' = Compacted(Join(chunks, new))
    BY <1>2, RestoreRows
  <2>2. IsTable(Join(chunks, new))
    BY <2>1, JoinLemma DEF TablesInv
  <2> QED BY <2>1, <2>2, JoinKeepsOrder, CompactKeepsOrder, CompactIsDense
<1>3. ASSUME ClearAllData PROVE OrderOf(chunks, chunks') /\ IsDense(chunks')
  <2>1. DOMAIN <<>> = 0..(0 - 1) /\ Range(<<>>) = {}
    BY DEF Range
  <2>2. chunks' = <<>>
    BY <1>3 DEF ClearAllData
  <2>3. OrderOf(chunks, chunks')
    BY <2>1, <2>2 DEF OrderOf
  <2> QED BY <2>1, <2>2, <2>3 DEF IsDense
<1> QED BY <1>1, <1>2, <1>3

\* The trash has no rows in chunks, so emptying it takes none from there.
LEMMA EmptyTrashTakesNone ==
    ASSUME TablesInv, EmptyTrash
    PROVE  DOMAIN chunks' = DOMAIN chunks /\ OrderOf(chunks, chunks')
<1>1. IdsOf(chunks, trashed) = {}
  BY DEF IdsOf, TablesInv, NothingLost, Live, Range
<1> QED BY <1>1, WithoutKeepsOrder DEF EmptyTrash, Without, Restrict

OrderInv(c) == StoreInv /\ ListInv(c)

LEMMA OrderStep ==
    ASSUME NEW c, Clerks = {c}, OrderInv(c), Next
    PROVE  OrderOf(chunks, chunks') /\ ListInv(c)'
<1> USE DEF OrderInv, StoreInv
<1>1. ASSUME NEW f \in Files, Persist(f), UNCHANGED clerkVars
      PROVE  OrderOf(chunks, chunks') /\ ListInv(c)'
  BY <1>1, PersistAppends DEF ListInv, clerkVars
<1>2. ASSUME NEW n \in Names, DeleteDocument(n) \/ SoftDelete(n) \/ Restore(n)
      PROVE  OrderOf(chunks, chunks') /\ ListInv(c)'
  BY <1>2, CompactingKeepsOrder DEF ListInv
<1>3. ASSUME ClearAllData PROVE OrderOf(chunks, chunks') /\ ListInv(c)'
  BY <1>3, CompactingKeepsOrder DEF ListInv
<1>4. ASSUME chunks' = chunks PROVE OrderOf(chunks, chunks')
  BY <1>4 DEF OrderOf
<1>5. ASSUME EmptyTrash, UNCHANGED clerkVars PROVE OrderOf(chunks, chunks') /\ ListInv(c)'
  BY <1>5, EmptyTrashTakesNone DEF ListInv, IsDense, Appended, clerkVars
<1>6. ASSUME NEW d \in Clerks, NEW S, BatchSoftDelete(d, S) \/ BatchDelete(d, S)
      PROVE  OrderOf(chunks, chunks') /\ ListInv(c)'
  <2>1. chunks' = Without(chunks, S) /\ d = c /\ pc'[c] = "select"
    BY <1>6 DEF BatchSoftDelete, BatchDelete, ClerksInv
  <2> QED BY <2>1, WithoutKeepsOrder DEF ListInv
<1>7. ASSUME NEW d \in Clerks, SelectIds(d) PROVE OrderOf(chunks, chunks') /\ ListInv(c)'
  <2>1. chunks' = chunks /\ ids'[c] = DOMAIN chunks
    BY <1>7 DEF SelectIds, tables, ClerksInv
  <2> QED BY <1>4, <2>1 DEF ListInv, Appended
<1>8. ASSUME NEW d \in Clerks, Renumber(d) PROVE OrderOf(chunks, chunks') /\ ListInv(c)'
  <2>1. d = c /\ pc[c] = "renumber" /\ pc'[c] = "idle" /\ ids[c] \in SUBSET Nat /\ IsTable(chunks)
    BY <1>8 DEF Renumber, RenumberTo, ClerksInv, TablesInv
  <2>2. CASE CanRenumber(chunks, ids[c])
    <3>1. chunks' = Renumbered(chunks, ids[c])
      BY <1>8, <2>1, <2>2 DEF Renumber, RenumberTo
    <3>2. \A i, j \in DOMAIN chunks : i < j => NewId(i, ids[c]) < NewId(j, ids[c])
      BY <2>1, <2>2, StaleListKeepsOrder DEF ListInv
    <3>3. \A r, s : Before(chunks, r, s) => Before(chunks', r, s)
      BY <2>1, <2>2, <3>1, <3>2, RenumberKeepsOrder
    <3> QED BY <2>1, <3>3 DEF OrderOf, ListInv
  <2>3. CASE ~CanRenumber(chunks, ids[c])
    <3>1. chunks' = chunks
      BY <1>8, <2>1, <2>3 DEF Renumber, RenumberTo
    <3> QED BY <1>4, <2>1, <3>1 DEF ListInv
  <2> QED BY <2>2, <2>3
<1>9. ASSUME NEW d \in Clerks, NEW S, SelectStaleTrash(d, S) PROVE OrderOf(chunks, chunks') /\ ListInv(c)'
  <2>1. chunks' = chunks /\ pc'[c] = "purge"
    BY <1>9 DEF SelectStaleTrash, tables, ClerksInv
  <2> QED BY <1>4, <2>1 DEF ListInv
<1>10. ASSUME NEW d \in Clerks, NEW n \in Names, PurgeOne(d, n) \/ PurgeFails(d, n)
       PROVE  OrderOf(chunks, chunks') /\ ListInv(c)'
  <2>1. pc'[c] # "renumber"
    BY <1>10 DEF PurgeOne, PurgeFails, TakeName, ClerksInv
  <2>2. OrderOf(chunks, chunks')
    BY <1>2, <1>4, <1>10 DEF PurgeOne, PurgeFails, tables
  <2> QED BY <2>1, <2>2 DEF ListInv
<1>11. ASSUME NEW d \in Clerks, Crash(d) PROVE OrderOf(chunks, chunks') /\ ListInv(c)'
  <2>1. chunks' = chunks /\ pc'[c] = "idle"
    BY <1>11 DEF Crash, tables, ClerksInv
  <2> QED BY <1>4, <2>1 DEF ListInv
<1> QED BY <1>1, <1>2, <1>3, <1>5, <1>6, <1>7, <1>8, <1>9, <1>10, <1>11 DEF Next

\* As long as the batches of one caller do not meet those of another, no step
\* changes the order of two chunks: a list of ids that uploads, deletions and
\* restores have overtaken either renumbers what it selected in its order, or
\* finds a table without gaps, in which it changes nothing.  (Two callers can
\* change the order: a list of the one may meet the gaps the other leaves.)
THEOREM OneClerkKeepsOrder ==
    ASSUME NEW c, Clerks = {c}
    PROVE  Spec => OrderKept
<1>1. Init => ListInv(c)
  BY DEF Init, ListInv
<1>2. OrderInv(c) /\ [Next]_storeVars => ListInv(c)'
  <2>1. ASSUME OrderInv(c), UNCHANGED storeVars PROVE ListInv(c)'
    BY <2>1 DEF OrderInv, ListInv, storeVars, tables, clerkVars
  <2> QED BY <2>1, OrderStep
<1>3. OrderInv(c) /\ [Next]_storeVars =>
          [\A r, s \in Once(chunks) \cap Once(chunks') :
              Before(chunks, r, s) => Before(chunks', r, s)]_storeVars
  <2>1. Once(chunks') \subseteq Range(chunks')
    BY DEF Once
  <2> QED BY <2>1, OrderStep DEF OrderOf
<1>4. Spec => []OrderInv(c)
  BY <1>1, <1>2, StoreInvariant, PTL DEF Spec, OrderInv
<1> QED BY <1>3, <1>4, PTL DEF Spec, OrderKept
=============================================================================
