--------------------------- MODULE CorpusIndexProofs ---------------------------
(***************************************************************************)
(* Proofs about CorpusIndex, for any files, sites and processes.           *)
(*                                                                         *)
(* Of every schedule: types, the discipline of the two locks, and that an  *)
(* index is handed out with a registry of its length.  Of a corpus that    *)
(* only grows: whatever was read from chunks at whatever time is a prefix  *)
(* of what is there now, hence of two readings of one length each is the   *)
(* other, and comparing counts suffices.                                   *)
(***************************************************************************)
EXTENDS CorpusIndex, CorpusStoreProofs, SequenceTheorems

-----------------------------------------------------------------------------
(* The rows of a table, by vector_id *)

\* Every position has a row, and the rows at the positions are those of the
\* table.
LEMMA OrderedLemma ==
    ASSUME NEW t, IsTable(t)
    PROVE  /\ Cardinality(DOMAIN t) \in Nat
           /\ Ordered(t) \in Vectors
           /\ Len(Ordered(t)) = Cardinality(DOMAIN t)
<1> DEFINE L == DOMAIN t
<1> DEFINE N == Cardinality(L)
<1>1. N \in Nat
  BY FS_CardinalityType DEF IsTable
<1>2. ASSUME NEW r \in 1..N PROVE t[CHOOSE i \in L : Rank(i, L) = r - 1] \in Row
  <2>1. r - 1 \in 0..(N - 1)
    BY <1>1
  <2>2. \E i \in L : Rank(i, L) = r - 1
    BY <2>1, RankOnto DEF IsTable
  <2>3. (CHOOSE i \in L : Rank(i, L) = r - 1) \in L
    BY <2>2
  <2> QED BY <2>3 DEF IsTable, Range
<1>3. Ordered(t) = [r \in 1..N |-> t[CHOOSE i \in L : Rank(i, L) = r - 1]]
  BY DEF Ordered
<1> HIDE DEF L
<1>4. Ordered(t) \in [1..N -> Row]
  BY <1>2, <1>3
<1> QED BY <1>1, <1>4 DEF Vectors, L

\* Without gaps, the row at a position is the row of that number.
LEMMA DenseLemma ==
    ASSUME NEW t, IsTable(t), NEW N \in Nat, DOMAIN t = 0..(N - 1)
    PROVE  Len(Ordered(t)) = N /\ \A r \in 1..N : Ordered(t)[r] = t[r - 1]
<1>1. Cardinality(DOMAIN t) = N
  BY FS_Interval
<1>2. \A i \in DOMAIN t : Rank(i, DOMAIN t) = i
  <2> SUFFICES ASSUME NEW i \in DOMAIN t PROVE Rank(i, DOMAIN t) = i
    OBVIOUS
  <2>1. {j \in DOMAIN t : j < i} = 0..(i - 1) /\ i \in Nat
    OBVIOUS
  <2>2. Cardinality(0..(i - 1)) = i
    BY <2>1, FS_Interval
  <2> QED BY <2>1, <2>2 DEF Rank
<1>3. ASSUME NEW r \in 1..N PROVE Ordered(t)[r] = t[r - 1]
  <2>1. r - 1 \in DOMAIN t
    OBVIOUS
  <2>2. (CHOOSE i \in DOMAIN t : Rank(i, DOMAIN t) = r - 1) = r - 1
    BY <1>2, <2>1
  <2> QED BY <1>1, <2>2 DEF Ordered
<1> QED BY <1>1, <1>3, OrderedLemma

-----------------------------------------------------------------------------
(* Every schedule *)

SitesInv ==
    /\ index \in Vectors \cup {NoIndex}
    /\ at \in [Sites -> Places]
    /\ matrix \in [Sites -> Vectors] /\ registry \in [Sites -> Vectors]
    /\ mutex \in [Processes -> Sites \cup {NoSite}]
    /\ lockFile \in BOOLEAN /\ holders \subseteq Sites
    /\ faultsLeft \in 0..MaxFaults

\* A lock is held only in the section it guards.
LocksInv ==
    /\ \A s \in Sites : at[s] \in {"upload", "load", "open", "loadsave", "rebuild"}
                            => mutex[Process[s]] = s
    /\ \A s \in holders : at[s] \in {"rescan", "load", "open", "loadsave", "serve", "save"}

\* From the comparison in load_or_rebuild_index on, both parts have one length.
PairsInv == \A s \in Sites : at[s] \in {"open", "loadsave", "serve"}
                                 => Len(matrix[s]) = Len(registry[s])

IndexInv == TablesInv /\ ClerksInv /\ SitesInv /\ LocksInv /\ PairsInv

LEMMA ProcessLemma ==
    ASSUME NEW s \in Sites
    PROVE  Process[s] \in Processes /\ s # NoSite
BY IndexAssumption DEF IndexAssumption, Processes

LEMMA VectorsLemma ==
    ASSUME TablesInv
    PROVE  Rows \in Vectors /\ <<>> \in Vectors
BY OrderedLemma DEF TablesInv, Rows, Vectors

\* What the corpus keeps, it keeps under its sites.
LEMMA StoreStep ==
    ASSUME TablesInv, ClerksInv, [AppendNext \/ RemoveNext]_indexVars
    PROVE  TablesInv' /\ ClerksInv'
<1>1. \/ UNCHANGED storeVars
      \/ UNCHANGED clerkVars /\ \E f \in Files : Persist(f)
      \/ UNCHANGED clerkVars /\ \E n \in Names : DeleteDocument(n) \/ SoftDelete(n) \/ Restore(n)
      \/ UNCHANGED clerkVars /\ ClearAllData
  <2>1. ASSUME NEW s \in Sites, Continue(s) PROVE UNCHANGED storeVars
    BY <2>1 DEF Continue, UploadRead, DeleteRead, RemoveIndex, Save, LoadRegistry, Accept, Reject,
       LoadSave, Leave, SyncVerified, SyncDesync, SyncRead, SyncTimeout, RebuildLock, RebuildTimeout,
       SameStore
  <2>2. ASSUME AppendNext
        PROVE  \/ UNCHANGED storeVars
               \/ UNCHANGED clerkVars /\ \E f \in Files : Persist(f)
    BY <2>1, <2>2 DEF AppendNext, UploadCommit, LoadStart, RescanStart, SyncInspect, RebuildRead,
       SaveFails, ProcessDies, ClearStaleLock, SameStore, SameRest
  <2>3. ASSUME RemoveNext
        PROVE  \/ UNCHANGED storeVars
               \/ UNCHANGED clerkVars
                  /\ \E n \in Names : DeleteDocument(n) \/ SoftDelete(n) \/ Restore(n)
               \/ UNCHANGED clerkVars /\ ClearAllData
    BY <2>3 DEF RemoveNext, DeleteCommit, ClearCommit, RemoveFails, TrashOrRestore, SameStore, SameRest
  <2>4. UNCHANGED indexVars => UNCHANGED storeVars
    BY DEF indexVars
  <2> QED BY <2>2, <2>3, <2>4
<1>2. UNCHANGED storeVars => UNCHANGED tables /\ UNCHANGED clerkVars
  BY DEF storeVars
<1> QED BY <1>1, <1>2, PersistKeeps, DeleteKeeps, SoftDeleteKeeps, RestoreKeeps, ClearKeeps,
           SameTablesKeep, SameClerksKeep

\* What a site does to the write lock.
LEMMA WriteLemma ==
    ASSUME SitesInv, NEW s \in Sites
    PROVE  /\ Lock!Enter(s) => holders' = holders \cup {s} /\ lockFile' \in BOOLEAN
           /\ DropWriter(s) => holders' = holders \ {s} /\ lockFile' \in BOOLEAN
           /\ Lock!Clear => holders' = holders /\ lockFile' \in BOOLEAN
BY DEF Lock!Enter, Lock!Leave, Lock!Abandon, Lock!Clear, DropWriter, writeVars, SitesInv

\* Each action of a site keeps the rest, given that Rows are vectors.
LEMMA UploadStep ==
    ASSUME IndexInv, NEW s \in Sites,
           (\E f \in Files : UploadCommit(s, f)) \/ UploadRead(s)
    PROVE  SitesInv' /\ LocksInv' /\ PairsInv'
<1>1. Rows \in Vectors /\ <<>> \in Vectors
  BY VectorsLemma DEF IndexInv
<1>2. \A t \in Sites : Process[t] \in Processes /\ t # NoSite
  BY ProcessLemma
<1>3. ASSUME NEW f \in Files, UploadCommit(s, f) PROVE SitesInv' /\ LocksInv' /\ PairsInv'
  BY <1>1, <1>2, <1>3 DEF UploadCommit, Move, TakeMutex, SameData, SameRest, writeVars, IndexInv, SitesInv,
     LocksInv, PairsInv, Places
<1>4. ASSUME UploadRead(s) PROVE SitesInv' /\ LocksInv' /\ PairsInv'
  BY <1>1, <1>2, <1>4 DEF UploadRead, Move, ReadMatrix, lockVars, writeVars, IndexInv, SitesInv,
     LocksInv, PairsInv, Places
<1> QED BY <1>3, <1>4

\* Deletions, and what they do to the file.
LEMMA RemoveStep ==
    ASSUME IndexInv, NEW s \in Sites,
           \/ \E n \in Names : DeleteCommit(s, n)
           \/ DeleteRead(s)
           \/ ClearCommit(s)
           \/ RemoveIndex(s)
           \/ RemoveFails(s)
           \/ TrashOrRestore(s)
    PROVE  SitesInv' /\ LocksInv' /\ PairsInv'
<1>1. Rows \in Vectors /\ <<>> \in Vectors
  BY VectorsLemma DEF IndexInv
<1>2. \A t \in Sites : Process[t] \in Processes /\ t # NoSite
  BY ProcessLemma
<1>3. ASSUME \E n \in Names : DeleteCommit(s, n) PROVE SitesInv' /\ LocksInv' /\ PairsInv'
  BY <1>1, <1>2, <1>3, IndexAssumption DEF IndexAssumption, DeleteCommit, Move, SameData, SameRest, lockVars, writeVars, IndexInv, SitesInv, LocksInv, PairsInv, Places
<1>4. ASSUME DeleteRead(s) PROVE SitesInv' /\ LocksInv' /\ PairsInv'
  BY <1>1, <1>2, <1>4, IndexAssumption DEF IndexAssumption, DeleteRead, Move, ReadMatrix, lockVars, writeVars, IndexInv, SitesInv, LocksInv, PairsInv, Places
<1>5. ASSUME ClearCommit(s) PROVE SitesInv' /\ LocksInv' /\ PairsInv'
  BY <1>1, <1>2, <1>5, IndexAssumption DEF IndexAssumption, ClearCommit, Move, SameData, SameRest, lockVars, writeVars, IndexInv, SitesInv, LocksInv, PairsInv, Places
<1>6. ASSUME RemoveIndex(s) PROVE SitesInv' /\ LocksInv' /\ PairsInv'
  BY <1>1, <1>2, <1>6, IndexAssumption DEF IndexAssumption, RemoveIndex, Move, Forget, lockVars, writeVars, IndexInv, SitesInv, LocksInv, PairsInv, Places
<1>7. ASSUME RemoveFails(s) PROVE SitesInv' /\ LocksInv' /\ PairsInv'
  BY <1>1, <1>2, <1>7, IndexAssumption DEF IndexAssumption, RemoveFails, Move, Forget, lockVars, writeVars, IndexInv, SitesInv, LocksInv, PairsInv, Places
<1>8. ASSUME TrashOrRestore(s) PROVE SitesInv' /\ LocksInv' /\ PairsInv'
  BY <1>1, <1>2, <1>8, IndexAssumption DEF IndexAssumption, TrashOrRestore, Move, SameRest, siteVars, lockVars, writeVars, IndexInv, SitesInv, LocksInv, PairsInv, Places
<1> QED BY <1>3, <1>4, <1>5, <1>6, <1>7, <1>8

\* save_index, and an exception out of it.
LEMMA SaveStep ==
    ASSUME IndexInv, NEW s \in Sites,
           \/ Save(s)
           \/ SaveFails(s)
    PROVE  SitesInv' /\ LocksInv' /\ PairsInv'
<1>1. Rows \in Vectors /\ <<>> \in Vectors
  BY VectorsLemma DEF IndexInv
<1>2. \A t \in Sites : Process[t] \in Processes /\ t # NoSite
  BY ProcessLemma
<1>3. ASSUME Save(s) PROVE SitesInv' /\ LocksInv' /\ PairsInv'
  BY <1>1, <1>2, <1>3, WriteLemma, IndexAssumption DEF IndexAssumption, Save, Move, MutexFree, DropLocks, Spent, DropMutex, Forget, IndexInv, SitesInv, LocksInv, PairsInv, Places
<1>4. ASSUME SaveFails(s) PROVE SitesInv' /\ LocksInv' /\ PairsInv'
  BY <1>1, <1>2, <1>4, WriteLemma, IndexAssumption DEF IndexAssumption, SaveFails, Move, MutexFree, DropLocks, Spent, DropMutex, Forget, Syncing, IndexInv, SitesInv, LocksInv, PairsInv, Places
<1> QED BY <1>3, <1>4

\* load_or_rebuild_index.
LEMMA LoadStep ==
    ASSUME IndexInv, NEW s \in Sites,
           \/ RescanStart(s)
           \/ LoadStart(s)
           \/ LoadRegistry(s)
           \/ Accept(s)
           \/ Reject(s)
           \/ LoadSave(s)
           \/ Leave(s)
    PROVE  SitesInv' /\ LocksInv' /\ PairsInv'
<1>1. Rows \in Vectors /\ <<>> \in Vectors
  BY VectorsLemma DEF IndexInv
<1>2. \A t \in Sites : Process[t] \in Processes /\ t # NoSite
  BY ProcessLemma
<1>3. ASSUME RescanStart(s) PROVE SitesInv' /\ LocksInv' /\ PairsInv'
  BY <1>1, <1>2, <1>3, WriteLemma, IndexAssumption DEF IndexAssumption, RescanStart, Move, SameData, IndexInv, SitesInv, LocksInv, PairsInv, Places
<1>4. ASSUME LoadStart(s) PROVE SitesInv' /\ LocksInv' /\ PairsInv'
  BY <1>1, <1>2, <1>4, IndexAssumption DEF IndexAssumption, LoadStart, Move, writeVars, TakeMutex, ReadMatrix, IndexInv, SitesInv, LocksInv, PairsInv, Places
<1>5. ASSUME LoadRegistry(s) PROVE SitesInv' /\ LocksInv' /\ PairsInv'
  BY <1>1, <1>2, <1>5, WriteLemma, IndexAssumption DEF IndexAssumption, LoadRegistry, Move, Forget, lockVars, writeVars, DropLocks, Spent, DropMutex, IndexInv, SitesInv, LocksInv, PairsInv, Places
<1>6. ASSUME Accept(s) PROVE SitesInv' /\ LocksInv' /\ PairsInv'
  BY <1>1, <1>2, <1>6, IndexAssumption DEF IndexAssumption, Accept, Move, writeVars, Valid, DropMutex, IndexInv, SitesInv, LocksInv, PairsInv, Places
<1>7. ASSUME Reject(s) PROVE SitesInv' /\ LocksInv' /\ PairsInv'
  BY <1>1, <1>2, <1>7, IndexAssumption DEF IndexAssumption, Reject, Move, SameData, lockVars, writeVars, IndexInv, SitesInv, LocksInv, PairsInv, Places
<1>8. ASSUME LoadSave(s) PROVE SitesInv' /\ LocksInv' /\ PairsInv'
  BY <1>1, <1>2, <1>8, IndexAssumption DEF IndexAssumption, LoadSave, Move, writeVars, SameData, DropMutex, IndexInv, SitesInv, LocksInv, PairsInv, Places
<1>9. ASSUME Leave(s) PROVE SitesInv' /\ LocksInv' /\ PairsInv'
  BY <1>1, <1>2, <1>9, WriteLemma, IndexAssumption DEF IndexAssumption, Leave, Spent, Move, Forget, IndexInv, SitesInv, LocksInv, PairsInv, Places
<1> QED BY <1>3, <1>4, <1>5, <1>6, <1>7, <1>8, <1>9

\* sync-index and rebuild_index_from_db.
LEMMA SyncStep ==
    ASSUME IndexInv, NEW s \in Sites,
           \/ SyncInspect(s)
           \/ SyncVerified(s)
           \/ SyncDesync(s)
           \/ SyncRead(s)
           \/ SyncTimeout(s)
           \/ RebuildRead(s)
           \/ RebuildLock(s)
           \/ RebuildTimeout(s)
    PROVE  SitesInv' /\ LocksInv' /\ PairsInv'
<1>1. Rows \in Vectors /\ <<>> \in Vectors
  BY VectorsLemma DEF IndexInv
<1>2. \A t \in Sites : Process[t] \in Processes /\ t # NoSite
  BY ProcessLemma
<1>3. ASSUME SyncInspect(s) PROVE SitesInv' /\ LocksInv' /\ PairsInv'
  BY <1>1, <1>2, <1>3, IndexAssumption DEF IndexAssumption, SyncInspect, Move, lockVars, writeVars, IndexInv, SitesInv, LocksInv, PairsInv, Places
<1>4. ASSUME SyncVerified(s) PROVE SitesInv' /\ LocksInv' /\ PairsInv'
  BY <1>1, <1>2, <1>4, IndexAssumption DEF IndexAssumption, SyncVerified, Move, Forget, lockVars, writeVars, IndexInv, SitesInv, LocksInv, PairsInv, Places
<1>5. ASSUME SyncDesync(s) PROVE SitesInv' /\ LocksInv' /\ PairsInv'
  BY <1>1, <1>2, <1>5, IndexAssumption DEF IndexAssumption, SyncDesync, Move, Forget, lockVars, writeVars, IndexInv, SitesInv, LocksInv, PairsInv, Places
<1>6. ASSUME SyncRead(s) PROVE SitesInv' /\ LocksInv' /\ PairsInv'
  BY <1>1, <1>2, <1>6, WriteLemma, IndexAssumption DEF IndexAssumption, SyncRead, Move, ReadMatrix, IndexInv, SitesInv, LocksInv, PairsInv, Places
<1>7. ASSUME SyncTimeout(s) PROVE SitesInv' /\ LocksInv' /\ PairsInv'
  BY <1>1, <1>2, <1>7, IndexAssumption DEF IndexAssumption, SyncTimeout, Move, Forget, lockVars, writeVars, IndexInv, SitesInv, LocksInv, PairsInv, Places
<1>8. ASSUME RebuildRead(s) PROVE SitesInv' /\ LocksInv' /\ PairsInv'
  BY <1>1, <1>2, <1>8, IndexAssumption DEF IndexAssumption, RebuildRead, Move, writeVars, TakeMutex, ReadMatrix, IndexInv, SitesInv, LocksInv, PairsInv, Places
<1>9. ASSUME RebuildLock(s) PROVE SitesInv' /\ LocksInv' /\ PairsInv'
  BY <1>1, <1>2, <1>9, WriteLemma, IndexAssumption DEF IndexAssumption, RebuildLock, Move, SameData, IndexInv, SitesInv, LocksInv, PairsInv, Places
<1>10. ASSUME RebuildTimeout(s) PROVE SitesInv' /\ LocksInv' /\ PairsInv'
  BY <1>1, <1>2, <1>10, IndexAssumption DEF IndexAssumption, RebuildTimeout, Move, writeVars, DropMutex, Forget, IndexInv, SitesInv, LocksInv, PairsInv, Places
<1> QED BY <1>3, <1>4, <1>5, <1>6, <1>7, <1>8, <1>9, <1>10

\* A process dies, or its lock file is cleared away.
LEMMA FaultStep ==
    ASSUME IndexInv, (\E p \in Processes : ProcessDies(p)) \/ ClearStaleLock
    PROVE  SitesInv' /\ LocksInv' /\ PairsInv'
<1>1. <<>> \in Vectors
  BY VectorsLemma DEF IndexInv
<1>2. \A t \in Sites : Process[t] \in Processes /\ t # NoSite
  BY ProcessLemma
<1>3. ASSUME NEW p \in Processes, ProcessDies(p) PROVE SitesInv' /\ LocksInv' /\ PairsInv'
  <2>1. SitesInv'
    BY <1>1, <1>3, IndexAssumption DEF IndexAssumption, ProcessDies, IndexInv, SitesInv, Places
  <2>2. LocksInv'
    BY <1>2, <1>3 DEF ProcessDies, IndexInv, SitesInv, LocksInv
  <2>3. PairsInv'
    BY <1>3 DEF ProcessDies, IndexInv, SitesInv, PairsInv
  <2> QED BY <2>1, <2>2, <2>3
<1>4. ASSUME ClearStaleLock PROVE SitesInv' /\ LocksInv' /\ PairsInv'
  BY <1>2, <1>4 DEF ClearStaleLock, Lock!Clear, siteVars, IndexInv, SitesInv, LocksInv, PairsInv
<1> QED BY <1>3, <1>4

LEMMA IndexStep ==
    ASSUME IndexInv, [AppendNext \/ RemoveNext]_indexVars
    PROVE  IndexInv'
<1>1. TablesInv' /\ ClerksInv'
  BY StoreStep DEF IndexInv
<1>2. ASSUME NEW s \in Sites, Continue(s) PROVE SitesInv' /\ LocksInv' /\ PairsInv'
  BY <1>2, UploadStep, RemoveStep, SaveStep, LoadStep, SyncStep DEF Continue
<1>3. ASSUME AppendNext PROVE SitesInv' /\ LocksInv' /\ PairsInv'
  BY <1>2, <1>3, UploadStep, LoadStep, SyncStep, SaveStep, FaultStep DEF AppendNext
<1>4. ASSUME RemoveNext PROVE SitesInv' /\ LocksInv' /\ PairsInv'
  BY <1>4, RemoveStep DEF RemoveNext
<1>5. ASSUME UNCHANGED indexVars PROVE SitesInv' /\ LocksInv' /\ PairsInv'
  BY <1>5 DEF indexVars, siteVars, lockVars, writeVars, IndexInv, SitesInv, LocksInv, PairsInv
<1> QED BY <1>1, <1>3, <1>4, <1>5 DEF IndexInv

LEMMA InitIndex ==
    ASSUME IndexInit
    PROVE  IndexInv
<1>1. TablesInv
  BY InitTables DEF IndexInit
<1>2. ClerksInv
  BY DEF IndexInit, Init, ClerksInv
<1>3. <<>> \in Vectors
  BY DEF Vectors
<1>4. SitesInv
  <2>1. lockFile \in BOOLEAN /\ holders \subseteq Sites
    BY DEF IndexInit
  <2>2. /\ at = [s \in Sites |-> "idle"] /\ index = NoIndex /\ faultsLeft = MaxFaults
        /\ matrix = [s \in Sites |-> <<>>] /\ registry = [s \in Sites |-> <<>>]
        /\ mutex = [p \in Processes |-> NoSite]
    BY DEF IndexInit
  <2> QED
    BY <1>3, <2>1, <2>2, IndexAssumption DEF IndexAssumption, SitesInv, Places
<1>5. LocksInv /\ PairsInv
  BY DEF IndexInit, LocksInv, PairsInv
<1> QED BY <1>1, <1>2, <1>4, <1>5 DEF IndexInv

LEMMA IndexInvariant == IndexSpec => []IndexInv
<1>1. IndexInit => IndexInv
  BY InitIndex
<1>2. IndexInv /\ [AppendNext \/ RemoveNext]_indexVars => IndexInv'
  BY IndexStep
<1> QED BY <1>1, <1>2, PTL DEF IndexSpec

\* Types, and the discipline of the locks: who loads, uploads or rebuilds has
\* _INDEX_LOCK of its process, and who has the lock file is in a section that
\* it guards.
THEOREM IndexTypeCorrect == IndexSpec => []IndexTypeOK
<1>1. IndexInv => TypeOK
  BY StoreInvImplies DEF IndexInv, StoreInv
<1>2. IndexInv => IndexTypeOK
  BY <1>1 DEF IndexInv, SitesInv, LocksInv, IndexTypeOK
<1> QED BY <1>2, IndexInvariant, PTL

\* Whatever is committed between the reads of load_or_rebuild_index, the index
\* it hands out has as many vectors as its registry has entries.
THEOREM ServedFits == IndexSpec => []ServedIsInRange
<1>1. IndexInv => ServedIsInRange
  BY DEF IndexInv, PairsInv, ServedIsInRange
<1> QED BY <1>1, IndexInvariant, PTL

-----------------------------------------------------------------------------
(* A corpus that only grows *)

\* q is what get_all_embeddings returns, or returned once.
IsPast(q) == Len(q) <= Len(Rows) /\ \A r \in 1..Len(q) : q[r] = Rows[r]

GrowInv ==
    /\ IsDense(chunks)
    /\ index # NoIndex => IsPast(index)
    /\ \A s \in Sites : IsPast(matrix[s])
    /\ \A s \in Sites : at[s] \in {"open", "loadsave", "serve"} => matrix[s] = registry[s]

\* Two past readings of one length are one.
LEMMA SamePast ==
    ASSUME TablesInv, NEW q \in Vectors, NEW p \in Vectors, IsPast(q), IsPast(p), Len(q) = Len(p)
    PROVE  q = p
<1>1. \A r \in 1..Len(q) : q[r] = p[r]
  BY DEF IsPast
<1> QED BY <1>1, SeqEqual DEF Vectors

LEMMA RowsArePast ==
    ASSUME TablesInv
    PROVE  IsPast(Rows) /\ IsPast(<<>>)
<1>1. Rows \in Vectors
  BY VectorsLemma
<1>2. Len(Rows) \in Nat /\ Len(<<>>) = 0
  BY <1>1 DEF Vectors
<1> QED BY <1>2 DEF IsPast

\* An upload appends: what was past stays past.
LEMMA UploadAppends ==
    ASSUME TablesInv, IsDense(chunks), NEW f \in Files, Persist(f)
    PROVE  /\ IsDense(chunks')
           /\ Len(Rows) \in Nat /\ Len(Rows') \in Nat /\ Len(Rows) <= Len(Rows')
           /\ \A r \in 1..Len(Rows) : Rows'[r] = Rows[r]
<1> DEFINE n == IF content[BaseName[f]] = NoFile THEN BaseName[f] ELSE f
<1> DEFINE new == [i \in NextId..(NextId + Size[f] - 1) |->
                      [doc |-> n, file |-> f, k |-> i - NextId]]
<1>1. PICK N \in Nat : DOMAIN chunks = 0..(N - 1)
  BY DEF IsDense
<1>2. NextId = N
  <2>1. NextId \in Nat /\ \A i \in DOMAIN chunks : i < NextId
    BY NextIdLemma DEF TablesInv, IsTable
  <2>2. NextId \in {0} \cup {i + 1 : i \in DOMAIN chunks}
    <3>1. N \in {0} \cup {i + 1 : i \in DOMAIN chunks} /\ \A i \in DOMAIN chunks : i < N
      <4>1. N = 0 \/ (N - 1 \in DOMAIN chunks /\ N = (N - 1) + 1)
        BY <1>1
      <4> QED BY <1>1, <4>1
    <3> QED BY <3>1 DEF NextId
  <2>3. NextId <= N
    BY <1>1, <2>2
  <2>4. NextId >= N
    BY <1>1, <2>1
  <2> QED BY <2>1, <2>3, <2>4
<1>3. Size[f] \in Nat /\ Size[f] > 0
  BY NamesLemma
<1>4. chunks' = Join(chunks, new)
  BY DEF Persist, StoreFile
<1>5. DOMAIN chunks' = 0..(N + Size[f] - 1)
  BY <1>1, <1>2, <1>3, <1>4 DEF Join
<1>6. \A i \in 0..(N - 1) : chunks'[i] = chunks[i]
  BY <1>1, <1>4 DEF Join
<1>7. IsTable(chunks) /\ IsTable(chunks')
  BY PersistKeeps DEF TablesInv
<1>8. Len(Rows) = N /\ \A r \in 1..N : Rows[r] = chunks[r - 1]
  BY <1>1, <1>7, DenseLemma DEF Rows
<1>9. Len(Rows') = N + Size[f] /\ \A r \in 1..(N + Size[f]) : Rows'[r] = chunks'[r - 1]
  <2> DEFINE M == N + Size[f]
  <2>1. M \in Nat /\ DOMAIN chunks' = 0..(M - 1)
    BY <1>3, <1>5
  <2> HIDE DEF M
  <2>2. Len(Ordered(chunks')) = M /\ \A r \in 1..M : Ordered(chunks')[r] = chunks'[r - 1]
    BY <1>7, <2>1, DenseLemma
  <2>3. Rows' = Ordered(chunks')
    BY DEF Rows
  <2> QED BY <2>2, <2>3 DEF M
<1>10. IsDense(chunks')
  <2> DEFINE M == N + Size[f]
  <2>1. M \in Nat /\ DOMAIN chunks' = 0..(M - 1)
    BY <1>3, <1>5
  <2> HIDE DEF M
  <2> QED BY <2>1 DEF IsDense
<1>11. ASSUME NEW r \in 1..N PROVE Rows'[r] = Rows[r]
  <2>1. r \in 1..(N + Size[f]) /\ r - 1 \in 0..(N - 1)
    BY <1>3
  <2> QED BY <1>6, <1>8, <1>9, <2>1
<1> QED BY <1>3, <1>8, <1>9, <1>10, <1>11

LEMMA PastStays ==
    ASSUME TablesInv, IsDense(chunks),
           UNCHANGED storeVars \/ \E f \in Files : Persist(f),
           NEW q \in Vectors, IsPast(q)
    PROVE  /\ IsDense(chunks')
           /\ Len(q) <= Len(Rows') /\ \A r \in 1..Len(q) : q[r] = Rows'[r]
<1>1. Len(q) \in Nat
  BY DEF Vectors
<1>2. CASE UNCHANGED storeVars
  BY <1>2 DEF IsPast, Rows, storeVars, tables
<1>3. CASE \E f \in Files : Persist(f)
  <2>1. /\ IsDense(chunks')
        /\ Len(Rows) \in Nat /\ Len(Rows') \in Nat /\ Len(Rows) <= Len(Rows')
        /\ \A r \in 1..Len(Rows) : Rows'[r] = Rows[r]
    BY <1>3, UploadAppends
  <2>2. \A r \in 1..Len(q) : r \in 1..Len(Rows)
    BY <1>1, <2>1 DEF IsPast
  <2> QED BY <1>1, <2>1, <2>2 DEF IsPast
<1> QED BY <1>2, <1>3

\* What a step leaves in the file and in the hands of a site was read from one
\* of them or from chunks.
Sources ==
    /\ \A t \in Sites : \/ matrix'[t] \in {matrix[t], <<>>, Rows}
                        \/ index # NoIndex /\ matrix'[t] = index
    /\ index' \in {index, NoIndex} \/ \E s \in Sites : index' = matrix[s]
    /\ \A t \in Sites : at'[t] \in {"open", "loadsave", "serve"} => matrix'[t] = registry'[t]

LEMMA SourcesStep ==
    ASSUME IndexInv, GrowInv, [AppendNext]_indexVars
    PROVE  Sources
<1> DEFINE Kept == at \in [Sites -> Places] /\ matrix \in [Sites -> Vectors]
                   /\ registry \in [Sites -> Vectors]
                   /\ \A t \in Sites : at[t] \in {"open", "loadsave", "serve"} => matrix[t] = registry[t]
<1>1. Kept /\ Rows \in Vectors /\ TablesInv
  BY VectorsLemma DEF IndexInv, SitesInv, GrowInv
<1>2. \A s \in Sites : IsPast(matrix[s]) /\ matrix[s] \in Vectors
  BY <1>1 DEF GrowInv
<1>3. ASSUME NEW s \in Sites, \E f \in Files : UploadCommit(s, f) PROVE Sources
  BY <1>1, <1>3 DEF UploadCommit, Move, SameData, SameRest, Sources
<1>4. ASSUME NEW s \in Sites, UploadRead(s) PROVE Sources
  BY <1>1, <1>4 DEF UploadRead, Move, ReadMatrix, Sources
<1>5. ASSUME NEW s \in Sites, DeleteRead(s) PROVE Sources
  BY <1>1, <1>5 DEF DeleteRead, Move, ReadMatrix, Sources
<1>6. ASSUME NEW s \in Sites, RemoveIndex(s) PROVE Sources
  BY <1>1, <1>6 DEF RemoveIndex, Move, Forget, Sources
<1>7. ASSUME NEW s \in Sites, Save(s) PROVE Sources
  BY <1>1, <1>7 DEF Save, Move, Forget, Sources
<1>8. ASSUME NEW s \in Sites, SaveFails(s) PROVE Sources
  BY <1>1, <1>8 DEF SaveFails, Move, Forget, Syncing, Sources
<1>9. ASSUME NEW s \in Sites, RescanStart(s) PROVE Sources
  BY <1>1, <1>9 DEF RescanStart, Move, SameData, Sources
<1>10. ASSUME NEW s \in Sites, LoadStart(s) PROVE Sources
  BY <1>1, <1>10 DEF LoadStart, Move, ReadMatrix, Sources
<1>11. ASSUME NEW s \in Sites, Reject(s) PROVE Sources
  BY <1>1, <1>11 DEF Reject, Move, SameData, Sources
<1>12. ASSUME NEW s \in Sites, LoadSave(s) PROVE Sources
  BY <1>1, <1>12 DEF LoadSave, Move, SameData, Sources
<1>13. ASSUME NEW s \in Sites, Leave(s) PROVE Sources
  BY <1>1, <1>13 DEF Leave, Move, Forget, Sources
<1>14. ASSUME NEW s \in Sites, SyncInspect(s) PROVE Sources
  BY <1>1, <1>14 DEF SyncInspect, Move, Sources
<1>15. ASSUME NEW s \in Sites, SyncVerified(s) PROVE Sources
  BY <1>1, <1>15 DEF SyncVerified, Move, Forget, Sources
<1>16. ASSUME NEW s \in Sites, SyncDesync(s) PROVE Sources
  BY <1>1, <1>16 DEF SyncDesync, Move, Forget, Sources
<1>17. ASSUME NEW s \in Sites, SyncRead(s) PROVE Sources
  BY <1>1, <1>17 DEF SyncRead, Move, ReadMatrix, Sources
<1>18. ASSUME NEW s \in Sites, SyncTimeout(s) PROVE Sources
  BY <1>1, <1>18 DEF SyncTimeout, Move, Forget, Sources
<1>19. ASSUME NEW s \in Sites, RebuildRead(s) PROVE Sources
  BY <1>1, <1>19 DEF RebuildRead, Move, ReadMatrix, Sources
<1>20. ASSUME NEW s \in Sites, RebuildLock(s) PROVE Sources
  BY <1>1, <1>20 DEF RebuildLock, Move, SameData, Sources
<1>21. ASSUME NEW s \in Sites, RebuildTimeout(s) PROVE Sources
  BY <1>1, <1>21 DEF RebuildTimeout, Move, Forget, Sources
<1>22. ASSUME NEW s \in Sites, LoadRegistry(s) PROVE Sources
  <2>1. CASE Len(matrix[s]) = Len(Rows)
    <3>1. matrix[s] = Rows
      BY <1>1, <1>2, <2>1, SamePast, RowsArePast
    <3> QED BY <1>1, <1>22, <2>1, <3>1 DEF LoadRegistry, Move, Sources
  <2>2. CASE Len(matrix[s]) # Len(Rows)
    BY <1>1, <1>22, <2>2 DEF LoadRegistry, Move, Forget, Sources
  <2> QED BY <2>1, <2>2
<1>23. ASSUME NEW s \in Sites, Accept(s) PROVE Sources
  <2>1. index \in Vectors /\ IsPast(index) /\ Len(index) = Len(matrix[s])
    BY <1>23 DEF Accept, Valid, IndexInv, SitesInv, GrowInv
  <2>2. index = matrix[s]
    BY <1>1, <1>2, <2>1, SamePast
  <2>3. matrix[s] = registry[s]
    BY <1>1, <1>23 DEF Accept, Move
  <2> QED BY <1>1, <1>23, <2>2, <2>3 DEF Accept, Valid, Move, Sources
<1>24. ASSUME NEW p \in Processes, ProcessDies(p) PROVE Sources
  BY <1>1, <1>24 DEF ProcessDies, Sources
<1>25. ASSUME ClearStaleLock PROVE Sources
  BY <1>1, <1>25 DEF ClearStaleLock, siteVars, Sources
<1>26. ASSUME UNCHANGED indexVars PROVE Sources
  BY <1>1, <1>26 DEF indexVars, siteVars, Sources
<1>27. ASSUME NEW s \in Sites, Continue(s) PROVE Sources
  BY <1>27, <1>3, <1>4, <1>5, <1>6, <1>7, <1>8, <1>9, <1>10, <1>11, <1>12, <1>13, <1>14, <1>15, <1>16, <1>17, <1>18, <1>19, <1>20, <1>21, <1>22, <1>23 DEF Continue
<1> HIDE DEF Kept
<1> QED BY <1>3, <1>4, <1>5, <1>6, <1>7, <1>8, <1>9, <1>10, <1>11, <1>12, <1>13, <1>14, <1>15, <1>16, <1>17, <1>18, <1>19, <1>20, <1>21, <1>22, <1>23, <1>24, <1>25, <1>26, <1>27 DEF AppendNext

LEMMA GrowStep ==
    ASSUME IndexInv, GrowInv, [AppendNext]_indexVars
    PROVE  GrowInv'
<1>1. TablesInv /\ IsDense(chunks)
  BY DEF IndexInv, GrowInv
<1>2. UNCHANGED storeVars \/ \E f \in Files : Persist(f)
  <2>1. ASSUME NEW s \in Sites, Continue(s) PROVE UNCHANGED storeVars
    BY <2>1 DEF Continue, UploadRead, DeleteRead, RemoveIndex, Save, LoadRegistry, Accept, Reject,
       LoadSave, Leave, SyncVerified, SyncDesync, SyncRead, SyncTimeout, RebuildLock, RebuildTimeout,
       SameStore
  <2>2. UNCHANGED indexVars => UNCHANGED storeVars
    BY DEF indexVars
  <2> QED BY <2>1, <2>2 DEF AppendNext, UploadCommit, LoadStart, RescanStart, SyncInspect,
             RebuildRead, SaveFails, ProcessDies, ClearStaleLock, SameStore
<1>3. Sources
  BY SourcesStep
<1>4. \A q \in Vectors : IsPast(q) => Len(q) <= Len(Rows') /\ \A r \in 1..Len(q) : q[r] = Rows'[r]
  BY <1>1, <1>2, PastStays
<1>5. IsDense(chunks')
  BY <1>1, <1>2, PastStays, VectorsLemma, RowsArePast
<1>6. /\ <<>> \in Vectors /\ IsPast(<<>>) /\ Rows \in Vectors /\ IsPast(Rows)
      /\ \A s \in Sites : matrix[s] \in Vectors /\ IsPast(matrix[s])
      /\ index # NoIndex => index \in Vectors /\ IsPast(index)
  BY <1>1, VectorsLemma, RowsArePast DEF IndexInv, SitesInv, GrowInv
<1>7. ASSUME NEW s \in Sites PROVE matrix'[s] \in Vectors /\ IsPast(matrix'[s])
  BY <1>3, <1>6 DEF Sources
<1>8. index' # NoIndex => index' \in Vectors /\ IsPast(index')
  BY <1>3, <1>6 DEF Sources
<1>9. \A s \in Sites : IsPast(matrix[s])'
  BY <1>4, <1>7 DEF IsPast
<1>10. (index # NoIndex => IsPast(index))'
  BY <1>4, <1>8 DEF IsPast
<1>11. IsDense(chunks)'
  BY <1>5
<1> QED BY <1>3, <1>9, <1>10, <1>11 DEF GrowInv, Sources

LEMMA GrowInvariant == AppendSpec => [](IndexInv /\ GrowInv)
<1>1. ASSUME IndexInit PROVE IndexInv /\ GrowInv
  <2>1. IndexInv
    BY <1>1, InitIndex
  <2>2. IsPast(<<>>)
    BY <2>1, RowsArePast DEF IndexInv
  <2>3. chunks = <<>> /\ DOMAIN <<>> = 0..(0 - 1)
    BY <1>1 DEF IndexInit, Init
  <2>4. IsDense(chunks)
    BY <2>3 DEF IsDense
  <2> QED BY <1>1, <2>1, <2>2, <2>4 DEF GrowInv, IndexInit
<1>2. IndexInv /\ GrowInv /\ [AppendNext]_indexVars => (IndexInv /\ GrowInv)'
  BY IndexStep, GrowStep
<1> QED BY <1>1, <1>2, PTL DEF AppendSpec

LEMMA VerifiedLemma ==
    ASSUME IndexInv, GrowInv, NEW s \in Sites, SyncVerified(s)
    PROVE  matrix[s] = Rows
<1>1. TablesInv /\ matrix[s] \in Vectors /\ IsPast(matrix[s])
  BY DEF IndexInv, SitesInv, GrowInv
<1>2. Len(matrix[s]) = Len(Rows)
  BY <1>1, OrderedLemma DEF SyncVerified, Rows, TablesInv
<1> QED BY <1>1, <1>2, SamePast, RowsArePast, VectorsLemma

\* A file that an upload has not caught up with, or that a slow writer has put
\* back, still has the first rows of chunks in their order.
THEOREM FileIsPrefix == AppendSpec => []IndexIsPrefix
<1>1. ASSUME IndexInv, GrowInv, index # NoIndex
      PROVE  Len(index) <= Len(Rows) /\ index = SubSeq(Rows, 1, Len(index))
  <2>1. index \in Vectors /\ Rows \in Vectors /\ IsPast(index)
    BY <1>1, VectorsLemma DEF IndexInv, SitesInv, GrowInv
  <2> DEFINE q == SubSeq(Rows, 1, Len(index))
  <2>2. Len(index) \in Nat /\ Len(Rows) \in Nat /\ Len(index) <= Len(Rows)
    BY <2>1 DEF Vectors, IsPast
  <2>3. \A r \in 1..Len(index) : Rows[r] \in Row
    BY <2>1, <2>2, ElementOfSeq DEF Vectors
  <2>4. q \in Seq(Row) /\ Len(q) = Len(index) /\ \A r \in 1..Len(index) : q[r] = Rows[r]
    <3>1. /\ q \in Seq(Row)
          /\ Len(q) = IF 1 <= Len(index) THEN Len(index) - 1 + 1 ELSE 0
          /\ \A r \in 1..(Len(index) - 1 + 1) : q[r] = Rows[1 + r - 1]
      BY <2>2, <2>3, SubSeqProperties
    <3> QED BY <2>2, <3>1
  <2> HIDE DEF q
  <2>5. index = q
    BY <2>1, <2>4, SeqEqual DEF IsPast, Vectors
  <2> QED BY <2>2, <2>5 DEF q
<1>2. IndexInv /\ GrowInv => IndexIsPrefix
  BY <1>1 DEF IndexIsPrefix
<1> QED BY <1>2, GrowInvariant, PTL

\* While the corpus grows, what is searched is searched under the right
\* documents, although only counts were compared.
THEOREM ServedAligned == AppendSpec => []ServedIsAligned
<1>1. IndexInv /\ GrowInv => ServedIsAligned
  BY DEF GrowInv, ServedIsAligned
<1> QED BY <1>1, GrowInvariant, PTL

\* While the corpus grows, sync-index calls synchronized only what is.
THEOREM VerifiedAligned == AppendSpec => VerifiedIsAligned
<1>1. IndexInv /\ GrowInv /\ [AppendNext]_indexVars
        => [\A s \in Sites : SyncVerified(s) => matrix[s] = Rows]_indexVars
  BY VerifiedLemma
<1> QED BY <1>1, GrowInvariant, PTL DEF AppendSpec, VerifiedIsAligned
=============================================================================
