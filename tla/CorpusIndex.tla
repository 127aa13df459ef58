----------------------------- MODULE CorpusIndex -----------------------------
(***************************************************************************)
(* The FAISS index file beside corpus.db and everyone who writes or trusts *)
(* it: uploads (src/src/core/corpus_ingestion.py), the delete and clear    *)
(* buttons (src/app/views/corpus_view.py, src/src/api/routers/corpus.py),  *)
(* the loading of the index by sessions and rescans and its rebuild        *)
(* (src/src/core/faiss_index.py), the sync-index command                   *)
(* (src/src/core/synchronization.py).                                      *)
(*                                                                         *)
(* A site is a thread that runs one of these at a time.  A transaction, a  *)
(* SELECT and a read or replacement of the file are one step each.  The    *)
(* i-th vector of an index is the embedding of a row of chunks: an index   *)
(* is a sequence of rows.  It is aligned with a registry when they are the *)
(* same sequence.                                                          *)
(*                                                                         *)
(* An operator named after a slip (ValidIfAny, ...) is a mutated form of   *)
(* the one below it; no behaviour uses it.                                 *)
(***************************************************************************)
EXTENDS CorpusStore, Sequences

CONSTANTS Sites,
          NoSite,      \* nobody has the lock
          Process,     \* Process[s] : the process of site s
          NoIndex,     \* the index file does not exist
          MaxFaults    \* bound: process deaths, failing writes, reads and releases

ASSUME IndexAssumption ==
    /\ NoSite \notin Sites
    /\ Process \in [Sites -> Range(Process)]
    /\ MaxFaults \in Nat

VARIABLES
    index,     \* the file: NoIndex or a sequence of rows
    at,        \* where a site is
    matrix,    \* what its last get_all_embeddings or load_index returned
    registry,  \* what its last get_chunk_registry returned
    mutex,     \* mutex[p] : the site that has _INDEX_LOCK of process p
    lockFile,  \* the lock file exists
    holders,   \* the sites in the with-body of faiss_write_lock
    faultsLeft

siteVars  == <<at, matrix, registry>>
writeVars == <<lockFile, holders>>
lockVars  == <<mutex, writeVars>>
indexVars == <<storeVars, index, siteVars, lockVars, faultsLeft>>

\* Nothing bounds the time a rebuild takes, so that the write lock is as after a
\* death (FaissLockProofs, AnyLockImplements): the file of a living holder may be
\* taken for stale.
Lock == INSTANCE WriteLock WITH Callers <- Sites, orphaned <- TRUE

Processes == Range(Process)
Vectors   == Seq(Row)
Places    == {"idle", "upload", "deleted", "remove", "save", "rescan", "load", "open", "loadsave",
              "serve", "count", "repair", "rebuild"}

\* SELECT ... FROM chunks ORDER BY vector_id
Ordered(t) == [r \in 1..Cardinality(DOMAIN t) |->
                   t[CHOOSE i \in DOMAIN t : Rank(i, DOMAIN t) = r - 1]]
Rows       == Ordered(chunks)

Move(s, from, to) == at[s] = from /\ at' = [at EXCEPT ![s] = to]
MutexFree(s)      == mutex[Process[s]] \in {NoSite, s}
TakeMutex(s)      == mutex[Process[s]] = NoSite /\ mutex' = [mutex EXCEPT ![Process[s]] = s]
DropMutex(s)      == mutex' = [mutex EXCEPT ![Process[s]] = IF @ = s THEN NoSite ELSE @]
DropWriter(s)     == IF s \in holders THEN Lock!Leave(s) \/ Lock!Abandon(s)
                     ELSE UNCHANGED writeVars
DropLocks(s)      == DropMutex(s) /\ DropWriter(s)

\* A release that leaves its lock file behind is a fault.
Spent(s) == IF s \in holders /\ lockFile'
            THEN faultsLeft > 0 /\ faultsLeft' = faultsLeft - 1
            ELSE UNCHANGED faultsLeft

IndexInit ==
    /\ Init
    /\ index = NoIndex
    /\ at = [s \in Sites |-> "idle"]
    /\ matrix = [s \in Sites |-> <<>>]
    /\ registry = [s \in Sites |-> <<>>]
    /\ mutex = [p \in Processes |-> NoSite]
    /\ lockFile = FALSE /\ holders = {}
    /\ faultsLeft = MaxFaults

\* get_all_embeddings
ReadMatrixDescending(s) == matrix' = [matrix EXCEPT ![s] = [r \in DOMAIN Rows |-> Rows[Len(Rows) + 1 - r]]]
ReadMatrix(s) == matrix' = [matrix EXCEPT ![s] = Rows]

\* Frames.  A site that is idle again has no use for what it read.
SameStore == UNCHANGED storeVars
SameData  == UNCHANGED <<matrix, registry>>
Forget(s) == /\ matrix' = [matrix EXCEPT ![s] = <<>>]
             /\ registry' = [registry EXCEPT ![s] = <<>>]
SameRest  == UNCHANGED <<clerkVars, index, faultsLeft>>

-----------------------------------------------------------------------------
(* persist_analyzed_documents: one hold of _INDEX_LOCK, no faiss_write_lock *)

UploadCommit(s, f) ==
    /\ Move(s, "idle", "upload")
    /\ TakeMutex(s)
    /\ Persist(f)
    /\ SameData /\ SameRest /\ UNCHANGED writeVars

UploadRead(s) ==
    /\ Move(s, "upload", "save")
    /\ ReadMatrix(s)
    /\ SameStore /\ UNCHANGED <<index, registry, lockVars, faultsLeft>>

(* The delete button: three calls, and no lock around them *)

DeleteCommit(s, n) ==
    /\ Move(s, "idle", "deleted")
    /\ n \in Live
    /\ DeleteDocument(n)
    /\ SameData /\ SameRest /\ UNCHANGED lockVars

DeleteRead(s) ==
    /\ Move(s, "deleted", IF chunks = <<>> THEN "remove" ELSE "save")
    /\ ReadMatrix(s)
    /\ SameStore /\ UNCHANGED <<index, registry, lockVars, faultsLeft>>

(* Clear all documents, in the app and in the API *)

ClearCommit(s) ==
    /\ Move(s, "idle", "remove")
    /\ ClearAllData
    /\ SameData /\ SameRest /\ UNCHANGED lockVars

RemoveIndex(s) ==
    /\ Move(s, "remove", "idle")
    /\ index' = NoIndex
    /\ SameStore /\ Forget(s) /\ UNCHANGED <<lockVars, faultsLeft>>

\* os.remove raises: logged, or shown to the user, and the old file stays.
RemoveFails(s) ==
    /\ Move(s, "remove", "idle")
    /\ faultsLeft > 0 /\ faultsLeft' = faultsLeft - 1
    /\ SameStore /\ Forget(s) /\ UNCHANGED <<index, lockVars>>

(* soft_delete_document and restore_document of the corpus repository leave *)
(* the index as it is                                                       *)

TrashOrRestore(s) ==
    /\ at[s] = "idle"
    /\ \E n \in Names : SoftDelete(n) \/ Restore(n)
    /\ SameRest /\ UNCHANGED <<siteVars, lockVars>>

-----------------------------------------------------------------------------
(* save_index: the file is replaced in one step, or not at all *)

Save(s) ==
    /\ Move(s, "save", "idle")
    /\ MutexFree(s)
    /\ index' = matrix[s]
    /\ DropLocks(s) /\ Spent(s)
    /\ SameStore /\ Forget(s)

\* An exception out of save_index: the caller gives up, except for sync-index,
\* which tries its rebuild once more.
Syncing(s) == at[s] = "save" /\ s \in holders /\ mutex[Process[s]] # s
SaveFails(s) ==
    /\ at[s] \in {"save", "loadsave"}
    /\ \/ at' = [at EXCEPT ![s] = "idle"]
       \/ Syncing(s) /\ at' = [at EXCEPT ![s] = "repair"]
    /\ MutexFree(s)
    /\ faultsLeft > 0 /\ faultsLeft' = faultsLeft - 1
    /\ DropLocks(s)
    /\ SameStore /\ Forget(s) /\ UNCHANGED index

-----------------------------------------------------------------------------
(* load_or_rebuild_index: a rescan calls it under faiss_write_lock, a       *)
(* session does not                                                         *)

RescanStart(s) ==
    /\ Move(s, "idle", "rescan")
    /\ Lock!Enter(s)
    /\ SameStore /\ SameData /\ UNCHANGED <<index, mutex, faultsLeft>>

LoadStartUnlocked(s) ==
    /\ Move(s, "idle", "load") \/ Move(s, "rescan", "load")
    /\ ReadMatrix(s)
    /\ SameStore /\ UNCHANGED <<index, registry, lockVars, faultsLeft>>
LoadStart(s) ==
    /\ Move(s, "idle", "load") \/ Move(s, "rescan", "load")
    /\ TakeMutex(s)
    /\ ReadMatrix(s)
    /\ SameStore /\ UNCHANGED <<index, registry, writeVars, faultsLeft>>

\* get_chunk_registry; a count that differs is a ValueError.
LoadRegistryUncounted(s) ==
    /\ Move(s, "load", "open")
    /\ registry' = [registry EXCEPT ![s] = Rows]
    /\ SameStore /\ UNCHANGED <<matrix, index, lockVars, faultsLeft>>
LoadRegistry(s) ==
    LET same == Len(matrix[s]) = Len(Rows)
    IN  /\ Move(s, "load", IF same THEN "open" ELSE "idle")
        /\ IF same THEN /\ registry' = [registry EXCEPT ![s] = Rows]
                        /\ UNCHANGED <<matrix, lockVars, faultsLeft>>
                   ELSE Forget(s) /\ DropLocks(s) /\ Spent(s)
        /\ SameStore /\ UNCHANGED index

\* validate_index compares the number of vectors (all have one dimension).
ValidIfAny(s) == index # NoIndex
Valid(s)      == index # NoIndex /\ Len(index) = Len(matrix[s])

\* The file is used, with the registry.
Accept(s) ==
    /\ Valid(s)
    /\ Move(s, "open", "serve")
    /\ DropMutex(s)
    /\ matrix' = [matrix EXCEPT ![s] = index]
    /\ SameStore /\ UNCHANGED <<registry, index, writeVars, faultsLeft>>

Reject(s) ==
    /\ ~Valid(s)
    /\ Move(s, "open", "loadsave")
    /\ SameStore /\ SameData /\ UNCHANGED <<index, lockVars, faultsLeft>>

LoadSave(s) ==
    /\ Move(s, "loadsave", "serve")
    /\ index' = matrix[s]
    /\ DropMutex(s)
    /\ SameStore /\ SameData /\ UNCHANGED <<writeVars, faultsLeft>>

\* The searches with the pair it returned are over.
Leave(s) ==
    /\ Move(s, "serve", "idle")
    /\ DropWriter(s) /\ Spent(s)
    /\ SameStore /\ Forget(s) /\ UNCHANGED <<index, mutex>>

-----------------------------------------------------------------------------
(* verify_and_repair_index *)

\* A missing file is rebuilt; of an existing one the vectors are counted.
SyncInspect(s) ==
    /\ Move(s, "idle", IF index = NoIndex THEN "repair" ELSE "count")
    /\ index = NoIndex \/ MutexFree(s)
    /\ matrix' = [matrix EXCEPT ![s] = IF index = NoIndex THEN <<>> ELSE index]
    /\ SameStore /\ UNCHANGED <<index, registry, lockVars, faultsLeft>>

\* get_embedding_count: SELECT COUNT(1) FROM chunks
SyncVerifiedIfAny(s) ==
    /\ Move(s, "count", "idle")
    /\ SameStore /\ Forget(s) /\ UNCHANGED <<index, lockVars, faultsLeft>>
SyncVerified(s) ==
    /\ Move(s, "count", "idle")
    /\ Len(matrix[s]) = Cardinality(DOMAIN chunks)
    /\ SameStore /\ Forget(s) /\ UNCHANGED <<index, lockVars, faultsLeft>>

SyncDesync(s) ==
    /\ Move(s, "count", "repair")
    /\ Len(matrix[s]) # Cardinality(DOMAIN chunks)
    /\ SameStore /\ Forget(s) /\ UNCHANGED <<index, lockVars, faultsLeft>>

\* _rebuild_index under faiss_write_lock; its save is Save.
SyncRead(s) ==
    /\ Move(s, "repair", "save")
    /\ Lock!Enter(s)
    /\ ReadMatrix(s)
    /\ SameStore /\ UNCHANGED <<index, registry, mutex, faultsLeft>>

\* The lock was not to be had in time: logged, and the command ends.
SyncTimeout(s) ==
    /\ Move(s, "repair", "idle")
    /\ lockFile
    /\ SameStore /\ Forget(s) /\ UNCHANGED <<index, lockVars, faultsLeft>>

(* rebuild_index_from_db reads the table before it asks for the lock; if the *)
(* SELECT raises an OperationalError it goes on with no embedding at all.    *)

RebuildRead(s) ==
    /\ Move(s, "idle", "rebuild")
    /\ TakeMutex(s)
    /\ \/ ReadMatrix(s) /\ UNCHANGED faultsLeft
       \/ /\ faultsLeft > 0 /\ faultsLeft' = faultsLeft - 1
          /\ matrix' = [matrix EXCEPT ![s] = <<>>]
    /\ SameStore /\ UNCHANGED <<index, registry, writeVars>>

RebuildLock(s) ==
    /\ Move(s, "rebuild", "save")
    /\ Lock!Enter(s)
    /\ SameStore /\ SameData /\ UNCHANGED <<index, mutex, faultsLeft>>

RebuildTimeout(s) ==
    /\ Move(s, "rebuild", "idle")
    /\ lockFile
    /\ DropMutex(s)
    /\ SameStore /\ Forget(s) /\ UNCHANGED <<index, writeVars, faultsLeft>>

-----------------------------------------------------------------------------
\* A process dies.  Its lock file stays.
ProcessDies(p) ==
    /\ \E s \in Sites : Process[s] = p /\ at[s] # "idle"
    /\ faultsLeft > 0 /\ faultsLeft' = faultsLeft - 1
    /\ at' = [s \in Sites |-> IF Process[s] = p THEN "idle" ELSE at[s]]
    /\ mutex' = [mutex EXCEPT ![p] = NoSite]
    /\ holders' = {s \in holders : Process[s] # p}
    /\ matrix' = [s \in Sites |-> IF Process[s] = p THEN <<>> ELSE matrix[s]]
    /\ registry' = [s \in Sites |-> IF Process[s] = p THEN <<>> ELSE registry[s]]
    /\ SameStore /\ UNCHANGED <<index, lockFile>>

\* A waiter takes the lock file for that of a dead owner and removes it.
ClearStaleLock ==
    /\ Lock!Clear
    /\ SameStore /\ UNCHANGED <<index, siteVars, mutex, faultsLeft>>

\* What runs in a site once it is started.
Continue(s) ==
    \/ UploadRead(s) \/ DeleteRead(s) \/ RemoveIndex(s) \/ Save(s)
    \/ LoadRegistry(s) \/ Accept(s) \/ Reject(s) \/ LoadSave(s) \/ Leave(s)
    \/ SyncVerified(s) \/ SyncDesync(s) \/ SyncRead(s) \/ SyncTimeout(s)
    \/ RebuildLock(s) \/ RebuildTimeout(s)

\* A corpus that only grows: uploads, and all that maintain the index.
AppendNext ==
    \/ \E s \in Sites :
          \/ \E f \in Files : UploadCommit(s, f)
          \/ LoadStart(s)
          \/ RescanStart(s)
          \/ SyncInspect(s)
          \/ RebuildRead(s)
          \/ Continue(s)
          \/ SaveFails(s)
    \/ \E p \in Processes : ProcessDies(p)
    \/ ClearStaleLock

RemoveNext == \E s \in Sites :
    \/ \E n \in Names : DeleteCommit(s, n)
    \/ ClearCommit(s)
    \/ RemoveFails(s)
    \/ TrashOrRestore(s)

AppendSpec == IndexInit /\ [][AppendNext]_indexVars
IndexSpec  == IndexInit /\ [][AppendNext \/ RemoveNext]_indexVars

\* What is started ends, somebody loads the index again and again (every page
\* of a session and every rescan does), and a stale lock file does not survive
\* the next attempt.  Each of these steps changes at or lockFile.
AppendFairSpec ==
    /\ AppendSpec
    /\ SF_at(\E s \in Sites : LoadStart(s))
    /\ \A s \in Sites : WF_at(Continue(s))
    /\ WF_lockFile(holders = {} /\ ClearStaleLock)

-----------------------------------------------------------------------------
(* Properties *)

\* Every variable has its type, a lock is held only where its holder is in the
\* section it guards, and only one that has a lock in hand loads or uploads.
IndexTypeOK ==
    /\ TypeOK
    /\ index \in Vectors \cup {NoIndex}
    /\ at \in [Sites -> Places]
    /\ matrix \in [Sites -> Vectors] /\ registry \in [Sites -> Vectors]
    /\ mutex \in [Processes -> Sites \cup {NoSite}]
    /\ lockFile \in BOOLEAN /\ holders \subseteq Sites
    /\ faultsLeft \in 0..MaxFaults
    /\ \A s \in Sites : at[s] \in {"upload", "load", "open", "loadsave", "rebuild"}
                            => mutex[Process[s]] = s
    /\ \A s \in holders : at[s] \in {"rescan", "load", "open", "loadsave", "serve", "save"}

\* Vector i of an index that load_or_rebuild_index hands out belongs to entry i
\* of the registry it hands out with it: a hit is reported under the document
\* it was found in.
ServedIsAligned == \A s \in Sites : at[s] = "serve" => matrix[s] = registry[s]

\* No hit is out of the registry's range, whatever changes the corpus between
\* the reads of load_or_rebuild_index.
ServedIsInRange == \A s \in Sites : at[s] = "serve" => Len(matrix[s]) = Len(registry[s])

\* While the corpus only grows, a file that lags (an upload died before it
\* saved, a slow writer put an old one back) has the first rows of chunks in
\* their order; that is why comparing counts is enough.
IndexIsPrefix == index # NoIndex =>
    Len(index) <= Len(Rows) /\ index = SubSeq(Rows, 1, Len(index))

\* When sync-index finds index and database synchronized, the file it loaded has
\* the embeddings of the rows that are in chunks.
VerifiedIsAligned == [][\A s \in Sites : SyncVerified(s) => matrix[s] = Rows]_indexVars

\* The search index is derived: after the last upload, death and failed write it
\* becomes the corpus's, and stays so.
Settles == <>[](index = Rows)
=============================================================================
