----------------------------- MODULE CorpusStore -----------------------------
(***************************************************************************)
(* corpus.db: the documents, chunks and deleted_chunks tables              *)
(* (src/src/db/corpus_db.py) and the upload that fills them                *)
(* (src/src/core/corpus_ingestion.py).                                     *)
(*                                                                         *)
(* A transaction is one step.  The batch deletions and the purge of stale  *)
(* trash run several transactions, and what a caller of theirs (a clerk)   *)
(* carries from one to the next is state: the ids _compact_vector_ids      *)
(* selected before its transaction, the names purge_stale_trash selected.  *)
(*                                                                         *)
(* Embedding, text and metadata of a chunk are what its file and its index *)
(* in the file say they are: a row is <<document, file, chunk index>>.     *)
(*                                                                         *)
(* An operator named after a slip (NewIdReversed, ...) is a mutated form  *)
(* of the one below it; no behaviour uses it.                              *)
(***************************************************************************)
EXTENDS Naturals, FiniteSets, Functions

CONSTANTS Files,     \* uploaded contents, i.e. values of file_hash
          NoFile,    \* no documents row of that name
          BaseName,  \* BaseName[f] : sanitize_filename of the name f comes with
          Size,      \* Size[f] : number of chunks of f
          Clerks,    \* callers of the operations that run several transactions
          MaxId      \* bound: the largest vector_id of a behaviour

\* The name a file gets when its own is taken, <stem>-<digest><suffix>, is the
\* digest's: we write f for it.
Names == Files \cup Range(BaseName)

ASSUME CorpusAssumption ==
    /\ BaseName \in [Files -> Range(BaseName)] /\ Range(BaseName) \cap Files = {}
    /\ Size \in [Files -> Nat \ {0}]
    /\ NoFile \notin Files
    /\ IsFiniteSet(Files)
    /\ MaxId \in Nat

VARIABLES
    content,  \* documents: content[n] is the file_hash of the row named n
    trashed,  \* names of the documents rows with is_deleted = 1
    chunks,   \* chunks: vector_id -> row
    trash,    \* deleted_chunks: vector_id -> row
    pc,       \* where a clerk is
    ids,      \* the vector_ids its _compact_vector_ids selected
    names     \* the names its purge_stale_trash has left

tables    == <<content, trashed, chunks, trash>>
clerkVars == <<pc, ids, names>>
storeVars == <<tables, clerkVars>>

Row     == [doc : Names, file : Files, k : Nat]
Present == {n \in Names : content[n] # NoFile}
Live    == Present \ trashed

RowsOf(n, f) == {[doc |-> n, file |-> f, k |-> k] : k \in 0..(Size[f] - 1)}

-----------------------------------------------------------------------------
(* Tables indexed by vector_id *)

IdsOf(t, S)   == {i \in DOMAIN t : t[i].doc \in S}
Without(t, S) == Restrict(t, DOMAIN t \ IdsOf(t, S))
Join(t, u)    == [i \in DOMAIN t \cup DOMAIN u |-> IF i \in DOMAIN t THEN t[i] ELSE u[i]]

\* COALESCE(MAX(vector_id), -1) + 1
NextId == CHOOSE n \in {0} \cup {i + 1 : i \in DOMAIN chunks} : \A i \in DOMAIN chunks : i < n

\* _compact_vector_ids, second half: the i-th of the selected ids becomes i.
\* The UPDATEs succeed only if no two rows end up with one id.
Rank(i, L)       == Cardinality({j \in L : j < i})
RankFromEnd(i, L) == Cardinality({j \in L : i < j})
NewIdReversed(i, L) == IF i \in L THEN RankFromEnd(i, L) ELSE i
NewId(i, L)      == IF i \in L THEN Rank(i, L) ELSE i
CanRenumber(t, L) == \A i, j \in DOMAIN t : NewId(i, L) = NewId(j, L) => i = j
Renumbered(t, L) == [r \in {NewId(i, L) : i \in DOMAIN t} |->
                        t[CHOOSE i \in DOMAIN t : NewId(i, L) = r]]
Compacted(t)     == Renumbered(t, DOMAIN t)

Init ==
    /\ content = [n \in Names |-> NoFile]
    /\ trashed = {}
    /\ chunks = <<>> /\ trash = <<>>
    /\ pc = [c \in Clerks |-> "idle"]
    /\ ids = [c \in Clerks |-> {}]
    /\ names = [c \in Clerks |-> {}]

-----------------------------------------------------------------------------
(* Operations of one transaction *)

\* persist_analyzed_documents, for one of its files.  A file the corpus has,
\* trashed or not, is skipped.
StoreFile(f) ==
    LET n == IF content[BaseName[f]] = NoFile THEN BaseName[f] ELSE f
    IN  /\ NextId + Size[f] - 1 <= MaxId
        /\ content' = [content EXCEPT ![n] = f]
        /\ chunks' = Join(chunks, [i \in NextId..(NextId + Size[f] - 1) |->
                                      [doc |-> n, file |-> f, k |-> i - NextId]])
        /\ UNCHANGED <<trashed, trash>>

PersistUnlessLive(f) == (\A m \in Live : content[m] # f) /\ StoreFile(f)
Persist(f)           == (\A m \in Names : content[m] # f) /\ StoreFile(f)

\* delete_document, permanently_delete_document: the chunks go by the cascade,
\* deleted_chunks has none.
DeleteDocument(n) ==
    /\ content' = [content EXCEPT ![n] = NoFile]
    /\ trashed' = trashed \ {n}
    /\ chunks' = Compacted(Without(chunks, {n}))
    /\ UNCHANGED trash

\* The rows of S move to deleted_chunks with their vector_ids.  An id that is
\* in there already is an IntegrityError, and the transaction is rolled back.
MoveToTrash(S) ==
    /\ IdsOf(chunks, S) \cap DOMAIN trash = {}
    /\ trash' = Join(trash, Restrict(chunks, IdsOf(chunks, S)))
    /\ trashed' = trashed \cup S
    /\ UNCHANGED content

SoftDelete(n) ==
    /\ n \in Live
    /\ MoveToTrash({n})
    /\ chunks' = Compacted(Without(chunks, {n}))

\* The orders in which ORDER BY chunk_index may return rows R of deleted_chunks.
Orders(R) == {s \in [0..(Cardinality(R) - 1) -> R] :
                 /\ Range(s) = R
                 /\ \A i, j \in DOMAIN s : i < j => trash[s[i]].k <= trash[s[j]].k}

\* restore_document
Restore(n) ==
    /\ n \in trashed
    /\ NextId + Cardinality(IdsOf(trash, {n})) - 1 <= MaxId
    /\ trashed' = trashed \ {n}
    /\ \E s \in Orders(IdsOf(trash, {n})) :
          chunks' = Compacted(Join(chunks, [i \in {NextId + j : j \in DOMAIN s} |->
                                               trash[s[i - NextId]]]))
    /\ trash' = Without(trash, {n})
    /\ UNCHANGED content

\* empty_trash: neither deleted_chunks nor the ids of chunks are looked at.
EmptyTrash ==
    /\ content' = [n \in Names |-> IF n \in trashed THEN NoFile ELSE content[n]]
    /\ trashed' = {}
    /\ chunks' = Without(chunks, trashed)
    /\ UNCHANGED trash

ClearAllData ==
    /\ content' = [n \in Names |-> NoFile]
    /\ trashed' = {}
    /\ chunks' = <<>> /\ trash' = <<>>

-----------------------------------------------------------------------------
(* Operations of several transactions, by clerk c *)

\* First transaction of batch_soft_delete_documents: S are the rows with the
\* given ids, trashed ones included; there may be none.
BatchSoftDelete(c, S) ==
    /\ pc[c] = "idle"
    /\ MoveToTrash(S)
    /\ chunks' = Without(chunks, S)
    /\ pc' = [pc EXCEPT ![c] = "select"]
    /\ UNCHANGED <<ids, names>>

\* First transaction of batch_permanently_delete_documents.
BatchDelete(c, S) ==
    /\ pc[c] = "idle"
    /\ content' = [n \in Names |-> IF n \in S THEN NoFile ELSE content[n]]
    /\ trashed' = trashed \ S
    /\ chunks' = Without(chunks, S)
    /\ trash' = Without(trash, S)
    /\ pc' = [pc EXCEPT ![c] = "select"]
    /\ UNCHANGED <<ids, names>>

\* _compact_vector_ids called outside a transaction: the SELECT sees the table
\* as it is then, and the UPDATEs start a transaction of their own.
SelectIds(c) ==
    /\ pc[c] = "select"
    /\ ids' = [ids EXCEPT ![c] = DOMAIN chunks]
    /\ pc' = [pc EXCEPT ![c] = IF chunks = <<>> THEN "idle" ELSE "renumber"]
    /\ UNCHANGED <<tables, names>>

RenumberTo(c, t) ==
    /\ pc[c] = "renumber"
    /\ chunks' = t
    /\ pc' = [pc EXCEPT ![c] = "idle"]
    /\ ids' = [ids EXCEPT ![c] = {}]
    /\ UNCHANGED <<content, trashed, trash, names>>

RenumberOrReplace(c) == RenumberTo(c, Renumbered(chunks, ids[c]))
Renumber(c) ==
    RenumberTo(c, IF CanRenumber(chunks, ids[c]) THEN Renumbered(chunks, ids[c]) ELSE chunks)

\* purge_stale_trash: the names (S are old enough), then one deletion after the
\* other.  A deletion that fails is logged and the next one tried.
SelectStaleTrash(c, S) ==
    /\ pc[c] = "idle"
    /\ names' = [names EXCEPT ![c] = S]
    /\ pc' = [pc EXCEPT ![c] = "purge"]
    /\ UNCHANGED <<tables, ids>>

TakeName(c, n) ==
    /\ pc[c] = "purge" /\ n \in names[c]
    /\ names' = [names EXCEPT ![c] = @ \ {n}]
    /\ pc' = [pc EXCEPT ![c] = IF names[c] = {n} THEN "idle" ELSE "purge"]
    /\ UNCHANGED ids

PurgeOne(c, n)  == TakeName(c, n) /\ DeleteDocument(n)
PurgeFails(c, n) == TakeName(c, n) /\ UNCHANGED tables

\* The process of the clerk dies between two transactions.
Crash(c) ==
    /\ pc[c] # "idle"
    /\ pc' = [pc EXCEPT ![c] = "idle"]
    /\ ids' = [ids EXCEPT ![c] = {}]
    /\ names' = [names EXCEPT ![c] = {}]
    /\ UNCHANGED tables

Next ==
    \/ /\ \/ \E f \in Files : Persist(f)
          \/ \E n \in Names : DeleteDocument(n) \/ SoftDelete(n) \/ Restore(n)
          \/ EmptyTrash
          \/ ClearAllData
       /\ UNCHANGED clerkVars
    \/ \E c \in Clerks :
          \/ \E S \in SUBSET Present : BatchSoftDelete(c, S)
          \/ \E S \in (SUBSET Present) \ {{}} : BatchDelete(c, S)
          \/ SelectIds(c)
          \/ Renumber(c)
          \/ \E S \in (SUBSET trashed) \ {{}} : SelectStaleTrash(c, S)
          \/ \E n \in Names : PurgeOne(c, n) \/ PurgeFails(c, n)
          \/ Crash(c)

Spec == Init /\ [][Next]_storeVars

-----------------------------------------------------------------------------
(* Properties *)

\* Every variable has its type; only documents that exist are trashed, no two
\* documents have one file_hash, and a clerk holds ids or names only where it
\* uses them.
TypeOK ==
    /\ content \in [Names -> Files \cup {NoFile}]
    /\ \A m, n \in Present : content[m] = content[n] => m = n
    /\ trashed \subseteq Present
    /\ IsFiniteSet(DOMAIN chunks) /\ DOMAIN chunks \subseteq Nat /\ Range(chunks) \subseteq Row
    /\ IsFiniteSet(DOMAIN trash) /\ DOMAIN trash \subseteq Nat /\ Range(trash) \subseteq Row
    /\ pc \in [Clerks -> {"idle", "select", "renumber", "purge"}]
    /\ ids \in [Clerks -> SUBSET Nat]
    /\ names \in [Clerks -> SUBSET Names]
    /\ \A c \in Clerks : (names[c] # {}) <=> (pc[c] = "purge")

\* Whatever sequence of uploads, deletions, restores, batches, purges and
\* crashes: each document that exists has all chunks of its file, in chunks
\* while it is live and in deleted_chunks while it is in the trash, and chunks
\* (what the search index is built from) has rows of live documents only.
NothingLost ==
    /\ \A n \in Live : RowsOf(n, content[n]) \subseteq Range(chunks)
    /\ \A n \in trashed : RowsOf(n, content[n]) \subseteq Range(trash)
    /\ \A r \in Range(chunks) : r.doc \in Live

\* Readers pair the i-th embedding of one SELECT with the i-th registry entry
\* of another, so what renumbering must keep is the order: no step, a batch
\* that renumbers ids it selected earlier included, changes the order of two
\* rows that were there before it and are there after it.
Once(t)         == {r \in Range(t) : \A i, j \in DOMAIN t : t[i] = r /\ t[j] = r => i = j}
Before(t, r, s) == \E i, j \in DOMAIN t : i < j /\ t[i] = r /\ t[j] = s
OrderKept == [][\A r, s \in Once(chunks) \cap Once(chunks') :
                    Before(chunks, r, s) => Before(chunks', r, s)]_storeVars

\* soft_delete_document moves the chunks of a live document to deleted_chunks:
\* for no live document is there a chunk that deleted_chunks would refuse.
SoftDeleteIsPossible == IdsOf(chunks, Live) \cap DOMAIN trash = {}
=============================================================================
