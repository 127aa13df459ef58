-------------------------------- MODULE Rescan --------------------------------
(***************************************************************************)
(* The scheduled rescan (src/src/core/scheduler.py, rescan_recent_documents *)
(* in src/src/core/processing.py), the incidents it shares with the         *)
(* sessions and reviewers (src/src/db/incidents.py) and the alerts it hands *)
(* to a pool of threads (src/src/core/synchronization.py, webhook.py).      *)
(*                                                                         *)
(* Every process of the API server has a scheduler of its own: a scanner.   *)
(* A statement of a pass that reads or writes shared state is one step.     *)
(* Time passes in Ticks; age is the time since upload_date as the cutoff    *)
(* sees it, so the time a naive local upload_date lies ahead of UTC counts  *)
(* in Window.  The write lock is that of WriteLock, which FaissLock shows   *)
(* faiss_write_lock to implement while with-bodies end in time; once a lock *)
(* file has been left behind, two scanners may be inside.                   *)
(*                                                                         *)
(* An operator named after a slip stands above the definition it is a       *)
(* mutated form of; no behaviour uses it.                                   *)
(***************************************************************************)
EXTENDS Naturals, FiniteSets, Functions

CONSTANTS Scanners,
          Docs,
          Pairs,        \* the unordered pairs of documents anybody may flag
          Similar,      \* pairs with a chunk match above the threshold
          Duplicates,   \* pairs in corpus_duplicate_relationships
          Chunks,       \* the number of chunks of a document
          TopK,         \* top_k: the hits a search returns
          IvfThreshold, \* _IVF_THRESHOLD; 0 if FAISS_INDEX_TYPE is not exact
          Statuses,     \* VALID_REVIEW_STATUSES
          Pending, NoRow,
          Interval,     \* interval_minutes, in ticks
          Window,       \* grace_period, plus the hours local time is ahead of UTC
          PassTime,     \* the longest a pass takes after its first SELECT
          MaxAttempts,  \* WEBHOOK_MAX_ATTEMPTS
          MaxOutages,   \* bound: POSTs that fail with a temporary error
          MaxFaults,    \* bound: passes that raise, POSTs that are refused, releases that fail
          MaxDeaths,    \* bound: processes that die
          MaxDeletes    \* bound: documents deleted

ASSUME RescanAssumption ==
    /\ IsFiniteSet(Scanners) /\ Scanners # {}
    /\ Pairs \subseteq {p \in SUBSET Docs : Cardinality(p) = 2}
    /\ Similar \subseteq Pairs /\ Duplicates \subseteq Pairs
    /\ Chunks \in [Docs -> Nat \ {0}] /\ TopK \in Nat \ {0} /\ IvfThreshold \in Nat
    /\ Pending \in Statuses /\ NoRow \notin Statuses
    /\ Interval \in Nat \ {0} /\ Window \in Nat /\ PassTime \in Nat
    /\ MaxAttempts \in Nat \ {0}
    /\ MaxOutages \in Nat /\ MaxFaults \in Nat /\ MaxDeaths \in Nat /\ MaxDeletes \in Nat

\* A pass that is not let down starts while a document is still in the window.
ASSUME WindowAssumption == (MaxFaults + 1) * (Interval + PassTime) <= Window

VARIABLES
    age,        \* of a document in the corpus; Absent of any other
    row,        \* plagiarism_incidents: the review status of a pair
    pc, timer,  \* where a scanner is; since its pass or its wait began
    recent,     \* recent_filenames, then the keys of recent_chunks
    flags,      \* all_flags
    new,        \* new_incidents
    lockFile,   \* the FAISS write lock is taken
    orphaned,   \* history: a scanner has left the lock file behind
    unsure,     \* history: pairs a pass searched for that its searches could miss
    tasks,      \* alerts in the pools: who sends which pair, attempts left
    alerts,     \* history: alerts handed to a pool, per pair
    heard,      \* history: pairs the webhook has been told of
    born,       \* history: rows inserted, per pair
    found,      \* history: rows inserted by a rescan, per pair
    faultsLeft, outagesLeft, deathsLeft, deletesLeft

corpusVars == <<age, deletesLeft>>
fileVars   == <<lockFile, orphaned>>
passVars   == <<pc, timer, recent, flags, new, unsure, fileVars>>
rowVars    == <<row, born, found>>
alertVars  == <<tasks, alerts, heard, outagesLeft>>
vars == <<corpusVars, passVars, rowVars, alertVars, faultsLeft, deathsLeft>>

OldAge == Window + PassTime + 1
Absent == OldAge + 1

InCorpus      == {d \in Docs : age[d] # Absent}
Up(s)         == pc[s] # "off"
WaitOver(s)   == pc[s] = "sleep" /\ timer[s] >= Interval
Passing(s)    == pc[s] \notin {"off", "sleep"}
Holds(s)      == pc[s] \in {"load", "known", "sync", "alert"}

Lock == INSTANCE WriteLock WITH Callers <- Scanners, holders <- {s \in Scanners : Holds(s)}

Init ==
    /\ age = [d \in Docs |-> Absent]
    /\ row = [p \in Pairs |-> NoRow]
    /\ pc = [s \in Scanners |-> "sleep"]          \* start(): the first pass at once
    /\ timer = [s \in Scanners |-> Interval]
    /\ recent = [s \in Scanners |-> {}]
    /\ flags = [s \in Scanners |-> {}]
    /\ new = [s \in Scanners |-> {}]
    /\ lockFile = FALSE /\ orphaned = FALSE /\ unsure = {}
    /\ tasks = {}
    /\ alerts = [p \in Pairs |-> 0]
    /\ heard = {}
    /\ born = [p \in Pairs |-> 0]
    /\ found = [p \in Pairs |-> 0]
    /\ faultsLeft = MaxFaults /\ outagesLeft = MaxOutages
    /\ deathsLeft = MaxDeaths /\ deletesLeft = MaxDeletes

-----------------------------------------------------------------------------
(* Documents, sessions and reviewers *)

\* Persisting an upload: the document and its chunks commit together.
Upload(d) ==
    /\ age[d] = Absent
    /\ age' = [age EXCEPT ![d] = 0]
    /\ UNCHANGED <<deletesLeft, passVars, rowVars, alertVars, faultsLeft, deathsLeft>>

\* delete_document: its incidents go with it.
DeleteDocument(d) ==
    /\ d \in InCorpus /\ deletesLeft > 0
    /\ deletesLeft' = deletesLeft - 1
    /\ age' = [age EXCEPT ![d] = Absent]
    /\ row' = [p \in Pairs |-> IF d \in p THEN NoRow ELSE row[p]]
    /\ UNCHANGED <<passVars, born, found, alertVars, faultsLeft, deathsLeft>>

\* sync_flagged_incidents: INSERT ... ON CONFLICT DO UPDATE keeps the status.
UpsertAsPending(F) ==
    /\ row' = [p \in Pairs |-> IF p \in F THEN Pending ELSE row[p]]
    /\ born' = [p \in Pairs |-> IF p \in F /\ row[p] = NoRow THEN born[p] + 1 ELSE born[p]]
Upsert(F) ==
    /\ row' = [p \in Pairs |-> IF p \in F /\ row[p] = NoRow THEN Pending ELSE row[p]]
    /\ born' = [p \in Pairs |-> IF p \in F /\ row[p] = NoRow THEN born[p] + 1 ELSE born[p]]

\* A session or a scan task syncs what it flagged, with no lock and no alert;
\* its documents need not be in the corpus.
SessionSync(p) ==
    /\ Upsert({p})
    /\ UNCHANGED <<corpusVars, passVars, found, alertVars, faultsLeft, deathsLeft>>

\* update_review_status
Review(p, status) ==
    /\ row[p] # NoRow
    /\ row' = [row EXCEPT ![p] = status]
    /\ UNCHANGED <<corpusVars, passVars, born, found, alertVars, faultsLeft, deathsLeft>>

-----------------------------------------------------------------------------
(* A pass: rescan_recent_documents *)

Goto(s, l) == pc' = [pc EXCEPT ![s] = l]

\* The pass is over, one way or the other; _run_loop waits.
Pause(s) ==
    /\ pc' = [pc EXCEPT ![s] = "sleep"]
    /\ timer' = [timer EXCEPT ![s] = 0]
    /\ recent' = [recent EXCEPT ![s] = {}]
    /\ flags' = [flags EXCEPT ![s] = {}]
    /\ new' = [new EXCEPT ![s] = {}]

\* release: the file stays if os.remove raises.
ReleaseLock(s)  == IF Holds(s) THEN Lock!Leave(s) ELSE UNCHANGED fileVars
ReleaseFails(s) == Holds(s) /\ Lock!Abandon(s)

\* get_documents_since(cutoff)
RecentInHalfTheWindow == {d \in InCorpus : 2 * age[d] <= Window}
Recent                == {d \in InCorpus : age[d] <= Window}

Select(s) ==
    /\ WaitOver(s)
    /\ timer' = [timer EXCEPT ![s] = 0]
    /\ IF Recent = {} THEN UNCHANGED <<recent, pc>>      \* nothing to rescan
       ELSE recent' = [recent EXCEPT ![s] = Recent] /\ Goto(s, "fetch")
    /\ UNCHANGED <<flags, unsure, new, fileVars, corpusVars, rowVars, alertVars, faultsLeft, deathsLeft>>

\* get_chunks_for_documents: those deleted meanwhile have none.
Fetch(s) ==
    /\ pc[s] = "fetch"
    /\ recent' = [recent EXCEPT ![s] = @ \cap InCorpus]
    /\ Goto(s, "lock")
    /\ UNCHANGED <<timer, flags, unsure, new, fileVars, corpusVars, rowVars, alertVars, faultsLeft, deathsLeft>>

\* faiss_write_lock
EnterUnlocked(s) ==
    /\ pc[s] = "lock"
    /\ Goto(s, "load")
    /\ lockFile' = TRUE /\ UNCHANGED orphaned
    /\ UNCHANGED <<timer, recent, flags, unsure, new, corpusVars, rowVars, alertVars, faultsLeft, deathsLeft>>
Enter(s) ==
    /\ pc[s] = "lock"
    /\ Goto(s, "load")
    /\ Lock!Enter(s)
    /\ UNCHANGED <<timer, recent, flags, unsure, new, corpusVars, rowVars, alertVars, faultsLeft, deathsLeft>>

(* load_or_rebuild_index, find_plagiarised_chunks: a search for each chunk of *)
(* a recent document in the corpus of now                                      *)

InReach(s) == {p \in Similar : \E d \in p : d \in recent[s] /\ p \ {d} \subseteq InCorpus}

ChunksOf(D) == FoldFunctionOnSet(+, 0, Chunks, D)

\* search_similar_chunks with the chunk of d nearest to e.  A chunk of e is among
\* the hits unless chunks of other similar documents fill them, or fill with
\* those of d, which are skipped, what is fetched.  An IVF or HNSW index looks at
\* some of its vectors only; after a deletion the file may hold the vectors of
\* another moment (CorpusIndex).
Finds(d, e) ==
    LET nearer == {f \in InCorpus \ {d, e} : {d, f} \in Similar}
        own    == {d} \cap InCorpus IN
    /\ ChunksOf(nearer) < TopK
    /\ ChunksOf(nearer \cup own) < 3 * TopK
    /\ ChunksOf(InCorpus) < IvfThreshold
    /\ deletesLeft = MaxDeletes
Certain(s) == {p \in InReach(s) : \E d \in p : /\ d \in recent[s]
                                              /\ \A e \in p \ {d} : e \in InCorpus /\ Finds(d, e)}

\* Pairs known as duplicates are left out of the hits.
Search(s, next) ==
    /\ \E hits \in SUBSET InReach(s) :
          /\ Certain(s) \subseteq hits
          /\ flags' = [flags EXCEPT ![s] = hits \ Duplicates]
    /\ Goto(s, IF flags'[s] = {} THEN "alert" ELSE next)
    /\ unsure' = unsure \cup (InReach(s) \ Certain(s))
    /\ UNCHANGED <<timer, recent, new, fileVars, corpusVars, rowVars, alertVars, faultsLeft, deathsLeft>>
LoadAndSync(s) == pc[s] = "load" /\ Search(s, "sync")
Load(s)        == pc[s] = "load" /\ Search(s, "known")

\* get_existing_incident_pairs
Known(s) ==
    /\ pc[s] = "known"
    /\ new' = [new EXCEPT ![s] = {p \in flags[s] : row[p] = NoRow}]
    /\ Goto(s, "sync")
    /\ UNCHANGED <<timer, recent, flags, unsure, fileVars, corpusVars, rowVars, alertVars, faultsLeft, deathsLeft>>

Sync(s) ==
    /\ pc[s] = "sync"
    /\ Upsert(flags[s])
    /\ found' = [p \in Pairs |-> IF p \in flags[s] /\ row[p] = NoRow
                                 THEN found[p] + 1 ELSE found[p]]
    /\ Goto(s, "alert")
    /\ UNCHANGED <<timer, recent, flags, unsure, new, fileVars, corpusVars, alertVars, faultsLeft, deathsLeft>>

\* The with-body ends; run_background(dispatch_plagiarism_alert, ...) for each
\* new incident; record_scheduler_run writes a row that no pass reads, and
\* whether it succeeds or raises, the pass is over.
Task(s, p) == [by |-> s, pair |-> p, number |-> alerts[p] + 1, left |-> MaxAttempts]
Hand(s, F) ==
    /\ tasks' = tasks \cup {Task(s, p) : p \in F}
    /\ alerts' = [p \in Pairs |-> IF p \in F THEN alerts[p] + 1 ELSE alerts[p]]
Dispatch(s) ==
    /\ pc[s] = "alert"
    /\ Hand(s, new[s])
    /\ Pause(s)
    /\ \/ ReleaseLock(s) /\ UNCHANGED faultsLeft
       \/ ReleaseFails(s) /\ faultsLeft > 0 /\ faultsLeft' = faultsLeft - 1
    /\ UNCHANGED <<heard, outagesLeft, unsure, corpusVars, rowVars, deathsLeft>>

\* A statement raises (after its commit, too), or the lock times out: the
\* with-body ends, _run_loop logs and waits.
FailAndStop(s) ==
    /\ Passing(s) /\ faultsLeft > 0
    /\ faultsLeft' = faultsLeft - 1
    /\ Goto(s, "stopped")
    /\ ReleaseLock(s)
    /\ UNCHANGED <<timer, recent, flags, unsure, new, corpusVars, rowVars, alertVars, deathsLeft>>
Fail(s) ==
    /\ Passing(s) \/ WaitOver(s)
    /\ faultsLeft > 0
    /\ faultsLeft' = faultsLeft - 1
    /\ Pause(s)
    /\ ReleaseLock(s) \/ ReleaseFails(s)
    /\ UNCHANGED <<unsure, corpusVars, rowVars, alertVars, deathsLeft>>

-----------------------------------------------------------------------------
(* Processes *)

\* The lock file stays; the pool and what the pass found are gone.
Die(s) ==
    /\ Up(s) /\ deathsLeft > 0
    /\ deathsLeft' = deathsLeft - 1
    /\ pc' = [pc EXCEPT ![s] = "off"]
    /\ timer' = [timer EXCEPT ![s] = 0]
    /\ recent' = [recent EXCEPT ![s] = {}]
    /\ flags' = [flags EXCEPT ![s] = {}]
    /\ new' = [new EXCEPT ![s] = {}]
    /\ tasks' = {t \in tasks : t.by # s}
    /\ IF Holds(s) THEN Lock!Abandon(s) ELSE UNCHANGED fileVars
    /\ UNCHANGED <<unsure, corpusVars, rowVars, alerts, heard, outagesLeft, faultsLeft>>

\* lifespan -> start(): the first pass at once
Restart(s) ==
    /\ ~Up(s)
    /\ Goto(s, "sleep")
    /\ timer' = [timer EXCEPT ![s] = Interval]
    /\ UNCHANGED <<recent, flags, unsure, new, fileVars, corpusVars, rowVars, alertVars, faultsLeft, deathsLeft>>

\* _clear_stale_lock, by any caller of faiss_write_lock; when os.remove raises
\* there, nothing changes.
ClearStale ==
    /\ UNCHANGED <<pc, timer, recent, flags, unsure, new, corpusVars, rowVars, alertVars, faultsLeft, deathsLeft>>
    /\ Lock!Clear

-----------------------------------------------------------------------------
(* The pools: send_plagiarism_alert, _post_webhook *)

Deliver(t) ==
    /\ t \in tasks
    /\ tasks' = tasks \ {t}
    /\ heard' = heard \cup {t.pair}
    /\ UNCHANGED <<alerts, outagesLeft, corpusVars, passVars, rowVars, faultsLeft, deathsLeft>>

\* A temporary error; tenacity tries again, MaxAttempts times in all.
GiveUpAtOnce(t) ==
    /\ t \in tasks /\ outagesLeft > 0
    /\ outagesLeft' = outagesLeft - 1
    /\ tasks' = tasks \ {t}
    /\ UNCHANGED <<alerts, heard, corpusVars, passVars, rowVars, faultsLeft, deathsLeft>>
TryAgain(t) ==
    /\ t \in tasks /\ outagesLeft > 0
    /\ outagesLeft' = outagesLeft - 1
    /\ tasks' = (tasks \ {t}) \cup (IF t.left > 1 THEN {[t EXCEPT !.left = @ - 1]} ELSE {})
    /\ UNCHANGED <<alerts, heard, corpusVars, passVars, rowVars, faultsLeft, deathsLeft>>

\* Any other error: no retry.
Refused(t) ==
    /\ t \in tasks /\ faultsLeft > 0
    /\ faultsLeft' = faultsLeft - 1
    /\ tasks' = tasks \ {t}
    /\ UNCHANGED <<alerts, heard, outagesLeft, corpusVars, passVars, rowVars, deathsLeft>>

-----------------------------------------------------------------------------
Tick ==
    /\ \A s \in Scanners : ~WaitOver(s) /\ (Passing(s) => timer[s] < PassTime)
    /\ age' = [d \in Docs |-> IF age[d] < OldAge THEN age[d] + 1 ELSE age[d]]
    /\ timer' = [s \in Scanners |-> IF Up(s) THEN timer[s] + 1 ELSE timer[s]]
    /\ UNCHANGED <<pc, recent, flags, unsure, new, fileVars, deletesLeft, rowVars, alertVars, faultsLeft, deathsLeft>>

PassStep(s) ==
    \/ Select(s) \/ Fetch(s) \/ Enter(s) \/ Load(s) \/ Known(s)
    \/ Sync(s) \/ Dispatch(s)

Next ==
    \/ Tick
    \/ \E d \in Docs : Upload(d) \/ DeleteDocument(d)
    \/ \E p \in Pairs : SessionSync(p) \/ \E status \in Statuses : Review(p, status)
    \/ \E s \in Scanners : PassStep(s) \/ Fail(s) \/ Die(s) \/ Restart(s)
    \/ ClearStale
    \/ \E t \in tasks : Deliver(t) \/ TryAgain(t) \/ Refused(t)

Spec == Init /\ [][Next]_vars

\* Time passes, a pass goes on, a pool thread runs, a lock file that was left
\* behind is removed by the next caller, a dead server is started again.
Fairness ==
    /\ WF_vars(Tick) /\ WF_vars((\A s \in Scanners : ~Holds(s)) /\ ClearStale)
    /\ \A s \in Scanners : WF_vars(PassStep(s)) /\ WF_vars(Restart(s))
    /\ \A p \in Pairs : WF_vars(\E t \in tasks : t.pair = p /\ (Deliver(t) \/ TryAgain(t)))
FairSpec == Spec /\ Fairness

-----------------------------------------------------------------------------
(* Properties *)

Undisturbed == deathsLeft = MaxDeaths /\ faultsLeft = MaxFaults

\* Every variable has its type.
TypeOK ==
    /\ age \in [Docs -> 0..Absent]
    /\ row \in [Pairs -> Statuses \cup {NoRow}]
    /\ pc \in [Scanners -> {"off", "sleep", "fetch", "lock", "load", "known",
                            "sync", "alert"}]
    /\ timer \in [Scanners -> Nat]
    /\ recent \in [Scanners -> SUBSET Docs]
    /\ flags \in [Scanners -> SUBSET Pairs] /\ new \in [Scanners -> SUBSET Pairs]
    /\ lockFile \in BOOLEAN /\ orphaned \in BOOLEAN /\ unsure \subseteq Similar
    /\ tasks \subseteq [by : Scanners, pair : Pairs, number : Nat, left : 1..MaxAttempts]
    /\ alerts \in [Pairs -> Nat] /\ born \in [Pairs -> Nat] /\ found \in [Pairs -> Nat]
    /\ heard \subseteq Pairs
    /\ faultsLeft \in 0..MaxFaults /\ outagesLeft \in 0..MaxOutages
    /\ deathsLeft \in 0..MaxDeaths /\ deletesLeft \in 0..MaxDeletes

\* Scanners whose pass has committed p as new and has not handed out its alert.
Owing(p) == {s \in Scanners : pc[s] = "alert" /\ p \in new[s]}

\* An alert is sent only for an incident that is genuinely new: never more
\* alerts for a pair than its row was inserted, whatever other scanners,
\* sessions and deletions do between the read of the known pairs, the commit
\* and the dispatch.  Once a lock file has been left behind, two may find the
\* same incident new.
AlertsAreNew ==
    ~orphaned => \A p \in Pairs : alerts[p] + Cardinality(Owing(p)) <= born[p]

\* Each row that a rescan inserts is owed an alert: without a death or an
\* exception none is forgotten.  (A deletion between the read of the known
\* pairs and the upsert brings a known incident back unannounced.)
NoAlertForgotten ==
    Undisturbed /\ deletesLeft = MaxDeletes => \A p \in Pairs : found[p] <= alerts[p] + Cardinality(Owing(p))

\* The window is wide enough: a similar pair is on record by the time its
\* younger document has left the window, even when passes fail, unless a process
\* died, or some pass searched for the pair when its hits were not enough to be
\* sure to find it.
NoMatchMissed ==
    deathsLeft = MaxDeaths =>
        \A p \in Similar \ (Duplicates \cup unsure) :
            (\A d \in p : age[d] = OldAge) => row[p] # NoRow

\* A decision stands: as long as an incident exists, only a reviewer changes its
\* status, whatever rescans and sessions sync.
DecisionsStand ==
    [][\A p \in Pairs : row[p] # NoRow /\ row'[p] # NoRow /\ row'[p] # row[p]
                            => \E status \in Statuses : Review(p, status)]_vars

\* A failed pass never ends the loop: a scanner that stays up keeps scanning.
KeepsScanning == \A s \in Scanners : <>[]Up(s) => []<><<Select(s)>>_vars

\* Without a death or an exception, and with fewer outages than attempts, the
\* webhook hears of each pair a rescan committed as new.
AlertArrives == []Undisturbed => \A p \in Pairs : Owing(p) # {} ~> p \in heard
=============================================================================
