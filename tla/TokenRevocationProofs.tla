------------------------- MODULE TokenRevocationProofs -------------------------
(***************************************************************************)
(* Proofs about TokenRevocation, for any number of processes, threads and  *)
(* tokens and for any times.  The inductive invariant says of a token what *)
(* was committed about it, of a lookup how old what it has read may be, and *)
(* of a cached answer how long it can outlive the state it was true of.    *)
(***************************************************************************)
EXTENDS TokenRevocation, TLAPS

USE TokenAssumption

\* The tables and the history agree about a token.
TokenOK(t) ==
    /\ t \in rows => t \in condemned
    /\ revokedAt[t] # NoTime =>
         /\ Issued(t) /\ revokedAt[t] <= clock
         /\ t \in rows \/ Expired(t)
    /\ (outdatedAt[t] # NoTime) = Outdated(t, changedAt)
    /\ outdatedAt[t] # NoTime => outdatedAt[t] <= clock /\ t \in condemned
    /\ changedAt # NoTime => changedAt <= clock

\* A process that has just committed a revocation did revoke that token.
TodoOK(p) == todo[p] \in Tokens => Issued(todo[p]) /\ todo[p] \in condemned

\* What a lookup has read was true when it began or later.
ThreadOK(h) ==
    pc[h] # "idle" =>
        /\ Issued(tok[h])
        /\ began[h] <= clock /\ clock <= began[h] + MaxLookup
        /\ pc[h] = "store" /\ verdict[h] => tok[h] \in condemned
        /\ /\ pc[h] = "store" /\ ~verdict[h]
           /\ revokedAt[tok[h]] # NoTime /\ ~Expired(tok[h])
           => began[h] <= revokedAt[tok[h]]
        /\ /\ pc[h] \in {"table", "store"}
           /\ outdatedAt[tok[h]] # NoTime /\ faultsLeft = MaxFaults
           => began[h] <= outdatedAt[tok[h]]

\* A cached answer is younger than the time to live, and a cached "valid" was
\* stored at most one lookup after the token was condemned.
EntryOK(p, t) ==
    cache[p][t] # Nothing =>
        /\ Issued(t)
        /\ cache[p][t].at <= clock /\ clock < cache[p][t].at + TTL
        /\ cache[p][t].revoked => t \in condemned
        /\ ~cache[p][t].revoked /\ revokedAt[t] # NoTime /\ ~Expired(t)
           => cache[p][t].at <= revokedAt[t] + MaxLookup
        /\ ~cache[p][t].revoked /\ outdatedAt[t] # NoTime /\ faultsLeft = MaxFaults
           => cache[p][t].at <= outdatedAt[t] + MaxLookup

Promises == PasswordChangeSettles /\ RefusalIsEarned

TokensOK  == \A t \in Tokens : TokenOK(t)
TodosOK   == \A p \in Processes : TodoOK(p)
ThreadsOK == \A h \in Threads : ThreadOK(h)
CachesOK  == \A p \in Processes, t \in Tokens : EntryOK(p, t)

TokenInv == TypeOK /\ TokensOK /\ TodosOK /\ ThreadsOK /\ CachesOK /\ Promises

-----------------------------------------------------------------------------
(* The steps *)

LEMMA SilentKeeps == Silent => Promises'
BY DEF Silent, Silence, Promises, PasswordChangeSettles, RefusalIsEarned

LEMMA Initially == Init => TokenInv
BY DEF Init, TokenInv, TypeOK, Todo, Silence, TokensOK, TokenOK, TodosOK, TodoOK, ThreadsOK,
   ThreadOK, CachesOK, EntryOK, Outdated, Promises, PasswordChangeSettles,
   RefusalIsEarned

\* Expiry depends on the clock and on the time of issue alone.
LEMMA ExpirySame ==
    ASSUME UNCHANGED <<clock, issued>>
    PROVE  \A t \in Tokens : Expired(t)' = Expired(t)
BY DEF Expired, Issued

LEMMA TickStep ==
    ASSUME TokenInv, Tick, Silent
    PROVE  TokenInv'
<1> USE DEF TokenInv
<1>e. \A u \in Tokens : Expired(u) => Expired(u)'
  <2>1. 0..clock \subseteq (0..clock)'
    BY DEF TypeOK, Tick
  <2> QED
    BY <2>1 DEF Expired, Issued, Tick, tableVars
<1>1. TypeOK'
  BY DEF TypeOK, Silence, Silent, Tick, tableVars, lookupVars, history
<1>2. TokensOK'
  BY <1>e DEF TypeOK, TokensOK, TokenOK, Issued, Outdated, Tick, tableVars, history
<1>3. TodosOK'
  BY DEF TodosOK, TodoOK, Issued, Tick, tableVars, history
<1>4. ThreadsOK'
  BY <1>e DEF TypeOK, ThreadsOK, ThreadOK, Issued, Tick, tableVars, lookupVars, history
<1>5. CachesOK'
  BY <1>e DEF TypeOK, Entry, CachesOK, EntryOK, Issued, Tick, Lapsed, Cached, tableVars,
     history
<1>6. Promises'
  BY SilentKeeps
<1>. QED  BY <1>1, <1>2, <1>3, <1>4, <1>5, <1>6

LEMMA IssueStep ==
    ASSUME NEW t \in Tokens, TokenInv, Issue(t), Silent
    PROVE  TokenInv'
<1> USE DEF TokenInv
<1>0. /\ ~Issued(t) /\ issued' = [issued EXCEPT ![t] = clock]
      /\ UNCHANGED <<clock, rows, changedAt, cache, todo, pc, tok, began, verdict, revokedAt,
                     outdatedAt, condemned, faultsLeft>>
  BY DEF Issue, lookupVars, history
<1>e. \A u \in Tokens : Issued(u) => Issued(u)' /\ Expired(u)' = Expired(u)
  BY <1>0 DEF Expired, Issued
<1>f. ~Expired(t)
  BY <1>0 DEF Expired
<1>1. TypeOK'
  BY <1>0 DEF TypeOK, Silence, Silent
<1>2. TokensOK'
  BY <1>0, <1>e DEF TypeOK, TokensOK, TokenOK, Issued, Outdated
<1>3. TodosOK'
  BY <1>0 DEF TodosOK, TodoOK, Issued
<1>4. ThreadsOK'
  BY <1>0, <1>e, <1>f DEF TypeOK, ThreadsOK, ThreadOK, Issued
<1>5. CachesOK'
  BY <1>0, <1>e, <1>f DEF TypeOK, CachesOK, EntryOK, Issued
<1>6. Promises'
  BY SilentKeeps
<1>. QED  BY <1>1, <1>2, <1>3, <1>4, <1>5, <1>6

LEMMA RevokeStep ==
    ASSUME NEW p \in Processes, NEW t \in Tokens, TokenInv, Revoke(p, t), Silent
    PROVE  TokenInv'
<1> USE DEF TokenInv
<1>e. \A u \in Tokens : Expired(u)' = Expired(u)
  BY ExpirySame DEF Revoke, tableVars, history
<1>1. TypeOK'
  BY DEF TypeOK, Todo, Silence, Silent, Revoke, lookupVars
<1>2. TokensOK'
  BY <1>e DEF TypeOK, TokensOK, TokenOK, Issued, Outdated, Revoke
<1>3. TodosOK'
  BY DEF TodosOK, TodoOK, Issued, Revoke
<1>4. ThreadsOK'
  BY <1>e DEF TypeOK, ThreadsOK, ThreadOK, Issued, Revoke, lookupVars
<1>5. CachesOK'
  BY <1>e DEF TypeOK, Entry, CachesOK, EntryOK, Issued, Revoke
<1>6. Promises'
  BY SilentKeeps DEF Revoke, Silent
<1>. QED  BY <1>1, <1>2, <1>3, <1>4, <1>5, <1>6

LEMMA RememberStep ==
    ASSUME NEW p \in Processes, TokenInv, Remember(p), Silent
    PROVE  TokenInv'
<1> USE DEF TokenInv
<1>e. \A u \in Tokens : Expired(u)' = Expired(u)
  BY ExpirySame DEF Remember, tableVars, history
<1>1. TypeOK'
  BY DEF TypeOK, Entry, Todo, Silence, Silent, Remember, tableVars, lookupVars, history
<1>2. TokensOK'
  BY <1>e DEF TokensOK, TokenOK, Issued, Outdated, Remember, tableVars, history
<1>3. TodosOK'
  BY DEF TodosOK, TodoOK, Issued, Remember, tableVars, history
<1>4. ThreadsOK'
  BY <1>e DEF TypeOK, ThreadsOK, ThreadOK, Issued, Remember, tableVars, lookupVars, history
<1>5. CachesOK'
  BY <1>e DEF TypeOK, TodosOK, TodoOK, CachesOK, EntryOK, Issued, Remember, tableVars,
     history
<1>6. Promises'
  BY SilentKeeps DEF Remember, Silent
<1>. QED  BY <1>1, <1>2, <1>3, <1>4, <1>5, <1>6

LEMMA ChangePasswordStep ==
    ASSUME NEW p \in Processes, NEW stamp \in 0..clock, TokenInv, ChangePassword(p, stamp),
       Silent
    PROVE  TokenInv'
<1> USE DEF TokenInv
<1>e. \A u \in Tokens : Expired(u)' = Expired(u)
  BY ExpirySame DEF ChangePassword, tableVars, history
<1>1. TypeOK'
  BY DEF TypeOK, Todo, Silence, Silent, ChangePassword, lookupVars
<1>2. TokensOK'
  BY <1>e DEF TypeOK, TokensOK, TokenOK, Issued, Outdated, ChangePassword
<1>3. TodosOK'
  BY DEF TodosOK, TodoOK, Issued, ChangePassword
<1>4. ThreadsOK'
  BY <1>e DEF TypeOK, ThreadsOK, ThreadOK, Issued, ChangePassword, lookupVars
<1>5. CachesOK'
  BY <1>e DEF TypeOK, Entry, CachesOK, EntryOK, Issued, ChangePassword
<1>6. Promises'
  BY SilentKeeps DEF ChangePassword, Silent
<1>. QED  BY <1>1, <1>2, <1>3, <1>4, <1>5, <1>6

LEMMA ClearCacheStep ==
    ASSUME NEW p \in Processes, TokenInv, ClearCache(p), Silent
    PROVE  TokenInv'
<1> USE DEF TokenInv
<1>e. \A u \in Tokens : Expired(u)' = Expired(u)
  BY ExpirySame DEF ClearCache, tableVars, history
<1>1. TypeOK'
  BY DEF TypeOK, Todo, Silence, Silent, ClearCache, tableVars, lookupVars, history
<1>2. TokensOK'
  BY <1>e DEF TokensOK, TokenOK, Issued, Outdated, ClearCache, tableVars, history
<1>3. TodosOK'
  BY DEF TodosOK, TodoOK, Issued, ClearCache, tableVars, history
<1>4. ThreadsOK'
  BY <1>e DEF TypeOK, ThreadsOK, ThreadOK, Issued, ClearCache, tableVars, lookupVars, history
<1>5. CachesOK'
  BY <1>e DEF CachesOK, EntryOK, Issued, ClearCache, tableVars, history
<1>6. Promises'
  BY SilentKeeps DEF ClearCache, Silent
<1>. QED  BY <1>1, <1>2, <1>3, <1>4, <1>5, <1>6

LEMMA SweepAfterRevokeStep ==
    ASSUME NEW p \in Processes, TokenInv, SweepAfterRevoke(p), Silent
    PROVE  TokenInv'
<1> USE DEF TokenInv
<1>e. \A u \in Tokens : Expired(u)' = Expired(u)
  BY ExpirySame DEF SweepAfterRevoke, Sweep, tableVars, history
<1>1. TypeOK'
  BY DEF TypeOK, Todo, Silence, Silent, SweepAfterRevoke, Sweep, lookupVars, history
<1>2. TokensOK'
  BY <1>e DEF TokensOK, TokenOK, Issued, Outdated, SweepAfterRevoke, Sweep, Sweepable,
     history
<1>3. TodosOK'
  BY DEF TodosOK, TodoOK, Issued, SweepAfterRevoke, Sweep, history
<1>4. ThreadsOK'
  BY <1>e DEF TypeOK, ThreadsOK, ThreadOK, Issued, SweepAfterRevoke, Sweep, lookupVars, history
<1>5. CachesOK'
  BY <1>e DEF CachesOK, EntryOK, Issued, SweepAfterRevoke, Sweep, history
<1>6. Promises'
  BY SilentKeeps
<1>. QED  BY <1>1, <1>2, <1>3, <1>4, <1>5, <1>6

LEMMA EvictStep ==
    ASSUME NEW p \in Processes, NEW t \in Tokens, TokenInv, Evict(p, t), Silent
    PROVE  TokenInv'
<1> USE DEF TokenInv
<1>e. \A u \in Tokens : Expired(u)' = Expired(u)
  BY ExpirySame DEF Evict, tableVars, history
<1>1. TypeOK'
  BY DEF TypeOK, Silence, Silent, Evict, tableVars, lookupVars, history
<1>2. TokensOK'
  BY <1>e DEF TokensOK, TokenOK, Issued, Outdated, Evict, tableVars, history
<1>3. TodosOK'
  BY DEF TodosOK, TodoOK, Issued, Evict, tableVars, history
<1>4. ThreadsOK'
  BY <1>e DEF TypeOK, ThreadsOK, ThreadOK, Issued, Evict, tableVars, lookupVars, history
<1>5. CachesOK'
  BY <1>e DEF CachesOK, EntryOK, Issued, Evict, tableVars, history
<1>6. Promises'
  BY SilentKeeps DEF Evict, Cached, Silent
<1>. QED  BY <1>1, <1>2, <1>3, <1>4, <1>5, <1>6

LEMMA RestartStep ==
    ASSUME NEW p \in Processes, TokenInv, Restart(p), Silent
    PROVE  TokenInv'
<1> USE DEF TokenInv
<1>e. \A u \in Tokens : Expired(u)' = Expired(u)
  BY ExpirySame DEF Restart, tableVars, history
<1>1. TypeOK'
  BY DEF TypeOK, Todo, Silence, Silent, Restart, tableVars, history
<1>2. TokensOK'
  BY <1>e DEF TokensOK, TokenOK, Issued, Outdated, Restart, tableVars, history
<1>3. TodosOK'
  BY DEF TodosOK, TodoOK, Issued, Todo, Restart, vars, tableVars, lookupVars, history
<1>4. ThreadsOK'
  BY <1>e DEF TypeOK, TokensOK, TokenOK, ThreadsOK, ThreadOK, Issued, Outdated, Restart,
     vars, tableVars, lookupVars, history
<1>5. CachesOK'
  BY <1>e DEF TypeOK, Entry, TokensOK, TokenOK, TodosOK, TodoOK, ThreadsOK, ThreadOK, CachesOK,
     EntryOK, Issued, Outdated, Restart, vars, tableVars, lookupVars, history
<1>6. Promises'
  BY SilentKeeps DEF Restart, Silent
<1>. QED  BY <1>1, <1>2, <1>3, <1>4, <1>5, <1>6

LEMMA AskStep ==
    ASSUME NEW h \in Threads, NEW t \in Tokens, TokenInv, Ask(h, t)
    PROVE  TokenInv'
<1> USE DEF TokenInv
<1>e. \A u \in Tokens : Expired(u)' = Expired(u)
  BY ExpirySame DEF Ask, tableVars, history
<1>1. TypeOK'
  BY DEF TypeOK, Entry, Todo, Silence, Silent, Ask, Cached, Goto, vars, tableVars, lookupVars,
     history
<1>2. TokensOK'
  BY <1>e DEF TypeOK, TokensOK, TokenOK, Issued, Outdated, TodosOK, TodoOK, Ask, Cached,
     Goto, vars, tableVars, lookupVars, history
<1>3. TodosOK'
  BY DEF TypeOK, TodosOK, TodoOK, Issued, Todo, Ask, Cached, Goto, vars, tableVars, lookupVars,
     history
<1>4. ThreadsOK'
  BY <1>e DEF TypeOK, TokensOK, TokenOK, ThreadsOK, ThreadOK, Issued, Outdated, Ask,
     Cached, Goto, vars, tableVars, lookupVars, history
<1>5. CachesOK'
  BY <1>e DEF TypeOK, Entry, TokensOK, TokenOK, TodosOK, TodoOK, ThreadsOK, ThreadOK, CachesOK,
     EntryOK, Issued, Outdated, Ask, Cached, Goto, vars, tableVars, lookupVars, history
<1>6. Promises'
  BY SilentKeeps DEF Ask, Cached, Goto, Silent
<1>. QED  BY <1>1, <1>2, <1>3, <1>4, <1>5, <1>6

LEMMA HitStep ==
    ASSUME NEW h \in Threads, TokenInv, Hit(h)
    PROVE  TokenInv'
<1> USE DEF TokenInv
<1>e. \A u \in Tokens : Expired(u)' = Expired(u)
  BY ExpirySame DEF Hit, tableVars, history
<1>1. TypeOK'
  BY DEF TypeOK, Entry, Todo, Silence, Silent, Hit, Cached, Goto, Answer, Says, vars,
     tableVars, lookupVars, history
<1>2. TokensOK'
  BY <1>e DEF TypeOK, TokensOK, TokenOK, Issued, Outdated, TodosOK, TodoOK, Hit, Cached,
     Goto, Answer, Says, vars, tableVars, lookupVars, history
<1>3. TodosOK'
  BY DEF TypeOK, TodosOK, TodoOK, Issued, Todo, Hit, Cached, Goto, Answer, Says, vars,
     tableVars, lookupVars, history
<1>4. ThreadsOK'
  BY <1>e DEF TypeOK, TokensOK, TokenOK, ThreadsOK, ThreadOK, Issued, Outdated, Hit,
     Cached, Goto, Answer, Says, vars, tableVars, lookupVars, history
<1>5. CachesOK'
  BY <1>e DEF TypeOK, Entry, TokensOK, TokenOK, TodosOK, TodoOK, ThreadsOK, ThreadOK, CachesOK,
     EntryOK, Issued, Outdated, Hit, Cached, Goto, Answer, Says, vars, tableVars,
     lookupVars, history
<1>6. Promises'
  BY <1>e DEF Promises, TypeOK, Silence, Silent, Entry, PasswordChangeSettles,
     RefusalIsEarned, TokensOK, TokenOK, ThreadsOK, ThreadOK, CachesOK, EntryOK, Issued,
     Outdated, Hit, Cached, Goto, Answer, Says, vars, tableVars, lookupVars, history
<1>. QED  BY <1>1, <1>2, <1>3, <1>4, <1>5, <1>6

LEMMA ReadUserStep ==
    ASSUME NEW h \in Threads, TokenInv, ReadUser(h)
    PROVE  TokenInv'
<1> USE DEF TokenInv
<1>e. \A u \in Tokens : Expired(u)' = Expired(u)
  BY ExpirySame DEF ReadUser, tableVars, history
<1> DEFINE e == [revoked |-> TRUE, at |-> clock]
<1>0. /\ tok[h] \in Tokens /\ ProcessOf[h] \in Processes /\ pc[h] = "user"
      /\ UNCHANGED <<clock, issued, rows, changedAt, todo, revokedAt, outdatedAt, condemned,
                     faultsLeft>>
  BY DEF TypeOK, ReadUser, tableVars, history
<1>a. CASE Outdated(tok[h], changedAt)
  <2>1. e \in Entry /\ e.at = clock /\ e.revoked
    BY DEF TypeOK, Entry
  <2>2. /\ cache' = [cache EXCEPT ![ProcessOf[h]][tok[h]] = e]
        /\ pc' = [pc EXCEPT ![h] = "idle"] /\ tok' = [tok EXCEPT ![h] = NoToken]
        /\ began' = [began EXCEPT ![h] = 0] /\ verdict' = [verdict EXCEPT ![h] = FALSE]
        /\ said' = [about |-> tok[h], says |-> "revoked"]
    BY <1>a DEF ReadUser, Remembered, Answer, Goto
  <2> HIDE DEF e
  <2>3. tok[h] \in condemned /\ Issued(tok[h])
    BY <1>0, <1>a DEF TokensOK, TokenOK, Outdated
  <2>4. TypeOK'
    BY <1>0, <2>1, <2>2 DEF TypeOK
  <2>5. TokensOK' /\ TodosOK'
    BY <1>e, <1>0 DEF TokensOK, TokenOK, TodosOK, TodoOK, Issued, Outdated
  <2>6. ThreadsOK'
    BY <1>e, <1>0, <2>2 DEF TypeOK, ThreadsOK, ThreadOK, Issued
  <2>7. CachesOK'
    BY <1>e, <1>0, <2>1, <2>2, <2>3 DEF TypeOK, CachesOK, EntryOK, Issued
  <2>8. Promises'
    BY <1>0, <2>2, <2>3 DEF Promises, PasswordChangeSettles, RefusalIsEarned
  <2>. QED  BY <2>4, <2>5, <2>6, <2>7, <2>8
<1>b. CASE ~Outdated(tok[h], changedAt)
  <2>2. /\ pc' = [pc EXCEPT ![h] = "table"] /\ Silent
        /\ UNCHANGED <<cache, tok, began, verdict>>
    BY <1>b DEF ReadUser, Goto
  <2>4. TypeOK'
    BY <1>0, <2>2 DEF TypeOK, Silent, Silence
  <2>5. TokensOK' /\ TodosOK'
    BY <1>e, <1>0 DEF TokensOK, TokenOK, TodosOK, TodoOK, Issued, Outdated
  <2>6. ThreadsOK'
    BY <1>e, <1>0, <1>b, <2>2 DEF TypeOK, TokensOK, TokenOK, ThreadsOK, ThreadOK, Issued
  <2>7. CachesOK'
    BY <1>e, <1>0, <2>2 DEF CachesOK, EntryOK, Issued
  <2>8. Promises'
    BY <2>2, SilentKeeps
  <2>. QED  BY <2>4, <2>5, <2>6, <2>7, <2>8
<1>. QED  BY <1>a, <1>b


LEMMA ReadUserFailsStep ==
    ASSUME NEW h \in Threads, TokenInv, ReadUserFails(h)
    PROVE  TokenInv'
<1> USE DEF TokenInv
<1>e. \A u \in Tokens : Expired(u)' = Expired(u)
  BY ExpirySame DEF ReadUserFails, tableVars, history
<1>1. TypeOK'
  BY DEF TypeOK, Entry, Todo, Silence, Silent, ReadUserFails, Goto, vars, tableVars,
     lookupVars, history
<1>2. TokensOK'
  BY <1>e DEF TypeOK, TokensOK, TokenOK, Issued, Outdated, TodosOK, TodoOK, ReadUserFails,
     Goto, vars, tableVars, lookupVars, history
<1>3. TodosOK'
  BY DEF TypeOK, TodosOK, TodoOK, Issued, Todo, ReadUserFails, Goto, vars, tableVars,
     lookupVars, history
<1>4. ThreadsOK'
  BY <1>e DEF TypeOK, TokensOK, TokenOK, ThreadsOK, ThreadOK, Issued, Outdated,
     ReadUserFails, Goto, vars, tableVars, lookupVars, history
<1>5. CachesOK'
  BY <1>e DEF TypeOK, Entry, TokensOK, TokenOK, TodosOK, TodoOK, ThreadsOK, ThreadOK, CachesOK,
     EntryOK, Issued, Outdated, ReadUserFails, Goto, vars, tableVars, lookupVars,
     history
<1>6. Promises'
  BY SilentKeeps DEF ReadUserFails, Goto, Silent
<1>. QED  BY <1>1, <1>2, <1>3, <1>4, <1>5, <1>6

LEMMA SweepFirstStep ==
    ASSUME NEW h \in Threads, TokenInv, SweepFirst(h)
    PROVE  TokenInv'
<1> USE DEF TokenInv
<1>e. \A u \in Tokens : Expired(u)' = Expired(u)
  BY ExpirySame DEF SweepFirst, Sweep, tableVars, history
<1>1. TypeOK'
  BY DEF TypeOK, Entry, Todo, Silence, Silent, SweepFirst, Sweep, Sweepable, vars, tableVars,
     lookupVars, history
<1>2. TokensOK'
  BY <1>e DEF TypeOK, TokensOK, TokenOK, Issued, Outdated, TodosOK, TodoOK, SweepFirst,
     Sweep, Sweepable, vars, tableVars, lookupVars, history
<1>3. TodosOK'
  BY DEF TypeOK, TodosOK, TodoOK, Issued, Todo, SweepFirst, Sweep, Sweepable, vars, tableVars,
     lookupVars, history
<1>4. ThreadsOK'
  BY <1>e DEF TypeOK, TokensOK, TokenOK, ThreadsOK, ThreadOK, Issued, Outdated, SweepFirst,
     Sweep, Sweepable, vars, tableVars, lookupVars, history
<1>5. CachesOK'
  BY <1>e DEF TypeOK, Entry, TokensOK, TokenOK, TodosOK, TodoOK, ThreadsOK, ThreadOK, CachesOK,
     EntryOK, Issued, Outdated, SweepFirst, Sweep, Sweepable, vars, tableVars,
     lookupVars, history
<1>6. Promises'
  BY SilentKeeps DEF SweepFirst, Sweep, Sweepable, Silent
<1>. QED  BY <1>1, <1>2, <1>3, <1>4, <1>5, <1>6

LEMMA ReadTableStep ==
    ASSUME NEW h \in Threads, TokenInv, ReadTable(h)
    PROVE  TokenInv'
<1> USE DEF TokenInv
<1>e. \A u \in Tokens : Expired(u)' = Expired(u)
  BY ExpirySame DEF ReadTable, tableVars, history
<1>1. TypeOK'
  BY DEF TypeOK, Entry, Todo, Silence, Silent, ReadTable, Goto, vars, tableVars, lookupVars,
     history
<1>2. TokensOK'
  BY <1>e DEF TypeOK, TokensOK, TokenOK, Issued, Outdated, TodosOK, TodoOK, ReadTable,
     Goto, vars, tableVars, lookupVars, history
<1>3. TodosOK'
  BY DEF TypeOK, TodosOK, TodoOK, Issued, Todo, ReadTable, Goto, vars, tableVars, lookupVars,
     history
<1>4. ThreadsOK'
  BY <1>e DEF TypeOK, TokensOK, TokenOK, ThreadsOK, ThreadOK, Issued, Outdated, ReadTable,
     Goto, vars, tableVars, lookupVars, history
<1>5. CachesOK'
  BY <1>e DEF TypeOK, Entry, TokensOK, TokenOK, TodosOK, TodoOK, ThreadsOK, ThreadOK, CachesOK,
     EntryOK, Issued, Outdated, ReadTable, Goto, vars, tableVars, lookupVars, history
<1>6. Promises'
  BY SilentKeeps DEF ReadTable, Goto, Silent
<1>. QED  BY <1>1, <1>2, <1>3, <1>4, <1>5, <1>6

LEMMA ReadTableFailsStep ==
    ASSUME NEW h \in Threads, TokenInv, ReadTableFails(h)
    PROVE  TokenInv'
<1> USE DEF TokenInv
<1>e. \A u \in Tokens : Expired(u)' = Expired(u)
  BY ExpirySame DEF ReadTableFails, tableVars, history
<1>1. TypeOK'
  BY DEF TypeOK, Entry, Todo, Silence, Silent, ReadTableFails, Goto, Answer, vars, tableVars,
     lookupVars, history
<1>2. TokensOK'
  BY <1>e DEF TypeOK, TokensOK, TokenOK, Issued, Outdated, TodosOK, TodoOK, ReadTableFails,
     Goto, Answer, vars, tableVars, lookupVars, history
<1>3. TodosOK'
  BY DEF TypeOK, TodosOK, TodoOK, Issued, Todo, ReadTableFails, Goto, Answer, vars, tableVars,
     lookupVars, history
<1>4. ThreadsOK'
  BY <1>e DEF TypeOK, TokensOK, TokenOK, ThreadsOK, ThreadOK, Issued, Outdated,
     ReadTableFails, Goto, Answer, vars, tableVars, lookupVars, history
<1>5. CachesOK'
  BY <1>e DEF TypeOK, Entry, TokensOK, TokenOK, TodosOK, TodoOK, ThreadsOK, ThreadOK, CachesOK,
     EntryOK, Issued, Outdated, ReadTableFails, Goto, Answer, vars, tableVars,
     lookupVars, history
<1>6. Promises'
  BY <1>e DEF Promises, TypeOK, Silence, Silent, Entry, PasswordChangeSettles,
     RefusalIsEarned, TokensOK, TokenOK, ThreadsOK, ThreadOK, CachesOK, EntryOK, Issued,
     Outdated, ReadTableFails, Goto, Answer, vars, tableVars, lookupVars, history
<1>. QED  BY <1>1, <1>2, <1>3, <1>4, <1>5, <1>6

LEMMA StoreStep ==
    ASSUME NEW h \in Threads, TokenInv, Store(h)
    PROVE  TokenInv'
<1> USE DEF TokenInv
<1>e. \A u \in Tokens : Expired(u)' = Expired(u)
  BY ExpirySame DEF Store, tableVars, history
<1>1. TypeOK'
  BY DEF TypeOK, Entry, Todo, Silence, Silent, Store, Goto, Answer, Remembered, Says, vars,
     tableVars, lookupVars, history
<1>2. TokensOK'
  BY <1>e DEF TypeOK, TokensOK, TokenOK, Issued, Outdated, TodosOK, TodoOK, Store, Goto,
     Answer, Remembered, Says, vars, tableVars, lookupVars, history
<1>3. TodosOK'
  BY DEF TypeOK, TodosOK, TodoOK, Issued, Todo, Store, Goto, Answer, Remembered, Says, vars,
     tableVars, lookupVars, history
<1>4. ThreadsOK'
  BY <1>e DEF TypeOK, TokensOK, TokenOK, ThreadsOK, ThreadOK, Issued, Outdated, Store,
     Goto, Answer, Remembered, Says, vars, tableVars, lookupVars, history
<1>5. CachesOK'
  <2> DEFINE e == [revoked |-> verdict[h], at |-> clock]
  <2>1. /\ pc[h] = "store" /\ ProcessOf[h] \in Processes /\ tok[h] \in Tokens
        /\ cache' = [cache EXCEPT ![ProcessOf[h]][tok[h]] = e]
        /\ UNCHANGED <<clock, issued, revokedAt, outdatedAt, condemned, faultsLeft>>
    BY DEF Store, Remembered, TypeOK, tableVars, history
  <2>2. \A p \in Processes, t \in Tokens :
          \/ cache'[p][t] = cache[p][t]
          \/ p = ProcessOf[h] /\ t = tok[h] /\ cache'[p][t] = e
    BY <2>1 DEF TypeOK
  <2>3. ThreadOK(h) /\ e.revoked = verdict[h] /\ e.at = clock
    BY DEF ThreadsOK
  <2>4. ASSUME NEW p \in Processes, NEW t \in Tokens PROVE EntryOK(p, t)'
    <3>1. CASE cache'[p][t] = cache[p][t]
      BY <1>e, <2>1, <3>1 DEF CachesOK, EntryOK, Issued
    <3>2. CASE t = tok[h] /\ cache'[p][t] = e
      BY <1>e, <2>1, <2>3, <3>2 DEF TypeOK, EntryOK, ThreadOK, Issued
    <3>. QED
      BY <2>2, <3>1, <3>2
  <2>. QED
    BY <2>4 DEF CachesOK
<1>6. Promises'
  BY <1>e DEF Promises, TypeOK, Silence, Silent, Entry, PasswordChangeSettles,
     RefusalIsEarned, TokensOK, TokenOK, ThreadsOK, ThreadOK, CachesOK, EntryOK, Issued,
     Outdated, Store, Goto, Answer, Remembered, Says, vars, tableVars, lookupVars,
     history
<1>. QED  BY <1>1, <1>2, <1>3, <1>4, <1>5, <1>6

\* An answer given long after the revocation is "valid" only if the SELECT of that
\* very lookup fails: what the other lookups have read, and what the cache holds,
\* is too young to be from before the revocation.
LEMMA LateAnswer ==
    ASSUME TokenInv, NEW h \in Threads, Lookup(h), NEW t \in Tokens,
           RevokedLongAgo(t)', said' = [about |-> t, says |-> "valid"]
    PROVE  tok[h] = t /\ ReadTableFails(h)
<1>1. ~Silent
  BY DEF Silent, Silence
<1>2. CASE Hit(h)
  <2>1. RevokedLongAgo(t)
    BY <1>2, ExpirySame DEF Hit, tableVars, history, RevokedLongAgo
  <2>2. tok[h] = t /\ cache[ProcessOf[h]][t] # Nothing /\ ~cache[ProcessOf[h]][t].revoked
    BY <1>2 DEF Hit, Answer, Cached, Says
  <2>3. EntryOK(ProcessOf[h], t)
    BY DEF TokenInv, CachesOK
  <2>. QED
    BY <2>1, <2>2, <2>3 DEF RevokedLongAgo, EntryOK, TokenInv, TypeOK, Entry
<1>3. CASE Store(h)
  <2>1. RevokedLongAgo(t)
    BY <1>3, ExpirySame DEF Store, tableVars, history, RevokedLongAgo
  <2>2. tok[h] = t /\ ~verdict[h] /\ pc[h] = "store"
    BY <1>3 DEF Store, Answer, Says
  <2>. QED
    BY <2>1, <2>2 DEF RevokedLongAgo, TokenInv, TypeOK, ThreadsOK, ThreadOK
<1>4. CASE ReadTableFails(h)
  BY <1>4 DEF ReadTableFails, Answer
<1>5. CASE ReadUser(h)
  BY <1>1, <1>5 DEF ReadUser, Answer
<1>. QED
  BY <1>1, <1>2, <1>3, <1>4, <1>5 DEF Lookup, Ask, ReadUserFails, SweepFirst, ReadTable

-----------------------------------------------------------------------------
(* The theorems *)

LEMMA Stutter == ASSUME TokenInv, UNCHANGED vars PROVE TokenInv'
BY DEF TokenInv, TypeOK, TokensOK, TokenOK, TodosOK, TodoOK, ThreadsOK, ThreadOK, CachesOK,
       EntryOK, Issued, Expired, Outdated, Promises, PasswordChangeSettles,
       RefusalIsEarned, vars, tableVars, lookupVars, history

LEMMA EveryStep == TokenInv /\ [Next]_vars => TokenInv'
<1> SUFFICES ASSUME TokenInv, [Next]_vars PROVE TokenInv'
  OBVIOUS
<1>1. CASE Tick /\ Silent
  BY <1>1, TickStep
<1>2. ASSUME NEW t \in Tokens, Issue(t), Silent PROVE TokenInv'
  BY <1>2, IssueStep
<1>3. ASSUME NEW p \in Processes, Change(p), Silent PROVE TokenInv'
  BY <1>3, RevokeStep, ChangePasswordStep, RememberStep, ClearCacheStep,
     SweepAfterRevokeStep DEF Change
<1>4. ASSUME NEW p \in Processes, Restart(p), Silent PROVE TokenInv'
  BY <1>4, RestartStep
<1>5. ASSUME NEW p \in Processes, NEW t \in Tokens, Evict(p, t), Silent PROVE TokenInv'
  BY <1>5, EvictStep
<1>6. ASSUME NEW h \in Threads, Lookup(h) PROVE TokenInv'
  BY <1>6, AskStep, HitStep, ReadUserStep, ReadUserFailsStep, SweepFirstStep,
     ReadTableStep, ReadTableFailsStep, StoreStep DEF Lookup
<1>7. CASE UNCHANGED vars
  BY <1>7, Stutter
<1>. QED  BY <1>1, <1>2, <1>3, <1>4, <1>5, <1>6, <1>7 DEF Next

LEMMA TokenInvariant == Spec => []TokenInv
BY Initially, EveryStep, PTL DEF Spec

\* The model keeps its types: the states of a lookup, of a process after its
\* commit, and the entries of the caches.
THEOREM TokenTypeCorrect == Spec => []TypeOK
BY TokenInvariant, PTL DEF TokenInv

\* Within a lookup and the time to live after a revocation was committed, no
\* process accepts the token, whatever late answers overwrote in its cache; but
\* the lookup whose own SELECT fails accepts it at any time.
THEOREM RevocationsSettle == Spec => RevocationSettles
<1>1. ASSUME TokenInv, [Next]_vars
      PROVE  [\A t \in Tokens :
                RevokedLongAgo(t)' /\ said' = [about |-> t, says |-> "valid"]
                => \E h \in Threads : tok[h] = t /\ ReadTableFails(h)]_vars
  <2>. SUFFICES ASSUME Next, NEW t \in Tokens, RevokedLongAgo(t)',
                       said' = [about |-> t, says |-> "valid"]
                PROVE  \E h \in Threads : tok[h] = t /\ ReadTableFails(h)
    BY <1>1
  <2>1. ~Silent
    BY DEF Silent, Silence
  <2>2. PICK h \in Threads : Lookup(h)
    BY <2>1 DEF Next
  <2>. QED
    BY <1>1, <2>2, LateAnswer
<1>. QED
  BY <1>1, TokenInvariant, PTL DEF Spec, RevocationSettles

\* The same for a password change, unless a read of the user's row has failed.
THEOREM PasswordChangesSettle == Spec => []PasswordChangeSettles
BY TokenInvariant, PTL DEF TokenInv, Promises

\* Only tokens that were revoked or outdated are ever refused as revoked.
THEOREM RefusalsAreEarned == Spec => []RefusalIsEarned
BY TokenInvariant, PTL DEF TokenInv, Promises
=============================================================================
