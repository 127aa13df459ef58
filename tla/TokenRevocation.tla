---------------------------- MODULE TokenRevocation ----------------------------
(***************************************************************************)
(* Revoked bearer tokens (src/src/db/auth.py): the table revoked_tokens and *)
(* users.password_changed_at, which all processes share, and the cache with *)
(* a time to live that each process puts in front of them.                  *)
(*                                                                         *)
(* The tokens modelled belong to one user.  A lookup is is_token_revoked in *)
(* a request thread; each of its statements is a step, and so is each       *)
(* access to the cache, since a lookup decides on what it read before.      *)
(*                                                                         *)
(* An operator named after a slip stands above the definition it is a       *)
(* mutated form of; no behaviour uses it.                                   *)
(***************************************************************************)
EXTENDS Naturals

CONSTANTS Processes, Threads,
          ProcessOf,    \* the process of a thread
          Tokens,
          NoTime, NoToken, Nothing,
          Second,       \* the ticks of a second: the clean-up counts whole ones
          Life,         \* expires_in_seconds, in ticks
          TTL,          \* _REVOKED_TOKEN_CACHE_TTL
          MaxLookup,    \* the longest a lookup takes
          MaxCommit,    \* the longest a password change waits to commit
          MaxFaults,    \* bound: SELECTs that raise
          MaxClock      \* bound: how long the system is watched

ASSUME TokenAssumption ==
    /\ ProcessOf \in [Threads -> Processes]
    /\ NoTime \notin Nat /\ NoToken \notin Tokens
    /\ Tokens \cap {"nothing", "clear", "sweep"} = {}
    /\ Second \in Nat \ {0}
    /\ Life \in Nat /\ TTL \in Nat \ {0}
    /\ MaxLookup \in Nat /\ MaxCommit \in Nat /\ MaxFaults \in Nat /\ MaxClock \in Nat

VARIABLES
    clock,
    issued,      \* iat of a token; NoTime before it is issued
    rows,        \* revoked_tokens
    changedAt,   \* password_changed_at
    cache,       \* _revoked_token_cache of a process
    todo,        \* what a process still has to do after a commit of its own
    pc, tok, began, verdict,  \* a lookup: where, about what, since when, what it read
    said,        \* what a lookup that ends in this step returns
    revokedAt,   \* history: when the revocation was committed
    outdatedAt,  \* history: since when the password change outdates it
    condemned,   \* history: tokens ever revoked or outdated
    faultsLeft

tableVars  == <<issued, rows, changedAt>>
lookupVars == <<pc, tok, began, verdict>>
history    == <<revokedAt, outdatedAt, condemned>>
vars == <<clock, tableVars, cache, todo, lookupVars, said, history, faultsLeft>>

Issued(t)  == issued[t] # NoTime
\* now_ts >= exp_int: both are cut down to the second.
Expired(t) ==
    /\ Issued(t)
    /\ \E sec \in 0..clock : sec % Second = 0 /\ issued[t] + Life < sec + Second
Entry      == [revoked : BOOLEAN, at : Nat]
Silence    == [about |-> NoToken, says |-> "nothing"]
Todo       == {"nothing", "clear", "sweep"} \cup Tokens

Cached(p, t) == cache[p][t] # Nothing

Outdated(t, stamp) == Issued(t) /\ stamp # NoTime /\ issued[t] < stamp

Init ==
    /\ clock = 0
    /\ issued = [t \in Tokens |-> NoTime]
    /\ rows = {}
    /\ changedAt = NoTime
    /\ cache = [p \in Processes |-> [t \in Tokens |-> Nothing]]
    /\ todo = [p \in Processes |-> "nothing"]
    /\ pc = [h \in Threads |-> "idle"]
    /\ tok = [h \in Threads |-> NoToken]
    /\ began = [h \in Threads |-> 0]
    /\ verdict = [h \in Threads |-> FALSE]
    /\ said = Silence
    /\ revokedAt = [t \in Tokens |-> NoTime]
    /\ outdatedAt = [t \in Tokens |-> NoTime]
    /\ condemned = {}
    /\ faultsLeft = MaxFaults

-----------------------------------------------------------------------------
(* Tokens, revocations and password changes *)

\* create_jwt_token: iat is the time of issue, as exact as the stamps of password
\* changes are.
IssueInWholeSeconds(t) ==
    /\ ~Issued(t)
    /\ issued' = [issued EXCEPT ![t] = clock - (clock % Second)]
    /\ UNCHANGED <<clock, rows, changedAt, cache, todo, lookupVars, history, faultsLeft>>
Issue(t) ==
    /\ ~Issued(t)
    /\ issued' = [issued EXCEPT ![t] = clock]
    /\ UNCHANGED <<clock, rows, changedAt, cache, todo, lookupVars, history, faultsLeft>>

\* revoke_token up to its commit; INSERT OR IGNORE
Revoke(p, t) ==
    /\ todo[p] = "nothing" /\ Issued(t)
    /\ rows' = rows \cup {t}
    /\ todo' = [todo EXCEPT ![p] = t]
    /\ revokedAt' = [revokedAt EXCEPT ![t] = IF @ = NoTime THEN clock ELSE @]
    /\ condemned' = condemned \cup {t}
    /\ UNCHANGED <<clock, issued, changedAt, cache, lookupVars, outdatedAt, faultsLeft>>

\* ... and from there on: the cache of this process.
Remember(p) ==
    /\ todo[p] \in Tokens
    /\ cache' = [cache EXCEPT ![p][todo[p]] = [revoked |-> TRUE, at |-> clock]]
    /\ \E next \in {"nothing", "sweep"} : todo' = [todo EXCEPT ![p] = next]
    /\ UNCHANGED <<clock, tableVars, lookupVars, history, faultsLeft>>

\* update_password, revoke_all_user_refresh_tokens: the stamp is taken before
\* the UPDATE, which may have to wait.
ChangePassword(p, stamp) ==
    /\ todo[p] = "nothing"
    /\ changedAt' = stamp
    /\ todo' = [todo EXCEPT ![p] = "clear"]
    /\ outdatedAt' = [t \in Tokens |-> IF ~Outdated(t, stamp) THEN NoTime
                                       ELSE IF outdatedAt[t] = NoTime THEN clock
                                       ELSE outdatedAt[t]]
    /\ condemned' = condemned \cup {t \in Tokens : Outdated(t, stamp)}
    /\ UNCHANGED <<clock, issued, rows, cache, lookupVars, revokedAt, faultsLeft>>

\* clear_revocation_cache, in this process
ClearCache(p) ==
    /\ todo[p] = "clear"
    /\ cache' = [cache EXCEPT ![p] = [t \in Tokens |-> Nothing]]
    /\ todo' = [todo EXCEPT ![p] = "nothing"]
    /\ UNCHANGED <<clock, tableVars, lookupVars, history, faultsLeft>>

\* _cleanup_revoked_tokens.  A process runs it at most once an hour, after a
\* revocation or before it reads the table; when it is due is left open.
SweepableAnyTime == rows
Sweepable        == {t \in rows : Expired(t)}
Sweep(p) ==
    /\ rows' = rows \ Sweepable
    /\ cache' = IF Sweepable = {} THEN cache
                ELSE [cache EXCEPT ![p] = [t \in Tokens |-> Nothing]]
    /\ UNCHANGED <<clock, issued, changedAt, lookupVars, history, faultsLeft>>
SweepAfterRevoke(p) ==
    /\ todo[p] = "sweep"
    /\ todo' = [todo EXCEPT ![p] = "nothing"]
    /\ Sweep(p)

-----------------------------------------------------------------------------
(* A lookup: is_token_revoked *)

Goto(h, l) == pc' = [pc EXCEPT ![h] = l]

Silent == said' = Silence

\* The lookup ends; says is what it returns, or that it raised.
Answer(h, says) ==
    /\ Goto(h, "idle")
    /\ said' = [about |-> tok[h], says |-> says]
    /\ tok' = [tok EXCEPT ![h] = NoToken]
    /\ began' = [began EXCEPT ![h] = 0]
    /\ verdict' = [verdict EXCEPT ![h] = FALSE]

Says(revoked) == IF revoked THEN "revoked" ELSE "valid"

\* "if token in _revoked_token_cache"
Ask(h, t) ==
    /\ pc[h] = "idle" /\ Issued(t)
    /\ Goto(h, IF Cached(ProcessOf[h], t) THEN "hit" ELSE "user")
    /\ tok' = [tok EXCEPT ![h] = t]
    /\ began' = [began EXCEPT ![h] = clock]
    /\ Silent
    /\ UNCHANGED <<clock, tableVars, cache, todo, verdict, history, faultsLeft>>

\* "return _revoked_token_cache[token]": a KeyError if it has expired since.
Hit(h) ==
    LET entry == cache[ProcessOf[h]][tok[h]] IN
    /\ pc[h] = "hit"
    /\ Answer(h, IF Cached(ProcessOf[h], tok[h]) THEN Says(entry.revoked) ELSE "error")
    /\ UNCHANGED <<clock, tableVars, cache, todo, history, faultsLeft>>

Remembered(h, revoked) ==
    cache' = [cache EXCEPT ![ProcessOf[h]][tok[h]] = [revoked |-> revoked, at |-> clock]]

\* SELECT password_changed_at: an outdated token is cached and refused at once.
ReadUserUnheeded(h) ==
    /\ pc[h] = "user"
    /\ Goto(h, "table") /\ Silent
    /\ UNCHANGED <<clock, tableVars, cache, todo, tok, began, verdict, history, faultsLeft>>
ReadUser(h) ==
    /\ pc[h] = "user"
    /\ IF Outdated(tok[h], changedAt)
       THEN Remembered(h, TRUE) /\ Answer(h, "revoked")
       ELSE Goto(h, "table") /\ Silent /\ UNCHANGED <<cache, tok, began, verdict>>
    /\ UNCHANGED <<clock, tableVars, todo, history, faultsLeft>>

\* An exception there is logged and the lookup goes on.
ReadUserFails(h) ==
    /\ pc[h] = "user" /\ faultsLeft > 0
    /\ faultsLeft' = faultsLeft - 1
    /\ Goto(h, "table") /\ Silent
    /\ UNCHANGED <<clock, tableVars, cache, todo, tok, began, verdict, history>>

SweepFirst(h) ==
    /\ pc[h] = "table"
    /\ Sweep(ProcessOf[h]) /\ Silent
    /\ UNCHANGED todo

\* SELECT 1 FROM revoked_tokens
ReadTable(h) ==
    /\ pc[h] = "table"
    /\ verdict' = [verdict EXCEPT ![h] = tok[h] \in rows]
    /\ Goto(h, "store") /\ Silent
    /\ UNCHANGED <<clock, tableVars, cache, todo, tok, began, history, faultsLeft>>

\* sqlite3.Error: False, the answer of a valid token; it is not cached.
ReadTableGoesOn(h) ==
    /\ pc[h] = "table" /\ faultsLeft > 0
    /\ faultsLeft' = faultsLeft - 1
    /\ verdict' = [verdict EXCEPT ![h] = Nothing]
    /\ Goto(h, "store") /\ Silent
    /\ UNCHANGED <<clock, tableVars, cache, todo, tok, began, history>>
ReadTableCachesFailure(h) ==
    /\ pc[h] = "table" /\ faultsLeft > 0
    /\ faultsLeft' = faultsLeft - 1
    /\ Remembered(h, FALSE) /\ Answer(h, "valid")
    /\ UNCHANGED <<clock, tableVars, todo, history>>
ReadTableFails(h) ==
    /\ pc[h] = "table" /\ faultsLeft > 0
    /\ faultsLeft' = faultsLeft - 1
    /\ Answer(h, "valid")
    /\ UNCHANGED <<clock, tableVars, cache, todo, history>>

Store(h) ==
    /\ pc[h] = "store"
    /\ Remembered(h, verdict[h])
    /\ Answer(h, Says(verdict[h]))
    /\ UNCHANGED <<clock, tableVars, todo, history, faultsLeft>>

-----------------------------------------------------------------------------
\* The cache is full and drops an entry.
Evict(p, t) ==
    /\ Cached(p, t)
    /\ cache' = [cache EXCEPT ![p][t] = Nothing]
    /\ UNCHANGED <<clock, tableVars, todo, lookupVars, history, faultsLeft>>

Restart(p) ==
    LET Killed(f, v) == [h \in Threads |-> IF ProcessOf[h] = p THEN v ELSE f[h]] IN
    /\ cache' = [cache EXCEPT ![p] = [t \in Tokens |-> Nothing]]
    /\ todo' = [todo EXCEPT ![p] = "nothing"]
    /\ pc' = Killed(pc, "idle") /\ tok' = Killed(tok, NoToken)
    /\ began' = Killed(began, 0) /\ verdict' = Killed(verdict, FALSE)
    /\ UNCHANGED <<clock, tableVars, history, faultsLeft>>

\* A cached answer is dropped when its time is up.
Lapsed(p, t) == Cached(p, t) /\ clock + 1 >= cache[p][t].at + TTL
Tick ==
    /\ clock < MaxClock
    /\ \A h \in Threads : pc[h] # "idle" => clock < began[h] + MaxLookup
    /\ clock' = clock + 1
    /\ cache' = [p \in Processes |-> [t \in Tokens |->
                   IF Lapsed(p, t) THEN Nothing ELSE cache[p][t]]]
    /\ UNCHANGED <<tableVars, todo, lookupVars, history, faultsLeft>>

Lookup(h) ==
    \/ \E t \in Tokens : Ask(h, t)
    \/ Hit(h) \/ ReadUser(h) \/ ReadUserFails(h) \/ SweepFirst(h)
    \/ ReadTable(h) \/ ReadTableFails(h) \/ Store(h)

Change(p) ==
    \/ \E t \in Tokens : Revoke(p, t)
    \/ \E stamp \in {n \in 0..clock : clock <= n + MaxCommit} : ChangePassword(p, stamp)
    \/ Remember(p) \/ ClearCache(p) \/ SweepAfterRevoke(p)

Next ==
    \/ /\ \/ Tick
          \/ \E t \in Tokens : Issue(t)
          \/ \E p \in Processes : Change(p) \/ Restart(p) \/ \E t \in Tokens : Evict(p, t)
       /\ Silent
    \/ \E h \in Threads : Lookup(h)

Spec == Init /\ [][Next]_vars

-----------------------------------------------------------------------------
(* Properties *)

\* Every variable has its type.
TypeOK ==
    /\ clock \in Nat
    /\ issued \in [Tokens -> Nat \cup {NoTime}]
    /\ rows \subseteq Tokens
    /\ changedAt \in Nat \cup {NoTime}
    /\ cache \in [Processes -> [Tokens -> Entry \cup {Nothing}]]
    /\ todo \in [Processes -> Todo]
    /\ pc \in [Threads -> {"idle", "hit", "user", "table", "store"}]
    /\ tok \in [Threads -> Tokens \cup {NoToken}]
    /\ \A h \in Threads : pc[h] # "idle" => tok[h] \in Tokens
    /\ began \in [Threads -> Nat]
    /\ verdict \in [Threads -> BOOLEAN]
    /\ said \in [about : Tokens \cup {NoToken},
                says : {"nothing", "valid", "revoked", "error"}]
    /\ said.says # "nothing" => said.about \in Tokens
    /\ revokedAt \in [Tokens -> Nat \cup {NoTime}]
    /\ outdatedAt \in [Tokens -> Nat \cup {NoTime}]
    /\ condemned \subseteq Tokens
    /\ faultsLeft \in 0..MaxFaults

\* t was revoked longer ago than the time to live and one lookup.
RevokedLongAgo(t) ==
    /\ revokedAt[t] # NoTime /\ ~Expired(t)
    /\ clock >= revokedAt[t] + MaxLookup + TTL

\* A revocation takes effect everywhere within the time to live plus one
\* lookup: from then on no process calls the token valid, though a lookup that
\* read the table before the commit may have overwritten what revoke_token put
\* into the cache, and the clean-up deletes rows of the table.  The one
\* exception is the lookup whose own SELECT fails: it answers as for a valid
\* token, however long ago the revocation was, and no later lookup repeats it.
RevocationSettles ==
    [][\A t \in Tokens :
          RevokedLongAgo(t)' /\ said' = [about |-> t, says |-> "valid"]
          => \E h \in Threads : tok[h] = t /\ ReadTableFails(h)]_vars

\* So does a password change, as long as no read of the user's row fails.
PasswordChangeSettles ==
    \A t \in Tokens :
        /\ said = [about |-> t, says |-> "valid"]
        /\ outdatedAt[t] # NoTime /\ faultsLeft = MaxFaults
        => clock < outdatedAt[t] + MaxLookup + TTL

\* Nobody is refused who need not be: a token is called revoked only if it was
\* revoked, or was already issued when a password change was committed; whoever
\* logs in right after the change is let in.
RefusalIsEarned ==
    \A t \in Tokens : said = [about |-> t, says |-> "revoked"] => t \in condemned
=============================================================================
