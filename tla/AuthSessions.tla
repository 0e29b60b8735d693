---------------------------- MODULE AuthSessions ----------------------------
(***************************************************************************)
(* The auth feature of the backend: accounts, login lockout, refresh-token *)
(* rotation with reuse detection, password reset and account deletion.     *)
(*                                                                         *)
(* A request runs on a goroutine of its own and owns no lock.  Each        *)
(* repository call is one SQL statement, hence atomic; between two calls   *)
(* of one handler any other request may run.  So a handler is one action   *)
(* per repository call, and req[r].pc names the call request r makes next. *)
(* A password is identified with the token_version it was set under.       *)
(***************************************************************************)
EXTENDS Naturals, FiniteSets

CONSTANTS Users,       \* accounts that may register (one e-mail address each)
          Tokens,      \* ids available to refresh_tokens rows
          Requests,    \* handler goroutines that may run at the same time
          None,        \* the nil of a nullable column
          MaxFailed,   \* ServiceConfig.LoginMaxFailedAttempts
          MaxAttempts, \* bound on failed_login_attempts
          MaxVersion,  \* bound on token_version
          MaxExpired   \* bound on the tokens that expire

ASSUME NoneAssumption == None \notin Users \cup Tokens
ASSUME BoundAssumption ==
  /\ MaxFailed \in Nat \ {0}
  /\ MaxAttempts \in Nat
  /\ MaxVersion \in Nat
  /\ MaxExpired \in Nat

VARIABLES
  account,     \* users row: never created, live or soft-deleted
  version,     \* users.token_version
  attempts,    \* users.failed_login_attempts
  lock,        \* users.locked_until: nil, in the future or in the past
  resetLinks,  \* <<user, version>> pairs minted into reset links
  row,         \* refresh_tokens row: absent, live or revoked
  owner,       \* refresh_tokens.user_id
  rotatedFrom, \* refresh_tokens.rotated_from_id
  expired,     \* tokens past expires_at
  req,         \* requests in flight
  passed,      \* history: by request, what befell the account it had read
  credential,  \* history: the password a token's login was made with
  swept,       \* history: version at the latest revocation of all sessions
  lateTokens,  \* history: rows created for an account already deleted
  lostLocks,   \* history: users whose lock write did not happen
  contested,   \* history: tokens a refresh had found live and, revoking them, found
               \* revoked
  outlived     \* history: rows issued by a handler a sweep had passed, and rows
               \* rotated from them

accounts == <<account, version, attempts, lock>>
rows     == <<row, owner, rotatedFrom, expired>>
flight   == <<req, passed>>
history  == <<credential, swept, lateTokens, lostLocks, contested, outlived>>
vars     == <<accounts, resetLinks, rows, flight, history>>

Steps == {"idle", "fail", "lock", "clear", "issue", "reuse", "revoke",
          "lookup", "reset", "delete", "softdelete"}

RequestState == [pc: Steps, user: Users \cup {None},
                 token: Tokens \cup {None}, ver: 0..MaxVersion]

TypeOK ==
  /\ account \in [Users -> {"none", "live", "deleted"}]
  /\ version \in [Users -> 0..MaxVersion]
  /\ attempts \in [Users -> Nat]
  /\ lock \in [Users -> {"none", "active", "lapsed"}]
  /\ resetLinks \in SUBSET (Users \X {v \in 0..MaxVersion : v < MaxVersion})
  /\ row \in [Tokens -> {"absent", "live", "revoked"}]
  /\ owner \in [Tokens -> Users \cup {None}]
  /\ rotatedFrom \in [Tokens -> Tokens \cup {None}]
  /\ expired \in SUBSET Tokens
  /\ req \in [Requests -> RequestState]
  /\ passed \in [Requests -> SUBSET {"sweep", "lock"}]
  /\ credential \in [Tokens -> 0..MaxVersion]
  /\ swept \in [Users -> 0..MaxVersion]
  /\ lateTokens \in SUBSET Tokens
  /\ lostLocks \in SUBSET Users
  /\ contested \in SUBSET Tokens
  /\ outlived \in SUBSET Tokens

Idle == [pc |-> "idle", user |-> None, token |-> None, ver |-> 0]

Init ==
  /\ account = [u \in Users |-> "none"]
  /\ version = [u \in Users |-> 0]
  /\ attempts = [u \in Users |-> 0]
  /\ lock = [u \in Users |-> "none"]
  /\ resetLinks = {}
  /\ row = [t \in Tokens |-> "absent"]
  /\ owner = [t \in Tokens |-> None]
  /\ rotatedFrom = [t \in Tokens |-> None]
  /\ expired = {}
  /\ req = [r \in Requests |-> Idle]
  /\ passed = [r \in Requests |-> {}]
  /\ credential = [t \in Tokens |-> 0]
  /\ swept = [u \in Users |-> 0]
  /\ lateTokens = {}
  /\ lostLocks = {}
  /\ contested = {}
  /\ outlived = {}

-----------------------------------------------------------------------------
(* Control of a handler. *)

At(r, step) == req[r].pc = step
Begin(r, step, u, t, v) ==
  /\ At(r, "idle")
  /\ req' = [req EXCEPT ![r] =
               [pc |-> step, user |-> u, token |-> t, ver |-> v]]
  /\ UNCHANGED passed
Goto(r, step) == req' = [req EXCEPT ![r].pc = step] /\ UNCHANGED passed
Return(r) ==
  /\ req' = [req EXCEPT ![r] = Idle]
  /\ passed' = [passed EXCEPT ![r] = {}]

\* What r does to account u passes the handlers that will act on what they have
\* read before: clear a counter and a lock, or open a session for a password.
Clears(q) == At(q, "clear")
Opens(q)  == req[q].pc \in {"clear", "issue", "revoke", "lookup"} /\ req[q].ver < version[req[q].user]
Overtakes(r, u, event) ==
  passed' = [q \in Requests |->
               IF q = r THEN {}
               ELSE IF req[q].user = u /\ (IF event = "lock" THEN Clears(q) ELSE Opens(q))
                 THEN passed[q] \cup {event}
               ELSE passed[q]]

Live(u) == account[u] = "live"     \* GORM's soft-delete scope

-----------------------------------------------------------------------------
(* Accounts and the reset links mailed to them.                            *)

\* The unique index on users.email covers soft-deleted rows: no re-register.
Register(u) ==
  /\ account[u] = "none"
  /\ account' = [account EXCEPT ![u] = "live"]
  /\ UNCHANGED <<version, attempts, lock, resetLinks, rows, flight, history>>

\* The bound on versions is a bound on the links that are mailed.
RequestPasswordReset(u) ==
  /\ Live(u) /\ version[u] < MaxVersion
  /\ resetLinks' = resetLinks \cup {<<u, version[u]>>}
  /\ UNCHANGED <<accounts, rows, flight, history>>

-----------------------------------------------------------------------------
(* Login: read the account, then act on what was read. *)

Locked(u) == lock[u] = "active"
Dirty(u)  == attempts[u] > 0 \/ lock[u] # "none"

\* Unknown account, or locked: 401 or 423 and nothing is written.
LoginRefused(u) ==
  /\ ~Live(u) \/ Locked(u)
  /\ UNCHANGED vars

\* Mutation: the lock read from the row is not consulted.
LoginRightPasswordNoLock(r, u) ==
  /\ Live(u)
  /\ Begin(r, IF Dirty(u) THEN "clear" ELSE "issue", u, None, version[u])
  /\ UNCHANGED <<accounts, resetLinks, rows, history>>

LoginRightPassword(r, u) ==
  /\ Live(u) /\ ~Locked(u)
  /\ Begin(r, IF Dirty(u) THEN "clear" ELSE "issue", u, None, version[u])
  /\ UNCHANGED <<accounts, resetLinks, rows, history>>

LoginWrongPassword(r, u) ==
  /\ Live(u) /\ ~Locked(u)
  /\ attempts[u] < MaxAttempts
  /\ Begin(r, "fail", u, None, 0)
  /\ UNCHANGED <<accounts, resetLinks, rows, history>>

\* Mutation: the threshold is compared with > in place of >=.
ReachesThresholdStrict(n) == n > MaxFailed

ReachesThreshold(n) == n >= MaxFailed

\* UPDATE ... SET failed_login_attempts = failed_login_attempts + 1 RETURNING.
LoginFail(r) ==
  LET u == req[r].user
      n == attempts[u] + 1
  IN /\ At(r, "fail")
     /\ \/ /\ Live(u)
           /\ attempts' = [attempts EXCEPT ![u] = n]
           /\ IF ReachesThreshold(n) THEN Goto(r, "lock") ELSE Return(r)
        \/ ~Live(u) /\ Return(r) /\ UNCHANGED attempts
     /\ UNCHANGED <<account, version, lock, resetLinks, rows, history>>

LoginLock(r) ==
  LET u == req[r].user
  IN /\ At(r, "lock")
     /\ \/ /\ Live(u)
           /\ lock' = [lock EXCEPT ![u] = "active"]
           /\ attempts' = [attempts EXCEPT ![u] = 0]
           /\ lostLocks' = lostLocks \ {u}
           /\ req' = [req EXCEPT ![r] = Idle]
           /\ Overtakes(r, u, "lock")
        \/ ~Live(u) /\ Return(r) /\ UNCHANGED <<lock, attempts, lostLocks>>
     /\ UNCHANGED <<account, version, resetLinks, rows,
                    credential, swept, lateTokens, contested, outlived>>

\* Best effort: a failed or empty UPDATE is logged and the login goes on.
LoginClear(r) ==
  LET u == req[r].user
  IN /\ At(r, "clear")
     /\ req' = [req EXCEPT ![r].pc = "issue"]
     /\ passed' = [passed EXCEPT ![r] = @ \ {"lock"}]
     /\ \/ /\ Live(u)
           /\ lock' = [lock EXCEPT ![u] = "none"]
           /\ attempts' = [attempts EXCEPT ![u] = 0]
           /\ lostLocks' = lostLocks \ {u}
        \/ UNCHANGED <<lock, attempts, lostLocks>>
     /\ UNCHANGED <<account, version, resetLinks, rows,
                    credential, swept, lateTokens, contested, outlived>>

LockLapses(u) ==
  /\ lock[u] = "active"
  /\ lock' = [lock EXCEPT ![u] = "lapsed"]
  /\ UNCHANGED <<account, version, attempts, resetLinks, rows, flight, history>>

-----------------------------------------------------------------------------
(* Sessions: issuing, rotating and revoking refresh tokens. *)

\* issueSession: no statement here re-reads the account.
IssueSession(r, t) ==
  /\ At(r, "issue")
  /\ row[t] = "absent"
  /\ row' = [row EXCEPT ![t] = "live"]
  /\ owner' = [owner EXCEPT ![t] = req[r].user]
  /\ rotatedFrom' = [rotatedFrom EXCEPT ![t] = req[r].token]
  /\ credential' = [credential EXCEPT ![t] = req[r].ver]
  /\ lateTokens' = IF Live(req[r].user) THEN lateTokens ELSE lateTokens \cup {t}
  /\ outlived' = IF "sweep" \in passed[r] \/ req[r].token \in outlived
                   THEN outlived \cup {t} ELSE outlived
  /\ Return(r)
  /\ UNCHANGED <<accounts, resetLinks, expired, swept, lostLocks, contested>>

\* The JWT and the row expire together; an expired token is refused before the
\* reuse check.  Ids come from signed tokens, so the row and the hash match.
RefreshFind(r, t) ==
  /\ row[t] # "absent" /\ t \notin expired
  /\ IF row[t] = "revoked" THEN Begin(r, "reuse", owner[t], None, 0)
                           ELSE Begin(r, "revoke", owner[t], t, credential[t])
  /\ UNCHANGED <<accounts, resetLinks, rows, history>>

\* Mutation: the presented token is left live when it is rotated.
RefreshRevokeSkipped(r) ==
  /\ At(r, "revoke")
  /\ Goto(r, "lookup")
  /\ UNCHANGED <<accounts, resetLinks, rows, history>>

\* UPDATE ... WHERE revoked_at IS NULL; the row count is not looked at.
RefreshRevoke(r) ==
  /\ At(r, "revoke")
  /\ row' = [row EXCEPT ![req[r].token] = "revoked"]
  /\ contested' = IF row[req[r].token] = "revoked" THEN contested \cup {req[r].token}
                                                   ELSE contested
  /\ Goto(r, "lookup")
  /\ UNCHANGED <<accounts, resetLinks, owner, rotatedFrom, expired,
                 credential, swept, lateTokens, lostLocks, outlived>>

\* Mutation: the lookup ignores the soft-delete scope (Unscoped).
RefreshLookupUnscoped(r) ==
  /\ At(r, "lookup")
  /\ Goto(r, "issue")
  /\ UNCHANGED <<accounts, resetLinks, rows, history>>

RefreshLookup(r) ==
  /\ At(r, "lookup")
  /\ IF Live(req[r].user) THEN Goto(r, "issue") ELSE Return(r)
  /\ UNCHANGED <<accounts, resetLinks, rows, history>>

TokenExpires(t) ==
  /\ row[t] # "absent" /\ t \notin expired
  /\ Cardinality(expired) < MaxExpired
  /\ expired' = expired \cup {t}
  /\ UNCHANGED <<accounts, resetLinks, row, owner, rotatedFrom, flight, history>>

\* Mutation: only rows that start a chain are revoked.
RevokeAllRootsOnly(u) ==
  [t \in Tokens |-> IF owner[t] = u /\ row[t] = "live" /\ rotatedFrom[t] = None
                      THEN "revoked" ELSE row[t]]

\* RevokeAllUserRefreshTokens.
RevokeAll(u) ==
  [t \in Tokens |-> IF owner[t] = u /\ row[t] = "live" THEN "revoked" ELSE row[t]]

Sweep(r, step, next) ==
  LET u == req[r].user
  IN /\ At(r, step)
     /\ row' = RevokeAll(u)
     /\ swept' = [swept EXCEPT ![u] = version[u]]
     /\ req' = [req EXCEPT ![r] = IF next = "idle" THEN Idle ELSE [@ EXCEPT !.pc = next]]
     /\ Overtakes(r, u, "sweep")
     /\ UNCHANGED <<accounts, resetLinks, owner, rotatedFrom, expired,
                    credential, lateTokens, lostLocks, contested, outlived>>

RefreshReuse(r) == Sweep(r, "reuse", "idle")

-----------------------------------------------------------------------------
(* Password reset and account deletion. *)

\* Mutation: UpdateUserPassword without its token_version condition.
LinkCurrentUnchecked(u, v) == Live(u)

LinkCurrent(u, v) == Live(u) /\ version[u] = v

\* ConfirmPasswordReset, first statement: conditional update and version bump.
ConfirmReset(r, u, v) ==
  /\ <<u, v>> \in resetLinks
  /\ LinkCurrent(u, v)
  /\ version' = [version EXCEPT ![u] = @ + 1]
  /\ Begin(r, "reset", u, None, 0)
  /\ UNCHANGED <<account, attempts, lock, resetLinks, rows, history>>

ResetSweep(r) == Sweep(r, "reset", "idle")

\* The caller holds an access token, so the account has had a session.
DeleteAccount(r, u) ==
  /\ \E t \in Tokens : owner[t] = u
  /\ Begin(r, "delete", u, None, 0)
  /\ UNCHANGED <<accounts, resetLinks, rows, history>>

DeleteSweep(r) == Sweep(r, "delete", "softdelete")

SoftDelete(r) ==
  /\ At(r, "softdelete")
  /\ account' = [account EXCEPT ![req[r].user] = "deleted"]
  /\ Return(r)
  /\ UNCHANGED <<version, attempts, lock, resetLinks, rows, history>>

\* A repository call fails, the client goes away or the process dies: the
\* handler ends and what it wrote so far stays.
Abort(r) ==
  /\ ~At(r, "idle")
  /\ Return(r)
  /\ lostLocks' = IF At(r, "lock") THEN lostLocks \cup {req[r].user} ELSE lostLocks
  /\ UNCHANGED <<accounts, resetLinks, rows, credential, swept, lateTokens,
                 contested, outlived>>

-----------------------------------------------------------------------------
Next ==
  \/ \E u \in Users :
       \/ Register(u)
       \/ RequestPasswordReset(u)
       \/ LoginRefused(u)
       \/ LockLapses(u)
  \/ \E t \in Tokens : TokenExpires(t)
  \/ \E r \in Requests :
       \/ \E u \in Users :
            \/ LoginRightPassword(r, u)
            \/ LoginWrongPassword(r, u)
            \/ DeleteAccount(r, u)
            \/ \E v \in 0..MaxVersion : ConfirmReset(r, u, v)
       \/ \E t \in Tokens : RefreshFind(r, t) \/ IssueSession(r, t)
       \/ LoginFail(r)
       \/ LoginLock(r)
       \/ LoginClear(r)
       \/ RefreshRevoke(r)
       \/ RefreshLookup(r)
       \/ RefreshReuse(r)
       \/ ResetSweep(r)
       \/ DeleteSweep(r)
       \/ SoftDelete(r)
       \/ Abort(r)

Spec == Init /\ [][Next]_vars

-----------------------------------------------------------------------------
(* Properties that hold whatever requests overlap. *)

\* A token that has been rotated is revoked and its successor belongs to the
\* same account, so presenting it again always reaches the reuse branch of
\* Refresh, however many handlers race.
RotatedIsRevoked ==
  \A t \in Tokens : rotatedFrom[t] # None =>
    /\ row[rotatedFrom[t]] = "revoked"
    /\ owner[rotatedFrom[t]] = owner[t]

\* A row created by a handler that read the account before DeleteAccount
\* finished is never rotated: the deletion is outlived by one token, not by a
\* chain.
LateTokensAreDeadEnds ==
  \A t \in Tokens : rotatedFrom[t] \notin lateTokens

\* A live account whose counter is at the threshold is about to be locked by
\* a handler in flight, unless that handler's lock write was lost.
ThresholdLocks ==
  \A u \in Users : Live(u) /\ attempts[u] >= MaxFailed =>
    \/ \E r \in Requests : At(r, "lock") /\ req[r].user = u
    \/ u \in lostLocks

\* A password changes one version at a time and only by a link minted for the
\* version it replaces, so a link, used once, is dead even when replayed or
\* submitted twice at the same time.
SpendsCurrentLink ==
  \A u \in Users : version'[u] # version[u] =>
    /\ version'[u] = version[u] + 1
    /\ <<u, version[u]>> \in resetLinks

ResetSpendsCurrentLink == [][SpendsCurrentLink]_vars

-----------------------------------------------------------------------------
(* What the comments of the service promise, with what two overlapping      *)
(* requests can do to it.                                                  *)

\* Refresh: the presented token is revoked and a new pair is issued.  A token has
\* two successors only if a second refresh, which had found it live before the
\* first revoked it, went on to revoke what was revoked already; one presented
\* after that is always taken for reuse.
RotatedOnce ==
  \A t1, t2 \in Tokens :
    t1 # t2 /\ rotatedFrom[t1] # None /\ rotatedFrom[t1] = rotatedFrom[t2] =>
      rotatedFrom[t1] \in contested

\* ConfirmPasswordReset: revokes all existing sessions so that a leaked token
\* cannot outlive the reset.  After the sweep a live session was opened with the
\* new password, unless it comes of a login or a refresh that had read the
\* account or its token before the sweep and inserted its row after.
NoSessionOutlivesReset ==
  \A t \in Tokens \ outlived : row[t] = "live" => credential[t] >= swept[owner[t]]

\* A lock lifts when its time has passed and not before, except by a login with
\* the right password that had read the account before the lock was set.
LiftedByOvertaken(u) ==
  \E r \in Requests :
    /\ At(r, "clear") /\ req[r].user = u /\ "lock" \in passed[r]
    /\ req'[r].pc = "issue"
LockStands ==
  [][\A u \in Users : lock[u] = "active" =>
       lock'[u] \in {"active", "lapsed"} \/ LiftedByOvertaken(u)]_vars
=============================================================================
