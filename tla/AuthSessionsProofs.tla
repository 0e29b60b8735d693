------------------------- MODULE AuthSessionsProofs -------------------------
(***************************************************************************)
(* Theorems about AuthSessions for any number of accounts, tokens and      *)
(* overlapping requests.                                                   *)
(***************************************************************************)
EXTENDS AuthSessions, TLAPS

\* A row has an owner, an account that was registered, as soon as it exists.
RowsOwned ==
  \A t \in Tokens :
    /\ row[t] = "absent" <=> owner[t] = None
    /\ row[t] # "absent" => account[owner[t]] # "none"

\* What handler r still knows of the rows it has read.
Knows(r) ==
  /\ ~At(r, "idle") => req[r].user \in Users /\ account[req[r].user] # "none"
  /\ At(r, "clear") => req[r].token = None
  /\ At(r, "revoke") \/ At(r, "lookup") => req[r].token # None
  /\ At(r, "revoke") => owner[req[r].token] = req[r].user
  /\ (At(r, "lookup") \/ At(r, "issue")) /\ req[r].token # None =>
       row[req[r].token] = "revoked" /\ owner[req[r].token] = req[r].user
  /\ At(r, "issue") => req[r].token \notin lateTokens

InFlight == \A r \in Requests : Knows(r)

\* Rows created too late belong to a deleted account, which stays deleted.
LateOwnersDeleted ==
  \A t \in lateTokens : row[t] # "absent" /\ account[owner[t]] = "deleted"

UnregisteredIsClean == \A u \in Users : account[u] = "none" => attempts[u] = 0

IInv ==
  /\ TypeOK
  /\ RowsOwned
  /\ InFlight
  /\ LateOwnersDeleted
  /\ UnregisteredIsClean
  /\ RotatedIsRevoked
  /\ LateTokensAreDeadEnds
  /\ ThresholdLocks

\* Every step keeps the type of every variable.
LEMMA TypeStep == TypeOK /\ InFlight /\ RowsOwned /\ [Next]_vars => TypeOK'
<1> SUFFICES ASSUME TypeOK, InFlight, RowsOwned, [Next]_vars PROVE TypeOK'
  OBVIOUS
<1> USE NoneAssumption, BoundAssumption
    DEF TypeOK, RequestState, Steps, accounts, rows, flight, history
<1>1. ASSUME NEW u \in Users, Register(u) PROVE TypeOK'
  BY <1>1 DEF Register
<1>2. ASSUME NEW u \in Users, RequestPasswordReset(u) PROVE TypeOK'
  BY <1>2 DEF RequestPasswordReset
<1>3. ASSUME NEW u \in Users, LoginRefused(u) PROVE TypeOK'
  BY <1>3 DEF LoginRefused, vars
<1>4. ASSUME NEW u \in Users, LockLapses(u) PROVE TypeOK'
  BY <1>4 DEF LockLapses
<1>5. ASSUME NEW t \in Tokens, TokenExpires(t) PROVE TypeOK'
  BY <1>5 DEF TokenExpires
<1>6. ASSUME NEW r \in Requests, NEW u \in Users, LoginRightPassword(r, u) PROVE TypeOK'
  BY <1>6 DEF LoginRightPassword, Begin, At
<1>7. ASSUME NEW r \in Requests, NEW u \in Users, LoginWrongPassword(r, u) PROVE TypeOK'
  BY <1>7 DEF LoginWrongPassword, Begin, At
<1>8. ASSUME NEW r \in Requests, NEW u \in Users, DeleteAccount(r, u) PROVE TypeOK'
  BY <1>8 DEF DeleteAccount, Begin, At
<1>9. ASSUME NEW r \in Requests, NEW u \in Users, NEW v \in 0..MaxVersion,
              ConfirmReset(r, u, v) PROVE TypeOK'
  BY <1>9 DEF ConfirmReset, Begin, At, LinkCurrent
<1>10. ASSUME NEW r \in Requests, NEW t \in Tokens, RefreshFind(r, t) PROVE TypeOK'
  BY <1>10 DEF RefreshFind, Begin, At, RowsOwned
<1>11. ASSUME NEW r \in Requests, NEW t \in Tokens, IssueSession(r, t) PROVE TypeOK'
  BY <1>11 DEF IssueSession, At, Return, Idle, InFlight, Knows
<1>12. ASSUME NEW r \in Requests, LoginFail(r) PROVE TypeOK'
  <2>1. req[r].user \in Users
    BY <1>12 DEF LoginFail, At, InFlight, Knows
  <2>2. req' \in [Requests -> RequestState]
    BY <1>12 DEF LoginFail, At, Goto, Return, Idle
  <2>3. attempts' \in [Users -> Nat]
    BY <1>12, <2>1 DEF LoginFail
  <2>4. passed' \in [Requests -> SUBSET {"sweep", "lock"}]
    BY <1>12 DEF LoginFail, Goto, Return
  <2> QED
    BY <1>12, <2>2, <2>3, <2>4 DEF LoginFail
<1>13. ASSUME NEW r \in Requests, LoginLock(r) PROVE TypeOK'
  <2>1. req' \in [Requests -> RequestState]
    BY <1>13 DEF LoginLock, Return, Idle
  <2>2. passed' \in [Requests -> SUBSET {"sweep", "lock"}]
    BY <1>13 DEF LoginLock, Return, Overtakes
  <2>3. lock' \in [Users -> {"none", "active", "lapsed"}] /\ attempts' \in [Users -> Nat]
    <3>1. CASE UNCHANGED <<lock, attempts>>
      BY <3>1
    <3>2. CASE /\ lock' = [lock EXCEPT ![req[r].user] = "active"]
               /\ attempts' = [attempts EXCEPT ![req[r].user] = 0]
      BY <3>2
    <3> QED
      BY <1>13, <3>1, <3>2 DEF LoginLock
  <2>4. lostLocks' \in SUBSET Users
    BY <1>13 DEF LoginLock
  <2>5. UNCHANGED <<account, version, resetLinks, row, owner, rotatedFrom, expired, credential,
                    swept, lateTokens, contested, outlived>>
    BY <1>13 DEF LoginLock
  <2> HIDE DEF RequestState
  <2> QED
    BY <2>1, <2>2, <2>3, <2>4, <2>5
<1>14. ASSUME NEW r \in Requests, LoginClear(r) PROVE TypeOK'
  <2>1. req' \in [Requests -> RequestState]
    BY <1>14 DEF LoginClear
  <2>2. passed' \in [Requests -> SUBSET {"sweep", "lock"}]
    BY <1>14 DEF LoginClear
  <2>3. lock' \in [Users -> {"none", "active", "lapsed"}] /\ attempts' \in [Users -> Nat]
    BY <1>14 DEF LoginClear
  <2>4. lostLocks' \in SUBSET Users
    BY <1>14 DEF LoginClear
  <2>5. UNCHANGED <<account, version, resetLinks, row, owner, rotatedFrom, expired, credential,
                    swept, lateTokens, contested, outlived>>
    BY <1>14 DEF LoginClear
  <2> HIDE DEF RequestState
  <2> QED
    BY <2>1, <2>2, <2>3, <2>4, <2>5
<1>15. ASSUME NEW r \in Requests, RefreshRevoke(r) PROVE TypeOK'
  BY <1>15 DEF RefreshRevoke, At, Goto, InFlight, Knows
<1>16. ASSUME NEW r \in Requests, RefreshLookup(r) PROVE TypeOK'
  <2>1. req' \in [Requests -> RequestState]
    BY <1>16 DEF RefreshLookup, Goto, Return, Idle
  <2>2. passed' \in [Requests -> SUBSET {"sweep", "lock"}]
    BY <1>16 DEF RefreshLookup, Goto, Return
  <2> QED
    BY <1>16, <2>1, <2>2 DEF RefreshLookup
<1>17. ASSUME NEW r \in Requests, NEW p \in Steps \ {"idle"}, NEW q \in Steps,
              Sweep(r, p, q)
       PROVE TypeOK'
  <2>1. req[r].user \in Users
    BY <1>17 DEF Sweep, At, InFlight, Knows
  <2>2. row' \in [Tokens -> {"absent", "live", "revoked"}]
    BY <1>17 DEF Sweep, RevokeAll
  <2>3. swept' \in [Users -> 0..MaxVersion]
    BY <1>17, <2>1 DEF Sweep
  <2>4. req' \in [Requests -> RequestState]
    <3>1. req' = [req EXCEPT ![r] = Idle] \/ req' = [req EXCEPT ![r].pc = q]
      BY <1>17 DEF Sweep
    <3>2. Idle \in RequestState /\ [req[r] EXCEPT !.pc = q] \in RequestState
      BY DEF Idle
    <3> QED
      BY <3>1, <3>2
  <2>5. passed' \in [Requests -> SUBSET {"sweep", "lock"}]
    BY <1>17 DEF Sweep, Overtakes
  <2> QED
    BY <1>17, <2>2, <2>3, <2>4, <2>5 DEF Sweep
<1>18. ASSUME NEW r \in Requests, SoftDelete(r) PROVE TypeOK'
  BY <1>18 DEF SoftDelete, At, Return, Idle, InFlight, Knows
<1>19. ASSUME NEW r \in Requests, Abort(r) PROVE TypeOK'
  BY <1>19 DEF Abort, At, Return, Idle, InFlight, Knows
<1>20. CASE UNCHANGED vars
  BY <1>20 DEF vars
<1> QED
  BY <1>1, <1>2, <1>3, <1>4, <1>5, <1>6, <1>7, <1>8, <1>9, <1>10, <1>11, <1>12, <1>13,
     <1>14, <1>15, <1>16, <1>17, <1>18, <1>19, <1>20
  DEF Next, RefreshReuse, ResetSweep, DeleteSweep

\* The statements that touch the columns RowsOwned speaks of.
LEMMA RowsStep == TypeOK /\ RowsOwned /\ InFlight /\ [Next]_vars => RowsOwned'
<1> SUFFICES ASSUME TypeOK, RowsOwned, InFlight, [Next]_vars PROVE RowsOwned'
  OBVIOUS
<1> USE NoneAssumption DEF TypeOK, RequestState, RowsOwned
<1>1. CASE UNCHANGED <<account, row, owner>>
  BY <1>1
<1>2. ASSUME NEW u \in Users, Register(u) PROVE RowsOwned'
  BY <1>2 DEF Register, rows
<1>3. ASSUME NEW r \in Requests, NEW t \in Tokens, IssueSession(r, t) PROVE RowsOwned'
  BY <1>3 DEF IssueSession, accounts, At, InFlight, Knows
<1>4. ASSUME NEW r \in Requests, RefreshRevoke(r) PROVE RowsOwned'
  <2>1. row[req[r].token] # "absent" /\ req[r].token \in Tokens
    BY <1>4 DEF RefreshRevoke, At, InFlight, Knows
  <2> QED
    BY <1>4, <2>1 DEF RefreshRevoke, accounts
<1>5. ASSUME NEW r \in Requests, NEW p \in Steps, NEW q \in Steps, Sweep(r, p, q)
      PROVE RowsOwned'
  BY <1>5 DEF Sweep, RevokeAll, accounts
<1>6. ASSUME NEW r \in Requests, SoftDelete(r) PROVE RowsOwned'
  BY <1>6 DEF SoftDelete, rows
<1> QED
  BY <1>1, <1>2, <1>3, <1>4, <1>5, <1>6
  DEF Next, vars, accounts, rows, Steps, RequestPasswordReset, LoginRefused, LockLapses,
      TokenExpires, LoginRightPassword, LoginWrongPassword, DeleteAccount,
      ConfirmReset, RefreshFind, LoginFail, LoginLock, LoginClear, RefreshLookup,
      RefreshReuse, ResetSweep, DeleteSweep, Abort

\* Only a handler whose account is deleted creates a late row, and a deleted
\* account stays deleted.
LEMMA LateStep ==
  TypeOK /\ RowsOwned /\ InFlight /\ LateOwnersDeleted /\ [Next]_vars => LateOwnersDeleted'
<1> SUFFICES ASSUME TypeOK, RowsOwned, InFlight, LateOwnersDeleted, [Next]_vars
             PROVE LateOwnersDeleted'
  OBVIOUS
<1> USE NoneAssumption DEF TypeOK, RequestState, LateOwnersDeleted
<1>1. CASE UNCHANGED <<account, row, owner, lateTokens>>
  BY <1>1
<1>2. ASSUME NEW u \in Users, Register(u) PROVE LateOwnersDeleted'
  BY <1>2 DEF Register, rows, history
<1>3. ASSUME NEW r \in Requests, NEW t \in Tokens, IssueSession(r, t)
      PROVE LateOwnersDeleted'
  BY <1>3 DEF IssueSession, accounts, At, InFlight, Knows, Live
<1>4. ASSUME NEW r \in Requests, RefreshRevoke(r) PROVE LateOwnersDeleted'
  BY <1>4 DEF RefreshRevoke, accounts, history
<1>5. ASSUME NEW r \in Requests, NEW p \in Steps, NEW q \in Steps, Sweep(r, p, q)
      PROVE LateOwnersDeleted'
  BY <1>5 DEF Sweep, RevokeAll, accounts
<1>6. ASSUME NEW r \in Requests, SoftDelete(r) PROVE LateOwnersDeleted'
  <2>1. req[r].user \in Users
    BY <1>6 DEF SoftDelete, At, InFlight, Knows
  <2> QED
    BY <1>6, <2>1 DEF SoftDelete, rows, history, RowsOwned
<1> QED
  BY <1>1, <1>2, <1>3, <1>4, <1>5, <1>6
  DEF Next, vars, accounts, rows, history, Steps, RequestPasswordReset, LoginRefused,
      LockLapses, TokenExpires, LoginRightPassword, LoginWrongPassword, DeleteAccount,
      ConfirmReset, RefreshFind, LoginFail, LoginLock, LoginClear, RefreshLookup,
      RefreshReuse, ResetSweep, DeleteSweep, Abort

\* Rows only move forward and accounts are not forgotten: what a handler that
\* takes no step knows stays true.
LEMMA KnowsStable ==
  ASSUME TypeOK, TypeOK', NEW r \in Requests, Knows(r), req'[r] = req[r],
         \A t \in Tokens : owner[t] # None => owner'[t] = owner[t],
         \A t \in Tokens : row[t] = "revoked" => row'[t] = "revoked",
         \A u \in Users : account[u] # "none" => account'[u] # "none",
         \A t \in Tokens : t \in lateTokens' \ lateTokens => row[t] = "absent"
  PROVE  Knows(r)'
<1> USE NoneAssumption DEF TypeOK, RequestState, Knows, At
<1>1. req[r] \in RequestState /\ (req[r].token # None => req[r].token \in Tokens)
  OBVIOUS
<1>2. ~At(r, "idle")' => req'[r].user \in Users /\ account'[req'[r].user] # "none"
  BY <1>1
<1>3. At(r, "revoke")' => owner'[req'[r].token] = req'[r].user
  BY <1>1
<1>4. (At(r, "lookup") \/ At(r, "issue"))' /\ req'[r].token # None =>
        row'[req'[r].token] = "revoked" /\ owner'[req'[r].token] = req'[r].user
  BY <1>1
<1>5. At(r, "issue")' => req'[r].token \notin lateTokens'
  BY <1>1
<1> QED
  BY <1>1, <1>2, <1>3, <1>4, <1>5

\* No step takes an owner away, revives a token or forgets an account.
Forward ==
  /\ \A t \in Tokens : owner[t] # None => owner'[t] = owner[t]
  /\ \A t \in Tokens : row[t] = "revoked" => row'[t] = "revoked"
  /\ \A u \in Users : account[u] # "none" => account'[u] # "none"
  /\ \A t \in Tokens : t \in lateTokens' \ lateTokens => row[t] = "absent"

\* What handlers have read can be relied on: no step undoes it.
LEMMA ForwardStep == TypeOK /\ RowsOwned /\ InFlight /\ [Next]_vars => Forward
<1> SUFFICES ASSUME TypeOK, RowsOwned, InFlight, [Next]_vars PROVE Forward
  OBVIOUS
<1> USE NoneAssumption DEF TypeOK, RequestState, Forward
<1>1. CASE UNCHANGED <<account, row, owner, lateTokens>>
  BY <1>1
<1>2. ASSUME NEW u \in Users, Register(u) PROVE Forward
  BY <1>2 DEF Register, rows, history
<1>3. ASSUME NEW r \in Requests, NEW t \in Tokens, IssueSession(r, t) PROVE Forward
  BY <1>3 DEF IssueSession, accounts, RowsOwned
<1>4. ASSUME NEW r \in Requests, RefreshRevoke(r) PROVE Forward
  BY <1>4 DEF RefreshRevoke, accounts, history
<1>5. ASSUME NEW r \in Requests, NEW p \in Steps, NEW q \in Steps, Sweep(r, p, q)
      PROVE Forward
  BY <1>5 DEF Sweep, RevokeAll, accounts
<1>6. ASSUME NEW r \in Requests, SoftDelete(r) PROVE Forward
  BY <1>6 DEF SoftDelete, rows, history
<1> QED
  BY <1>1, <1>2, <1>3, <1>4, <1>5, <1>6
  DEF Next, vars, accounts, rows, history, Steps, RequestPasswordReset, LoginRefused,
      LockLapses, TokenExpires, LoginRightPassword, LoginWrongPassword, DeleteAccount,
      ConfirmReset, RefreshFind, LoginFail, LoginLock, LoginClear, RefreshLookup,
      RefreshReuse, ResetSweep, DeleteSweep, Abort

\* A handler that is neither idle nor where it was has run an action of its own.
LEMMA OwnStep ==
  ASSUME TypeOK, [Next]_vars, NEW r \in Requests, req'[r] # req[r], req'[r] # Idle
  PROVE  \/ \E u \in Users : LoginRightPassword(r, u) \/ LoginWrongPassword(r, u)
         \/ \E u \in Users : DeleteAccount(r, u)
         \/ \E u \in Users, v \in 0..MaxVersion : ConfirmReset(r, u, v)
         \/ \E t \in Tokens : RefreshFind(r, t)
         \/ LoginFail(r)
         \/ LoginClear(r)
         \/ RefreshRevoke(r)
         \/ RefreshLookup(r)
         \/ DeleteSweep(r)
<1> USE DEF TypeOK
<1>1. ~UNCHANGED req
  OBVIOUS
<1>2. ASSUME NEW q \in Requests, req' = [req EXCEPT ![q] = Idle] PROVE FALSE
  BY <1>2
<1>3. ASSUME NEW q \in Requests, q # r, NEW s \in Steps, Goto(q, s) PROVE FALSE
  BY <1>3 DEF Goto
<1>4. ASSUME NEW q \in Requests, q # r, NEW s, NEW u, NEW t, NEW v, Begin(q, s, u, t, v)
      PROVE FALSE
  BY <1>4 DEF Begin
<1>5. PICK q \in Requests :
        \/ \E u \in Users : LoginRightPassword(q, u) \/ LoginWrongPassword(q, u)
        \/ \E u \in Users : DeleteAccount(q, u)
        \/ \E u \in Users, v \in 0..MaxVersion : ConfirmReset(q, u, v)
        \/ \E t \in Tokens : RefreshFind(q, t)
        \/ LoginFail(q) \/ LoginClear(q) \/ RefreshRevoke(q) \/ RefreshLookup(q)
        \/ DeleteSweep(q)
  <2>1. ASSUME NEW q \in Requests, Sweep(q, "reuse", "idle") \/ Sweep(q, "reset", "idle") PROVE FALSE
    BY <1>2, <2>1 DEF Sweep
  <2>2. ASSUME NEW q \in Requests, LoginLock(q) PROVE FALSE
    BY <1>2, <2>2 DEF LoginLock, Return
  <2>3. ASSUME NEW q \in Requests, SoftDelete(q) \/ Abort(q) PROVE FALSE
    BY <1>2, <2>3 DEF SoftDelete, Abort, Return
  <2>4. ASSUME NEW q \in Requests, NEW t \in Tokens, IssueSession(q, t) PROVE FALSE
    BY <1>2, <2>4 DEF IssueSession, Return
  <2>5. ASSUME NEW u \in Users,
               Register(u) \/ RequestPasswordReset(u) \/ LoginRefused(u) \/ LockLapses(u)
        PROVE  FALSE
    BY <1>1, <2>5 DEF Register, RequestPasswordReset, LoginRefused, LockLapses, vars, flight
  <2>6. ASSUME NEW t \in Tokens, TokenExpires(t) PROVE FALSE
    BY <1>1, <2>6 DEF TokenExpires, flight
  <2> QED
    BY <1>1, <2>1, <2>2, <2>3, <2>4, <2>5, <2>6 DEF Next, vars, flight, RefreshReuse, ResetSweep
<1>6. q = r
  <2>1. SUFFICES ASSUME q # r PROVE FALSE
    OBVIOUS
  <2>2. \A u \in Users : ~LoginRightPassword(q, u) /\ ~LoginWrongPassword(q, u)
    BY <1>4, <2>1 DEF LoginRightPassword, LoginWrongPassword
  <2>3. \A u \in Users : ~DeleteAccount(q, u)
    BY <1>4, <2>1 DEF DeleteAccount
  <2>4. \A u \in Users, v \in 0..MaxVersion : ~ConfirmReset(q, u, v)
    BY <1>4, <2>1 DEF ConfirmReset
  <2>5. \A t \in Tokens : ~RefreshFind(q, t)
    BY <1>4, <2>1 DEF RefreshFind
  <2>6. ~LoginFail(q)
    BY <1>2, <1>3, <2>1 DEF LoginFail, Return, Steps
  <2>7. ~LoginClear(q) /\ ~RefreshRevoke(q)
    BY <1>3, <2>1 DEF LoginClear, RefreshRevoke, Steps
  <2>8. ~RefreshLookup(q)
    BY <1>2, <1>3, <2>1 DEF RefreshLookup, Return, Steps
  <2>9. ~DeleteSweep(q)
    BY <1>2, <1>3, <2>1 DEF DeleteSweep, Sweep, Steps
  <2>. QED
    BY <1>5, <2>2, <2>3, <2>4, <2>5, <2>6, <2>7, <2>8, <2>9
<1>. QED
  BY <1>5, <1>6

\* What a handler knows of its account and its token stays true until it ends.
LEMMA InFlightStep ==
  TypeOK /\ RowsOwned /\ InFlight /\ LateOwnersDeleted /\ [Next]_vars => InFlight'
<1> SUFFICES ASSUME TypeOK, RowsOwned, InFlight, LateOwnersDeleted, [Next]_vars,
                    NEW r \in Requests
             PROVE Knows(r)'
  BY DEF InFlight
<1>1. TypeOK' /\ Forward /\ Knows(r)
  BY TypeStep, ForwardStep DEF InFlight
<1>2. CASE req'[r] = req[r]
  BY <1>1, <1>2, KnowsStable DEF Forward
<1> USE NoneAssumption DEF TypeOK, RequestState, Knows, At
<1>3. CASE req'[r] = Idle
  BY <1>3 DEF Idle
<1>4. ASSUME NEW u \in Users, LoginRightPassword(r, u) \/ LoginWrongPassword(r, u)
      PROVE Knows(r)'
  BY <1>4 DEF LoginRightPassword, LoginWrongPassword, Begin, Live, accounts, history
<1>5. ASSUME NEW u \in Users, DeleteAccount(r, u) PROVE Knows(r)'
  BY <1>5 DEF DeleteAccount, Begin, RowsOwned, accounts
<1>6. ASSUME NEW u \in Users, NEW v \in 0..MaxVersion, ConfirmReset(r, u, v)
      PROVE Knows(r)'
  BY <1>6 DEF ConfirmReset, Begin, LinkCurrent, Live
<1>7. ASSUME NEW t \in Tokens, RefreshFind(r, t) PROVE Knows(r)'
  BY <1>7 DEF RefreshFind, Begin, RowsOwned, accounts, rows
<1>8. ASSUME LoginFail(r), req'[r] # Idle PROVE Knows(r)'
  BY <1>1, <1>8, SMTT(20) DEF LoginFail, Goto, Return
<1>9. ASSUME LoginClear(r) PROVE Knows(r)'
  <2>1. req'[r].pc = "issue" /\ req'[r].user = req[r].user /\ req'[r].token = req[r].token
    BY <1>9 DEF LoginClear, Goto
  <2>2. req[r].token = None /\ req[r].user \in Users /\ account[req[r].user] # "none"
    BY <1>1, <1>9 DEF LoginClear
  <2> QED
    BY <1>1, <1>9, <2>1, <2>2 DEF LoginClear
<1>10. ASSUME RefreshRevoke(r) PROVE Knows(r)'
  BY <1>1, <1>10 DEF RefreshRevoke, Goto, accounts
<1>11. ASSUME RefreshLookup(r), req'[r] # Idle PROVE Knows(r)'
  BY <1>1, <1>11 DEF RefreshLookup, Goto, Return, Live, LateOwnersDeleted, accounts, rows, history
<1>12. ASSUME DeleteSweep(r) PROVE Knows(r)'
  <2>1. req'[r].pc = "softdelete" /\ req'[r].user = req[r].user
    BY <1>12 DEF DeleteSweep, Sweep, Goto
  <2>2. req[r].user \in Users /\ account'[req[r].user] # "none"
    BY <1>1, <1>12 DEF DeleteSweep, Sweep, accounts
  <2> QED
    BY <2>1, <2>2
<1> QED
  BY <1>2, <1>3, <1>4, <1>5, <1>6, <1>7, <1>8, <1>9, <1>10, <1>11, <1>12, OwnStep

\* rotated_from_id and user_id are written by issueSession and by nothing else.
LEMMA LinksStep ==
  TypeOK /\ RowsOwned /\ InFlight /\ RotatedIsRevoked /\ LateTokensAreDeadEnds /\ [Next]_vars
    => RotatedIsRevoked' /\ LateTokensAreDeadEnds'
<1> SUFFICES ASSUME TypeOK, RowsOwned, InFlight, RotatedIsRevoked, LateTokensAreDeadEnds,
                    [Next]_vars
             PROVE RotatedIsRevoked' /\ LateTokensAreDeadEnds'
  OBVIOUS
<1> USE NoneAssumption DEF TypeOK, RotatedIsRevoked, LateTokensAreDeadEnds
<1>1. Forward
  BY ForwardStep
<1>2. CASE UNCHANGED <<owner, rotatedFrom, lateTokens>>
  BY <1>1, <1>2 DEF Forward
<1>3. ASSUME NEW r \in Requests, NEW t \in Tokens, IssueSession(r, t)
      PROVE RotatedIsRevoked' /\ LateTokensAreDeadEnds'
  <2>1. Knows(r) /\ req[r] \in RequestState
    BY DEF InFlight
  <2>2. RotatedIsRevoked'
    BY <1>3, <2>1 DEF IssueSession, Knows, At, RequestState
  <2>3. LateTokensAreDeadEnds'
    BY <1>3, <2>1 DEF IssueSession, Knows, At, RequestState
  <2> QED
    BY <2>2, <2>3
<1> QED
  BY <1>2, <1>3
  DEF Next, vars, accounts, rows, history, RequestPasswordReset, LoginRefused, LockLapses,
      TokenExpires, LoginRightPassword, LoginWrongPassword, DeleteAccount, ConfirmReset,
      RefreshFind, LoginFail, LoginLock, LoginClear, RefreshRevoke, RefreshLookup,
      RefreshReuse, ResetSweep, DeleteSweep, Sweep, SoftDelete, Abort, Register

\* Only a registered account counts failed logins.
LEMMA CleanStep ==
  TypeOK /\ InFlight /\ UnregisteredIsClean /\ [Next]_vars => UnregisteredIsClean'
<1> SUFFICES ASSUME TypeOK, InFlight, UnregisteredIsClean, [Next]_vars, NEW u \in Users,
                    account'[u] = "none"
             PROVE attempts'[u] = 0
  BY DEF UnregisteredIsClean
<1> USE DEF TypeOK, UnregisteredIsClean
<1>1. CASE UNCHANGED <<account, attempts>>
  BY <1>1
<1>2. ASSUME NEW w \in Users, Register(w) PROVE attempts'[u] = 0
  BY <1>2 DEF Register
<1>3. ASSUME NEW r \in Requests, LoginFail(r) PROVE attempts'[u] = 0
  BY <1>3 DEF LoginFail, Live
<1>4. ASSUME NEW r \in Requests, LoginLock(r) PROVE attempts'[u] = 0
  BY <1>4 DEF LoginLock
<1>5. ASSUME NEW r \in Requests, LoginClear(r) PROVE attempts'[u] = 0
  BY <1>5 DEF LoginClear
<1>6. ASSUME NEW r \in Requests, SoftDelete(r) PROVE attempts'[u] = 0
  BY <1>6 DEF SoftDelete
<1> QED
  BY <1>1, <1>2, <1>3, <1>4, <1>5, <1>6
  DEF Next, vars, accounts, rows, history, RequestPasswordReset, LoginRefused, LockLapses,
      TokenExpires, LoginRightPassword, LoginWrongPassword, DeleteAccount, ConfirmReset,
      RefreshFind, RefreshRevoke, RefreshLookup,
      RefreshReuse, ResetSweep, DeleteSweep, Sweep, Abort, IssueSession

\* A handler that leaves "lock" has either written the lock, which resets the
\* counter, or is recorded among the lost ones.
LEMMA ThresholdStep ==
  TypeOK /\ InFlight /\ UnregisteredIsClean /\ ThresholdLocks /\ [Next]_vars
    => ThresholdLocks'
<1> SUFFICES ASSUME TypeOK, InFlight, UnregisteredIsClean, ThresholdLocks, [Next]_vars,
                    NEW u \in Users, Live(u)', attempts'[u] >= MaxFailed
             PROVE \/ \E r \in Requests : At(r, "lock")' /\ req'[r].user = u
                   \/ u \in lostLocks'
  BY DEF ThresholdLocks
<1> DEFINE Held == \/ \E r \in Requests : At(r, "lock")' /\ req'[r].user = u
                   \/ u \in lostLocks'
<1> USE BoundAssumption DEF TypeOK
<1>1. ASSUME NEW w \in Users, Register(w) PROVE Held
  BY <1>1 DEF Register, UnregisteredIsClean, ThresholdLocks, Live, At, flight, history
<1>2. ASSUME NEW r \in Requests, LoginFail(r) PROVE Held
  <2>1. req[r].pc = "fail" /\ req[r] \in RequestState /\ UNCHANGED <<account, lostLocks>>
    BY <1>2 DEF LoginFail, At, history
  <2>2. CASE req[r].user = u
    <3>1. Live(u) /\ attempts'[u] = attempts[u] + 1
      BY <1>2, <2>1, <2>2 DEF LoginFail, Live
    <3>2. Goto(r, "lock")
      BY <1>2, <2>2, <3>1 DEF LoginFail, ReachesThreshold
    <3> QED
      BY <2>1, <2>2, <3>2 DEF Goto, At, RequestState
  <2>3. CASE req[r].user # u
    <3>1. Live(u) /\ attempts[u] >= MaxFailed
      BY <1>2, <2>1, <2>3 DEF LoginFail, Live
    <3>2. \A q \in Requests : At(q, "lock") => q # r /\ req'[q] = req[q]
      BY <1>2, <2>1 DEF LoginFail, Goto, Return, At
    <3> QED
      BY <2>1, <3>1, <3>2 DEF ThresholdLocks, At
  <2> QED
    BY <2>2, <2>3
<1>3. ASSUME NEW r \in Requests, LoginLock(r) PROVE Held
  <2>1. req[r].user \in Users /\ UNCHANGED account
    BY <1>3 DEF LoginLock, InFlight, Knows, At
  <2>2. req[r].user # u
    BY <1>3, <2>1 DEF LoginLock, Live
  <2>3. Live(u) /\ attempts[u] >= MaxFailed
    BY <1>3, <2>1, <2>2 DEF LoginLock, Live
  <2>4. lostLocks \ {req[r].user} \subseteq lostLocks'
    BY <1>3 DEF LoginLock
  <2>5. \A q \in Requests \ {r} : req'[q] = req[q]
    BY <1>3 DEF LoginLock, Return
  <2> QED
    BY <2>2, <2>3, <2>4, <2>5 DEF ThresholdLocks, At
<1>4. ASSUME NEW r \in Requests, LoginClear(r) PROVE Held
  <2>1. UNCHANGED account /\ req[r].user \in Users
    BY <1>4 DEF LoginClear, InFlight, Knows, At
  <2>2. Live(u) /\ attempts[u] >= MaxFailed /\ (u \in lostLocks => u \in lostLocks')
    BY <1>4, <2>1 DEF LoginClear, Live
  <2>3. \A q \in Requests : At(q, "lock") => req'[q] = req[q]
    BY <1>4 DEF LoginClear, Goto, At
  <2> QED
    BY <2>2, <2>3 DEF ThresholdLocks, At
<1>5. ASSUME NEW r \in Requests, Abort(r) PROVE Held
  <2>1. Live(u) /\ attempts[u] >= MaxFailed
    BY <1>5 DEF Abort, Live, accounts
  <2>2. \A q \in Requests \ {r} : req'[q] = req[q]
    BY <1>5 DEF Abort, Return
  <2>3. lostLocks \subseteq lostLocks' /\ (At(r, "lock") => req[r].user \in lostLocks')
    BY <1>5 DEF Abort
  <2> QED
    BY <2>1, <2>2, <2>3 DEF ThresholdLocks, At
<1>6. CASE /\ UNCHANGED <<attempts, lostLocks>>
           /\ Live(u)
           /\ \A r \in Requests : At(r, "lock") => req'[r] = req[r]
  BY <1>6 DEF ThresholdLocks, At
<1>7. CASE UNCHANGED vars
  BY <1>6, <1>7 DEF vars, accounts, flight, history, Live
<1>8. ASSUME NEW r \in Requests, NEW p \in Steps \ {"lock"}, NEW q \in Steps, Sweep(r, p, q)
      PROVE Held
  BY <1>6, <1>8 DEF Sweep, At, Goto, Return, accounts, Live
<1>9. ASSUME NEW r \in Requests, NEW t \in Tokens, RefreshFind(r, t) \/ IssueSession(r, t)
      PROVE Held
  BY <1>6, <1>9 DEF RefreshFind, IssueSession, Begin, Return, At, accounts, history, Live
<1>10. ASSUME NEW r \in Requests, RefreshRevoke(r) \/ RefreshLookup(r) \/ SoftDelete(r)
       PROVE Held
  <2>1. Live(u)
    BY <1>10 DEF RefreshRevoke, RefreshLookup, SoftDelete, Live, accounts
  <2> QED
    BY <1>6, <1>10, <2>1
    DEF RefreshRevoke, RefreshLookup, SoftDelete, Goto, Return, At, accounts, history
<1>11. ASSUME NEW r \in Requests, NEW w \in Users, NEW v \in 0..MaxVersion,
              \/ LoginRightPassword(r, w) \/ LoginWrongPassword(r, w)
              \/ DeleteAccount(r, w) \/ ConfirmReset(r, w, v)
       PROVE Held
  BY <1>6, <1>11
  DEF LoginRightPassword, LoginWrongPassword, DeleteAccount, ConfirmReset, Begin, At,
      accounts, history, Live
<1>12. ASSUME NEW w \in Users, RequestPasswordReset(w) \/ LoginRefused(w) \/ LockLapses(w)
       PROVE Held
  BY <1>6, <1>7, <1>12
  DEF RequestPasswordReset, LoginRefused, LockLapses, At, accounts, flight, history, Live
<1>13. ASSUME NEW t \in Tokens, TokenExpires(t) PROVE Held
  BY <1>6, <1>13 DEF TokenExpires, At, accounts, flight, history, Live
<1> QED
  BY <1>1, <1>2, <1>3, <1>4, <1>5, <1>7, <1>8, <1>9, <1>10, <1>11, <1>12, <1>13
  DEF Next, RefreshReuse, ResetSweep, DeleteSweep, Steps

\* The strengthened invariant holds of the specification.
LEMMA Inductive == Spec => []IInv
<1>1. Init => IInv
  BY NoneAssumption, BoundAssumption
  DEF Init, IInv, TypeOK, RequestState, Steps, Idle, RowsOwned, InFlight, Knows, At,
      LateOwnersDeleted, UnregisteredIsClean, RotatedIsRevoked, LateTokensAreDeadEnds,
      ThresholdLocks, Live
<1>2. IInv /\ [Next]_vars => IInv'
  BY TypeStep, RowsStep, InFlightStep, LateStep, CleanStep, LinksStep, ThresholdStep DEF IInv
<1> QED
  BY <1>1, <1>2, PTL DEF Spec

-----------------------------------------------------------------------------
\* The columns of the tables and the state of every handler keep their types.
THEOREM TypeCorrect == Spec => []TypeOK
<1>1. IInv => TypeOK
  BY DEF IInv
<1> QED
  BY <1>1, Inductive, PTL

\* Refresh never leaves a rotated token usable: whatever overlaps, a token that
\* has a successor is revoked, so a replay of it is always recognised as reuse.
THEOREM RotationSafe == Spec => []RotatedIsRevoked
<1>1. IInv => RotatedIsRevoked
  BY DEF IInv
<1> QED
  BY <1>1, Inductive, PTL

\* A session opened for an account that DeleteAccount had already removed
\* cannot be refreshed into another one.
THEOREM DeletionEndsChains == Spec => []LateTokensAreDeadEnds
<1>1. IInv => LateTokensAreDeadEnds
  BY DEF IInv
<1> QED
  BY <1>1, Inductive, PTL

\* However many failed logins overlap, the counter of a live account never
\* rests at the threshold without a lock on its way, unless the write of that
\* lock failed.
THEOREM LockoutEngages == Spec => []ThresholdLocks
<1>1. IInv => ThresholdLocks
  BY DEF IInv
<1> QED
  BY <1>1, Inductive, PTL

\* ConfirmPasswordReset: a reset link is spent by the password change it makes.
THEOREM ResetSingleUse == Spec => ResetSpendsCurrentLink
<1>1. IInv /\ [Next]_vars => [SpendsCurrentLink]_vars
  <2> SUFFICES ASSUME IInv, [Next]_vars, NEW u \in Users, version'[u] # version[u]
               PROVE version'[u] = version[u] + 1 /\ <<u, version[u]>> \in resetLinks
    BY DEF SpendsCurrentLink
  <2> USE DEF IInv, TypeOK
  <2>1. ASSUME NEW r \in Requests, NEW w \in Users, NEW v \in 0..MaxVersion,
               ConfirmReset(r, w, v)
        PROVE version'[u] = version[u] + 1 /\ <<u, version[u]>> \in resetLinks
    BY <2>1 DEF ConfirmReset, LinkCurrent
  <2> QED
    BY <2>1
    DEF Next, vars, accounts, Register, RequestPasswordReset, LoginRefused, LockLapses,
        TokenExpires, LoginRightPassword, LoginWrongPassword, DeleteAccount, RefreshFind,
        IssueSession, LoginFail, LoginLock, LoginClear, RefreshRevoke, RefreshLookup,
        RefreshReuse, ResetSweep, DeleteSweep, Sweep, SoftDelete, Abort
<1> QED
  BY <1>1, Inductive, PTL DEF Spec, ResetSpendsCurrentLink

-----------------------------------------------------------------------------
(* What overlapping requests can do to the promises of the service. *)

\* Two handlers that have both revoked the token they replace, or one whose token
\* has a successor by now, have contested it.
Replaces(r, t) == (At(r, "lookup") \/ At(r, "issue")) /\ req[r].token = t
Claims ==
  \A t \in Tokens, p \in Requests : Replaces(p, t) =>
    /\ \A q \in Requests : q # p /\ Replaces(q, t) => t \in contested
    /\ (\E c \in Tokens : rotatedFrom[c] = t) => t \in contested

RotationInv == RotatedOnce /\ Claims

\* The second of two handlers to revoke a token finds it revoked.
LEMMA RotationStep ==
  ASSUME IInv, RotationInv, [Next]_vars
  PROVE  RotationInv'
<1> USE NoneAssumption DEF IInv, TypeOK, RequestState, RotationInv, RotatedOnce, Claims
<1>1. CASE /\ rotatedFrom' = rotatedFrom /\ contested \subseteq contested'
           /\ \A r \in Requests, t \in Tokens : Replaces(r, t)' => Replaces(r, t)
  BY <1>1
<1>2. ASSUME NEW r \in Requests, RefreshRevoke(r) PROVE RotationInv'
  <2> DEFINE k == req[r].token
  <2>1. /\ k \in Tokens /\ rotatedFrom' = rotatedFrom /\ contested \subseteq contested'
        /\ row[k] = "revoked" => k \in contested'
    BY <1>2 DEF RefreshRevoke, At, InFlight, Knows, rows
  <2>2. \A q \in Requests : q # r => req'[q] = req[q]
    BY <1>2 DEF RefreshRevoke, Goto
  <2>3. req'[r].token = k
    BY <1>2 DEF RefreshRevoke, Goto
  <2>4. \A q \in Requests : Replaces(q, k) => row[k] = "revoked"
    BY <2>1 DEF Replaces, InFlight, Knows
  <2>5. (\E c \in Tokens : rotatedFrom[c] = k) => row[k] = "revoked"
    BY <2>1 DEF RotatedIsRevoked
  <2>6. \A q \in Requests, t \in Tokens : Replaces(q, t)' => (q = r /\ t = k) \/ Replaces(q, t)
    BY <2>2, <2>3 DEF Replaces, At
  <2>7. ASSUME NEW t \in Tokens, NEW p \in Requests, Replaces(p, t)'
        PROVE  /\ \A q \in Requests : q # p /\ Replaces(q, t)' => t \in contested'
               /\ (\E c \in Tokens : rotatedFrom'[c] = t) => t \in contested'
    <3>1. CASE t = k
      BY <2>1, <2>4, <2>5, <2>6, <2>7, <3>1
    <3>2. CASE t # k
      BY <2>1, <2>6, <2>7, <3>2
    <3> QED
      BY <3>1, <3>2
  <2> HIDE DEF k
  <2>8. RotatedOnce'
    BY <2>1
  <2> QED
    BY <2>7, <2>8
<1>3. ASSUME NEW r \in Requests, NEW n \in Tokens, IssueSession(r, n) PROVE RotationInv'
  <2>1. /\ At(r, "issue") /\ row[n] = "absent" /\ contested' = contested
        /\ rotatedFrom' = [rotatedFrom EXCEPT ![n] = req[r].token]
    BY <1>3 DEF IssueSession
  <2>2. \A q \in Requests, t \in Tokens : Replaces(q, t)' => q # r /\ Replaces(q, t)
    BY <1>3 DEF IssueSession, Return, Idle, Replaces, At
  <2>3. \A c \in Tokens : c # n => rotatedFrom'[c] = rotatedFrom[c]
    BY <2>1
  <2>4. rotatedFrom'[n] = req[r].token /\ (req[r].token # None => Replaces(r, req[r].token))
    BY <2>1 DEF Replaces
  <2>5. RotatedOnce'
    BY <2>1, <2>3, <2>4
  <2>6. ASSUME NEW t \in Tokens, NEW p \in Requests, Replaces(p, t)'
        PROVE  /\ \A q \in Requests : q # p /\ Replaces(q, t)' => t \in contested'
               /\ (\E c \in Tokens : rotatedFrom'[c] = t) => t \in contested'
    BY <2>1, <2>2, <2>3, <2>4, <2>6
  <2> QED
    BY <2>5, <2>6
<1>4. ASSUME NEW r \in Requests, RefreshLookup(r) \/ LoginClear(r) PROVE RotationInv'
  <2>1. rotatedFrom' = rotatedFrom /\ contested' = contested
    BY <1>4 DEF RefreshLookup, LoginClear, rows, history
  <2>2. \A q \in Requests : q # r => req'[q] = req[q]
    BY <1>4 DEF RefreshLookup, LoginClear, Goto, Return
  <2>3. req'[r] = Idle \/ (req'[r].token = req[r].token /\ (At(r, "lookup") \/ req[r].token = None))
    BY <1>4 DEF RefreshLookup, LoginClear, Goto, Return, InFlight, Knows
  <2>4. \A q \in Requests, t \in Tokens : Replaces(q, t)' => Replaces(q, t)
    BY <2>2, <2>3 DEF Replaces, At, Idle
  <2> QED
    BY <1>1, <2>1, <2>4
<1>5. ASSUME NEW r \in Requests, req'[r].pc \notin {"lookup", "issue"},
             \A q \in Requests : q # r => req'[q] = req[q]
      PROVE  \A q \in Requests, t \in Tokens : Replaces(q, t)' => Replaces(q, t)
  BY <1>5 DEF Replaces, At
<1>6. ASSUME NEW r \in Requests, NEW step, NEW next \in {"idle", "softdelete"}, Sweep(r, step, next)
      PROVE  RotationInv'
  <2>1. rotatedFrom' = rotatedFrom /\ contested' = contested
    BY <1>6 DEF Sweep
  <2>2. req'[r].pc \notin {"lookup", "issue"} /\ \A q \in Requests : q # r => req'[q] = req[q]
    BY <1>6 DEF Sweep, Idle
  <2> QED
    BY <1>1, <1>5, <2>1, <2>2
<1>7. ASSUME NEW r \in Requests, LoginFail(r) \/ LoginLock(r) \/ SoftDelete(r) \/ Abort(r)
      PROVE  RotationInv'
  <2>1. rotatedFrom' = rotatedFrom /\ contested' = contested
    BY <1>7 DEF LoginFail, LoginLock, SoftDelete, Abort, rows, history
  <2>2. req'[r].pc \notin {"lookup", "issue"} /\ \A q \in Requests : q # r => req'[q] = req[q]
    BY <1>7 DEF LoginFail, LoginLock, SoftDelete, Abort, Goto, Return, Idle
  <2> QED
    BY <1>1, <1>5, <2>1, <2>2
<1>8. ASSUME NEW r \in Requests, NEW step \in Steps \ {"lookup", "issue"}, NEW u, NEW t, NEW v,
             Begin(r, step, u, t, v), UNCHANGED <<rotatedFrom, contested>>
      PROVE  RotationInv'
  BY <1>1, <1>5, <1>8 DEF Begin
<1>9. ASSUME NEW r \in Requests, NEW t \in Tokens, RefreshFind(r, t) PROVE RotationInv'
  BY <1>8, <1>9 DEF RefreshFind, Steps, rows, history
<1>10. ASSUME NEW r \in Requests, NEW u \in Users,
              \/ LoginWrongPassword(r, u) \/ DeleteAccount(r, u)
              \/ \E v \in 0..MaxVersion : ConfirmReset(r, u, v)
       PROVE  RotationInv'
  BY <1>8, <1>10 DEF LoginWrongPassword, DeleteAccount, ConfirmReset, Steps, rows, history
<1>11. ASSUME NEW r \in Requests, NEW u \in Users, LoginRightPassword(r, u) PROVE RotationInv'
  <2>1. rotatedFrom' = rotatedFrom /\ contested' = contested
    BY <1>11 DEF LoginRightPassword, rows, history
  <2>2. req'[r].token = None /\ \A q \in Requests : q # r => req'[q] = req[q]
    BY <1>11 DEF LoginRightPassword, Begin
  <2>3. \A q \in Requests, t \in Tokens : Replaces(q, t)' => Replaces(q, t)
    BY <2>2 DEF Replaces, At
  <2> QED
    BY <1>1, <2>1, <2>3
<1>12. CASE UNCHANGED <<rotatedFrom, contested, req>>
  BY <1>1, <1>12 DEF Replaces, At
<1> QED
  BY <1>2, <1>3, <1>4, <1>6, <1>7, <1>9, <1>10, <1>11, <1>12
  DEF Next, vars, accounts, rows, flight, history, Register, RequestPasswordReset, LoginRefused,
      LockLapses, TokenExpires, RefreshReuse, ResetSweep, DeleteSweep

\* Refresh: a presented token is replaced by one pair, unless a second refresh had
\* found it live before the first one revoked it.
THEOREM RotatesOnce == Spec => []RotatedOnce
<1>1. Init => RotationInv
  BY NoneAssumption DEF Init, RotationInv, RotatedOnce, Claims, Replaces, At, Idle
<1>2. IInv /\ RotationInv /\ [Next]_vars => RotationInv'
  BY RotationStep
<1>3. RotationInv => RotatedOnce
  BY DEF RotationInv
<1> QED
  BY <1>1, <1>2, <1>3, Inductive, PTL DEF Spec

-----------------------------------------------------------------------------
\* What a handler that will open a session has read is of the latest password a
\* sweep has seen, or the sweep came after the reading.
UpToDate(r) ==
  req[r].pc \in {"clear", "issue", "revoke", "lookup"} =>
    \/ req[r].ver >= swept[req[r].user]
    \/ "sweep" \in passed[r]
    \/ req[r].token \in outlived

SessionInv ==
  /\ \A u \in Users : swept[u] <= version[u]
  /\ \A r \in Requests : UpToDate(r)
  /\ NoSessionOutlivesReset

\* A sweep revokes the rows it finds and passes the handlers that will add one.
LEMMA SessionStep ==
  ASSUME IInv, SessionInv, [Next]_vars
  PROVE  SessionInv'
<1> USE NoneAssumption, BoundAssumption
    DEF IInv, TypeOK, RequestState, SessionInv, UpToDate, NoSessionOutlivesReset
<1>1. CASE /\ UNCHANGED <<version, swept, row, owner, credential, outlived>>
           /\ \A r \in Requests :
                req'[r].pc \in {"clear", "issue", "revoke", "lookup"} =>
                  /\ req[r].pc \in {"clear", "issue", "revoke", "lookup"}
                  /\ req'[r].ver = req[r].ver /\ req'[r].user = req[r].user
                  /\ req'[r].token = req[r].token
                  /\ "sweep" \in passed[r] => "sweep" \in passed'[r]
  BY <1>1
<1>2. ASSUME NEW r \in Requests, NEW t \in Tokens, IssueSession(r, t) PROVE SessionInv'
  <2>1. req[r].user \in Users /\ At(r, "issue") /\ (req[r].token \in outlived => req[r].token # None)
    BY <1>2 DEF IssueSession, At, InFlight, Knows
  <2>2. \A q \in Requests : q # r => req'[q] = req[q] /\ passed'[q] = passed[q]
    BY <1>2 DEF IssueSession, Return
  <2>3. req'[r].pc = "idle" /\ outlived \subseteq outlived' /\ UNCHANGED <<swept, version>>
    BY <1>2 DEF IssueSession, Return, Idle, accounts
  <2>4. NoSessionOutlivesReset'
    BY <1>2, <2>1 DEF IssueSession, RowsOwned, At
  <2> QED
    BY <2>2, <2>3, <2>4
<1>3. ASSUME NEW r \in Requests, RefreshRevoke(r) PROVE SessionInv'
  <2>1. UNCHANGED <<swept, version, owner, credential, outlived>>
    BY <1>3 DEF RefreshRevoke, accounts
  <2>2. NoSessionOutlivesReset'
    BY <1>3, <2>1 DEF RefreshRevoke
  <2>3. \A q \in Requests : UpToDate(q)'
    BY <1>3, <2>1 DEF RefreshRevoke, Goto, At
  <2> QED
    BY <2>1, <2>2, <2>3
<1>4. ASSUME NEW r \in Requests, NEW p \in Steps, NEW n \in {"idle", "softdelete"}, p # "idle",
             Sweep(r, p, n)
      PROVE SessionInv'
  <2>1. req[r].user \in Users
    BY <1>4 DEF Sweep, At, InFlight, Knows
  <2>2. UNCHANGED <<version, owner, credential, outlived>>
    BY <1>4 DEF Sweep, accounts
  <2>3. swept' = [swept EXCEPT ![req[r].user] = version[req[r].user]] /\ row' = RevokeAll(req[r].user)
    BY <1>4 DEF Sweep
  <2>4. NoSessionOutlivesReset'
    BY <2>1, <2>2, <2>3 DEF RevokeAll, RowsOwned
  <2>5. req'[r].pc \notin {"clear", "issue", "revoke", "lookup"}
    BY <1>4 DEF Sweep, Idle
  <2>6. ASSUME NEW q \in Requests, q # r, req[q].pc \in {"clear", "issue", "revoke", "lookup"}
        PROVE  UpToDate(q)'
    <3>1. req'[q] = req[q] /\ req[q].user \in Users
      BY <1>4, <2>6 DEF Sweep, InFlight, Knows, At
    <3>2. passed[q] \subseteq passed'[q]
      BY <1>4, <2>6 DEF Sweep, Overtakes
    <3>3. CASE req[q].user # req[r].user
      BY <2>1, <2>2, <2>3, <2>6, <3>1, <3>2, <3>3
    <3>4. CASE req[q].user = req[r].user /\ req[q].ver < version[req[r].user]
      <4>1. "sweep" \in passed'[q]
        BY <1>4, <2>6, <3>4 DEF Sweep, Overtakes, Opens
      <4> QED
        BY <4>1
    <3>5. CASE req[q].user = req[r].user /\ ~(req[q].ver < version[req[r].user])
      BY <2>1, <2>3, <3>1, <3>5
    <3> QED
      BY <3>3, <3>4, <3>5
  <2>7. \A q \in Requests : q # r => req'[q] = req[q]
    BY <1>4 DEF Sweep
  <2>8. \A q \in Requests : UpToDate(q)'
    BY <2>5, <2>6, <2>7
  <2> QED
    BY <2>1, <2>2, <2>3, <2>4, <2>8
<1>5. ASSUME NEW r \in Requests, NEW t \in Tokens, RefreshFind(r, t) PROVE SessionInv'
  <2>1. /\ UNCHANGED <<version, swept, row, owner, credential, outlived>>
        /\ \A q \in Requests : q # r => req'[q] = req[q]
        /\ passed' = passed
    BY <1>5 DEF RefreshFind, Begin, accounts, rows, history
  <2>2. \/ req'[r].pc = "reuse"
        \/ row[t] = "live" /\ req'[r].user = owner[t] /\ req'[r].token = t /\ req'[r].ver = credential[t]
    BY <1>5 DEF RefreshFind, Begin
  <2>3. UpToDate(r)'
    BY <2>1, <2>2
  <2> QED
    BY <2>1, <2>3
<1>6. ASSUME NEW r \in Requests, NEW u \in Users, LoginRightPassword(r, u) PROVE SessionInv'
  <2>1. /\ UNCHANGED <<version, swept, row, owner, credential, outlived>>
        /\ \A q \in Requests : q # r => req'[q] = req[q]
        /\ passed' = passed
    BY <1>6 DEF LoginRightPassword, Begin, accounts, rows, history
  <2>2. req'[r].user = u /\ req'[r].ver = version[u]
    BY <1>6 DEF LoginRightPassword, Begin
  <2>3. UpToDate(r)'
    BY <2>1, <2>2
  <2> QED
    BY <2>1, <2>3
<1>7. ASSUME NEW r \in Requests, NEW u \in Users, LoginWrongPassword(r, u) \/ DeleteAccount(r, u)
      PROVE SessionInv'
  BY <1>1, <1>7 DEF LoginWrongPassword, DeleteAccount, Begin, accounts, rows, history
<1>8. ASSUME NEW r \in Requests, NEW u \in Users, NEW v \in 0..MaxVersion, ConfirmReset(r, u, v)
      PROVE SessionInv'
  <2>1. /\ UNCHANGED <<swept, row, owner, credential, outlived, passed>>
        /\ \A q \in Requests : req'[q] = req[q] \/ req'[q].pc = "reset"
    BY <1>8 DEF ConfirmReset, Begin, rows, history
  <2>2. \A w \in Users : version[w] <= version'[w] /\ version'[w] \in Nat
    BY <1>8 DEF ConfirmReset
  <2> QED
    BY <2>1, <2>2
<1>9. ASSUME NEW r \in Requests, LoginFail(r) \/ LoginLock(r) \/ SoftDelete(r) \/ Abort(r)
      PROVE SessionInv'
  <2>1. UNCHANGED <<version, swept, row, owner, credential, outlived>>
    BY <1>9 DEF LoginFail, LoginLock, SoftDelete, Abort, accounts, rows, history
  <2>2. req'[r].pc \in {"idle", "lock"} /\ \A q \in Requests : q # r => req'[q] = req[q]
    BY <1>9 DEF LoginFail, LoginLock, SoftDelete, Abort, Goto, Return, Idle
  <2>3. \A q \in Requests : q # r => passed[q] \subseteq passed'[q]
    BY <1>9 DEF LoginFail, LoginLock, SoftDelete, Abort, Goto, Return, Overtakes
  <2> QED
    BY <1>1, <2>1, <2>2, <2>3
<1>10. ASSUME NEW r \in Requests, LoginClear(r) \/ RefreshLookup(r) PROVE SessionInv'
  <2>1. UNCHANGED <<version, swept, row, owner, credential, outlived>>
    BY <1>10 DEF LoginClear, RefreshLookup, accounts, rows, history
  <2>2. \A q \in Requests : q # r => req'[q] = req[q] /\ passed'[q] = passed[q]
    BY <1>10 DEF LoginClear, RefreshLookup, Goto, Return
  <2>3. \/ req'[r] = Idle
        \/ /\ req'[r] = [req[r] EXCEPT !.pc = "issue"] /\ req[r].pc \in {"clear", "lookup"}
           /\ "sweep" \in passed[r] => "sweep" \in passed'[r]
    <3>1. CASE LoginClear(r)
      BY <3>1 DEF LoginClear, At
    <3>2. CASE RefreshLookup(r)
      BY <3>2 DEF RefreshLookup, Goto, Return, At
    <3> QED
      BY <1>10, <3>1, <3>2
  <2> QED
    BY <1>1, <2>1, <2>2, <2>3 DEF Idle
<1>11. CASE UNCHANGED <<version, swept, row, owner, credential, outlived, req, passed>>
  BY <1>1, <1>11
<1> QED
  BY <1>2, <1>3, <1>4, <1>5, <1>6, <1>7, <1>8, <1>9, <1>10, <1>11
  DEF Next, vars, accounts, rows, flight, history, Steps, Register, RequestPasswordReset,
      LoginRefused, LockLapses, TokenExpires, RefreshReuse, ResetSweep, DeleteSweep

\* ConfirmPasswordReset: no session of before outlives the sweep, but those that a
\* handler adds which had read the account or its token before, and their successors.
THEOREM ResetEndsSessions == Spec => []NoSessionOutlivesReset
<1>1. Init => SessionInv
  BY NoneAssumption, BoundAssumption DEF Init, SessionInv, UpToDate, Idle, NoSessionOutlivesReset
<1>2. IInv /\ SessionInv /\ [Next]_vars => SessionInv'
  BY SessionStep
<1>3. SessionInv => NoSessionOutlivesReset
  BY DEF SessionInv
<1> QED
  BY <1>1, <1>2, <1>3, Inductive, PTL DEF Spec

-----------------------------------------------------------------------------
\* A login that is about to clear the counter found no lock: one that is there now
\* was set after its reading.
ClearsNoLock ==
  \A r \in Requests : At(r, "clear") /\ Locked(req[r].user) => "lock" \in passed[r]

\* The lock a failed login sets passes the logins that are about to clear.
LEMMA ClearsNoLockStep ==
  ASSUME IInv, ClearsNoLock, [Next]_vars
  PROVE  ClearsNoLock'
<1> SUFFICES ASSUME NEW r \in Requests, req'[r].pc = "clear", lock'[req'[r].user] = "active"
             PROVE  "lock" \in passed'[r]
  BY DEF ClearsNoLock, At, Locked
<1> USE DEF IInv, TypeOK, RequestState
<1>1. ASSUME NEW q \in Requests, NEW u \in Users, LoginRightPassword(q, u)
      PROVE  "lock" \in passed'[r]
  <2>1. UNCHANGED lock /\ ~Locked(u) /\ passed' = passed
    BY <1>1 DEF LoginRightPassword, Begin, accounts
  <2>2. CASE r = q
    BY <1>1, <2>1, <2>2 DEF LoginRightPassword, Begin, Locked
  <2>3. CASE r # q
    BY <1>1, <2>1, <2>3 DEF LoginRightPassword, Begin, ClearsNoLock, Locked, At
  <2> QED
    BY <2>2, <2>3
<1>2. ASSUME NEW q \in Requests, LoginLock(q) PROVE "lock" \in passed'[r]
  <2>1. r # q /\ req'[r] = req[r] /\ At(r, "clear")
    BY <1>2 DEF LoginLock, Return, Idle, At
  <2>2. CASE lock' = lock /\ Return(q)
    BY <2>1, <2>2 DEF ClearsNoLock, Locked, Return
  <2>3. CASE /\ lock' = [lock EXCEPT ![req[q].user] = "active"]
             /\ Overtakes(q, req[q].user, "lock")
    <3>1. CASE req[r].user = req[q].user
      BY <2>1, <2>3, <3>1 DEF Overtakes, Clears
    <3>2. CASE req[r].user # req[q].user
      <4>1. Locked(req[r].user)
        BY <2>1, <2>3, <3>2 DEF Locked
      <4>2. passed[r] \subseteq passed'[r]
        BY <2>1, <2>3, <3>2 DEF Overtakes
      <4> QED
        BY <2>1, <4>1, <4>2 DEF ClearsNoLock
    <3> QED
      BY <3>1, <3>2
  <2> QED
    BY <1>2, <2>2, <2>3 DEF LoginLock
<1>3. CASE /\ req'[r] = req[r] /\ passed[r] \subseteq passed'[r]
           /\ \A u \in Users : lock'[u] = "active" => lock[u] = "active"
  BY <1>3 DEF ClearsNoLock, Locked, InFlight, Knows, At
<1>4. ASSUME NEW q \in Requests, req'[q].pc # "clear",
             \A p \in Requests : p # q => req'[p] = req[p] /\ passed[p] \subseteq passed'[p],
             \A u \in Users : lock'[u] = "active" => lock[u] = "active"
      PROVE  "lock" \in passed'[r]
  BY <1>3, <1>4
<1>5. ASSUME NEW q \in Requests, NEW step \in Steps \ {"clear"}, NEW u, NEW t, NEW v,
             Begin(q, step, u, t, v), lock' = lock
      PROVE  "lock" \in passed'[r]
  BY <1>4, <1>5 DEF Begin
<1>6. ASSUME NEW q \in Requests, NEW u \in Users,
             \/ LoginWrongPassword(q, u) \/ DeleteAccount(q, u)
             \/ \E v \in 0..MaxVersion : ConfirmReset(q, u, v)
      PROVE  "lock" \in passed'[r]
  BY <1>5, <1>6 DEF LoginWrongPassword, DeleteAccount, ConfirmReset, Steps, accounts
<1>7. ASSUME NEW q \in Requests, NEW t \in Tokens, RefreshFind(q, t) PROVE "lock" \in passed'[r]
  BY <1>5, <1>7 DEF RefreshFind, Steps, accounts
<1>8. ASSUME NEW q \in Requests, Return(q), lock' = lock PROVE "lock" \in passed'[r]
  BY <1>4, <1>8 DEF Return, Idle
<1>9. ASSUME NEW q \in Requests, NEW step \in Steps \ {"clear"}, Goto(q, step), lock' = lock
      PROVE  "lock" \in passed'[r]
  BY <1>4, <1>9 DEF Goto
<1>10. ASSUME NEW q \in Requests,
              \/ LoginFail(q) \/ RefreshRevoke(q) \/ RefreshLookup(q) \/ SoftDelete(q) \/ Abort(q)
              \/ \E t \in Tokens : IssueSession(q, t)
       PROVE  "lock" \in passed'[r]
  BY <1>8, <1>9, <1>10
  DEF LoginFail, RefreshRevoke, RefreshLookup, SoftDelete, Abort, IssueSession, Steps, accounts
<1>11. ASSUME NEW q \in Requests, LoginClear(q) PROVE "lock" \in passed'[r]
  <2>1. \A u \in Users : lock'[u] = "active" => lock[u] = "active"
    BY <1>11 DEF LoginClear
  <2>2. \A p \in Requests : p # q => req'[p] = req[p] /\ passed[p] \subseteq passed'[p]
    BY <1>11 DEF LoginClear
  <2>3. req'[q].pc = "issue"
    BY <1>11 DEF LoginClear
  <2> QED
    BY <1>4, <2>1, <2>2, <2>3
<1>12. ASSUME NEW q \in Requests, NEW p \in Steps, NEW n \in {"idle", "softdelete"}, Sweep(q, p, n)
       PROVE  "lock" \in passed'[r]
  <2>1. \A w \in Requests : w # q => req'[w] = req[w] /\ passed[w] \subseteq passed'[w]
    BY <1>12 DEF Sweep, Overtakes
  <2>2. req'[q].pc # "clear"
    BY <1>12 DEF Sweep, Idle
  <2> QED
    BY <1>4, <1>12, <2>1, <2>2 DEF Sweep, accounts
<1>13. ASSUME NEW u \in Users, LockLapses(u) PROVE "lock" \in passed'[r]
  BY <1>3, <1>13 DEF LockLapses, flight
<1>14. CASE UNCHANGED <<lock, req, passed>>
  BY <1>3, <1>14
<1> QED
  BY <1>1, <1>2, <1>6, <1>7, <1>10, <1>11, <1>12, <1>13, <1>14
  DEF Next, vars, accounts, flight, Steps, Register, RequestPasswordReset, LoginRefused,
      TokenExpires, RefreshReuse, ResetSweep, DeleteSweep

\* A lock lifts when its time has passed and not before (LockStands), unless a login
\* that had read the account before the lock was set clears it.
THEOREM LockLiftsInTime == Spec => LockStands
<1> DEFINE Stands == \A u \in Users : lock[u] = "active" =>
                       lock'[u] \in {"active", "lapsed"} \/ LiftedByOvertaken(u)
<1>1. Init => ClearsNoLock
  BY DEF Init, ClearsNoLock, At, Idle
<1>2. IInv /\ ClearsNoLock /\ [Next]_vars => ClearsNoLock'
  BY ClearsNoLockStep
<1>3. IInv /\ ClearsNoLock /\ [Next]_vars => [Stands]_vars
  <2> SUFFICES ASSUME IInv, ClearsNoLock, Next, NEW u \in Users, lock[u] = "active"
               PROVE  lock'[u] \in {"active", "lapsed"} \/ LiftedByOvertaken(u)
    OBVIOUS
  <2> USE DEF IInv, TypeOK
  <2>1. CASE UNCHANGED lock
    BY <2>1
  <2>2. ASSUME NEW w \in Users, LockLapses(w) PROVE lock'[u] \in {"active", "lapsed"}
    BY <2>2 DEF LockLapses
  <2>3. ASSUME NEW r \in Requests, LoginLock(r) PROVE lock'[u] \in {"active", "lapsed"}
    BY <2>3 DEF LoginLock
  <2>4. ASSUME NEW r \in Requests, LoginClear(r)
        PROVE  lock'[u] \in {"active", "lapsed"} \/ LiftedByOvertaken(u)
    <3>1. CASE req[r].user = u
      <4>1. At(r, "clear") /\ "lock" \in passed[r]
        BY <2>4, <3>1 DEF LoginClear, ClearsNoLock, Locked
      <4>2. req'[r].pc = "issue"
        BY <2>4 DEF LoginClear, RequestState
      <4> QED
        BY <3>1, <4>1, <4>2 DEF LiftedByOvertaken
    <3>2. CASE req[r].user # u
      BY <2>4, <3>2 DEF LoginClear
    <3> QED
      BY <3>1, <3>2
  <2> QED
    BY <2>1, <2>2, <2>3, <2>4
    DEF Next, vars, accounts, Register, RequestPasswordReset, LoginRefused, TokenExpires,
        LoginRightPassword, LoginWrongPassword, DeleteAccount, ConfirmReset, RefreshFind,
        IssueSession, LoginFail, RefreshRevoke, RefreshLookup, RefreshReuse, ResetSweep, DeleteSweep,
        Sweep, SoftDelete, Abort
<1> QED
  BY <1>1, <1>2, <1>3, Inductive, PTL DEF Spec, LockStands
=============================================================================
