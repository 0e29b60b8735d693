---------------------------- MODULE Verification ----------------------------
(***************************************************************************)
(* The four kinds of signed tokens, the routes that take them, and the     *)
(* verification of an e-mail address that content generation waits for.    *)
(*                                                                         *)
(* A token is what it was signed with and the claims the routes look at;   *)
(* a claim that its JSON does not have is decoded as the empty value.      *)
(* Whoever holds a token may present it to any route.                      *)
(*                                                                         *)
(* A handler works on a request one statement at a time: pc names the one  *)
(* that is next, and between two of them anything may happen, a deletion   *)
(* of the account it has found among it.                                   *)
(***************************************************************************)
EXTENDS Naturals, FiniteSets

CONSTANTS Accounts,
          Operators, \* the accounts whose role is admin
          Ids,       \* ids of refresh-token rows
          NoId,      \* a token without an id
          Handlers,  \* goroutines that work on a request
          MaxTokens  \* bound on the tokens in circulation

ASSUME TokenAssumption ==
  Operators \subseteq Accounts /\ NoId \notin Ids /\ MaxTokens \in Nat

VARIABLES
  registered, verified, deleted, \* accounts, by what their row says
  serving,   \* by handler, the request it works on
  refreshes, \* refresh_tokens that are not revoked: id and account
  used,      \* ids that were given out
  tokens     \* tokens that were delivered and have not expired

verifyAccounts == <<registered, verified, deleted>>
verifyVars == <<verifyAccounts, serving, refreshes, used, tokens>>

Claims == [secret: {"access", "refresh"}, uid: Accounts, jti: Ids \cup {NoId},
           purpose: {"", "pwreset", "emailverify"}, role: {"", "user", "admin"},
           verified: BOOLEAN]

\* What signs a token next, and what comes before it or signs none.
Signing   == {"issue", "mailVerify", "mailReset"}
Preparing == {"revoke", "lookup", "sweep", "leave", "softdelete"}

NoRequest == [pc |-> "none"]

\* verified is what the account's row said when it was read.
Request == [pc: Signing \cup Preparing, uid: Accounts, jti: Ids \cup {NoId}, verified: BOOLEAN]

VerifyTypeOK ==
  /\ registered \subseteq Accounts /\ verified \subseteq registered /\ deleted \subseteq registered
  /\ serving \in [Handlers -> Request \cup {NoRequest}]
  /\ refreshes \subseteq Ids \X Accounts
  /\ used \subseteq Ids
  /\ tokens \subseteq Claims

VerifyInit ==
  /\ registered = {} /\ verified = {} /\ deleted = {}
  /\ serving = [h \in Handlers |-> NoRequest]
  /\ refreshes = {} /\ used = {}
  /\ tokens = {}

-----------------------------------------------------------------------------
(* Signing. *)

GenerateAccess(a, flag) ==
  [secret |-> "access", uid |-> a, jti |-> NoId, purpose |-> "",
   role |-> IF a \in Operators THEN "admin" ELSE "user", verified |-> flag]

RefreshClaims(a, id, purpose) ==
  [secret |-> "refresh", uid |-> a, jti |-> id, purpose |-> purpose, role |-> "",
   verified |-> FALSE]

GenerateRefresh(a, id) == RefreshClaims(a, id, "")
GenerateReset(a)       == RefreshClaims(a, NoId, "pwreset")
GenerateVerify(a)      == RefreshClaims(a, NoId, "emailverify")

(* Parsing; Refresh also parses the id. *)

ParseAccess(t)  == t.secret = "access"
ParseRefresh(t) == t.secret = "refresh" /\ t.jti # NoId
ParseReset(t)   == t.secret = "refresh" /\ t.purpose = "pwreset"

\* Mutation: the purpose is not compared.
ParseVerifyAnyPurpose(t) == t.secret = "refresh"
ParseVerify(t)  == t.secret = "refresh" /\ t.purpose = "emailverify"

-----------------------------------------------------------------------------
\* Mutation: rows that were deleted are found as well.
AliveUnscoped(a) == a \in registered

Alive(a) == a \in registered \ deleted

\* The handler goes on with a request about account a, or ends it.
Goes(h, pc, a, id, flag) ==
  serving' = [serving EXCEPT ![h] = [pc |-> pc, uid |-> a, jti |-> id, verified |-> flag]]

Begins(h, pc, a, id, flag) == serving[h] = NoRequest /\ Goes(h, pc, a, id, flag)

Ends(h) == serving' = [serving EXCEPT ![h] = NoRequest]

At(h, pcs) == serving[h] # NoRequest /\ serving[h].pc \in pcs

Register(h, a) ==
  /\ a \notin registered
  /\ registered' = registered \cup {a}
  /\ Begins(h, "mailVerify", a, NoId, FALSE)
  /\ UNCHANGED <<verified, deleted, refreshes, used, tokens>>

\* Nothing is sent to an account that is verified, or is not there.
ResendVerification(h, a) ==
  /\ Alive(a) /\ a \notin verified
  /\ Begins(h, "mailVerify", a, NoId, FALSE)
  /\ UNCHANGED <<verifyAccounts, refreshes, used, tokens>>

RequestPasswordReset(h, a) ==
  /\ Alive(a)
  /\ Begins(h, "mailReset", a, NoId, FALSE)
  /\ UNCHANGED <<verifyAccounts, refreshes, used, tokens>>

\* The password is right.
Login(h, a) ==
  /\ Alive(a)
  /\ Begins(h, "issue", a, NoId, a \in verified)
  /\ UNCHANGED <<verifyAccounts, refreshes, used, tokens>>

SendMail(h) ==
  /\ At(h, {"mailVerify", "mailReset"})
  /\ tokens' = tokens \cup {IF serving[h].pc = "mailReset" THEN GenerateReset(serving[h].uid)
                            ELSE GenerateVerify(serving[h].uid)}
  /\ Ends(h)
  /\ UNCHANGED <<verifyAccounts, refreshes, used>>

\* The pair is not delivered if the insert's answer, or the client, is lost.
IssueSession(h) ==
  /\ At(h, {"issue"})
  /\ LET a == serving[h].uid
     IN  \E id \in Ids \ used :
           /\ used' = used \cup {id}
           /\ refreshes' = refreshes \cup {<<id, a>>}
           /\ \/ tokens' = tokens \cup {GenerateAccess(a, serving[h].verified), GenerateRefresh(a, id)}
              \/ tokens' = tokens
  /\ Ends(h)
  /\ UNCHANGED verifyAccounts

\* A statement or the mail server fails, or the client has left.
GivesUp(h) ==
  /\ serving[h] # NoRequest
  /\ Ends(h)
  /\ UNCHANGED <<verifyAccounts, refreshes, used, tokens>>

TokenExpires(t) ==
  /\ t \in tokens
  /\ tokens' = tokens \ {t}
  /\ UNCHANGED <<verifyAccounts, serving, refreshes, used>>

-----------------------------------------------------------------------------
(* The routes, each for any token that is presented to it. *)

\* A row that is revoked already revokes those of its user.
PresentRefresh(h, t) ==
  /\ t \in tokens /\ ParseRefresh(t)
  /\ Begins(h, IF <<t.jti, t.uid>> \in refreshes THEN "revoke" ELSE "sweep", t.uid, t.jti, FALSE)
  /\ UNCHANGED <<verifyAccounts, refreshes, used, tokens>>

RevokePresented(h) ==
  /\ At(h, {"revoke"})
  /\ refreshes' = refreshes \ {<<serving[h].jti, serving[h].uid>>}
  /\ Goes(h, "lookup", serving[h].uid, NoId, FALSE)
  /\ UNCHANGED <<verifyAccounts, used, tokens>>

FindAccount(h) ==
  /\ At(h, {"lookup"})
  /\ IF Alive(serving[h].uid)
     THEN Goes(h, "issue", serving[h].uid, NoId, serving[h].uid \in verified)
     ELSE Ends(h)
  /\ UNCHANGED <<verifyAccounts, refreshes, used, tokens>>

\* A second time it changes nothing, and succeeds.
VerifyEmail(t) ==
  /\ t \in tokens /\ ParseVerify(t) /\ Alive(t.uid)
  /\ verified' = verified \cup {t.uid}
  /\ UNCHANGED <<registered, deleted, serving, refreshes, used, tokens>>

\* The version in the token, which spends the link, is left to AuthSessions.
ConfirmReset(h, t) ==
  /\ t \in tokens /\ ParseReset(t) /\ Alive(t.uid)
  /\ Begins(h, "sweep", t.uid, NoId, FALSE)
  /\ UNCHANGED <<verifyAccounts, refreshes, used, tokens>>

DeleteAccount(h, t) ==
  /\ t \in tokens /\ ParseAccess(t)
  /\ Begins(h, "leave", t.uid, NoId, FALSE)
  /\ UNCHANGED <<verifyAccounts, refreshes, used, tokens>>

RevokeAllOf(h) ==
  /\ At(h, {"sweep", "leave"})
  /\ refreshes' = {r \in refreshes : r[2] # serving[h].uid}
  /\ IF serving[h].pc = "sweep" THEN Ends(h) ELSE Goes(h, "softdelete", serving[h].uid, NoId, FALSE)
  /\ UNCHANGED <<verifyAccounts, used, tokens>>

SoftDelete(h) ==
  /\ At(h, {"softdelete"})
  /\ deleted' = deleted \cup {serving[h].uid}
  /\ Ends(h)
  /\ UNCHANGED <<registered, verified, refreshes, used, tokens>>

VerifyStep ==
  \/ \E h \in Handlers, a \in Accounts :
       Register(h, a) \/ ResendVerification(h, a) \/ RequestPasswordReset(h, a) \/ Login(h, a)
  \/ \E h \in Handlers, t \in tokens : PresentRefresh(h, t) \/ ConfirmReset(h, t) \/ DeleteAccount(h, t)
  \/ \E h \in Handlers : \/ SendMail(h) \/ IssueSession(h) \/ GivesUp(h)
                        \/ RevokePresented(h) \/ FindAccount(h) \/ RevokeAllOf(h) \/ SoftDelete(h)
  \/ \E t \in tokens : TokenExpires(t) \/ VerifyEmail(t)

VerifyNext == VerifyStep /\ Cardinality(tokens') <= MaxTokens

VerifySpec == VerifyInit /\ [][VerifyNext]_verifyVars

-----------------------------------------------------------------------------
\* The gates of the routes that generate and that administrate believe a claim.
EmailVerified(t) == ParseAccess(t) /\ t.verified
AdminOnly(t)     == ParseAccess(t) /\ t.role = "admin"

\* A token does what it was signed for and nothing else, though three kinds of
\* them share a secret and differ in the claims they lack; and what the gates
\* believe is true of its account.
Signed(a, flags) == {GenerateAccess(a, flag) : flag \in flags}

TokensKeepTheirWord ==
  \A t \in tokens :
    /\ ParseVerify(t) => t = GenerateVerify(t.uid)
    /\ ParseReset(t) => t = GenerateReset(t.uid)
    /\ ParseRefresh(t) => \E id \in Ids : t = GenerateRefresh(t.uid, id)
    /\ ParseAccess(t) => t \in Signed(t.uid, BOOLEAN)
    /\ EmailVerified(t) => t.uid \in verified
    /\ AdminOnly(t) => t.uid \in Operators

\* The handlers that have found account a and are about to sign a token for it.
AboutToSign(a) == {h \in Handlers : At(h, Signing) /\ serving[h].uid = a}

\* From its deletion on, an account is not verified and gets no token or session
\* but from the handlers that had found it before (a login, a refresh, a mail on
\* its way): none joins them, and one that signs for it is done.  So the pair of
\* such a handler is never exchanged for another.
DeletedIsOut ==
  [][\A a \in deleted :
       /\ a \in verified' => a \in verified
       /\ AboutToSign(a)' \subseteq AboutToSign(a)
       /\ (\E t \in tokens' \ tokens : t.uid = a) \/ (\E r \in refreshes' \ refreshes : r[2] = a)
            => AboutToSign(a)' # AboutToSign(a)]_verifyVars
=============================================================================
