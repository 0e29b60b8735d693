----------------------------- MODULE WebSession -----------------------------
(***************************************************************************)
(* The session of the web portal in one tab: api/client.ts, whose callers  *)
(* share one exchange of the refresh token, the tokens, of which only the  *)
(* refresh token outlives a reload, and AuthContext.                       *)
(*                                                                         *)
(* JavaScript runs one piece of code at a time, up to an await, and the    *)
(* storage is synchronous: an action is what runs between two awaits.      *)
(***************************************************************************)
EXTENDS Naturals, FiniteSets

CONSTANTS Fetches,    \* requests of the portal in flight at once
          Exchanges,  \* promises of refresh() that may exist at once
          NoExchange, \* refreshInFlight === null
          MaxWebPairs \* bound on the pairs issued

ASSUME ExchangeAssumption == NoExchange \notin Exchanges
ASSUME WebBoundAssumption == IsFiniteSet(Fetches) /\ MaxWebPairs \in Nat \ {0}

VARIABLES
  webIssued,   \* server: pairs issued so far
  webToken,    \* server: the refresh token of each pair
  replayed,    \* history: refresh tokens presented after they were rotated
  interrupted, \* history: refresh tokens presented when the page was reloaded
  memory,      \* the pair of the access token in memory, 0 for none
  session,     \* the pair of the refresh token in sessionStorage, 0 for none
  status,      \* of AuthContext
  restoring,   \* the exchange the page waits for, after a load
  fetch,       \* requests in flight
  exchange,    \* refreshes in flight, with the token presented and its successor
  inFlight,    \* refreshInFlight
  signIn       \* the answer to a login, 0 for none

webServer == <<webIssued, webToken, replayed>>
page      == <<memory, session, status, restoring>>
webVars   == <<webServer, interrupted, page, fetch, exchange, inFlight, signIn>>

WebPairs == 1..MaxWebPairs
Held     == WebPairs \cup {0}

WebTypeOK ==
  /\ webIssued \in Held
  /\ webToken \in [WebPairs -> {"unissued", "live", "spent", "dead"}]
  /\ replayed \in SUBSET WebPairs /\ interrupted \in SUBSET WebPairs
  /\ memory \in Held /\ session \in Held /\ signIn \in Held
  /\ status \in {"loading", "authenticated", "anonymous"}
  /\ restoring \in Exchanges \cup {NoExchange}
  /\ fetch \in [Fetches -> [pc: {"idle", "sent", "wait", "retry"},
                            on: Exchanges \cup {NoExchange}]]
  /\ exchange \in [Exchanges -> [pc: {"none", "post", "answered", "failed"},
                                 pair: Held, next: Held]]
  /\ inFlight \in Exchanges \cup {NoExchange}

IdleFetch  == [pc |-> "idle", on |-> NoExchange]
NoPromise  == [pc |-> "none", pair |-> 0, next |-> 0]

\* A first visit, before anybody has signed in.
WebInit ==
  /\ webIssued = 0
  /\ webToken = [n \in WebPairs |-> "unissued"]
  /\ replayed = {} /\ interrupted = {}
  /\ memory = 0 /\ session = 0 /\ status = "anonymous" /\ restoring = NoExchange
  /\ fetch = [c \in Fetches |-> IdleFetch]
  /\ exchange = [x \in Exchanges |-> NoPromise]
  /\ inFlight = NoExchange
  /\ signIn = 0

Waits(x) == {c \in Fetches : fetch[c].pc = "wait" /\ fetch[c].on = x}

-----------------------------------------------------------------------------
(* refresh(): the token is read and sent before the first await. *)

Begins(x, n) ==
  /\ exchange[x].pc = "none"
  /\ exchange' = [exchange EXCEPT ![x] = [pc |-> "post", pair |-> n, next |-> 0]]
  /\ inFlight' = x

\* refreshInFlight ??= ...
ShareOrBegin(x) ==
  IF inFlight = NoExchange THEN Begins(x, session)
                           ELSE x = inFlight /\ UNCHANGED <<exchange, inFlight>>

\* The promise settles: whoever awaits it goes on before any other code.
Settles(x, pc) ==
  /\ exchange' = [exchange EXCEPT ![x] = NoPromise]
  /\ inFlight' = NoExchange
  /\ fetch' = [c \in Fetches |-> IF c \notin Waits(x) THEN fetch[c]
                                 ELSE [pc |-> pc, on |-> NoExchange]]

\* adopt(), for the page that waited for it to load.
Adopts(x, access) ==
  IF restoring = x
    THEN /\ restoring' = NoExchange
         /\ status' = IF access = 0 THEN "anonymous" ELSE "authenticated"
    ELSE UNCHANGED <<restoring, status>>

Rotates(n) ==
  /\ webToken[n] = "live" /\ webIssued < MaxWebPairs
  /\ webIssued' = webIssued + 1
  /\ webToken' = [webToken EXCEPT ![n] = "spent", ![webIssued + 1] = "live"]

ExchangeAccepted(x) ==
  /\ exchange[x].pc = "post"
  /\ Rotates(exchange[x].pair)
  /\ exchange' = [exchange EXCEPT ![x].pc = "answered", ![x].next = webIssued + 1]
  /\ UNCHANGED <<replayed, interrupted, page, fetch, inFlight, signIn>>

\* A rotated token is reused, as far as the server can tell: all are revoked.
ExchangeRefused(x) ==
  LET n == exchange[x].pair
  IN /\ exchange[x].pc = "post"
     /\ webToken[n] \in {"spent", "dead"}
     /\ \/ /\ webToken[n] = "spent"
           /\ replayed' = replayed \cup {n}
           /\ webToken' = [m \in WebPairs |->
                             IF webToken[m] = "live" THEN "dead" ELSE webToken[m]]
        \/ webToken[n] = "dead" /\ UNCHANGED <<replayed, webToken>>
     /\ exchange' = [exchange EXCEPT ![x].pc = "failed"]
     /\ UNCHANGED <<webIssued, interrupted, page, fetch, inFlight, signIn>>

\* No answer, with or without the rotation done, or one that cannot be read.
ExchangeLost(x) ==
  /\ exchange[x].pc \in {"post", "answered"}
  /\ \/ UNCHANGED <<webIssued, webToken>>
     \/ exchange[x].pc = "post" /\ Rotates(exchange[x].pair)
  /\ exchange' = [exchange EXCEPT ![x].pc = "failed"]
  /\ UNCHANGED <<replayed, interrupted, page, fetch, inFlight, signIn>>

StorePair(x) ==
  LET n == exchange[x].next
  IN /\ exchange[x].pc = "answered"
     /\ memory' = n /\ session' = n
     /\ Adopts(x, n)
     /\ Settles(x, "retry")
     /\ UNCHANGED <<webServer, interrupted, signIn>>

\* Mutation: the tokens are kept when the exchange fails.
FailKeepingTokens(x) ==
  /\ exchange[x].pc = "failed"
  /\ Adopts(x, memory)
  /\ Settles(x, "idle")
  /\ UNCHANGED <<webServer, interrupted, memory, session, signIn>>

\* The callers get the error; nobody tells AuthContext.
Fail(x) ==
  /\ exchange[x].pc = "failed"
  /\ memory' = 0 /\ session' = 0
  /\ Adopts(x, 0)
  /\ Settles(x, "idle")
  /\ UNCHANGED <<webServer, interrupted, signIn>>

-----------------------------------------------------------------------------
(* request(), and what a page does. *)

Request(c) ==
  /\ status = "authenticated"
  /\ fetch[c].pc = "idle"
  /\ fetch' = [fetch EXCEPT ![c].pc = "sent"]
  /\ UNCHANGED <<webServer, interrupted, page, exchange, inFlight, signIn>>

\* Any answer or none; a 401 only when there is no token to refresh with, or
\* after the retry.
RequestEnds(c) ==
  /\ fetch[c].pc \in {"sent", "retry"}
  /\ fetch' = [fetch EXCEPT ![c] = IdleFetch]
  /\ UNCHANGED <<webServer, interrupted, page, exchange, inFlight, signIn>>

RequestUnauthorized(c) ==
  /\ fetch[c].pc = "sent"
  /\ session # 0
  /\ \E x \in Exchanges : ShareOrBegin(x) /\ fetch' = [fetch EXCEPT ![c] = [pc |-> "wait", on |-> x]]
  /\ UNCHANGED <<webServer, interrupted, page, signIn>>

SignIn ==
  /\ status = "anonymous" /\ signIn = 0
  /\ webIssued < MaxWebPairs
  /\ webIssued' = webIssued + 1
  /\ webToken' = [webToken EXCEPT ![webIssued + 1] = "live"]
  /\ signIn' = webIssued + 1
  /\ UNCHANGED <<replayed, interrupted, page, fetch, exchange, inFlight>>

SignedIn ==
  /\ signIn # 0
  /\ memory' = signIn /\ session' = signIn
  /\ status' = "authenticated"
  /\ signIn' = 0
  /\ UNCHANGED <<webServer, interrupted, restoring, fetch, exchange, inFlight>>

\* Nothing is sent to the server, and what is in flight goes on.
SignOut ==
  /\ status = "authenticated"
  /\ memory' = 0 /\ session' = 0
  /\ status' = "anonymous"
  /\ UNCHANGED <<webServer, interrupted, restoring, fetch, exchange, inFlight, signIn>>

\* The page starts again with nothing but sessionStorage; a refresh the server
\* has not answered yet may still reach it.
Reload ==
  /\ memory' = 0 /\ signIn' = 0
  /\ fetch' = [c \in Fetches |-> IdleFetch]
  /\ interrupted' =
       interrupted \cup {exchange[x].pair : x \in {y \in Exchanges : exchange[y].pc # "none"}}
  /\ \/ UNCHANGED <<webIssued, webToken>>
     \/ \E x \in Exchanges : exchange[x].pc = "post" /\ Rotates(exchange[x].pair)
  /\ IF session = 0
       THEN /\ status' = "anonymous" /\ restoring' = NoExchange /\ inFlight' = NoExchange
            /\ exchange' = [x \in Exchanges |-> NoPromise]
       ELSE \E x \in Exchanges :
              /\ status' = "loading" /\ restoring' = x /\ inFlight' = x
              /\ exchange' = [y \in Exchanges |-> IF y # x THEN NoPromise
                                ELSE [pc |-> "post", pair |-> session, next |-> 0]]
  /\ UNCHANGED <<replayed, session>>

\* Its thirty days are over, or a password reset revoked it.
SessionEnds(n) ==
  /\ webToken[n] = "live"
  /\ webToken' = [webToken EXCEPT ![n] = "dead"]
  /\ UNCHANGED <<webIssued, replayed, interrupted, page, fetch, exchange, inFlight, signIn>>

WebNext ==
  \/ \E c \in Fetches : Request(c) \/ RequestEnds(c) \/ RequestUnauthorized(c)
  \/ \E x \in Exchanges :
       \/ ExchangeAccepted(x)
       \/ ExchangeRefused(x)
       \/ ExchangeLost(x)
       \/ StorePair(x)
       \/ Fail(x)
  \/ SignIn
  \/ SignedIn
  \/ SignOut
  \/ Reload
  \/ \E n \in WebPairs : SessionEnds(n)

WebSpec == WebInit /\ [][WebNext]_webVars

-----------------------------------------------------------------------------
\* However 401s, reloads, logouts and logins meet: the portal has one exchange at
\* a time, which refreshInFlight names for as long as it lasts and no longer, so
\* nobody awaits a promise that has settled and a page that loads will be told;
\* and it presents no refresh token twice, which the server would take for theft,
\* unless a reload cut off the answer to the first time.
PortalRefreshSound ==
  /\ \A x \in Exchanges : exchange[x].pc # "none" <=> inFlight = x
  /\ \A c \in Fetches : fetch[c].pc = "wait" => fetch[c].on = inFlight
  /\ status = "loading" => restoring # NoExchange
  /\ restoring # NoExchange => restoring = inFlight
  /\ replayed \subseteq interrupted
=============================================================================
