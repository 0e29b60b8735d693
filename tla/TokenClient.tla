---------------------------- MODULE TokenClient ----------------------------
(***************************************************************************)
(* The mobile app's session: AuthInterceptor, which answers a 401 with one *)
(* refresh shared by all waiting calls, SecureTokenStorage, and login and  *)
(* logout of AuthRepositoryImpl, against the backend's rotating tokens     *)
(* (AuthSessions; here only what a client can tell).                       *)
(*                                                                         *)
(* Dart runs one piece of code at a time but any other may run at an       *)
(* await, and each access to the secure storage is awaited: an action is   *)
(* what runs between two awaits.  A pair stands for the access and the     *)
(* refresh token issued together.                                          *)
(***************************************************************************)
EXTENDS Naturals, FiniteSets

CONSTANTS Calls,       \* API calls of the app in flight at once
          Flights,     \* futures of _refresh that may exist at once
          None,        \* _refreshInFlight == null
          SessionsEnd, \* stored refresh tokens may expire or be revoked
          Losses,      \* answers of the server may be lost, the app may die
          MaxPairs     \* bound on the pairs issued

ASSUME CallsAssumption == IsFiniteSet(Calls)
ASSUME NoneAssumption == None \notin Flights
ASSUME ModeAssumption == SessionsEnd \in BOOLEAN /\ Losses \in BOOLEAN
ASSUME BoundAssumption == MaxPairs \in Nat \ {0}

VARIABLES
  issued,    \* server: pairs issued so far
  token,     \* server: the refresh token of each pair
  alarms,    \* history: refresh tokens presented after they were rotated
  mislaid,   \* history: refresh tokens rotated by an answer the app did not get, or
             \* did not get to store
  access,    \* storage: the pair of the access token, 0 for none
  refresh,   \* storage: the pair of the refresh token, 0 for none
  signedIn,  \* latest value of watchIsAuthenticated
  call,      \* calls in flight
  flight,    \* refreshes in flight
  slot,      \* _refreshInFlight
  ui,        \* the login or logout in progress
  loggedOut  \* history: the user's latest act was to log out

server == <<issued, token, alarms, mislaid>>
store  == <<access, refresh>>
vars   == <<server, store, signedIn, call, flight, slot, ui, loggedOut>>

Pairs  == 1..MaxPairs
Stored == Pairs \cup {0}

TypeOK ==
  /\ issued \in Stored
  /\ token \in [Pairs -> {"unissued", "live", "spent", "dead"}]
  /\ \A n \in Pairs : token[n] = "unissued" <=> n > issued
  /\ alarms \in SUBSET Pairs
  /\ mislaid \in SUBSET Pairs
  /\ access \in Stored /\ refresh \in Stored
  /\ signedIn \in BOOLEAN
  /\ call \in [Calls -> [pc: {"idle", "sent", "wait", "retry", "clear", "clear2"},
                         flight: Flights \cup {None}]]
  /\ flight \in [Flights -> [pc: {"none", "read", "post", "save", "save2", "waits"},
                             pair: Stored]]
  /\ slot \in Flights \cup {None}
  /\ slot # None => flight[slot].pc # "none"
  /\ ui \in [pc: {"idle", "login", "login2", "login3", "logout2", "logout3"}, pair: Stored]
  /\ loggedOut \in BOOLEAN

IdleCall == [pc |-> "idle", flight |-> None]
NoFlight == [pc |-> "none", pair |-> 0]
IdleUi   == [pc |-> "idle", pair |-> 0]

\* The app starts with the session of an earlier login.
Init ==
  /\ issued = 1
  /\ token = [n \in Pairs |-> IF n = 1 THEN "live" ELSE "unissued"]
  /\ alarms = {} /\ mislaid = {}
  /\ access = 1 /\ refresh = 1
  /\ signedIn = TRUE
  /\ call = [c \in Calls |-> IdleCall]
  /\ flight = [f \in Flights |-> NoFlight]
  /\ slot = None
  /\ ui = IdleUi
  /\ loggedOut = FALSE

Active == {c \in Calls : call[c].pc # "idle"}

\* A call causes one refresh at most, so this leaves a pair for each.
Budget == issued + Cardinality(Active) < MaxPairs

-----------------------------------------------------------------------------
(* A call, and the interceptor's onRequest and onError. *)

Send(c) ==
  /\ Budget
  /\ call[c].pc = "idle"
  /\ call' = [call EXCEPT ![c].pc = "sent"]
  /\ UNCHANGED <<server, store, signedIn, flight, slot, ui, loggedOut>>

\* Any answer but a 401, or none.
Answered(c) ==
  /\ call[c].pc = "sent"
  /\ call' = [call EXCEPT ![c] = IdleCall]
  /\ UNCHANGED <<server, store, signedIn, flight, slot, ui, loggedOut>>

Awaits(c, f) == call' = [call EXCEPT ![c].pc = "wait", ![c].flight = f]
Starts(f) ==
  /\ flight[f].pc = "none"
  /\ flight' = [flight EXCEPT ![f].pc = "read"]
  /\ slot' = f

\* Mutation: every 401 starts a refresh of its own.
JoinOrStartAlways(c) == \E f \in Flights : Starts(f) /\ Awaits(c, f)

\* await (_refreshInFlight ??= _refresh())
JoinOrStart(c) ==
  \/ slot # None /\ Awaits(c, slot) /\ UNCHANGED <<flight, slot>>
  \/ slot = None /\ \E f \in Flights : Starts(f) /\ Awaits(c, f)

\* Not only an access token past its time is answered 401: a wrong password, or
\* a stale verification or reset link, is too, signed in or not.
Unauthorized(c) ==
  /\ call[c].pc = "sent"
  /\ JoinOrStart(c)
  /\ UNCHANGED <<server, store, signedIn, ui, loggedOut>>

\* The retry goes through a bare Dio: whatever it is answered, the call ends.
Retry(c) ==
  /\ call[c].pc = "retry"
  /\ call' = [call EXCEPT ![c] = IdleCall]
  /\ UNCHANGED <<server, store, signedIn, flight, slot, ui, loggedOut>>

ClearAccess(c) ==
  /\ call[c].pc = "clear"
  /\ access' = 0
  /\ call' = [call EXCEPT ![c].pc = "clear2"]
  /\ UNCHANGED <<server, refresh, signedIn, flight, slot, ui, loggedOut>>

ClearRefresh(c) ==
  /\ call[c].pc = "clear2"
  /\ refresh' = 0
  /\ call' = [call EXCEPT ![c] = IdleCall]
  /\ UNCHANGED <<server, access, signedIn, flight, slot, ui, loggedOut>>

-----------------------------------------------------------------------------
(* _refresh, and the backend's answer to it. *)

\* Mutation: _refreshInFlight is not set back to null.
ReturnsKeepingSlot(f, next) ==
  /\ flight' = [flight EXCEPT ![f] = NoFlight]
  /\ call' = [c \in Calls |-> IF call[c].pc = "wait" /\ call[c].flight = f
                                THEN [call[c] EXCEPT !.pc = next, !.flight = None]
                                ELSE call[c]]
  /\ UNCHANGED slot

\* The future completes: all its waiters resume before any other code runs,
\* and each sets _refreshInFlight to null.
Returns(f, next) ==
  /\ flight' = [flight EXCEPT ![f] = NoFlight]
  /\ call' = [c \in Calls |-> IF call[c].pc = "wait" /\ call[c].flight = f
                                THEN [call[c] EXCEPT !.pc = next, !.flight = None]
                                ELSE call[c]]
  /\ slot' = None

Steps(f, pc, next, n) ==
  /\ flight[f].pc = pc
  /\ flight' = [flight EXCEPT ![f] = [pc |-> next, pair |-> n]]

ReadRefreshToken(f) ==
  /\ flight[f].pc = "read"
  /\ IF refresh = 0 THEN Returns(f, "clear")
                    ELSE Steps(f, "read", "post", refresh) /\ UNCHANGED <<call, slot>>
  /\ UNCHANGED <<server, store, signedIn, ui, loggedOut>>

Rotated(n) ==
  /\ token[n] = "live" /\ issued < MaxPairs
  /\ issued' = issued + 1
  /\ token' = [token EXCEPT ![n] = "spent", ![issued + 1] = "live"]

RefreshAccepted(f) ==
  /\ flight[f].pc = "post"
  /\ Rotated(flight[f].pair)
  /\ Steps(f, "post", "save", issued + 1)
  /\ UNCHANGED <<alarms, mislaid, store, signedIn, call, slot, ui, loggedOut>>

\* 401.  The request was sent through the Dio the interceptor sits on, whose
\* onError now awaits _refreshInFlight: the future that awaits this answer.
\* A rotated token is reused as far as the server can tell: all are revoked.
RefreshRejected(f) ==
  LET n == flight[f].pair
  IN /\ flight[f].pc = "post"
     /\ token[n] \in {"spent", "dead"}
     /\ alarms' = IF token[n] = "spent" THEN alarms \cup {n} ELSE alarms
     /\ token' = IF token[n] = "spent"
                   THEN [m \in Pairs |-> IF token[m] = "live" THEN "dead" ELSE token[m]]
                   ELSE token
     /\ Steps(f, "post", "waits", n)
     /\ UNCHANGED <<issued, mislaid, store, signedIn, call, slot, ui, loggedOut>>

\* No answer, or one that is not a 401: the server did nothing, or rotated the
\* token and its answer is lost.
RefreshFails(f) ==
  /\ flight[f].pc = "post"
  /\ \/ Losses /\ Rotated(flight[f].pair) /\ mislaid' = mislaid \cup {flight[f].pair}
     \/ UNCHANGED <<issued, token, mislaid>>
  /\ Returns(f, "clear")
  /\ UNCHANGED <<alarms, store, signedIn, ui, loggedOut>>

SaveAccess(f) ==
  /\ Steps(f, "save", "save2", flight[f].pair)
  /\ access' = flight[f].pair
  /\ UNCHANGED <<server, refresh, signedIn, call, slot, ui, loggedOut>>

\* Mutation: only the access token is stored.
SaveRefreshSkipped(f) ==
  /\ flight[f].pc = "save2"
  /\ Returns(f, "retry")
  /\ UNCHANGED <<server, store, signedIn, ui, loggedOut>>

SaveRefresh(f) ==
  /\ flight[f].pc = "save2"
  /\ refresh' = flight[f].pair
  /\ Returns(f, "retry")
  /\ UNCHANGED <<server, access, signedIn, ui, loggedOut>>

-----------------------------------------------------------------------------
(* Login and logout, the app's start, and time. *)

Login ==
  /\ ~signedIn /\ ui.pc = "idle" /\ Budget
  /\ issued' = issued + 1
  /\ token' = [token EXCEPT ![issued + 1] = "live"]
  /\ ui' = [pc |-> "login", pair |-> issued + 1]
  /\ loggedOut' = FALSE
  /\ UNCHANGED <<alarms, mislaid, store, signedIn, call, flight, slot>>

LoginSaves ==
  /\ ui.pc = "login"
  /\ access' = ui.pair
  /\ ui' = [ui EXCEPT !.pc = "login2"]
  /\ UNCHANGED <<server, refresh, signedIn, call, flight, slot, loggedOut>>

LoginSavesRefresh ==
  /\ ui.pc = "login2"
  /\ refresh' = ui.pair
  /\ ui' = [ui EXCEPT !.pc = "login3"]
  /\ UNCHANGED <<server, access, signedIn, call, flight, slot, loggedOut>>

\* After saveEmailVerified, which is awaited too.
LoginEmits ==
  /\ ui.pc = "login3"
  /\ signedIn' = TRUE
  /\ ui' = IdleUi
  /\ UNCHANGED <<server, store, call, flight, slot, loggedOut>>

\* Logout, or an account deletion the server has confirmed.
Logout ==
  /\ signedIn /\ ui.pc = "idle"
  /\ access' = 0
  /\ ui' = [pc |-> "logout2", pair |-> 0]
  /\ UNCHANGED <<server, refresh, signedIn, call, flight, slot, loggedOut>>

LogoutClearsRefresh ==
  /\ ui.pc = "logout2"
  /\ refresh' = 0
  /\ ui' = [ui EXCEPT !.pc = "logout3"]
  /\ UNCHANGED <<server, access, signedIn, call, flight, slot, loggedOut>>

LogoutEmits ==
  /\ ui.pc = "logout3"
  /\ signedIn' = FALSE
  /\ loggedOut' = TRUE
  /\ ui' = IdleUi
  /\ UNCHANGED <<server, store, call, flight, slot>>

AtRest ==
  /\ Active = {} /\ ui.pc = "idle"
  /\ \A f \in Flights : flight[f].pc = "none"

Saving == \E f \in Flights : flight[f].pc \in {"save", "save2"}

\* The app is started again and seeds its state from the access token.
AppStart ==
  /\ AtRest \/ Losses
  /\ call' = [c \in Calls |-> IdleCall]
  /\ flight' = [f \in Flights |-> NoFlight]
  /\ slot' = None
  /\ ui' = IdleUi
  /\ signedIn' = (access # 0)
  /\ mislaid' = IF Saving THEN mislaid \cup ({refresh} \ {0}) ELSE mislaid
  /\ UNCHANGED <<issued, token, alarms, store, loggedOut>>

\* Its thirty days are over, or a password reset revoked it.
RefreshTokenDies(n) ==
  /\ SessionsEnd
  /\ token[n] = "live"
  /\ token' = [token EXCEPT ![n] = "dead"]
  /\ UNCHANGED <<issued, alarms, mislaid, store, signedIn, call, flight, slot, ui, loggedOut>>

-----------------------------------------------------------------------------
CallStep(c) ==
  \/ Answered(c)
  \/ Unauthorized(c)
  \/ Retry(c)
  \/ ClearAccess(c)
  \/ ClearRefresh(c)

FlightStep(f) ==
  \/ ReadRefreshToken(f)
  \/ RefreshAccepted(f)
  \/ RefreshRejected(f)
  \/ RefreshFails(f)
  \/ SaveAccess(f)
  \/ SaveRefresh(f)

Next ==
  \/ \E c \in Calls : Send(c) \/ CallStep(c)
  \/ \E f \in Flights : FlightStep(f)
  \/ Login
  \/ LoginSaves
  \/ LoginSavesRefresh
  \/ LoginEmits
  \/ Logout
  \/ LogoutClearsRefresh
  \/ LogoutEmits
  \/ AppStart
  \/ \E n \in Pairs : RefreshTokenDies(n)

Spec == Init /\ [][Next]_vars

\* Requests are answered or time out, and the event loop runs every
\* continuation.
FairSpec ==
  /\ Spec
  /\ \A c \in Calls : WF_vars(CallStep(c))
  /\ \A f \in Flights : WF_vars(FlightStep(f))

-----------------------------------------------------------------------------
\* Concurrent 401s trigger a single refresh, which every waiting call awaits
\* and which _refreshInFlight names for as long as it lasts.
OneRefresh ==
  /\ \A f \in Flights : flight[f].pc # "none" => slot = f
  /\ \A c \in Calls : call[c].pc = "wait" => call[c].flight = slot /\ slot # None

\* The app never presents a refresh token a second time, which the server takes
\* for theft and answers by ending every session, but one whose successor was lost
\* on its way to the storage.
NoFalseAlarm == alarms \subseteq mislaid

\* Between refreshes the stored refresh token is one the server will accept,
\* however refreshes, logins and logouts interleave, unless its session has ended
\* or its successor was lost.
StoredIsUsable ==
  refresh # 0 /\ ~Saving =>
    \/ token[refresh] = "live"
    \/ token[refresh] = "dead" /\ (SessionsEnd \/ alarms # {})
    \/ refresh \in mislaid

\* Every call ends, with a response or an error.
CallsEnd == \A c \in Calls : call[c].pc # "idle" ~> call[c].pc = "idle"

\* The same for calls that meet no refresh the server has refused.
CallsEndUnlessRefused ==
  \A c \in Calls :
    call[c].pc # "idle" ~> call[c].pc = "idle" \/ \E f \in Flights : flight[f].pc = "waits"

\* clear(): "Called on logout ... always clear all session state together".
LogoutClears == loggedOut => access = 0 /\ refresh = 0
=============================================================================
