--------------------------- MODULE SessionProofs ----------------------------
(***************************************************************************)
(* Proofs about the two clients' sessions: the refresh that calls of the app *)
(* share (TokenClient), and that of the portal (WebSession), which a reload *)
(* can cut off.                                                            *)
(***************************************************************************)
EXTENDS TokenClient, WebSession, FiniteSetTheorems, TLAPS

-----------------------------------------------------------------------------
(***************************************************************************)
(* TokenClient, for any number of calls that overlap.                      *)
(*                                                                         *)
(* The invariant says who may hold a pair that the server has rotated: the *)
(* one refresh that is about to store its successor, and whoever was never *)
(* told.                                                                   *)
(***************************************************************************)

\* A future at work, or a login, holds a pair that was issued.
HoldersHold ==
  /\ \A f \in Flights : flight[f].pc \notin {"none", "read"} => flight[f].pair \in 1..issued
  /\ ui.pc \in {"login", "login2"} => ui.pair \in 1..issued
  /\ refresh \in 0..issued /\ access \in 0..issued

Shape == TypeOK /\ HoldersHold /\ OneRefresh

Unspent(n) == token[n] \in {"live", "dead"}
Usable(n)  == Unspent(n) \/ n \in mislaid

\* The pair of a login under way is known to nobody else, and the server has
\* not rotated what a refresh is about to present or to store, unless the app was
\* never told.
Fresh ==
  /\ ui.pc \in {"login", "login2"} =>
       /\ Unspent(ui.pair) /\ refresh # ui.pair
       /\ \A f \in Flights : flight[f].pc \in {"none", "read"} \/ flight[f].pair # ui.pair
  /\ \A f \in Flights : flight[f].pc \in {"post", "save", "save2"} => Usable(flight[f].pair)
  /\ refresh # 0 /\ ~Saving => Usable(refresh)
  /\ NoFalseAlarm

\* What is true of the bound on pairs.
LEMMA BudgetLeaves == TypeOK /\ Budget => issued + 1 \in Pairs
<1> SUFFICES ASSUME TypeOK, Budget PROVE issued + 1 \in Pairs
  OBVIOUS
<1>1. IsFiniteSet(Active)
  BY CallsAssumption, FS_Subset DEF Active
<1>2. Cardinality(Active) \in Nat
  BY <1>1, FS_CardinalityType
<1> QED
  BY <1>2, BoundAssumption DEF TypeOK, Budget, Stored, Pairs

\* The app starts with nothing in flight.
LEMMA InitShape == Init => Shape /\ Fresh
<1> SUFFICES ASSUME Init PROVE Shape /\ Fresh
  OBVIOUS
<1> USE BoundAssumption, NoneAssumption
<1>1. 0 \in Stored /\ 1 \in Stored
  BY DEF Stored, Pairs
<1>4. token \in [Pairs -> {"unissued", "live", "spent", "dead"}]
  BY DEF Init
<1>5. \A n \in Pairs : token[n] = "unissued" <=> n > issued
  BY DEF Init, Pairs
<1>6. call \in [Calls -> [pc: {"idle", "sent", "wait", "retry", "clear", "clear2"},
                        flight: Flights \cup {None}]]
  BY <1>1 DEF Init, IdleCall
<1>7. flight \in [Flights -> [pc: {"none", "read", "post", "save", "save2", "waits"},
                            pair: Stored]]
  BY <1>1 DEF Init, NoFlight
<1>8. TypeOK
  BY <1>1, <1>4, <1>5, <1>6, <1>7 DEF Init, TypeOK, IdleUi
<1>2. HoldersHold /\ OneRefresh
  BY DEF Init, HoldersHold, OneRefresh, IdleCall, NoFlight, IdleUi
<1>3. Fresh
  BY DEF Init, Fresh, NoFalseAlarm, Unspent, Usable, IdleUi, NoFlight, Pairs
<1> QED
  BY <1>8, <1>2, <1>3 DEF Shape

\* The steps of a call.
LEMMA CallShape ==
  ASSUME Shape, NEW c \in Calls, Send(c) \/ CallStep(c)
  PROVE  Shape'
<1> USE NoneAssumption DEF server, store
<1>0. /\ TypeOK /\ HoldersHold /\ OneRefresh /\ 0 \in Stored /\ issued \in Nat
      /\ IdleCall \in [pc: {"idle", "sent", "wait", "retry", "clear", "clear2"},
                       flight: Flights \cup {None}]
  BY BoundAssumption DEF Shape, TypeOK, Stored, Pairs, IdleCall
<1>6. ASSUME NEW C \in [pc: {"idle", "sent", "wait", "retry", "clear", "clear2"},
                       flight: Flights \cup {None}],
             call' = [call EXCEPT ![c] = C],
             C.pc = "wait" => C.flight = slot /\ slot # None,
             access' \in {access, 0}, refresh' \in {refresh, 0},
             UNCHANGED <<server, signedIn, flight, slot, ui, loggedOut>>
      PROVE  Shape'
  <2>1. call' \in [Calls -> [pc: {"idle", "sent", "wait", "retry", "clear", "clear2"},
                            flight: Flights \cup {None}]]
    BY <1>0, <1>6 DEF TypeOK
  <2>2. access' \in Stored /\ refresh' \in Stored
    BY <1>0, <1>6 DEF TypeOK
  <2>3. TypeOK'
    BY <1>0, <1>6, <2>1, <2>2 DEF TypeOK
  <2>4. HoldersHold'
    BY <1>0, <1>6 DEF HoldersHold
  <2>5. OneRefresh'
    BY <1>0, <1>6 DEF OneRefresh, TypeOK
  <2> QED
    BY <2>3, <2>4, <2>5 DEF Shape
<1>1. CASE Send(c)
  BY <1>0, <1>1, <1>6 DEF Send, TypeOK, IdleCall
<1>2. CASE Answered(c) \/ Retry(c)
  BY <1>0, <1>2, <1>6 DEF Answered, Retry, IdleCall
<1>3. CASE ClearAccess(c)
  BY <1>0, <1>3, <1>6 DEF ClearAccess, TypeOK
<1>4. CASE ClearRefresh(c)
  BY <1>0, <1>4, <1>6 DEF ClearRefresh, IdleCall
<1>5. CASE Unauthorized(c)
  <2>1. CASE slot # None /\ Awaits(c, slot) /\ UNCHANGED <<flight, slot>>
    <3>1. call' = [call EXCEPT ![c] = [call[c] EXCEPT !.pc = "wait", !.flight = slot]]
      BY <1>0, <2>1 DEF Awaits, TypeOK
    <3> QED
      BY <1>0, <1>5, <1>6, <2>1, <3>1 DEF Unauthorized, TypeOK
  <2>2. CASE slot = None /\ \E f \in Flights : Starts(f) /\ Awaits(c, f)
    <3>1. PICK f \in Flights : Starts(f) /\ Awaits(c, f)
      BY <2>2
    <3>2. /\ call' \in [Calls -> [pc: {"idle", "sent", "wait", "retry", "clear", "clear2"},
                                  flight: Flights \cup {None}]]
          /\ flight' \in [Flights -> [pc: {"none", "read", "post", "save", "save2", "waits"},
                                      pair: Stored]]
          /\ slot' = f /\ flight'[f].pc = "read"
      BY ZenonT(40), <1>0, <3>1 DEF Starts, Awaits, TypeOK
    <3>3. TypeOK'
      BY <1>0, <1>5, <3>2 DEF Unauthorized, TypeOK
    <3>4. HoldersHold'
      BY <1>0, <1>5, <3>1 DEF Unauthorized, Starts, TypeOK, HoldersHold
    <3>5. OneRefresh'
      BY <1>0, <2>2, <3>1, <3>2 DEF Starts, Awaits, TypeOK, OneRefresh
    <3> QED
      BY <3>3, <3>4, <3>5 DEF Shape
  <2> QED
    BY <1>5, <2>1, <2>2 DEF Unauthorized, JoinOrStart
<1> QED
  BY <1>1, <1>2, <1>3, <1>4, <1>5 DEF CallStep

\* A future that completes leaves no waiter and no future behind.
LEMMA ReturnsShape ==
  ASSUME TypeOK, OneRefresh, NEW f \in Flights, flight[f].pc # "none",
         NEW next \in {"retry", "clear"}, Returns(f, next)
  PROVE  /\ call' \in [Calls -> [pc: {"idle", "sent", "wait", "retry", "clear", "clear2"},
                                 flight: Flights \cup {None}]]
         /\ flight' \in [Flights -> [pc: {"none", "read", "post", "save", "save2", "waits"},
                                     pair: Stored]]
         /\ \A g \in Flights : flight'[g].pc = "none"
         /\ slot' = None
         /\ \A c \in Calls : call'[c].pc # "wait"
<1>1. slot = f
  BY DEF OneRefresh
<1>2. \A c \in Calls : call[c].pc = "wait" => call[c].flight = f
  BY <1>1 DEF OneRefresh
<1>3. \A g \in Flights : g # f => flight[g].pc = "none"
  BY <1>1 DEF OneRefresh
<1>4. NoFlight \in [pc: {"none", "read", "post", "save", "save2", "waits"}, pair: Stored]
  BY DEF NoFlight, Stored
<1>5. \A c \in Calls : call'[c] \in [pc: {"idle", "sent", "wait", "retry", "clear", "clear2"},
                                    flight: Flights \cup {None}]
  BY DEF Returns, TypeOK
<1>6. \A c \in Calls : call'[c].pc # "wait"
  BY <1>2 DEF Returns, TypeOK
<1> QED
  BY <1>3, <1>4, <1>5, <1>6 DEF Returns, NoFlight, TypeOK

\* The steps of a refresh.
LEMMA FlightShape ==
  ASSUME Shape, NEW f \in Flights, FlightStep(f)
  PROVE  Shape'
<1> USE NoneAssumption DEF Shape, server, store
<1>0. TypeOK /\ HoldersHold /\ OneRefresh /\ issued \in Nat /\ MaxPairs \in Nat
  BY BoundAssumption DEF TypeOK, Stored, Pairs
<1>1. ASSUME NEW next \in {"retry", "clear"}, Returns(f, next), flight[f].pc # "none",
             UNCHANGED <<alarms, access, signedIn, ui, loggedOut>>,
             UNCHANGED <<issued, token>> \/ Rotated(flight[f].pair),
             mislaid' \in SUBSET Pairs,
             refresh' \in {refresh, flight[f].pair},
             flight[f].pair \in 1..issued \/ refresh' = refresh
      PROVE  Shape'
  <2>1. /\ call' \in [Calls -> [pc: {"idle", "sent", "wait", "retry", "clear", "clear2"},
                                flight: Flights \cup {None}]]
        /\ flight' \in [Flights -> [pc: {"none", "read", "post", "save", "save2", "waits"},
                                    pair: Stored]]
        /\ \A g \in Flights : flight'[g].pc = "none"
        /\ slot' = None
        /\ \A c \in Calls : call'[c].pc # "wait"
    BY <1>0, <1>1, ReturnsShape
  <2>2. /\ issued' \in Stored /\ issued' \in {issued, issued + 1}
        /\ token' \in [Pairs -> {"unissued", "live", "spent", "dead"}]
        /\ \A n \in Pairs : token'[n] = "unissued" <=> n > issued'
    BY SMTT(20), <1>0, <1>1 DEF TypeOK, Rotated, Stored, Pairs
  <2>3. refresh' \in 0..issued
    BY <1>0, <1>1 DEF HoldersHold
  <2>4. TypeOK'
    BY <1>0, <1>1, <2>1, <2>2, <2>3 DEF TypeOK, Stored, Pairs
  <2>5. HoldersHold'
    BY <1>0, <1>1, <2>1, <2>2, <2>3 DEF HoldersHold
  <2>6. OneRefresh'
    BY <2>1 DEF OneRefresh
  <2> QED
    BY <2>4, <2>5, <2>6
<1>2. ASSUME NEW next \in {"post", "save", "save2", "waits"}, NEW n \in 1..issued',
             Steps(f, flight[f].pc, next, n), flight[f].pc # "none",
             UNCHANGED <<signedIn, call, slot, ui, loggedOut, refresh>>,
             alarms' \in SUBSET Pairs, mislaid' \in SUBSET Pairs,
             access' \in 0..issued',
             issued' \in Stored, issued' \in {issued, issued + 1},
             token' \in [Pairs -> {"unissued", "live", "spent", "dead"}],
             \A m \in Pairs : token'[m] = "unissued" <=> m > issued'
      PROVE  Shape'
  <2>1. n \in Stored /\ access' \in Stored
    BY <1>0, <1>2 DEF Stored, Pairs
  <2>2. TypeOK'
    BY <1>0, <1>2, <2>1 DEF TypeOK, Steps
  <2>3. HoldersHold'
    BY <1>0, <1>2 DEF HoldersHold, Steps, TypeOK
  <2>4. OneRefresh'
    BY <1>0, <1>2 DEF OneRefresh, Steps, TypeOK
  <2> QED
    BY <2>2, <2>3, <2>4
<1>3. CASE ReadRefreshToken(f)
  <2>1. CASE refresh = 0
    BY <1>0, <1>1, <1>3, <2>1 DEF ReadRefreshToken, TypeOK
  <2>2. CASE refresh # 0
    <3>1. refresh \in 1..issued /\ UNCHANGED <<issued, token, alarms, mislaid, access, refresh>>
      BY <1>0, <1>3, <2>2 DEF ReadRefreshToken, HoldersHold
    <3> QED
      BY <1>0, <1>2, <1>3, <2>2, <3>1 DEF ReadRefreshToken, Steps, TypeOK, HoldersHold
  <2> QED
    BY <2>1, <2>2
<1>4. CASE RefreshAccepted(f)
  <2>3. /\ issued' = issued + 1 /\ issued < MaxPairs
        /\ token' = [token EXCEPT ![flight[f].pair] = "spent", ![issued + 1] = "live"]
        /\ flight[f].pair \in 1..issued
    BY <1>0, <1>4 DEF RefreshAccepted, Rotated, HoldersHold
  <2>4. issued' \in Stored /\ issued' \in 1..issued'
    BY <1>0, <2>3 DEF Stored, Pairs
  <2>1. /\ issued' = issued + 1 /\ issued' \in Stored /\ issued' \in 1..issued'
        /\ token' \in [Pairs -> {"unissued", "live", "spent", "dead"}]
        /\ \A m \in Pairs : token'[m] = "unissued" <=> m > issued'
    BY <1>0, <2>3, <2>4 DEF TypeOK, Pairs
  <2>2. access' \in 0..issued' /\ alarms' \in SUBSET Pairs /\ mislaid' \in SUBSET Pairs
    BY <1>0, <1>4, <2>1 DEF RefreshAccepted, HoldersHold, TypeOK
  <2> QED
    BY <1>0, <1>2, <1>4, <2>1, <2>2 DEF RefreshAccepted, Steps
<1>5. CASE RefreshRejected(f)
  <2>1. flight[f].pair \in 1..issued /\ flight[f].pair \in Pairs /\ issued' = issued
    BY <1>0, <1>5 DEF RefreshRejected, HoldersHold, TypeOK, Stored, Pairs
  <2>2. /\ token' \in [Pairs -> {"unissued", "live", "spent", "dead"}]
        /\ \A m \in Pairs : token'[m] = "unissued" <=> m > issued'
    BY <1>0, <1>5, <2>1 DEF RefreshRejected, TypeOK
  <2>3. /\ alarms' \in SUBSET Pairs /\ mislaid' \in SUBSET Pairs
        /\ access' \in 0..issued' /\ issued' \in Stored
    BY <1>0, <1>5, <2>1 DEF RefreshRejected, TypeOK, HoldersHold
  <2> QED
    BY <1>0, <1>2, <1>5, <2>1, <2>2, <2>3 DEF RefreshRejected, Steps
<1>6. CASE RefreshFails(f)
  <2>1. flight[f].pair \in 1..issued /\ issued \in Stored
    BY <1>0, <1>6 DEF RefreshFails, HoldersHold, TypeOK
  <2>3. flight[f].pair \in Pairs
    BY <1>0, <2>1 DEF Stored, Pairs
  <2>2. mislaid' \in SUBSET Pairs
    BY <1>0, <1>6, <2>3 DEF RefreshFails, TypeOK
  <2> QED
    BY <1>1, <1>6, <2>2 DEF RefreshFails
<1>7. CASE SaveAccess(f)
  <2>1. flight[f].pair \in 1..issued
    BY <1>0, <1>7 DEF SaveAccess, Steps, HoldersHold
  <2>2. /\ UNCHANGED <<issued, token, alarms, mislaid, refresh>>
        /\ flight[f].pc = "save" /\ access' \in 0..issued'
        /\ Steps(f, flight[f].pc, "save2", flight[f].pair)
    BY <1>0, <1>7, <2>1 DEF SaveAccess, Steps
  <2> QED
    BY <1>0, <1>2, <1>7, <2>1, <2>2 DEF SaveAccess, TypeOK
<1>8. CASE SaveRefresh(f)
  <2>1. flight[f].pair \in 1..issued
    BY <1>0, <1>8 DEF SaveRefresh, HoldersHold
  <2> QED
    BY <1>0, <1>1, <1>8, <2>1 DEF SaveRefresh, TypeOK
<1> QED
  BY <1>3, <1>4, <1>5, <1>6, <1>7, <1>8 DEF FlightStep

UiStep ==
  \/ Login \/ LoginSaves \/ LoginSavesRefresh \/ LoginEmits
  \/ Logout \/ LogoutClearsRefresh \/ LogoutEmits
  \/ AppStart
  \/ \E n \in Pairs : RefreshTokenDies(n)

\* The steps of the user, of the app's start and of time.
LEMMA UiShape ==
  ASSUME Shape, UiStep
  PROVE  Shape'
<1> USE NoneAssumption DEF server, store
<1>0. TypeOK /\ HoldersHold /\ OneRefresh /\ issued \in Nat /\ MaxPairs \in Nat /\ 0 \in Stored
  BY BoundAssumption DEF Shape, TypeOK, Stored, Pairs
<1>1. CASE Login
  <2>1. issued + 1 \in Pairs
    BY <1>0, <1>1, BudgetLeaves DEF Login
  <2>2. /\ token' \in [Pairs -> {"unissued", "live", "spent", "dead"}]
        /\ \A n \in Pairs : token'[n] = "unissued" <=> n > issued'
    BY <1>0, <1>1, <2>1 DEF Login, TypeOK, Pairs
  <2>3. TypeOK'
    BY <1>0, <1>1, <2>1, <2>2 DEF Login, TypeOK, Stored
  <2>4. HoldersHold'
    BY <1>0, <1>1 DEF Login, HoldersHold
  <2>5. OneRefresh'
    BY <1>0, <1>1 DEF Login, OneRefresh
  <2> QED
    BY <2>3, <2>4, <2>5 DEF Shape
<1>2. CASE LoginSaves \/ LoginSavesRefresh \/ LoginEmits \/ Logout \/ LogoutClearsRefresh \/ LogoutEmits
  <2>1. /\ access' \in {access, 0} \/ (ui.pc = "login" /\ access' = ui.pair)
        /\ refresh' \in {refresh, 0} \/ (ui.pc = "login2" /\ refresh' = ui.pair)
        /\ signedIn' \in BOOLEAN /\ loggedOut' \in BOOLEAN
        /\ UNCHANGED <<server, call, flight, slot>>
    <3>1. CASE LoginSaves \/ LoginSavesRefresh \/ LoginEmits
      BY <1>0, <3>1 DEF LoginSaves, LoginSavesRefresh, LoginEmits, TypeOK
    <3>2. CASE Logout \/ LogoutClearsRefresh \/ LogoutEmits
      BY <1>0, <3>2 DEF Logout, LogoutClearsRefresh, LogoutEmits, TypeOK
    <3> QED
      BY <1>2, <3>1, <3>2
  <2>8. /\ ui'.pc \in {"idle", "login2", "login3", "logout2", "logout3"}
        /\ ui'.pc = "login2" => ui.pc = "login" /\ ui'.pair = ui.pair
        /\ ui' \in [pc: {"idle", "login2", "login3", "logout2", "logout3"}, pair: {0, ui.pair}]
    BY <1>0, <1>2 DEF LoginSaves, LoginSavesRefresh, LoginEmits, Logout, LogoutClearsRefresh,
       LogoutEmits, IdleUi, TypeOK
  <2>2. access' \in 0..issued /\ refresh' \in 0..issued
    BY <1>0, <2>1 DEF HoldersHold
  <2>3. access' \in Stored /\ refresh' \in Stored
    BY <1>0, <2>2 DEF TypeOK, Stored, Pairs
  <2>4. ui' \in [pc: {"idle", "login", "login2", "login3", "logout2", "logout3"}, pair: Stored]
    BY <1>0, <2>8 DEF TypeOK
  <2>5. TypeOK'
    BY <1>0, <2>1, <2>3, <2>4 DEF TypeOK
  <2>6. HoldersHold'
    BY <1>0, <2>1, <2>2, <2>8 DEF HoldersHold, TypeOK
  <2>7. OneRefresh'
    BY <1>0, <2>1 DEF OneRefresh
  <2> QED
    BY <2>5, <2>6, <2>7 DEF Shape
<1>3. CASE AppStart
  <2>1. /\ IdleCall \in [pc: {"idle", "sent", "wait", "retry", "clear", "clear2"},
                         flight: Flights \cup {None}]
        /\ NoFlight \in [pc: {"none", "read", "post", "save", "save2", "waits"}, pair: Stored]
        /\ IdleUi \in [pc: {"idle", "login", "login2", "login3", "logout2", "logout3"}, pair: Stored]
    BY <1>0 DEF IdleCall, NoFlight, IdleUi
  <2>4. mislaid' \in SUBSET Pairs
    BY <1>0, <1>3 DEF AppStart, TypeOK, Stored
  <2>2. TypeOK'
    BY <1>0, <1>3, <2>1, <2>4 DEF AppStart, TypeOK
  <2>3. HoldersHold' /\ OneRefresh'
    BY <1>0, <1>3 DEF AppStart, HoldersHold, OneRefresh, IdleCall, NoFlight, IdleUi
  <2> QED
    BY <2>2, <2>3 DEF Shape
<1>4. ASSUME NEW n \in Pairs, RefreshTokenDies(n)
      PROVE  Shape'
  <2>1. /\ token' \in [Pairs -> {"unissued", "live", "spent", "dead"}]
        /\ \A m \in Pairs : token'[m] = "unissued" <=> m > issued'
        /\ UNCHANGED <<issued, alarms, mislaid, store, signedIn, call, flight, slot, ui, loggedOut>>
    BY <1>0, <1>4 DEF RefreshTokenDies, TypeOK
  <2>2. TypeOK'
    BY <1>0, <2>1 DEF TypeOK
  <2>3. HoldersHold' /\ OneRefresh'
    BY <1>0, <2>1 DEF HoldersHold, OneRefresh
  <2> QED
    BY <2>2, <2>3 DEF Shape
<1> QED
  BY <1>1, <1>2, <1>3, <1>4 DEF UiStep

\* A step that does nothing.
LEMMA StutterShape == Shape /\ UNCHANGED vars => Shape'
  BY DEF Shape, TypeOK, HoldersHold, OneRefresh, vars, server, store

\* Every step of the specification preserves the shape.
LEMMA StepShape == Shape /\ [Next]_vars => Shape'
  BY CallShape, FlightShape, UiShape, StutterShape DEF Next, UiStep

\* The shape is an invariant.
LEMMA Shaped == Spec => []Shape
<1>1. Init => Shape
  BY InitShape
<1> QED
  BY <1>1, StepShape, PTL DEF Spec

\* Every variable keeps its type, and _refreshInFlight names a future at work.
THEOREM TypeCorrect == Spec => []TypeOK
<1>1. Shape => TypeOK
  BY DEF Shape
<1> QED
  BY <1>1, Shaped, PTL

\* However many calls are answered 401 together, one refresh is in flight and
\* every call that waits awaits it, even when answers are lost.
THEOREM RefreshIsShared == Spec => []OneRefresh
<1>1. Shape => OneRefresh
  BY DEF Shape
<1> QED
  BY <1>1, Shaped, PTL

-----------------------------------------------------------------------------
(* What the app presents and what it stores. *)

\* A step of a call stores nothing but the absence of a token.
LEMMA CallFresh ==
  ASSUME Shape, Fresh, NEW c \in Calls, Send(c) \/ CallStep(c)
  PROVE  Fresh'
<1> USE DEF server, store
<1>1. UNCHANGED <<issued, token, alarms, mislaid, ui>> /\ refresh' \in {refresh, 0}
  BY DEF Send, CallStep, Answered, Unauthorized, Retry, ClearAccess, ClearRefresh
<1>2. flight' = flight \/ \E f \in Flights : Starts(f)
  BY DEF Send, CallStep, Answered, Unauthorized, JoinOrStart, Retry, ClearAccess, ClearRefresh
<1>3. \A f \in Flights : flight'[f] = flight[f]
                            \/ (flight[f].pc = "none" /\ flight'[f].pc = "read")
  BY <1>2 DEF Starts, Shape, TypeOK
<1>4. ui.pc \in {"login", "login2"} => ui.pair # 0
  BY DEF Shape, HoldersHold
<1>6. ui.pc \in {"login", "login2"} =>
         /\ Unspent(ui.pair) /\ refresh' # ui.pair
         /\ \A f \in Flights : flight'[f].pc \in {"none", "read"} \/ flight'[f].pair # ui.pair
  BY <1>1, <1>3, <1>4 DEF Fresh, Unspent
<1>7. \A f \in Flights : flight'[f].pc \in {"post", "save", "save2"} => Usable(flight'[f].pair)
  BY <1>3 DEF Fresh
<1>8. refresh' # 0 /\ ~Saving' => Usable(refresh')
  BY <1>1, <1>3 DEF Fresh, Saving, Usable
<1> QED
  BY <1>1, <1>6, <1>7, <1>8 DEF Fresh, NoFalseAlarm, Unspent, Usable

\* A refresh presents a token the server has not rotated, or a mislaid one, and
\* rotates no other.
LEMMA FlightFresh ==
  ASSUME Shape, Fresh, NEW f \in Flights, FlightStep(f)
  PROVE  Fresh'
<1> USE DEF server, store, Unspent, Usable
<1>0. /\ TypeOK /\ HoldersHold /\ OneRefresh /\ issued \in Nat
      /\ flight[f].pc # "none"
      /\ \A g \in Flights : g # f => flight[g].pc = "none"
  BY NoneAssumption DEF Shape, OneRefresh, TypeOK, Stored, Pairs, FlightStep,
     ReadRefreshToken, RefreshAccepted, RefreshRejected, RefreshFails, SaveAccess,
     SaveRefresh, Steps
<1>1. ui.pc \in {"login", "login2"} =>
        ui.pair \in 1..issued /\ (flight[f].pc = "read" \/ flight[f].pair # ui.pair)
  BY <1>0 DEF HoldersHold, Fresh
<1>2. CASE ReadRefreshToken(f)
  <2>1. CASE refresh = 0
    <3>1. UNCHANGED <<alarms, mislaid, token, refresh, ui>>
      BY <1>2 DEF ReadRefreshToken
    <3>2. flight' = [flight EXCEPT ![f] = NoFlight]
      BY <1>2, <2>1 DEF ReadRefreshToken, Returns
    <3>3. \A g \in Flights : flight'[g].pc = "none"
      BY <1>0, <3>2 DEF NoFlight, TypeOK
    <3> QED
      BY <2>1, <3>1, <3>3 DEF Fresh, NoFalseAlarm
  <2>2. CASE refresh # 0
    <3>1. Usable(refresh)
      BY <1>0, <1>2, <2>2 DEF ReadRefreshToken, Fresh, Saving
    <3> QED
      BY <1>0, <1>2, <2>2, <3>1 DEF ReadRefreshToken, Steps, Fresh, Saving, NoFalseAlarm, TypeOK
  <2> QED
    BY <2>1, <2>2
<1>3. CASE RefreshAccepted(f)
  <2>1. /\ flight[f].pair \in 1..issued /\ issued + 1 \in Pairs /\ flight[f].pair \in Pairs
        /\ token'[issued + 1] = "live"
        /\ \A n \in 1..issued : n # flight[f].pair => token'[n] = token[n]
    BY <1>0, <1>3, BoundAssumption DEF RefreshAccepted, Rotated, HoldersHold, TypeOK, Stored, Pairs
  <2>2. /\ flight'[f] = [pc |-> "save", pair |-> issued + 1]
        /\ \A g \in Flights : g # f => flight'[g].pc = "none"
        /\ UNCHANGED <<alarms, mislaid, refresh, ui>>
    BY <1>0, <1>3 DEF RefreshAccepted, Steps, TypeOK
  <2>3. ui.pc \in {"login", "login2"} =>
          /\ token'[ui.pair] \in {"live", "dead"} /\ refresh # ui.pair /\ ui.pair # issued + 1
    BY <1>0, <1>1, <1>3, <2>1 DEF RefreshAccepted, Fresh
  <2> QED
    BY <2>1, <2>2, <2>3 DEF Fresh, Saving, NoFalseAlarm
<1>4. CASE RefreshRejected(f)
  <2>1. token[flight[f].pair] = "spent" => flight[f].pair \in mislaid
    BY <1>4 DEF RefreshRejected, Fresh
  <2>2. /\ UNCHANGED <<mislaid, refresh, ui>>
        /\ \A n \in Pairs : token[n] \in {"live", "dead"} => token'[n] \in {"live", "dead"}
    BY <1>4 DEF RefreshRejected
  <2>5. alarms' \subseteq mislaid'
    BY <1>4, <2>1, <2>2 DEF RefreshRejected, Fresh, NoFalseAlarm
  <2>6. /\ refresh # 0 => refresh \in Pairs
        /\ ui.pc \in {"login", "login2"} => ui.pair \in Pairs
    BY <1>0, <1>1 DEF TypeOK, Stored, HoldersHold, Pairs
  <2>3. /\ flight'[f] = [pc |-> "waits", pair |-> flight[f].pair]
        /\ \A g \in Flights : g # f => flight'[g] = flight[g]
    BY <1>0, <1>4 DEF RefreshRejected, Steps, TypeOK
  <2>4. flight[f].pc = "post"
    BY <1>4 DEF RefreshRejected
  <2> QED
    BY <1>0, <1>1, <2>2, <2>3, <2>4, <2>5, <2>6 DEF Fresh, Saving, NoFalseAlarm
<1>5. CASE SaveAccess(f)
  <2>1. /\ flight[f].pc = "save" /\ flight'[f] = [pc |-> "save2", pair |-> flight[f].pair]
        /\ \A g \in Flights : g # f => flight'[g] = flight[g]
        /\ UNCHANGED <<alarms, mislaid, token, refresh, ui>>
    BY <1>0, <1>5 DEF SaveAccess, Steps, TypeOK
  <2> QED
    BY <1>0, <1>1, <2>1 DEF Fresh, Saving, NoFalseAlarm
<1>6. CASE SaveRefresh(f)
  <2>1. /\ flight[f].pc = "save2" /\ refresh' = flight[f].pair
        /\ \A g \in Flights : flight'[g].pc = "none"
        /\ UNCHANGED <<alarms, mislaid, token, ui>>
    BY <1>0, <1>6 DEF SaveRefresh, Returns, NoFlight, TypeOK
  <2> QED
    BY <1>0, <1>1, <2>1 DEF Fresh, NoFalseAlarm
<1>7. CASE RefreshFails(f)
  <2>1. /\ flight' = [flight EXCEPT ![f] = NoFlight]
        /\ UNCHANGED <<alarms, refresh, ui>> /\ mislaid \subseteq mislaid'
    BY <1>7 DEF RefreshFails, Returns
  <2>2. \A g \in Flights : flight'[g].pc = "none"
    BY <1>0, <2>1 DEF NoFlight, TypeOK
  <2>3. refresh # 0 => Usable(refresh) /\ refresh \in 1..issued
    BY <1>0, <1>7 DEF RefreshFails, Fresh, Saving, HoldersHold
  <2>4. \A n \in 1..issued : token'[n] = token[n] \/ (n = flight[f].pair /\ n \in mislaid')
    <3>1. CASE UNCHANGED <<issued, token, mislaid>>
      BY <3>1
    <3>2. CASE Rotated(flight[f].pair) /\ mislaid' = mislaid \cup {flight[f].pair}
      <4>1. token' = [token EXCEPT ![flight[f].pair] = "spent", ![issued + 1] = "live"]
        BY <3>2 DEF Rotated
      <4>2. \A n \in 1..issued : n \in Pairs /\ n # issued + 1
        BY <1>0, BoundAssumption DEF TypeOK, Stored, Pairs
      <4> QED
        BY <1>0, <3>2, <4>1, <4>2 DEF TypeOK
    <3> QED
      BY <1>7, <3>1, <3>2 DEF RefreshFails
  <2>5. flight[f].pc = "post"
    BY <1>7 DEF RefreshFails
  <2>6. ui.pc \in {"login", "login2"} => Unspent(ui.pair)'
    BY <1>1, <2>1, <2>4, <2>5 DEF Fresh
  <2>7. refresh' # 0 => Usable(refresh)'
    BY <2>1, <2>3, <2>4
  <2>8. NoFalseAlarm'
    BY <2>1 DEF Fresh, NoFalseAlarm
  <2>9. ui.pc \in {"login", "login2"} => refresh # ui.pair
    BY DEF Fresh
  <2> QED
    BY <2>1, <2>2, <2>6, <2>7, <2>8, <2>9 DEF Fresh
<1> QED
  BY <1>2, <1>3, <1>4, <1>5, <1>6, <1>7 DEF FlightStep

\* A login brings a pair of its own, and what a kill keeps from being stored is
\* mislaid.
LEMMA UiFresh ==
  ASSUME Shape, Fresh, UiStep
  PROVE  Fresh'
<1> USE DEF server, store, Unspent, Usable
<1>0. TypeOK /\ HoldersHold /\ issued \in Nat /\ MaxPairs \in Nat /\ issued <= MaxPairs
  BY BoundAssumption DEF Shape, TypeOK, Stored, Pairs
<1>5. /\ ui.pc \in {"login", "login2"} => ui.pair \in Pairs
      /\ \A f \in Flights : flight[f].pc \in {"post", "save", "save2"} =>
                               flight[f].pair \in Pairs /\ flight[f].pair # issued + 1
      /\ refresh # 0 => refresh \in Pairs
  BY <1>0 DEF HoldersHold, Pairs
<1>1. CASE Login
  <2>1. issued + 1 \in Pairs
    BY <1>0, <1>1, BudgetLeaves DEF Login
  <2>2. /\ token'[issued + 1] = "live"
        /\ \A n \in Pairs : n # issued + 1 => token'[n] = token[n]
        /\ ui' = [pc |-> "login", pair |-> issued + 1]
        /\ UNCHANGED <<alarms, mislaid, refresh, flight>>
    BY <1>0, <1>1, <2>1 DEF Login, TypeOK
  <2>3. /\ refresh # issued + 1
        /\ \A f \in Flights : flight[f].pc \in {"none", "read"} \/ flight[f].pair # issued + 1
    BY <1>0 DEF HoldersHold
  <2> QED
    BY <1>5, <2>2, <2>3 DEF Fresh, Saving, NoFalseAlarm
<1>2. CASE LoginSaves \/ LoginSavesRefresh \/ LoginEmits \/ Logout \/ LogoutClearsRefresh \/ LogoutEmits
  <2>1. /\ refresh' \in {refresh, 0} \/ (ui.pc = "login2" /\ refresh' = ui.pair)
        /\ UNCHANGED <<alarms, mislaid, token, flight>>
    BY <1>2 DEF LoginSaves, LoginSavesRefresh, LoginEmits, Logout, LogoutClearsRefresh, LogoutEmits
  <2>2. \/ ui'.pc \notin {"login", "login2"}
        \/ ui.pc = "login" /\ ui'.pair = ui.pair /\ refresh' = refresh
    BY <1>0, <1>2 DEF LoginSaves, LoginSavesRefresh, LoginEmits, Logout, LogoutClearsRefresh,
       LogoutEmits, IdleUi, TypeOK
  <2> QED
    BY <2>1, <2>2 DEF Fresh, Saving, NoFalseAlarm
<1>3. CASE AppStart
  <2>1. \A f \in Flights : flight'[f].pc = "none"
    BY <1>3 DEF AppStart, NoFlight
  <2>2. /\ ui' = IdleUi /\ UNCHANGED <<alarms, token, refresh>> /\ mislaid \subseteq mislaid'
        /\ Saving /\ refresh # 0 => refresh \in mislaid'
    BY <1>3 DEF AppStart
  <2>3. refresh' # 0 => Usable(refresh)'
    BY <2>2 DEF Fresh
  <2>4. NoFalseAlarm'
    BY <2>2 DEF Fresh, NoFalseAlarm
  <2> QED
    BY <2>1, <2>2, <2>3, <2>4 DEF Fresh, IdleUi
<1>4. ASSUME NEW n \in Pairs, RefreshTokenDies(n)
      PROVE  Fresh'
  <2>1. /\ \A m \in Pairs : token[m] \in {"live", "dead"} => token'[m] \in {"live", "dead"}
        /\ UNCHANGED <<alarms, mislaid, refresh, flight, ui>>
    BY <1>0, <1>4 DEF RefreshTokenDies, TypeOK
  <2> QED
    BY <1>5, <2>1 DEF Fresh, Saving, NoFalseAlarm
<1> QED
  BY <1>1, <1>2, <1>3, <1>4 DEF UiStep

\* Every step preserves what is fresh.
LEMMA StepFresh == Shape /\ Fresh /\ [Next]_vars => Fresh'
<1>1. Fresh /\ UNCHANGED vars => Fresh'
  BY DEF Fresh, Saving, NoFalseAlarm, Unspent, Usable, vars, server, store
<1> QED
  BY <1>1, CallFresh, FlightFresh, UiFresh DEF Next, UiStep

\* The app presents no refresh token twice, which would set off the server's theft
\* detection, but one whose successor was lost on its way to the storage, whatever
\* the overlap of calls, logins, logouts and kills.
THEOREM NeverReplays == Spec => []NoFalseAlarm
<1>1. Init => Fresh
  BY InitShape
<1>2. Shape /\ Fresh /\ [Next]_vars => Fresh'
  BY StepFresh
<1>3. Fresh => NoFalseAlarm
  BY DEF Fresh
<1> QED
  BY <1>1, <1>2, <1>3, Shaped, PTL DEF Spec

\* Nothing has killed a refresh token: none has ended by itself, none was taken for
\* stolen.
NoneDead == \A n \in Pairs : token[n] # "dead"
Lasting  == SessionsEnd \/ alarms # {} \/ NoneDead

\* With sessions that do not end by themselves, an alarm comes before a dead token.
LEMMA StepAlive == Shape /\ Fresh /\ Lasting /\ [Next]_vars => Lasting'
<1> SUFFICES ASSUME ~SessionsEnd, Shape, Fresh, Lasting, [Next]_vars PROVE Lasting'
  BY DEF Lasting
<1> USE DEF server, store, NoneDead, Lasting
<1>1. ASSUME NEW c \in Calls, Send(c) \/ CallStep(c) PROVE Lasting'
  BY <1>1 DEF Send, CallStep, Answered, Unauthorized, Retry, ClearAccess, ClearRefresh
<1>2. ASSUME NEW f \in Flights, Rotated(flight[f].pair), UNCHANGED alarms PROVE Lasting'
  BY <1>2 DEF Rotated, Shape, TypeOK
<1>3. ASSUME NEW f \in Flights, FlightStep(f) PROVE Lasting'
  <2>1. CASE RefreshAccepted(f)
    BY <1>2, <2>1 DEF RefreshAccepted
  <2>2. CASE RefreshFails(f)
    BY <1>2, <2>2 DEF RefreshFails
  <2>3. CASE RefreshRejected(f)
    <3>1. flight[f].pair \in Pairs
      BY <2>3 DEF RefreshRejected, Shape, HoldersHold, TypeOK, Stored, Pairs
    <3> QED
      BY <2>3, <3>1 DEF RefreshRejected
  <2> QED
    BY <1>3, <2>1, <2>2, <2>3 DEF FlightStep, ReadRefreshToken, SaveAccess, SaveRefresh
<1>4. CASE UiStep
  BY <1>4 DEF UiStep, Login, LoginSaves, LoginSavesRefresh, LoginEmits, Logout,
     LogoutClearsRefresh, LogoutEmits, AppStart, RefreshTokenDies, Shape, TypeOK
<1>5. CASE UNCHANGED vars
  BY <1>5 DEF vars
<1> QED
  BY <1>1, <1>3, <1>4, <1>5 DEF Next, UiStep

\* What the secure storage holds between refreshes is a refresh token the server
\* will accept, unless its session has ended or its successor was lost.
THEOREM StorageIsUsable == Spec => []StoredIsUsable
<1>1. Init => Fresh /\ Lasting
  BY InitShape DEF Init, NoneDead, Lasting
<1>2. Shape /\ Fresh /\ [Next]_vars => Fresh'
  BY StepFresh
<1>3. Shape /\ Fresh /\ Lasting /\ [Next]_vars => Lasting'
  BY StepAlive
<1>4. Shape /\ Fresh /\ Lasting => StoredIsUsable
  <2> SUFFICES ASSUME Shape, Fresh, Lasting, refresh # 0, ~Saving
               PROVE  \/ token[refresh] = "live"
                      \/ token[refresh] = "dead" /\ (SessionsEnd \/ alarms # {})
                      \/ refresh \in mislaid
    BY DEF StoredIsUsable
  <2>1. refresh \in Pairs
    BY DEF Shape, TypeOK, Stored
  <2> QED
    BY <2>1 DEF Fresh, Unspent, Usable, NoneDead, Lasting
<1> QED
  BY <1>1, <1>2, <1>3, <1>4, Shaped, PTL DEF Spec

-----------------------------------------------------------------------------
(***************************************************************************)
(* WebSession, for any number of requests and exchanges.                   *)
(*                                                                         *)
(* The invariant says where a pair that the server has rotated may still be: *)
(* in storage while the answer that replaces it is awaited, and where a    *)
(* reload has cut that answer off.                                         *)
(***************************************************************************)

ExchangeRecs == [pc: {"none", "post", "answered", "failed"}, pair: Held, next: Held]
FetchRecs    == [pc: {"idle", "sent", "wait", "retry"}, on: Exchanges \cup {NoExchange}]

\* What the tab holds was issued.
WebHolders ==
  /\ session \in 0..webIssued /\ signIn \in 0..webIssued
  /\ \A x \in Exchanges :
       /\ exchange[x].pc # "none" => exchange[x].pair \in 1..webIssued
       /\ exchange[x].pc = "answered" => exchange[x].next \in 1..webIssued
  /\ \A c \in Fetches : fetch[c].pc = "wait" => fetch[c].on \in Exchanges

Spent(n) == webToken[n] = "spent"

\* Where a rotated token may still be: in storage, while the answer that replaces
\* it is awaited, and where a reload has cut that answer off.
WebFresh ==
  /\ signIn # 0 =>
       /\ ~Spent(signIn) /\ session # signIn
       /\ \A x \in Exchanges :
            /\ exchange[x].pc # "none" => exchange[x].pair # signIn
            /\ exchange[x].pc = "answered" => exchange[x].next # signIn
  /\ \A x \in Exchanges :
       /\ exchange[x].pc = "answered" => ~Spent(exchange[x].next)
       /\ exchange[x].pc = "post" /\ Spent(exchange[x].pair) => exchange[x].pair \in interrupted
  /\ session # 0 /\ Spent(session) =>
       \/ session \in interrupted
       \/ \E x \in Exchanges : exchange[x].pc \in {"answered", "failed"} /\ exchange[x].pair = session

WebInv == WebTypeOK /\ WebHolders /\ WebFresh /\ PortalRefreshSound

\* A tab opens with nothing, or with a pair of before.
LEMMA WebInitInv == WebInit => WebInv
<1> SUFFICES ASSUME WebInit PROVE WebInv
  OBVIOUS
<1> USE ExchangeAssumption, WebBoundAssumption DEF WebPairs, Held
<1>1. WebTypeOK
  BY DEF WebInit, WebTypeOK, IdleFetch, NoPromise
<1>2. WebHolders
  BY DEF WebInit, WebHolders, IdleFetch, NoPromise
<1>3. WebFresh
  BY DEF WebInit, WebFresh, NoPromise
<1>4. PortalRefreshSound
  BY DEF WebInit, PortalRefreshSound, IdleFetch, NoPromise
<1>. QED
  BY <1>1, <1>2, <1>3, <1>4 DEF WebInv

\* What every proof below needs of the types.
LEMMA WebTypes ==
  ASSUME WebInv
  PROVE  /\ webIssued \in Nat /\ webIssued \in 0..MaxWebPairs /\ MaxWebPairs \in Nat
         /\ webToken \in [WebPairs -> {"unissued", "live", "spent", "dead"}]
         /\ exchange \in [Exchanges -> ExchangeRecs] /\ fetch \in [Fetches -> FetchRecs]
         /\ IdleFetch \in FetchRecs /\ NoPromise \in ExchangeRecs
         /\ \A n \in 1..webIssued : n \in WebPairs
BY ExchangeAssumption, WebBoundAssumption
   DEF WebInv, WebTypeOK, ExchangeRecs, FetchRecs, IdleFetch, NoPromise, Held, WebPairs

\* There is one exchange at most.
LEMMA OneExchange ==
  ASSUME WebInv, NEW x \in Exchanges, exchange[x].pc # "none"
  PROVE  inFlight = x /\ \A y \in Exchanges : y # x => exchange[y].pc = "none"
BY DEF WebInv, PortalRefreshSound

\* A rotation spends one token and issues a new one.
LEMMA RotatesIs ==
  ASSUME WebInv, NEW n \in 1..webIssued, Rotates(n)
  PROVE  /\ webIssued' = webIssued + 1 /\ webIssued' \in WebPairs
         /\ webToken' \in [WebPairs -> {"unissued", "live", "spent", "dead"}]
         /\ webToken'[n] = "spent" /\ webToken'[webIssued + 1] = "live"
         /\ \A m \in 1..webIssued : m # n => webToken'[m] = webToken[m]
BY SMTT(20), WebTypes, WebBoundAssumption DEF Rotates, WebPairs, Spent

\* An exchange that goes on to another step.
LEMMA StepsIs ==
  ASSUME WebInv, NEW x \in Exchanges, NEW pc \in {"answered", "failed"}, NEW next \in Held,
         exchange' = [exchange EXCEPT ![x] = [exchange[x] EXCEPT !.pc = pc, !.next = next]]
  PROVE  /\ exchange' \in [Exchanges -> ExchangeRecs]
         /\ exchange'[x].pc = pc /\ exchange'[x].next = next /\ exchange'[x].pair = exchange[x].pair
         /\ \A y \in Exchanges : y # x => exchange'[y] = exchange[y]
<1> DEFINE q == [exchange[x] EXCEPT !.pc = pc, !.next = next]
<1>1. q \in ExchangeRecs /\ q.pc = pc /\ q.next = next /\ q.pair = exchange[x].pair
  BY WebTypes DEF ExchangeRecs
<1>. QED
  BY <1>1, WebTypes

\* The server rotates a pair: the answer is the one fresh pair.
LEMMA StepAccepted ==
  ASSUME WebInv, NEW x \in Exchanges, ExchangeAccepted(x)
  PROVE  WebInv'
<1> DEFINE n == exchange[x].pair
<1>1. /\ exchange[x].pc = "post" /\ inFlight = x /\ n \in 1..webIssued /\ Rotates(n)
      /\ \A y \in Exchanges : y # x => exchange[y].pc = "none"
      /\ UNCHANGED <<replayed, interrupted, page, fetch, inFlight, signIn>>
  BY OneExchange DEF ExchangeAccepted, WebInv, WebHolders
<1>2. /\ webIssued' = webIssued + 1 /\ webIssued' \in WebPairs
      /\ webToken' \in [WebPairs -> {"unissued", "live", "spent", "dead"}]
      /\ webToken'[n] = "spent" /\ webToken'[webIssued + 1] = "live"
      /\ \A m \in 1..webIssued : m # n => webToken'[m] = webToken[m]
  BY <1>1, RotatesIs
<1>3. exchange' = [exchange EXCEPT ![x] = [exchange[x] EXCEPT !.pc = "answered", !.next = webIssued + 1]]
  BY WebTypes DEF ExchangeAccepted
<1>4. webIssued + 1 \in Held
  BY <1>2 DEF Held
<1>5. /\ exchange' \in [Exchanges -> ExchangeRecs]
      /\ exchange'[x].pc = "answered" /\ exchange'[x].next = webIssued + 1 /\ exchange'[x].pair = n
      /\ \A y \in Exchanges : y # x => exchange'[y] = exchange[y]
  BY <1>3, <1>4, StepsIs
<1>6. WebTypeOK'
  BY <1>1, <1>2, <1>5 DEF WebInv, WebTypeOK, page, ExchangeRecs, Held, WebPairs
<1>7. WebHolders'
  BY <1>1, <1>2, <1>5, WebTypes DEF WebInv, WebHolders, page
<1>8. WebFresh'
  <2>1. signIn' # 0 => ~Spent(signIn)' /\ signIn' \in 1..webIssued /\ signIn' # n
    BY <1>1, <1>2 DEF WebInv, WebFresh, WebHolders, Spent
  <2>2. session' # 0 /\ Spent(session)' => session' = n \/ (session' = session /\ Spent(session))
    BY <1>1, <1>2 DEF WebInv, WebHolders, Spent, page
  <2>3. \A y \in Exchanges : exchange'[y].pc # "none" => y = x
    BY <1>1, <1>5
  <2>4. ~Spent(exchange[x].next)'
    BY <1>2, <1>5 DEF Spent
  <2>5. signIn' # 0 => session' # signIn' /\ exchange'[x].pair # signIn' /\ exchange'[x].next # signIn'
    BY <1>1, <1>5, <2>1, WebTypes DEF WebInv, WebFresh, page
  <2>6. session' # 0 /\ Spent(session)' => session' \in interrupted' \/ exchange'[x].pair = session'
    BY <1>1, <1>5, <2>2 DEF WebInv, WebFresh, page
  <2>. QED
    BY <1>1, <1>5, <2>1, <2>3, <2>4, <2>5, <2>6 DEF WebFresh, page
<1>9. PortalRefreshSound'
  BY <1>1, <1>5 DEF WebInv, PortalRefreshSound, page
<1>. QED
  BY <1>6, <1>7, <1>8, <1>9 DEF WebInv

\* A refused pair is spent already or its session has ended.
LEMMA StepRefused ==
  ASSUME WebInv, NEW x \in Exchanges, ExchangeRefused(x)
  PROVE  WebInv'
<1> DEFINE n == exchange[x].pair
<1>1. /\ exchange[x].pc = "post" /\ inFlight = x /\ n \in 1..webIssued /\ n \in WebPairs
      /\ \A y \in Exchanges : y # x => exchange[y].pc = "none"
      /\ UNCHANGED <<webIssued, interrupted, page, fetch, inFlight, signIn>>
  BY OneExchange, WebTypes DEF ExchangeRefused, WebInv, WebHolders
<1>2. exchange' = [exchange EXCEPT ![x] = [exchange[x] EXCEPT !.pc = "failed", !.next = exchange[x].next]]
  <2>1. [exchange[x] EXCEPT !.pc = "failed"] = [exchange[x] EXCEPT !.pc = "failed", !.next = exchange[x].next]
    BY WebTypes DEF ExchangeRecs
  <2>2. exchange' = [exchange EXCEPT ![x] = [exchange[x] EXCEPT !.pc = "failed"]]
    BY WebTypes DEF ExchangeRefused
  <2>. QED
    BY <2>1, <2>2
<1>3. /\ exchange' \in [Exchanges -> ExchangeRecs]
      /\ exchange'[x].pc = "failed" /\ exchange'[x].pair = n
      /\ \A y \in Exchanges : y # x => exchange'[y] = exchange[y]
  <2>1. exchange[x].next \in Held
    BY WebTypes DEF ExchangeRecs
  <2>. QED
    BY <1>2, <2>1, StepsIs
<1>4. /\ webToken' \in [WebPairs -> {"unissued", "live", "spent", "dead"}]
      /\ \A m \in WebPairs : Spent(m)' <=> Spent(m)
      /\ replayed' = replayed \/ (replayed' = replayed \cup {n} /\ Spent(n))
  <2>1. CASE webToken[n] = "spent" /\ replayed' = replayed \cup {n}
             /\ webToken' = [m \in WebPairs |-> IF webToken[m] = "live" THEN "dead" ELSE webToken[m]]
    BY <2>1, WebTypes DEF Spent
  <2>2. CASE UNCHANGED <<replayed, webToken>>
    BY <2>2, WebTypes DEF Spent
  <2>. QED
    BY <2>1, <2>2 DEF ExchangeRefused
<1>5. WebTypeOK'
  BY <1>1, <1>3, <1>4 DEF WebInv, WebTypeOK, page, ExchangeRecs
<1>6. WebHolders'
  BY <1>1, <1>3 DEF WebInv, WebHolders, page
<1>7. WebFresh'
  <2>1. session \in 1..webIssued \/ session = 0
    BY WebTypes DEF WebInv, WebHolders
  <2>2. signIn \in 1..webIssued \/ signIn = 0
    BY WebTypes DEF WebInv, WebHolders
  <2>3. (session # 0 => (Spent(session)' <=> Spent(session))) /\ (signIn # 0 => (Spent(signIn)' <=> Spent(signIn)))
    BY <1>1, <1>4, <2>1, <2>2, WebTypes DEF page, Spent
  <2>. QED
    BY <1>1, <1>3, <2>3 DEF WebInv, WebFresh, page
<1>8. PortalRefreshSound'
  <2>1. replayed' \subseteq interrupted'
    BY <1>1, <1>4 DEF WebInv, WebFresh, PortalRefreshSound
  <2>. QED
    BY <1>1, <1>3, <2>1 DEF WebInv, PortalRefreshSound, page
<1>. QED
  BY <1>5, <1>6, <1>7, <1>8 DEF WebInv

\* An answer that does not come leaves what the server did with the pair unknown.
LEMMA StepLost ==
  ASSUME WebInv, NEW x \in Exchanges, ExchangeLost(x)
  PROVE  WebInv'
<1> DEFINE n == exchange[x].pair
<1>1. /\ exchange[x].pc \in {"post", "answered"} /\ inFlight = x /\ n \in 1..webIssued
      /\ \A y \in Exchanges : y # x => exchange[y].pc = "none"
      /\ UNCHANGED <<replayed, interrupted, page, fetch, inFlight, signIn>>
      /\ UNCHANGED <<webIssued, webToken>> \/ Rotates(n)
  BY OneExchange DEF ExchangeLost, WebInv, WebHolders
<1>2. /\ webIssued' \in {webIssued, webIssued + 1} /\ webIssued' \in Held
      /\ webToken' \in [WebPairs -> {"unissued", "live", "spent", "dead"}]
      /\ \A m \in 1..webIssued : m # n => webToken'[m] = webToken[m]
  <2>1. CASE Rotates(n)
    BY <1>1, <2>1, RotatesIs DEF Held
  <2>2. CASE UNCHANGED <<webIssued, webToken>>
    BY <2>2, WebTypes DEF Held, WebPairs
  <2>. QED
    BY <1>1, <2>1, <2>2
<1>3. exchange' = [exchange EXCEPT ![x] = [exchange[x] EXCEPT !.pc = "failed", !.next = exchange[x].next]]
  <2>1. [exchange[x] EXCEPT !.pc = "failed"] = [exchange[x] EXCEPT !.pc = "failed", !.next = exchange[x].next]
    BY WebTypes DEF ExchangeRecs
  <2>2. exchange' = [exchange EXCEPT ![x] = [exchange[x] EXCEPT !.pc = "failed"]]
    BY WebTypes DEF ExchangeLost
  <2>. QED
    BY <2>1, <2>2
<1>4. /\ exchange' \in [Exchanges -> ExchangeRecs]
      /\ exchange'[x].pc = "failed" /\ exchange'[x].pair = n
      /\ \A y \in Exchanges : y # x => exchange'[y] = exchange[y]
  <2>1. exchange[x].next \in Held
    BY WebTypes DEF ExchangeRecs
  <2>. QED
    BY <1>3, <2>1, StepsIs
<1>5. WebTypeOK'
  BY <1>1, <1>2, <1>4 DEF WebInv, WebTypeOK, page, ExchangeRecs
<1>6. WebHolders'
  BY <1>1, <1>2, <1>4, WebTypes DEF WebInv, WebHolders, page
<1>7. WebFresh'
  <2>1. session \in 0..webIssued /\ signIn \in 0..webIssued
    BY DEF WebInv, WebHolders
  <2>2. session # 0 /\ session # n => (Spent(session)' <=> Spent(session))
    BY <1>1, <1>2, <2>1, WebTypes DEF page, Spent
  <2>3. signIn # 0 => signIn # n /\ (Spent(signIn)' <=> Spent(signIn))
    BY <1>1, <1>2, <2>1, WebTypes DEF WebInv, WebFresh, Spent
  <2>. QED
    BY <1>1, <1>4, <2>2, <2>3 DEF WebInv, WebFresh, page
<1>8. PortalRefreshSound'
  BY <1>1, <1>4 DEF WebInv, PortalRefreshSound, page
<1>. QED
  BY <1>5, <1>6, <1>7, <1>8 DEF WebInv

\* The promise settles, and nothing waits any more.
LEMMA SettlesIs ==
  ASSUME WebInv, NEW x \in Exchanges, exchange[x].pc # "none", NEW pc \in {"retry", "idle"}, Settles(x, pc),
         NEW held, Adopts(x, held)
  PROVE  /\ exchange' \in [Exchanges -> ExchangeRecs] /\ \A y \in Exchanges : exchange'[y].pc = "none"
         /\ inFlight' = NoExchange
         /\ fetch' \in [Fetches -> FetchRecs] /\ \A c \in Fetches : fetch'[c].pc # "wait"
         /\ restoring' = NoExchange /\ status' \in {"authenticated", "anonymous"}
<1>1. inFlight = x /\ \A y \in Exchanges : y # x => exchange[y].pc = "none"
  BY OneExchange
<1>2. exchange' \in [Exchanges -> ExchangeRecs] /\ \A y \in Exchanges : exchange'[y].pc = "none"
  BY <1>1, WebTypes DEF Settles, NoPromise
<1>3. fetch' \in [Fetches -> FetchRecs] /\ \A c \in Fetches : fetch'[c].pc # "wait"
  <2>1. \A c \in Fetches : fetch'[c] = IF c \notin Waits(x) THEN fetch[c] ELSE [pc |-> pc, on |-> NoExchange]
    BY DEF Settles
  <2>2. [pc |-> pc, on |-> NoExchange] \in FetchRecs
    BY DEF FetchRecs
  <2>3. \A c \in Fetches : c \notin Waits(x) => fetch[c].pc # "wait"
    BY <1>1 DEF Waits, WebInv, PortalRefreshSound
  <2>. QED
    BY <2>1, <2>2, <2>3, WebTypes DEF Settles
<1>4. restoring' = NoExchange /\ status' \in {"authenticated", "anonymous"}
  BY <1>1 DEF Adopts, WebInv, WebTypeOK, PortalRefreshSound
<1>. QED
  BY <1>2, <1>3, <1>4 DEF Settles

\* The answer is stored, or the failure takes the pair away.
LEMMA StepSettles ==
  ASSUME WebInv, NEW x \in Exchanges, StorePair(x) \/ Fail(x)
  PROVE  WebInv'
<1> DEFINE n == IF exchange[x].pc = "answered" THEN exchange[x].next ELSE 0
<1>1. /\ exchange[x].pc \in {"answered", "failed"} /\ memory' = n /\ session' = n
      /\ UNCHANGED <<webServer, interrupted, signIn>>
  BY DEF StorePair, Fail
<1>2. /\ exchange' \in [Exchanges -> ExchangeRecs] /\ \A y \in Exchanges : exchange'[y].pc = "none"
      /\ inFlight' = NoExchange
      /\ fetch' \in [Fetches -> FetchRecs] /\ \A c \in Fetches : fetch'[c].pc # "wait"
      /\ restoring' = NoExchange /\ status' \in {"authenticated", "anonymous"}
  BY <1>1, SettlesIs DEF StorePair, Fail
<1>3. n \in 0..webIssued /\ n \in Held /\ (n # 0 => ~Spent(n) /\ (signIn # 0 => n # signIn))
  BY WebTypes DEF WebInv, WebHolders, WebFresh, Held
<1>4. WebTypeOK'
  BY <1>1, <1>2, <1>3 DEF WebInv, WebTypeOK, webServer, ExchangeRecs, FetchRecs
<1>5. WebHolders'
  BY <1>1, <1>2, <1>3 DEF WebInv, WebHolders, webServer
<1>6. WebFresh'
  BY <1>1, <1>2, <1>3 DEF WebInv, WebFresh, Spent, webServer
<1>7. PortalRefreshSound'
  BY <1>1, <1>2, ExchangeAssumption DEF WebInv, PortalRefreshSound, webServer
<1>. QED
  BY <1>4, <1>5, <1>6, <1>7 DEF WebInv

\* A request that goes on, without another change.
LEMMA StepRequest ==
  ASSUME WebInv, NEW c \in Fetches, Request(c) \/ RequestEnds(c)
  PROVE  WebInv'
<1>1. UNCHANGED <<webServer, interrupted, page, exchange, inFlight, signIn>>
  BY DEF Request, RequestEnds
<1>2. PICK f \in FetchRecs : fetch' = [fetch EXCEPT ![c] = f] /\ f.pc # "wait"
  <2>1. CASE Request(c)
    <3> DEFINE f == [fetch[c] EXCEPT !.pc = "sent"]
    <3>1. f \in FetchRecs /\ f.pc = "sent"
      BY WebTypes DEF FetchRecs
    <3>2. fetch' = [fetch EXCEPT ![c] = f]
      BY <2>1 DEF Request
    <3>. QED
      BY <3>1, <3>2
  <2>2. CASE RequestEnds(c)
    BY <2>2, WebTypes DEF RequestEnds, IdleFetch
  <2>. QED
    BY <2>1, <2>2
<1>3. fetch' \in [Fetches -> FetchRecs] /\ \A d \in Fetches : fetch'[d].pc = "wait" => fetch'[d] = fetch[d]
  BY <1>2, WebTypes
<1>4. WebTypeOK'
  BY <1>1, <1>3 DEF WebInv, WebTypeOK, webServer, page, FetchRecs
<1>5. WebHolders'
  BY <1>1, <1>3 DEF WebInv, WebHolders, webServer, page
<1>6. WebFresh'
  BY <1>1 DEF WebInv, WebFresh, webServer, page, Spent
<1>7. PortalRefreshSound'
  BY <1>1, <1>3 DEF WebInv, PortalRefreshSound, webServer, page
<1>. QED
  BY <1>4, <1>5, <1>6, <1>7 DEF WebInv

\* A request answered 401 joins the exchange in flight or starts one.
LEMMA StepUnauthorized ==
  ASSUME WebInv, NEW c \in Fetches, RequestUnauthorized(c)
  PROVE  WebInv'
<1>1. session # 0 /\ UNCHANGED <<webServer, interrupted, page, signIn>>
  BY DEF RequestUnauthorized
<1>2. PICK x \in Exchanges : ShareOrBegin(x) /\ fetch' = [fetch EXCEPT ![c] = [pc |-> "wait", on |-> x]]
  BY DEF RequestUnauthorized
<1>3. /\ fetch' \in [Fetches -> FetchRecs] /\ fetch'[c].on = x
      /\ \A d \in Fetches : d # c => fetch'[d] = fetch[d]
  <2>1. [pc |-> "wait", on |-> x] \in FetchRecs
    BY DEF FetchRecs
  <2>. QED
    BY <1>2, <2>1, WebTypes
<1>4. session \in 1..webIssued /\ session \in Held
  BY <1>1, WebTypes DEF WebInv, WebHolders, WebTypeOK
<1>5. CASE inFlight # NoExchange
  <2>1. x = inFlight /\ UNCHANGED <<exchange, inFlight>>
    BY <1>2, <1>5 DEF ShareOrBegin
  <2>2. WebTypeOK'
    BY <1>1, <1>3, <2>1 DEF WebInv, WebTypeOK, webServer, page, FetchRecs
  <2>3. WebHolders'
    BY <1>1, <1>3, <2>1 DEF WebInv, WebHolders, webServer, page
  <2>4. WebFresh'
    BY <1>1, <2>1 DEF WebInv, WebFresh, webServer, page, Spent
  <2>5. PortalRefreshSound'
    BY <1>1, <1>3, <2>1 DEF WebInv, PortalRefreshSound, webServer, page
  <2>. QED
    BY <2>2, <2>3, <2>4, <2>5 DEF WebInv
<1>6. CASE inFlight = NoExchange
  <2> DEFINE q == [pc |-> "post", pair |-> session, next |-> 0]
  <2>1. /\ exchange' = [exchange EXCEPT ![x] = q] /\ inFlight' = x
        /\ \A y \in Exchanges : exchange[y].pc = "none"
    BY <1>2, <1>6, ExchangeAssumption DEF ShareOrBegin, Begins, WebInv, PortalRefreshSound
  <2>2. q \in ExchangeRecs
    BY <1>4 DEF ExchangeRecs, Held
  <2>3. /\ exchange' \in [Exchanges -> ExchangeRecs] /\ exchange'[x] = q
        /\ \A y \in Exchanges : y # x => exchange'[y] = exchange[y]
    BY <2>1, <2>2, WebTypes
  <2>4. WebTypeOK'
    BY <1>1, <1>3, <2>1, <2>3 DEF WebInv, WebTypeOK, webServer, page, FetchRecs, ExchangeRecs
  <2>5. WebHolders'
    BY <1>1, <1>3, <1>4, <2>1, <2>3 DEF WebInv, WebHolders, webServer, page
  <2>6. WebFresh'
    <3>1. session # 0 /\ Spent(session) => session \in interrupted
      BY <2>1 DEF WebInv, WebFresh
    <3>2. \A y \in Exchanges : exchange'[y].pc # "none" => y = x
      BY <2>1, <2>3
    <3>3. exchange'[x].pc = "post" /\ exchange'[x].pair = session
      BY <2>3
    <3>4. UNCHANGED <<webToken, session, signIn, interrupted>>
      BY <1>1 DEF webServer, page
    <3>5. signIn # 0 => session # signIn /\ ~Spent(signIn)
      BY DEF WebInv, WebFresh
    <3>7. signIn' # 0 =>
            /\ ~Spent(signIn)' /\ session' # signIn'
            /\ \A y \in Exchanges : exchange'[y].pc # "none" => exchange'[y].pc = "post" /\ exchange'[y].pair # signIn'
      BY <3>2, <3>3, <3>4, <3>5 DEF Spent
    <3>8. \A y \in Exchanges :
            /\ exchange'[y].pc # "answered"
            /\ exchange'[y].pc = "post" /\ webToken'[exchange'[y].pair] = "spent" => exchange'[y].pair \in interrupted'
      BY <3>1, <3>2, <3>3, <3>4, <1>1 DEF Spent
    <3>9. session' # 0 /\ Spent(session)' => session' \in interrupted'
      BY <3>1, <3>4 DEF Spent
    <3>. QED
      BY <3>7, <3>8, <3>9 DEF WebFresh, Spent
  <2>7. PortalRefreshSound'
    <3>1. UNCHANGED <<replayed, interrupted, status, restoring>> /\ restoring = NoExchange
      BY <1>1, <1>6 DEF webServer, page, WebInv, PortalRefreshSound
    <3>2. \A d \in Fetches : fetch'[d].pc = "wait" => fetch'[d].on = x
      BY <1>3, <1>6, ExchangeAssumption DEF WebInv, WebHolders, PortalRefreshSound
    <3>3. \A y \in Exchanges : exchange'[y].pc # "none" <=> inFlight' = y
      BY <2>1, <2>3
    <3>. QED
      BY <2>1, <3>1, <3>2, <3>3 DEF WebInv, PortalRefreshSound
  <2>. QED
    BY <2>4, <2>5, <2>6, <2>7 DEF WebInv
<1>. QED
  BY <1>5, <1>6

\* The server issues a pair for a login.
LEMMA StepSignIn ==
  ASSUME WebInv, SignIn
  PROVE  WebInv'
<1>1. /\ webIssued' = webIssued + 1 /\ signIn' = webIssued + 1 /\ webIssued < MaxWebPairs
      /\ webToken' = [webToken EXCEPT ![webIssued + 1] = "live"]
      /\ UNCHANGED <<replayed, interrupted, page, fetch, exchange, inFlight>>
  BY DEF SignIn
<1>2. /\ webIssued + 1 \in WebPairs
      /\ webToken' \in [WebPairs -> {"unissued", "live", "spent", "dead"}]
      /\ webToken'[webIssued + 1] = "live" /\ \A m \in 1..webIssued : webToken'[m] = webToken[m]
  BY <1>1, WebTypes DEF WebPairs
<1>3. WebTypeOK'
  BY <1>1, <1>2 DEF WebInv, WebTypeOK, page, Held
<1>4. WebHolders'
  BY <1>1, WebTypes DEF WebInv, WebHolders, page
<1>5. WebFresh'
  <2>1. session \in 0..webIssued /\ session' = session
    BY <1>1 DEF WebInv, WebHolders, page
  <2>2. \A x \in Exchanges :
          /\ exchange[x].pc # "none" => exchange[x].pair # webIssued + 1 /\ webToken'[exchange[x].pair] = webToken[exchange[x].pair]
          /\ exchange[x].pc = "answered" => exchange[x].next # webIssued + 1 /\ webToken'[exchange[x].next] = webToken[exchange[x].next]
    BY <1>2, WebTypes DEF WebInv, WebHolders
  <2>3. session # webIssued + 1 /\ (session # 0 => webToken'[session] = webToken[session])
    BY <1>2, <2>1, WebTypes
  <2>. QED
    BY <1>1, <1>2, <2>1, <2>2, <2>3 DEF WebInv, WebFresh, Spent
<1>6. PortalRefreshSound'
  BY <1>1 DEF WebInv, PortalRefreshSound, page
<1>. QED
  BY <1>3, <1>4, <1>5, <1>6 DEF WebInv

\* The pair of a login is stored, or the user signs out.
LEMMA StepSigned ==
  ASSUME WebInv, SignedIn \/ SignOut
  PROVE  WebInv'
<1>1. /\ UNCHANGED <<webServer, interrupted, restoring, fetch, exchange, inFlight>>
      /\ status' \in {"authenticated", "anonymous"}
      /\ \/ signIn # 0 /\ session' = signIn /\ memory' = signIn /\ signIn' = 0
         \/ session' = 0 /\ memory' = 0 /\ signIn' = signIn
  BY DEF SignedIn, SignOut
<1>2. 0 \in Held
  BY DEF Held
<1>3. WebTypeOK'
  BY <1>1, <1>2 DEF WebInv, WebTypeOK, webServer
<1>4. WebHolders'
  BY <1>1, WebTypes DEF WebInv, WebHolders, webServer
<1>5. WebFresh'
  BY <1>1 DEF WebInv, WebFresh, Spent, webServer
<1>6. PortalRefreshSound'
  BY <1>1 DEF WebInv, PortalRefreshSound, webServer
<1>. QED
  BY <1>3, <1>4, <1>5, <1>6 DEF WebInv

\* A reload cuts off what was in flight and keeps what was stored.
LEMMA StepReload ==
  ASSUME WebInv, Reload
  PROVE  WebInv'
<1> DEFINE cut == {exchange[x].pair : x \in {y \in Exchanges : exchange[y].pc # "none"}}
<1>1. /\ memory' = 0 /\ signIn' = 0 /\ UNCHANGED <<replayed, session>>
      /\ fetch' = [c \in Fetches |-> IdleFetch]
      /\ interrupted' = interrupted \cup cut
      /\ \/ UNCHANGED <<webIssued, webToken>>
         \/ \E x \in Exchanges : exchange[x].pc = "post" /\ Rotates(exchange[x].pair)
  BY DEF Reload
<1>2. \A x \in Exchanges : exchange[x].pc # "none" => exchange[x].pair \in cut
  OBVIOUS
<1>3. cut \subseteq 1..webIssued
  BY DEF WebInv, WebHolders
<1>4. /\ webIssued' \in {webIssued, webIssued + 1} /\ webIssued' \in Held
      /\ webToken' \in [WebPairs -> {"unissued", "live", "spent", "dead"}]
      /\ \A m \in 1..webIssued : m \notin cut => webToken'[m] = webToken[m]
  <2>1. CASE UNCHANGED <<webIssued, webToken>>
    BY <2>1, WebTypes DEF Held, WebPairs
  <2>2. ASSUME NEW x \in Exchanges, exchange[x].pc = "post", Rotates(exchange[x].pair)
        PROVE  <1>4!1 /\ <1>4!2 /\ <1>4!3
    <3>1. exchange[x].pair \in 1..webIssued /\ exchange[x].pair \in cut
      BY <2>2, <1>2 DEF WebInv, WebHolders
    <3>. QED
      BY <2>2, <3>1, RotatesIs DEF Held
  <2>. QED
    BY <1>1, <2>1, <2>2
<1>5. session \in 0..webIssued /\ session \in Held /\ webIssued \in Nat
  BY WebTypes DEF WebInv, WebHolders, WebTypeOK
<1>6. session # 0 /\ Spent(session)' => session \in interrupted'
  <2>1. CASE session \in cut
    BY <1>1, <2>1
  <2>2. CASE session \notin cut
    BY <1>1, <1>2, <1>4, <1>5, <2>2 DEF WebInv, WebFresh, Spent
  <2>. QED
    BY <2>1, <2>2
<1>7. fetch' \in [Fetches -> FetchRecs] /\ \A c \in Fetches : fetch'[c].pc # "wait"
  BY <1>1, WebTypes DEF IdleFetch
<1>8. interrupted' \in SUBSET WebPairs /\ replayed' \subseteq interrupted'
  BY <1>1, <1>3, WebTypes DEF WebInv, WebTypeOK, PortalRefreshSound
<1>9. CASE session = 0
  <2>1. /\ status' = "anonymous" /\ restoring' = NoExchange /\ inFlight' = NoExchange
        /\ exchange' = [x \in Exchanges |-> NoPromise]
    BY <1>9 DEF Reload
  <2>2. exchange' \in [Exchanges -> ExchangeRecs] /\ \A x \in Exchanges : exchange'[x].pc = "none"
    BY <2>1, WebTypes DEF NoPromise
  <2>3. WebTypeOK'
    BY <1>1, <1>4, <1>5, <1>7, <1>8, <2>1, <2>2 DEF WebInv, WebTypeOK, ExchangeRecs, FetchRecs, Held
  <2>4. WebHolders'
    BY <1>1, <1>4, <1>5, <1>7, <2>2, <1>9 DEF WebHolders, Held, WebPairs
  <2>5. WebFresh'
    BY <1>1, <1>9, <2>2 DEF WebFresh
  <2>6. PortalRefreshSound'
    BY <1>7, <1>8, <2>1, <2>2, ExchangeAssumption DEF PortalRefreshSound
  <2>. QED
    BY <2>3, <2>4, <2>5, <2>6 DEF WebInv
<1>10. CASE session # 0
  <2> DEFINE q == [pc |-> "post", pair |-> session, next |-> 0]
  <2>1. PICK x \in Exchanges :
          /\ status' = "loading" /\ restoring' = x /\ inFlight' = x
          /\ exchange' = [y \in Exchanges |-> IF y # x THEN NoPromise ELSE q]
    BY <1>10 DEF Reload
  <2>2. q \in ExchangeRecs
    BY <1>5 DEF ExchangeRecs, Held
  <2>3. /\ exchange' \in [Exchanges -> ExchangeRecs] /\ exchange'[x] = q
        /\ \A y \in Exchanges : y # x => exchange'[y].pc = "none"
    BY <2>1, <2>2, WebTypes DEF NoPromise
  <2>4. WebTypeOK'
    BY <1>1, <1>4, <1>5, <1>7, <1>8, <2>1, <2>3 DEF WebInv, WebTypeOK, ExchangeRecs, FetchRecs, Held
  <2>5. exchange'[x].pc = "post" /\ exchange'[x].pair = session
    BY <2>3
  <2>6. WebHolders'
    BY <1>1, <1>4, <1>5, <1>7, <1>10, <2>3, <2>5 DEF WebHolders, Held, WebPairs
  <2>7. WebFresh'
    <3>1. \A y \in Exchanges : exchange'[y].pc # "none" => y = x
      BY <2>3
    <3>2. session' = session /\ (Spent(session)' => webToken'[session] = "spent")
      BY <1>1 DEF Spent
    <3>. QED
      BY <1>1, <1>6, <1>10, <2>5, <3>1, <3>2 DEF WebFresh, Spent
  <2>8. PortalRefreshSound'
    BY <1>7, <1>8, <2>1, <2>3, ExchangeAssumption DEF PortalRefreshSound
  <2>. QED
    BY <2>4, <2>6, <2>7, <2>8 DEF WebInv
<1>. QED
  BY <1>9, <1>10

\* A session ends at the server.
LEMMA StepEnds ==
  ASSUME WebInv, NEW n \in WebPairs, SessionEnds(n)
  PROVE  WebInv'
<1>1. /\ webToken' \in [WebPairs -> {"unissued", "live", "spent", "dead"}]
      /\ \A m \in WebPairs : webToken'[m] = "spent" <=> webToken[m] = "spent"
      /\ UNCHANGED <<webIssued, replayed, interrupted, page, fetch, exchange, inFlight, signIn>>
  BY WebTypes DEF SessionEnds
<1>2. WebTypeOK'
  BY <1>1 DEF WebInv, WebTypeOK, page
<1>3. WebHolders'
  BY <1>1 DEF WebInv, WebHolders, page
<1>4. WebFresh'
  <2>1. session # 0 => session \in WebPairs
    BY WebTypes DEF WebInv, WebHolders
  <2>2. signIn # 0 => signIn \in WebPairs
    BY WebTypes DEF WebInv, WebHolders
  <2>3. \A x \in Exchanges : /\ exchange[x].pc # "none" => exchange[x].pair \in WebPairs
                             /\ exchange[x].pc = "answered" => exchange[x].next \in WebPairs
    BY WebTypes DEF WebInv, WebHolders
  <2>. QED
    BY <1>1, <2>1, <2>2, <2>3 DEF WebInv, WebFresh, Spent, page
<1>5. PortalRefreshSound'
  BY <1>1 DEF WebInv, PortalRefreshSound, page
<1>. QED
  BY <1>2, <1>3, <1>4, <1>5 DEF WebInv

\* The invariant holds of every behaviour of the portal.
THEOREM PortalHolds == WebSpec => []WebInv
<1>1. WebInv /\ [WebNext]_webVars => WebInv'
  <2> SUFFICES ASSUME WebInv, [WebNext]_webVars PROVE WebInv'
    OBVIOUS
  <2>1. CASE UNCHANGED webVars
    BY <2>1 DEF WebInv, WebTypeOK, WebHolders, WebFresh, PortalRefreshSound, Spent, webVars, webServer, page
  <2>2. ASSUME NEW c \in Fetches, Request(c) \/ RequestEnds(c) \/ RequestUnauthorized(c) PROVE WebInv'
    BY <2>2, StepRequest, StepUnauthorized
  <2>3. ASSUME NEW x \in Exchanges,
               \/ ExchangeAccepted(x)
               \/ ExchangeRefused(x)
               \/ ExchangeLost(x)
               \/ StorePair(x)
               \/ Fail(x)
        PROVE  WebInv'
    BY <2>3, StepAccepted, StepRefused, StepLost, StepSettles
  <2>4. ASSUME NEW n \in WebPairs, SessionEnds(n) PROVE WebInv'
    BY <2>4, StepEnds
  <2>5. CASE SignIn \/ SignedIn \/ SignOut \/ Reload
    BY <2>5, StepSignIn, StepSigned, StepReload
  <2>. QED
    BY <2>1, <2>2, <2>3, <2>4, <2>5 DEF WebNext
<1>. QED
  BY WebInitInv, <1>1, PTL DEF WebSpec

\* Requests share one exchange, and no pair is presented twice but one whose answer a reload
\* cut off (PortalRefreshSound), for any number of requests and exchanges.
THEOREM PortalRefreshesSoundly == WebSpec => []PortalRefreshSound
<1>1. WebInv => PortalRefreshSound
  BY DEF WebInv
<1>. QED
  BY PortalHolds, <1>1, PTL
=============================================================================
