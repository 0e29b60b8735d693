----------------------------- MODULE BrandKits -----------------------------
(***************************************************************************)
(* PUT /brand-kits/{id}, an upsert under an id the client chooses: a       *)
(* statement looks for the kit, a second one replaces or inserts it.  Any  *)
(* number of PUTs overlap; a statement may fail, or take effect and its    *)
(* answer be lost.                                                         *)
(***************************************************************************)
CONSTANTS Puts,    \* requests
          KitIds,  \* ids in their paths
          NilId,   \* the nil uuid, for which BeforeCreate makes up an id
          People,
          Sender,  \* by request, who sends it
          Inputs,  \* what a kit says
          NoKit

ASSUME KitAssumption ==
  /\ Puts \cap KitIds = {}
  /\ NoKit \notin [owner: People, says: Inputs]
  /\ Sender \in [Puts -> People]

VARIABLES kits, \* by id, the row; a made-up id is named by its request
          put   \* the step, the arguments and the answer of each request

kitVars == <<kits, put>>

Kits  == [owner: People, says: Inputs]
Fresh == [pc |-> "new"]
Sent  == [pc: {"replace", "insert", "done"}, id: KitIds, owner: People, says: Inputs,
          answer: {"none", "ok", "not_found", "conflict", "internal"}]

KitTypeOK ==
  /\ kits \in [KitIds \cup Puts -> Kits \cup {NoKit}]
  /\ put \in [Puts -> {Fresh} \cup Sent]
  /\ NilId \in KitIds => kits[NilId] = NoKit

KitInit ==
  /\ kits = [id \in KitIds \cup Puts |-> NoKit]
  /\ put = [p \in Puts |-> Fresh]

-----------------------------------------------------------------------------
\* Mutation: whose kit it is does not matter.
FindKitAnyones(p, id, says) ==
  /\ put[p] = Fresh
  /\ \E step \in {"done", IF kits[id] = NoKit THEN "insert" ELSE "replace"} :
       put' = [put EXCEPT ![p] = [pc |-> step, id |-> id, owner |-> Sender[p], says |-> says,
                                  answer |-> IF step = "done" THEN "internal" ELSE "none"]]
  /\ UNCHANGED kits

\* A kit of somebody else is not found.
FindKit(p, id, says) ==
  /\ put[p] = Fresh
  /\ \E step \in {"done", IF kits[id] = NoKit THEN "insert" ELSE "replace"} :
     \E answer \in {"none", "internal", "not_found"} :
       /\ answer = "none" <=> step # "done"
       /\ answer = "not_found" => kits[id] # NoKit /\ kits[id].owner # Sender[p]
       /\ step = "replace" => kits[id].owner = Sender[p]
       /\ put' = [put EXCEPT ![p] = [pc |-> step, id |-> id, owner |-> Sender[p], says |-> says,
                                     answer |-> answer]]
  /\ UNCHANGED kits

Done(p, answer) == put' = [put EXCEPT ![p].pc = "done", ![p].answer = answer]

StatementFails(p) ==
  /\ put[p].pc \in {"replace", "insert"}
  /\ Done(p, "internal")
  /\ UNCHANGED kits

\* Save writes every column of the row it read, user_id among them; kits are
\* never deleted.
Replace(p) ==
  /\ put[p].pc = "replace"
  /\ kits' = [kits EXCEPT ![put[p].id].says = put[p].says]
  /\ \E answer \in {"ok", "internal"} : Done(p, answer)

Row(p) == IF put[p].id = NilId THEN p ELSE put[p].id

\* The primary key refuses a second row.
Insert(p) ==
  /\ put[p].pc = "insert"
  /\ IF kits[Row(p)] = NoKit
     THEN /\ kits' = [kits EXCEPT ![Row(p)] = [owner |-> put[p].owner, says |-> put[p].says]]
          /\ \E answer \in {"ok", "internal"} : Done(p, answer)
     ELSE Done(p, "conflict") /\ UNCHANGED kits

KitNext ==
  \E p \in Puts :
    \/ \E id \in KitIds, says \in Inputs : FindKit(p, id, says)
    \/ Replace(p)
    \/ Insert(p)
    \/ StatementFails(p)

KitSpec == KitInit /\ [][KitNext]_kitVars

-----------------------------------------------------------------------------
\* A kit says what one of its owner's requests said, never a stranger's words.
KitIsItsOwners ==
  \A id \in DOMAIN kits : kits[id] # NoKit =>
    \E p \in Puts : /\ put[p].pc = "done" /\ Row(p) = id
                    /\ put[p].owner = kits[id].owner /\ put[p].says = kits[id].says

\* What a client is told: 200 only if the kit is his, 404 only if it is somebody
\* else's, 409 only if another request has taken the id.
ClientsToldTruth ==
  \A p \in Puts : put[p].pc = "done" =>
    /\ put[p].answer = "ok" => kits[Row(p)] # NoKit /\ kits[Row(p)].owner = put[p].owner
    /\ put[p].answer = "not_found" => kits[put[p].id].owner # put[p].owner
    /\ put[p].answer = "conflict" => kits[put[p].id] # NoKit

KitsSafe == KitIsItsOwners /\ ClientsToldTruth
=============================================================================
