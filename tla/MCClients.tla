----------------------------- MODULE MCClients -----------------------------
(***************************************************************************)
(* Instances for TLC of the parts of the two clients: each behaviour is    *)
(* one of one of them, its focus, with the others at rest.                 *)
(***************************************************************************)
EXTENDS TokenClient, CanvasEditor, Drafts, WebSession, TLC

CONSTANTS l1, l2, s1, s2, s3

\* The two sessions whose list is watched.
ASSUME ListAssumption == {s1, s2} \subseteq Sessions

VARIABLE focus

clientVars == <<focus, vars, editorVars, draftsVars, webVars>>

\* A new image, and two drafts: layers placed under the other ratio, one of which
\* now overhangs, and one as large as they get.
MCScenes ==
  {[height |-> 1024, layers |-> <<>>],
   [height |-> 1080,
    layers |-> <<[id |-> l1, x |-> 10 * Unit, y |-> 77 * Unit, font |-> 64]>>],
   [height |-> 1350,
    layers |-> <<[id |-> l2, x |-> 0, y |-> 10 * Unit, font |-> 220],
                 [id |-> l1, x |-> 20 * Unit, y |-> 50 * Unit, font |-> 24]>>]}
MCDrags   == {[x |-> 0 - Unit, y |-> 0], [x |-> 15 * Unit, y |-> 50 * Unit], [x |-> Grid, y |-> Grid]}
MCPinches == {0, 500}

MCEdits == [s \in Sessions |-> IF s = s1 THEN 2 ELSE 1]

-----------------------------------------------------------------------------
ClientsInit ==
  /\ focus \in {"session", "canvas", "drafts", "list", "portal"}
  /\ Init /\ EditorInit /\ DraftsInit /\ WebInit

\* Saving drafts, with everything that may fail, apart from the handlers of the
\* list, which meet the saves of two sessions.
DraftStep ==
  \/ \E s \in Sessions : SessionStep(s) \/ DeleteRequested(s)
  \/ \E s \in Sessions, v \in 1..2 : v \in ScenesOf(s) /\ (SaveStep(s, v) \/ ImageFails(s, v))
  \/ JobStep
  \/ JobFails
  \/ ListUpdated
  \/ DraftsKilled
ListStep ==
  \/ \E s \in {s1, s2} : SessionStep(s)
  \/ \E s \in {s1, s2}, v \in 1..2 : v \in ScenesOf(s) /\ SaveStep(s, v)
  \/ JobStep
  \/ \E s \in {s1, s2} : DeleteRequested(s) \/ ResumeRequested(s) \/ ReminderRequested(s)
  \/ ListUpdated
  \/ Resumed
  \/ ReminderSet

ClientsNext ==
  /\ UNCHANGED focus
  /\ IF focus = "session" THEN Next ELSE UNCHANGED vars
  /\ IF focus = "canvas" THEN EditorNext ELSE UNCHANGED editorVars
  /\ IF focus = "drafts" THEN DraftStep
     ELSE IF focus = "list" THEN ListStep ELSE UNCHANGED draftsVars
  /\ IF focus = "portal" THEN WebNext ELSE UNCHANGED webVars

ClientsSpec == ClientsInit /\ [][ClientsNext]_clientVars

\* With the fairness of the app's session.
ClientsFairSpec ==
  /\ ClientsSpec
  /\ \A c \in Calls : WF_vars(CallStep(c))
  /\ \A f \in Flights : WF_vars(FlightStep(f))

\* Every variable of the editor, the drafts and the portal keeps its type; among
\* them: the selection names a layer on the canvas, the shelf is no longer than
\* its cap and holds a draft once, and no timer runs in a closed editor.
ClientsTypeOK == EditorTypeOK /\ DraftsTypeOK /\ WebTypeOK
=============================================================================
