------------------------------- MODULE Drafts -------------------------------
(***************************************************************************)
(* Drafts on the phone.  DraftAutosaveCubit saves the scene of an editing  *)
(* session once it has been quiet for a while: the image is encoded and    *)
(* written over the last one, then DraftRepositoryImpl stores the row and, *)
(* when the shelf is full, evicts the draft saved longest ago.             *)
(* DraftsListBloc shows the rows, which it is fed by a watched query, and  *)
(* deletes, resumes and schedules reminders.                               *)
(*                                                                         *)
(* Any other code may run at an await, so saves may overlap.  A write may  *)
(* fail, and the app may be killed anywhere; a row is written as a whole,  *)
(* an image is not.  Two rows are never stored within one second, which is *)
(* as fine as the column lastSavedAt tells times apart.                    *)
(***************************************************************************)
EXTENDS Naturals, Sequences
LOCAL INSTANCE SequencesExt

CONSTANTS Sessions,  \* editing sessions, each with the localId of its draft
          Edits,     \* by session, how many scenes it may show
          MaxDrafts, \* Draft.maxLocalDrafts
          NoList     \* no handler is awaiting

ASSUME DraftAssumption == MaxDrafts \in Nat \ {0} /\ Edits \in [Sessions -> Nat]

VARIABLES
  editor,    \* sessions: the scene shown, the one the timer would save, the last fired
  saving,    \* by session and scene, how far its save is
  image,     \* the file <localId>.png
  shelf,     \* rows of drafts, by lastSavedAt
  jobs,      \* statements waiting for the database, which takes one at a time
  feed,      \* the watched query is about to emit
  shown,     \* the drafts of DraftsListLoaded
  resuming,  \* the list and draft a resume read before its await
  reminding, \* the list a reminder read before its await
  flawed,    \* history: sessions with a save that failed, overlapped or was cut short
  dropped,   \* history: drafts deleted or evicted since they were last stored
  buried,    \* history: drafts deleted after their session, with no save left
  stale      \* history: a handler showed again a list that was out of date

editing    == <<editor, saving, image>>
listing    == <<shown, resuming, reminding, stale>>
draftsVars == <<editing, shelf, jobs, feed, listing, flawed, dropped, buried>>

ScenesOf(s) == 1..Edits[s]
Rows      == [id: Sessions, scene: Nat]

Ids(list) == {list[i].id : i \in DOMAIN list}
OnShelf(s) == s \in Ids(shelf)

DraftsTypeOK ==
  /\ DOMAIN editor = Sessions /\ DOMAIN saving = Sessions
  /\ \A s \in Sessions :
       /\ editor[s] \in [pc: {"none", "open", "closed"}, scene: 0..Edits[s],
                         timer: 0..Edits[s], fired: 0..Edits[s]]
       /\ editor[s].pc # "open" => editor[s].timer = 0
       /\ saving[s] \in [ScenesOf(s) -> {"none", "encode", "write", "store"}]
  /\ image \in [Sessions -> {"none", "torn", "whole"}]
  /\ shelf \in Seq(Rows) /\ Len(shelf) <= MaxDrafts
  /\ \A i, j \in DOMAIN shelf : shelf[i].id = shelf[j].id => i = j
  /\ jobs \in Seq([op: {"save", "delete"}, id: Sessions, scene: Nat])
  /\ feed \in BOOLEAN /\ stale \in BOOLEAN
  /\ shown \in Seq(Rows)
  /\ resuming = NoList \/ resuming \in [list: Seq(Rows), id: Sessions]
  /\ reminding = NoList \/ reminding \in Seq(Rows)
  /\ flawed \in SUBSET Sessions /\ dropped \in SUBSET Sessions /\ buried \in SUBSET Sessions

NoEditor == [pc |-> "none", scene |-> 0, timer |-> 0, fired |-> 0]

DraftsInit ==
  /\ editor = [s \in Sessions |-> NoEditor]
  /\ saving = [s \in Sessions |-> [v \in ScenesOf(s) |-> "none"]]
  /\ image = [s \in Sessions |-> "none"]
  /\ shelf = <<>> /\ jobs = <<>> /\ shown = <<>>
  /\ feed = TRUE /\ stale = FALSE
  /\ resuming = NoList /\ reminding = NoList
  /\ flawed = {} /\ dropped = {} /\ buried = {}

InFlight(s) == {v \in ScenesOf(s) : saving[s][v] # "none"}

-----------------------------------------------------------------------------
(* The editor, and DraftAutosaveCubit. *)

\* The scene the editor is opened with, or the next one: sceneChanged restarts
\* the timer with it.
SceneChanged(s) ==
  LET e == editor[s]
  IN /\ e.pc # "closed" /\ e.scene < Edits[s]
     /\ editor' = [editor EXCEPT ![s] = [pc |-> "open", scene |-> e.scene + 1,
                                         timer |-> e.scene + 1, fired |-> e.fired]]
     /\ UNCHANGED <<saving, image, shelf, jobs, feed, listing, flawed, dropped, buried>>

\* Mutation: close() forgets the timer.
CloseEditorKeepingTimer(s) ==
  /\ editor[s].pc = "open"
  /\ editor' = [editor EXCEPT ![s].pc = "closed"]
  /\ UNCHANGED <<saving, image, shelf, jobs, feed, listing, flawed, dropped, buried>>

\* close() cancels the timer; what is being saved goes on.
CloseEditor(s) ==
  /\ editor[s].pc = "open"
  /\ editor' = [editor EXCEPT ![s].pc = "closed", ![s].timer = 0]
  /\ UNCHANGED <<saving, image, shelf, jobs, feed, listing, flawed, dropped, buried>>

TimerFires(s) ==
  LET v == editor[s].timer
  IN /\ v # 0
     /\ editor' = [editor EXCEPT ![s].timer = 0, ![s].fired = v]
     /\ saving' = [saving EXCEPT ![s][v] = "encode"]
     /\ flawed' = IF InFlight(s) = {} THEN flawed ELSE flawed \cup {s}
     /\ UNCHANGED <<image, shelf, jobs, feed, listing, dropped, buried>>

\* Mutation: the row is stored without waiting for the image.
OpenImageAndGoOn(s, v) ==
  /\ saving[s][v] = "encode"
  /\ saving' = [saving EXCEPT ![s][v] = "store"]
  /\ image' = [image EXCEPT ![s] = "torn"]
  /\ jobs' = Append(jobs, [op |-> "save", id |-> s, scene |-> v])
  /\ UNCHANGED <<editor, shelf, feed, listing, flawed, dropped, buried>>

\* The image is encoded, and its file opened, which empties it.
OpenImage(s, v) ==
  /\ saving[s][v] = "encode"
  /\ saving' = [saving EXCEPT ![s][v] = "write"]
  /\ image' = [image EXCEPT ![s] = "torn"]
  /\ UNCHANGED <<editor, shelf, jobs, feed, listing, flawed, dropped, buried>>

\* Every scene of a session has the same background.  The time of the save is
\* taken as it asks for the transaction.
WriteImage(s, v) ==
  /\ saving[s][v] = "write"
  /\ saving' = [saving EXCEPT ![s][v] = "store"]
  /\ image' = [image EXCEPT ![s] = "whole"]
  /\ jobs' = Append(jobs, [op |-> "save", id |-> s, scene |-> v])
  /\ UNCHANGED <<editor, shelf, feed, listing, flawed, dropped, buried>>

ImageFails(s, v) ==
  /\ saving[s][v] \in {"encode", "write"}
  /\ saving' = [saving EXCEPT ![s][v] = "none"]
  /\ flawed' = flawed \cup {s}
  /\ UNCHANGED <<editor, image, shelf, jobs, feed, listing, dropped, buried>>

-----------------------------------------------------------------------------
(* DraftRepositoryImpl. *)

\* localId is the primary key.
Without(rows, s) ==
  IF s \in Ids(rows) THEN RemoveAt(rows, CHOOSE i \in DOMAIN rows : rows[i].id = s) ELSE rows

\* Mutation: room is made for a draft that is already there, too.
MakeRoomAlways(s) == IF Len(shelf) >= MaxDrafts THEN Tail(shelf) ELSE shelf

\* A new draft evicts the one saved longest ago when the shelf is full.
MakeRoom(s) == IF ~OnShelf(s) /\ Len(shelf) >= MaxDrafts THEN Tail(shelf) ELSE shelf

Job == Head(jobs)
Done(op) == jobs # <<>> /\ Job.op = op /\ jobs' = Tail(jobs)

SaveCommits ==
  LET s == Job.id
  IN /\ Done("save")
     /\ shelf' = Append(Without(MakeRoom(s), s), [id |-> s, scene |-> Job.scene])
     /\ dropped' = (dropped \cup (Ids(shelf) \ Ids(shelf'))) \ {s}
     /\ saving' = [saving EXCEPT ![s][Job.scene] = "none"]
     /\ feed' = TRUE
     /\ UNCHANGED <<editor, image, listing, flawed, buried>>

\* The image stays where it is, and so does a reminder of the draft.  Without a
\* row to delete, the query does not emit.
DeleteCommits ==
  LET s == Job.id
  IN /\ Done("delete")
     /\ shelf' = Without(shelf, s)
     /\ dropped' = dropped \cup {s}
     /\ buried' = IF editor[s].pc # "open" /\ InFlight(s) = {} THEN buried \cup {s} ELSE buried
     /\ feed' = (feed \/ OnShelf(s))
     /\ UNCHANGED <<editing, listing, flawed>>

\* The transaction is rolled back, or the deletion had no effect.
JobFails ==
  /\ \/ /\ Done("save")
        /\ saving' = [saving EXCEPT ![Job.id][Job.scene] = "none"]
        /\ flawed' = flawed \cup {Job.id}
     \/ /\ Done("delete")
        /\ UNCHANGED <<saving, flawed>>
  /\ UNCHANGED <<editor, image, shelf, feed, listing, dropped, buried>>

-----------------------------------------------------------------------------
(* DraftsListBloc. *)

ListUpdated ==
  /\ feed
  /\ feed' = FALSE
  /\ shown' = shelf /\ stale' = FALSE
  /\ UNCHANGED <<editing, shelf, jobs, resuming, reminding, flawed, dropped, buried>>

\* sequential(): the next deletion waits for the one before.
DeleteRequested(s) ==
  /\ s \in Ids(shown)
  /\ \A i \in DOMAIN jobs : jobs[i].op = "save"
  /\ jobs' = Append(jobs, [op |-> "delete", id |-> s, scene |-> 0])
  /\ UNCHANGED <<editing, shelf, feed, listing, flawed, dropped, buried>>

\* droppable(): a second one is ignored.
ResumeRequested(s) ==
  /\ s \in Ids(shown)
  /\ resuming = NoList
  /\ resuming' = [list |-> shown, id |-> s]
  /\ UNCHANGED <<editing, shelf, jobs, feed, shown, reminding, stale, flawed, dropped, buried>>

\* The list it had read is shown again.
Shows(list) == shown' = list /\ stale' = (stale \/ list # shelf)

\* An image that cannot be decoded ends the handler with an exception.
Resumed ==
  /\ resuming # NoList
  /\ IF image[resuming.id] = "whole" THEN Shows(resuming.list) ELSE UNCHANGED <<shown, stale>>
  /\ resuming' = NoList
  /\ UNCHANGED <<editing, shelf, jobs, feed, reminding, flawed, dropped, buried>>

ReminderRequested(s) ==
  /\ s \in Ids(shown)
  /\ reminding = NoList
  /\ reminding' = shown
  /\ UNCHANGED <<editing, shelf, jobs, feed, shown, resuming, stale, flawed, dropped, buried>>

\* With or without the permission to notify; an exception on asking for it ends
\* the handler.
ReminderSet ==
  /\ reminding # NoList
  /\ Shows(reminding) \/ UNCHANGED <<shown, stale>>
  /\ reminding' = NoList
  /\ UNCHANGED <<editing, shelf, jobs, feed, resuming, flawed, dropped, buried>>

-----------------------------------------------------------------------------
\* Rows and files stay; the list is read anew.
DraftsKilled ==
  /\ editor' = [s \in Sessions |->
                  IF editor[s].pc = "open" THEN [editor[s] EXCEPT !.pc = "closed", !.timer = 0]
                  ELSE editor[s]]
  /\ saving' = [s \in Sessions |-> [v \in ScenesOf(s) |-> "none"]]
  /\ flawed' = flawed \cup {s \in Sessions : InFlight(s) # {}}
  /\ jobs' = <<>> /\ shown' = <<>>
  /\ feed' = TRUE /\ stale' = FALSE
  /\ resuming' = NoList /\ reminding' = NoList
  /\ UNCHANGED <<image, shelf, dropped, buried>>

SessionStep(s) == SceneChanged(s) \/ CloseEditor(s) \/ TimerFires(s)
SaveStep(s, v) == OpenImage(s, v) \/ WriteImage(s, v)
JobStep        == SaveCommits \/ DeleteCommits

DraftsNext ==
  \/ \E s \in Sessions :
       \/ SessionStep(s)
       \/ \E v \in ScenesOf(s) : SaveStep(s, v) \/ ImageFails(s, v)
       \/ DeleteRequested(s)
       \/ ResumeRequested(s)
       \/ ReminderRequested(s)
  \/ JobStep
  \/ JobFails
  \/ ListUpdated
  \/ Resumed
  \/ ReminderSet
  \/ DraftsKilled

DraftsSpec == DraftsInit /\ [][DraftsNext]_draftsVars

-----------------------------------------------------------------------------
\* Once a session's saves are over, and unless they failed or overlapped, its
\* draft is on the shelf with the last scene that was saved, or was deleted or
\* evicted since.
LatestIsStored(s) ==
  editor[s].fired # 0 /\ InFlight(s) = {} /\ s \notin flawed =>
    \/ s \in dropped /\ ~OnShelf(s)
    \/ \E i \in DOMAIN shelf : shelf[i] = [id |-> s, scene |-> editor[s].fired]

\* Its image can be decoded unless it is being written or a write was cut short.
ImageIsWhole(s) ==
  OnShelf(s) /\ s \notin flawed /\ (\A v \in ScenesOf(s) : saving[s][v] # "write") =>
    image[s] = "whole"

\* Drafts keep what was saved, a deleted one does not come back by itself, and
\* the list shows what is stored unless an update is under way or a handler
\* wrote back the list it had read.
DraftsKept ==
  /\ \A s \in Sessions : LatestIsStored(s) /\ ImageIsWhole(s)
  /\ \A s \in buried : ~OnShelf(s)
  /\ shown = shelf \/ feed \/ stale

\* A draft leaves the shelf because its user deleted it, or as the one saved
\* longest ago when a new one finds the shelf full; storing a draft again never
\* costs another one.
DraftsLeave ==
  [][\A s \in Sessions :
       OnShelf(s) /\ s \notin Ids(shelf') =>
         \/ jobs # <<>> /\ Job.op = "delete" /\ Job.id = s
         \/ Head(shelf).id = s /\ Len(shelf') = MaxDrafts
            /\ \E n \in Ids(shelf') : ~OnShelf(n)]_draftsVars
=============================================================================
