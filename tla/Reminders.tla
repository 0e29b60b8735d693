----------------------------- MODULE Reminders -----------------------------
(***************************************************************************)
(* Reminders and the goroutine that fires the due ones: each minute it     *)
(* reads a batch of them, marks one after the other as fired and notifies  *)
(* its user.  A statement may fail, or take effect and its answer be lost; *)
(* the process may die anywhere, and is then started again.                *)
(***************************************************************************)
EXTENDS Naturals, Sequences, FiniteSets
LOCAL INSTANCE SequencesExt

CONSTANTS Posts,    \* reminders
          Batch,    \* limit of FindDueReminders
          Horizon,  \* how far ahead a reminder may be: 30 days
          MaxClock  \* bound on the clock

ASSUME ReminderAssumption ==
  /\ IsFiniteSet(Posts)
  /\ Batch \in Nat \ {0} /\ Horizon \in Nat /\ MaxClock \in Nat

VARIABLES
  clock,
  reminder, \* status and scheduled_at_utc
  sweep,    \* the ids the sweep has still to go through, and its step
  told,     \* how often each user was notified
  missed      \* history: fired, and nobody left who would notify

reminderVars == <<clock, reminder, sweep, told, missed>>

ReminderTypeOK ==
  /\ clock \in 0..MaxClock
  /\ reminder \in [Posts -> [status: {"absent", "pending", "fired"}, at: 0..MaxClock + Horizon]]
  /\ sweep \in [pc: {"idle", "mark", "notify"}, due: Seq(Posts)]
  /\ sweep.pc = "idle" <=> sweep.due = <<>>
  /\ told \in [Posts -> Nat]
  /\ missed \in SUBSET Posts

Resting == [pc |-> "idle", due |-> <<>>]

ReminderInit ==
  /\ clock = 0
  /\ reminder = [p \in Posts |-> [status |-> "absent", at |-> 0]]
  /\ sweep = Resting
  /\ told = [p \in Posts |-> 0]
  /\ missed = {}

ClockTicks ==
  /\ clock < MaxClock
  /\ clock' = clock + 1
  /\ UNCHANGED <<reminder, sweep, told, missed>>

\* Neither in the past nor beyond the horizon.
CreateReminder(p) ==
  /\ reminder[p].status = "absent"
  /\ \E at \in clock..clock + Horizon :
       reminder' = [reminder EXCEPT ![p] = [status |-> "pending", at |-> at]]
  /\ UNCHANGED <<clock, sweep, told, missed>>

-----------------------------------------------------------------------------
(* FireDueReminders. *)

Pending(p) == reminder[p].status = "pending"
Due(p)     == Pending(p) /\ reminder[p].at <= clock

\* Mutation: only what has become due since the last minute.
BatchesOfThisMinute ==
  LET due == {p \in Posts : Due(p) /\ reminder[p].at = clock} IN
  {s \in SetToAllKPermutations(due) : Len(s) <= Batch}

\* The earliest of those that are due, as many as the limit allows.
Batches ==
  LET due  == {p \in Posts : Due(p)}
      size == IF Cardinality(due) < Batch THEN Cardinality(due) ELSE Batch
      Earlier(p, q) == reminder[p].at <= reminder[q].at
  IN {s \in SetToAllKPermutations(due) :
        /\ Len(s) = size
        /\ \A i \in 1..size, p \in due :
             (\A j \in 1..i : s[j] # p) => Earlier(s[i], p)}

FindDue ==
  /\ sweep.pc = "idle"
  /\ \E s \in Batches : s # <<>> /\ sweep' = [pc |-> "mark", due |-> s]
  /\ UNCHANGED <<clock, reminder, told, missed>>

Rest == IF Len(sweep.due) = 1 THEN Resting ELSE [pc |-> "mark", due |-> Tail(sweep.due)]
Fired == [reminder EXCEPT ![Head(sweep.due)].status = "fired"]

Mark ==
  /\ sweep.pc = "mark"
  /\ reminder' = Fired
  /\ sweep' = [sweep EXCEPT !.pc = "notify"]
  /\ UNCHANGED <<clock, told, missed>>

\* Mutation: the error does not keep the user from being notified.
MarkErrsIgnored ==
  /\ sweep.pc = "mark"
  /\ \/ UNCHANGED reminder
     \/ reminder' = Fired
  /\ sweep' = [sweep EXCEPT !.pc = "notify"]
  /\ UNCHANGED <<clock, told, missed>>

\* The sweep goes on to the next reminder; the write may have taken effect.
MarkErrs ==
  /\ sweep.pc = "mark"
  /\ \/ UNCHANGED <<reminder, missed>>
     \/ reminder' = Fired /\ missed' = missed \cup {Head(sweep.due)}
  /\ sweep' = Rest
  /\ UNCHANGED <<clock, told>>

Notify ==
  /\ sweep.pc = "notify"
  /\ told' = [told EXCEPT ![Head(sweep.due)] = @ + 1]
  /\ sweep' = Rest
  /\ UNCHANGED <<clock, reminder, missed>>

\* The process dies and is started again; the ticker keeps no state.
Restart ==
  /\ missed' = IF sweep.pc = "notify" THEN missed \cup {Head(sweep.due)} ELSE missed
  /\ sweep' = Resting
  /\ UNCHANGED <<clock, reminder, told>>

ReminderNext ==
  \/ ClockTicks
  \/ \E p \in Posts : CreateReminder(p)
  \/ FindDue
  \/ Mark
  \/ MarkErrs
  \/ Notify
  \/ Restart

ReminderSpec == ReminderInit /\ [][ReminderNext]_reminderVars

\* The ticker ticks, and the database does not refuse every write.
ReminderFairness ==
  /\ SF_reminderVars(FindDue)
  /\ SF_reminderVars(Mark)
  /\ WF_reminderVars(Notify)

-----------------------------------------------------------------------------
\* Nobody is notified twice, or before the time, or of a reminder that would
\* fire again, whatever fails in between; and who has not been, of a reminder
\* marked as fired, is about to be, unless the process died or the answer of the
\* database was lost at that very moment.
NotifiedOnce ==
  \A p \in Posts :
    /\ told[p] > 0 => told[p] = 1 /\ reminder[p].status = "fired" /\ reminder[p].at <= clock
    /\ reminder[p].status = "fired" /\ told[p] = 0 =>
         p \in missed \/ (sweep.pc = "notify" /\ Head(sweep.due) = p)

\* However many are due at once and however often a sweep is cut short, every
\* reminder that is due is fired.
AllFire == \A p \in Posts : Due(p) ~> reminder[p].status = "fired"
=============================================================================
