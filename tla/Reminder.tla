------------------------------ MODULE Reminder ------------------------------
(***************************************************************************)
(* main.reminder_loop: one thread that, every minute, lists the rows that  *)
(* are due and posts a reminder for each row of that list.  The list is a  *)
(* copy: a row may be decided before its turn comes.                       *)
(***************************************************************************)
EXTENDS Worker

VARIABLES
  todo,      \* the rows of the list still to be reminded of
  reminded   \* the row whose reminder is out but not yet marked: a set of <= 1

reminderVars == <<todo, reminded>>

ReminderTypeOK ==
  /\ todo \subseteq Ids
  /\ reminded \subseteq Ids

ReminderInit ==
  /\ todo = {}
  /\ reminded = {}

ListDue ==
  /\ todo = {} /\ reminded = {}
  /\ list_due_reminders # {}
  /\ todo' = list_due_reminders
  /\ UNCHANGED <<reminded, storeVars, slackVars, workerVars>>

\* post_reminder: a threaded reply that leaves the alert and its buttons alone.
PostReminder(i) ==
  /\ i \in todo /\ reminded = {}
  /\ reminded' = {i}
  /\ todo' = todo \ {i}
  /\ UNCHANGED <<storeVars, slackVars, workerVars>>

MarkReminded(i) ==
  /\ i \in reminded
  /\ mark_reminded(i)
  /\ reminded' = {}
  /\ UNCHANGED <<todo, slackVars, workerVars>>

\* An exception from Slack or SQLite: the row is skipped until the next pass.
ReminderFails ==
  /\ "exception" \in Faults
  /\ \/ reminded # {} /\ reminded' = {} /\ UNCHANGED todo
     \/ /\ reminded = {}
        /\ \E i \in todo : todo' = todo \ {i}
        /\ UNCHANGED reminded
  /\ UNCHANGED <<storeVars, slackVars, workerVars>>

\* Time passes: a row gets due again.
FallsDue(i) ==
  /\ ReminderFallsDue(i)
  /\ UNCHANGED <<todo, reminded, slackVars, workerVars>>

ReminderProgress ==
  \/ ListDue
  \/ \E i \in Ids : PostReminder(i) \/ MarkReminded(i)

ReminderStep == ReminderProgress \/ ReminderFails
=============================================================================
