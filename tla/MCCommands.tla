------------------------------ MODULE MCCommands ------------------------------
(***************************************************************************)
(* Small instances, for TLC, of the components around the command boundary *)
(* (reviews of content, workflow reports, the queue of content to produce, *)
(* the Telegram operator) and of those that tell when work is due and how  *)
(* it ends (the business calendar, the lifecycle of an operations job, the *)
(* worker that shares a mission's budget, the backups, the stream of       *)
(* events).  A behaviour is about one of them, chosen at the start among   *)
(* Parts; the others rest in their initial states.                         *)
(*                                                                         *)
(* The calendar is Europe/Rome in slots of half an hour: one hour ahead of *)
(* UTC in winter, two in summer, changing at 01:00 UTC, here on the second *)
(* of three days.                                                          *)
(***************************************************************************)
EXTENDS MCOperationsRuntime, MCContentReview, WorkflowReports, ProductionRuntime,
        BusinessCalendar, JobLifecycle, TelegramOperator, BackupRetention, EventStream

CONSTANTS
  Parts,  \* the components the behaviours are about
  d1, d2, w1, w2, o1, o2, rep, n1, v1, v2, g1, g2

VARIABLE part  \* the component a behaviour is about

\* 00:00, 02:00 and 02:30, which spring leaves out and autumn repeats, 07:00 of
\* the catalog, and 23:30.
ClockTimes == {0, 4, 5, 14, 47}

\* The components that use the command boundary have variables in common.
reviewOnlyVars == <<publicationVars, manifest, adapterVars, changes, reviewStops>>
reportOnlyVars == <<workflow, lifecycleRecords, reportStops>>
commandVars == <<boundaryVars, reviewOnlyVars, reportOnlyVars>>
othersOfCommands == <<part, vars, contentVars, calendarVars, lifecycleVars, telegramVars,
                    retentionVars, streamVars>>
commandsVars == <<othersOfCommands, commandVars>>

\* One of the initial states of the calendar, of Telegram and of the backups stands
\* for all in the other behaviours.
CalendarRests == change = "SPRING" /\ time = 14 /\ nextRunAt = 14
TelegramRests == \A u \in Update : updateKind[u] = "STATUS"
BackupsRest == anchored /\ broken = {} /\ \A k \in 1..Existing : files[k] = Bundle

CommandsInit ==
  /\ part \in Parts
  /\ CalendarInit /\ (part # "calendar" => CalendarRests)
  /\ TelegramInit /\ (part # "telegram" => TelegramRests)
  /\ RetentionInit /\ (part # "backups" => BackupsRest)
  /\ Init /\ ContentInit /\ LifecycleInit /\ ReviewInit /\ ReportsInit
  /\ StreamInit

CommandsNext ==
  \/ part = "reviews" /\ ReviewNext /\ UNCHANGED <<othersOfCommands, reportOnlyVars>>
  \/ part = "reports" /\ ReportsNext /\ UNCHANGED <<othersOfCommands, reviewOnlyVars>>
  \/ /\ part = "worker" /\ Next
     /\ UNCHANGED <<part, contentVars, calendarVars, lifecycleVars, telegramVars, retentionVars, streamVars, commandVars>>
  \/ /\ part = "content" /\ ContentNext
     /\ UNCHANGED <<part, vars, calendarVars, lifecycleVars, telegramVars, retentionVars, streamVars, commandVars>>
  \/ /\ part = "calendar" /\ CalendarNext
     /\ UNCHANGED <<part, vars, contentVars, lifecycleVars, telegramVars, retentionVars, streamVars, commandVars>>
  \/ /\ part = "lifecycle" /\ LifecycleNext
     /\ UNCHANGED <<part, vars, contentVars, calendarVars, telegramVars, retentionVars, streamVars, commandVars>>
  \/ /\ part = "telegram" /\ TelegramNext
     /\ UNCHANGED <<part, vars, contentVars, calendarVars, lifecycleVars, retentionVars, streamVars, commandVars>>
  \/ /\ part = "backups" /\ RetentionNext
     /\ UNCHANGED <<part, vars, contentVars, calendarVars, lifecycleVars, telegramVars, streamVars,
                    commandVars>>
  \/ /\ part = "events" /\ StreamNext
     /\ UNCHANGED <<part, vars, contentVars, calendarVars, lifecycleVars, telegramVars, retentionVars,
                    commandVars>>

CommandsSpec == CommandsInit /\ [][CommandsNext]_commandsVars

-----------------------------------------------------------------------------
(* The calendar's invariants, which take long to evaluate, where it moves.   *)

\* Every clock time has the promised instant on every date (OccurrencesResolve),
\* and an instant is counted on its own business date only (WindowsPartition).
DatesResolve == part = "calendar" => OccurrencesResolve /\ WindowsPartition

\* The records of the component that moves keep their shapes.
CommandsTypeOK ==
  /\ part = "content" => ContentTypeOK
  /\ part = "calendar" => CalendarTypeOK
  /\ part = "telegram" => TelegramTypeOK
  /\ part = "backups" => RetentionTypeOK
  /\ part = "events" => StreamTypeOK

=============================================================================
