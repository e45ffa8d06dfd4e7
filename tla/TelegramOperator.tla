--------------------------- MODULE TelegramOperator ---------------------------
(***************************************************************************)
(* The Telegram operator: a process that polls the updates of one private  *)
(* chat, claims each of them in its SQLite state, handles it and delivers  *)
(* one message in answer (telegram-operator-console.ts,                    *)
(* telegram-sqlite-state-store.ts, telegram-operator-lifecycle.ts).  The   *)
(* intent to deliver is durable before the message leaves, and what became *)
(* of it is recorded together with the polling offset; a message whose     *)
(* fate is not known stops the operator.  Receipts, deliveries and the     *)
(* operator's session are kept for a while and purged before each poll.    *)
(*                                                                         *)
(* Of the commands, the module models those the console answers itself:    *)
(* /stop, which has to be sent twice, /status, which stands for the others *)
(* that change nothing, and a command whose handler, or whose answer, is   *)
(* refused before anything is sent.  Mission drafts are left out: the      *)
(* session is the one that these commands keep.  One operator runs at a    *)
(* time (SupervisedProcessLock).                                           *)
(***************************************************************************)
EXTENDS Integers

CONSTANTS
  LastUpdate,        \* bound: updates of the chat, numbered from 1 as they arrive
  PollLimit,         \* updates that a poll returns at most
  MaxPollingRetries, \* polls that may fail in a row before the operator gives up
  ReceiptRetention, SessionRetention,
  MaxTelegramTime,   \* bound: the clock
  MaxTelegramStops   \* bound: crashes

ASSUME TelegramAssumption ==
  /\ {LastUpdate, PollLimit, ReceiptRetention, SessionRetention} \subseteq Nat \ {0}
  /\ {MaxPollingRetries, MaxTelegramTime, MaxTelegramStops} \subseteq Nat

VARIABLES
  updateKind,    \* what each update asks for
  arrived,       \* the last update that Telegram holds
  telegramTime,
  offset,        \* the next update to ask for; stored
  receipt,       \* telegram_inbound_receipts, by update
  delivery,      \* telegram_outbound_deliveries, by update
  session,       \* telegram_operator_sessions: the one of the allowed user
  console,       \* the process: its step, the updates it fetched, and what it is doing
  chat,          \* messages in the chat that answer each update
  opened,        \* updates for which a delivery was ever opened
  forgotten,     \* how often the receipt of an update was purged while it was still due
  telegramStops

telegramVars == <<updateKind, arrived, telegramTime, offset, receipt, delivery, session,
                  console, chat, opened, forgotten, telegramStops>>
ghosts == <<chat, opened, forgotten>>
surroundings == <<updateKind, arrived, telegramTime, telegramStops>>

Update == 1..LastUpdate
UpdateKind == {"STOP", "STATUS", "FAILING", "FOREIGN"}
Settled == {"COMPLETED", "REJECTED"}

NoReceipt == [state |-> "NONE", expiresAt |-> 0]
NoSession == [state |-> "NONE", expiresAt |-> 0]
Down == [step |-> "DOWN", next |-> 0, last |-> 0, retries |-> 0, outcome |-> "COMPLETED", stop |-> FALSE]

TelegramInit ==
  /\ updateKind \in [Update -> UpdateKind]
  /\ arrived = 0 /\ telegramTime = 0 /\ telegramStops = 0
  /\ offset = 1
  /\ receipt = [u \in Update |-> NoReceipt]
  /\ delivery = [u \in Update |-> "NONE"]
  /\ session = NoSession
  /\ console = Down
  /\ chat = [u \in Update |-> 0] /\ opened = {} /\ forgotten = [u \in Update |-> 0]

\* What is kept up to now or less is expired.
PastRetention(record) == record.state # "NONE" /\ record.expiresAt <= telegramTime

-----------------------------------------------------------------------------
(* The surroundings. *)

UpdateArrives ==
  /\ arrived < LastUpdate
  /\ arrived' = arrived + 1
  /\ UNCHANGED <<updateKind, telegramTime, telegramStops, offset, receipt, delivery, session, console, ghosts>>

\* A purge reads the clock once.
TelegramTick ==
  /\ telegramTime < MaxTelegramTime /\ console.step # "PURGE_RECEIPTS"
  /\ telegramTime' = telegramTime + 1
  /\ UNCHANGED <<updateKind, arrived, telegramStops, offset, receipt, delivery, session, console, ghosts>>

\* The process is killed, or the database fails it: the lifecycle retries polls only.
OperatorStops ==
  /\ console.step # "DOWN" /\ telegramStops < MaxTelegramStops
  /\ telegramStops' = telegramStops + 1
  /\ console' = Down
  /\ UNCHANGED <<updateKind, arrived, telegramTime, offset, receipt, delivery, session, ghosts>>

-----------------------------------------------------------------------------
(* The loop of the lifecycle. *)

\* TelegramOperatorLifecycle.run, bootstrap: the stored offset stays.
StartOperator ==
  /\ console.step = "DOWN"
  /\ console' = [Down EXCEPT !.step = "PURGE"]
  /\ UNCHANGED <<surroundings, offset, receipt, delivery, session, ghosts>>

\* A session in one of these states is taken for that of a mission's draft.
MissionStates == {"WAITING_CONFIRMATION", "COMPLETED"}

\* purgeExpired, its first statements; a session without its draft fails the purge,
\* and a purge that fails ends the operator.
PurgeSessions ==
  /\ console.step = "PURGE"
  /\ IF PastRetention(session) /\ session.state \in MissionStates
       THEN console' = Down /\ UNCHANGED <<session, delivery>>
       ELSE /\ console' = [console EXCEPT !.step = "PURGE_RECEIPTS"]
            /\ session' = IF PastRetention(session) THEN [session EXCEPT !.state = "EXPIRED"] ELSE session
            /\ delivery' = [u \in Update |-> IF PastRetention(receipt[u]) THEN "NONE" ELSE delivery[u]]
  /\ UNCHANGED <<surroundings, offset, receipt, ghosts>>

\* purgeExpired, its last statement; no transaction spans the purge.
PurgeReceipts ==
  /\ console.step = "PURGE_RECEIPTS"
  /\ console' = [console EXCEPT !.step = "POLL"]
  /\ receipt' = [u \in Update |-> IF PastRetention(receipt[u]) THEN NoReceipt ELSE receipt[u]]
  /\ forgotten' = [u \in Update |-> IF PastRetention(receipt[u]) /\ u >= offset THEN forgotten[u] + 1
                                                                         ELSE forgotten[u]]
  /\ UNCHANGED <<surroundings, offset, delivery, session, chat, opened>>

\* getUpdates from the stored offset.
Poll ==
  /\ console.step = "POLL"
  /\ console' = [console EXCEPT !.step = "NEXT", !.next = offset,
                     !.last = IF arrived < offset + PollLimit THEN arrived ELSE offset + PollLimit - 1]
  /\ UNCHANGED <<surroundings, offset, receipt, delivery, session, ghosts>>

PollFails ==
  /\ console.step = "POLL"
  /\ console' = IF console.retries < MaxPollingRetries
                  THEN [console EXCEPT !.step = "PURGE", !.retries = @ + 1]
                  ELSE Down
  /\ UNCHANGED <<surroundings, offset, receipt, delivery, session, ghosts>>

PollIsDone ==
  /\ console.step = "NEXT" /\ console.next > console.last
  /\ console' = [Down EXCEPT !.step = "PURGE"]
  /\ UNCHANGED <<surroundings, offset, receipt, delivery, session, ghosts>>

-----------------------------------------------------------------------------
(* One update. *)

\* The offset never goes back (#writeOffset).
OffsetPast(u) == IF offset > u + 1 THEN offset ELSE u + 1
OnToNext == [console EXCEPT !.step = "NEXT", !.next = @ + 1, !.outcome = "COMPLETED", !.stop = FALSE]

\* An answer that says that the update was not processed.
Reject == [console EXCEPT !.step = "OPEN", !.outcome = "REJECTED", !.stop = FALSE]

IsAt(step) == console.step = step /\ (step = "NEXT" => console.next <= console.last)

\* normalize refuses the update: another chat, an unknown command.
Discard ==
  /\ IsAt("NEXT") /\ updateKind[console.next] = "FOREIGN"
  /\ offset' = OffsetPast(console.next)
  /\ console' = OnToNext
  /\ UNCHANGED <<surroundings, receipt, delivery, session, ghosts>>

\* claim, and what #processUpdate makes of its answer.
Claim ==
  /\ IsAt("NEXT") /\ updateKind[console.next] # "FOREIGN"
  /\ LET u == console.next
         state == receipt[u].state IN
       \/ /\ state = "NONE"
          /\ receipt' = [receipt EXCEPT ![u] = [state |-> "RECEIVED", expiresAt |-> telegramTime + ReceiptRetention]]
          /\ console' = [console EXCEPT !.step = "HANDLE"]
          /\ UNCHANGED offset
       \/ /\ state = "RECEIVED"
          /\ console' = IF delivery[u] = "NONE" THEN [console EXCEPT !.step = "HANDLE"] ELSE Reject
          /\ UNCHANGED <<receipt, offset>>
       \/ /\ state = "DELIVERY_UNCERTAIN"
          /\ IF delivery[u] = "UNCERTAIN"
               THEN offset' = OffsetPast(u) /\ console' = Down
               ELSE console' = Reject /\ UNCHANGED offset
          /\ UNCHANGED receipt
       \/ /\ state \in Settled
          /\ offset' = OffsetPast(u)
          /\ console' = OnToNext
          /\ UNCHANGED receipt
  /\ UNCHANGED <<surroundings, delivery, session, ghosts>>

\* #standardAction, startSession: a session that is there is taken as it is.
OpenSession ==
  /\ IsAt("HANDLE") /\ updateKind[console.next] # "FAILING"
  /\ session' = IF session = NoSession
                  THEN [state |-> "IDLE", expiresAt |-> telegramTime + SessionRetention]
                  ELSE session
  /\ console' = [console EXCEPT !.step = "ACT"]
  /\ UNCHANGED <<surroundings, offset, receipt, delivery, ghosts>>

\* #standardAction, transitionSession: the first /stop asks for a second one.
Act ==
  /\ IsAt("ACT")
  /\ IF updateKind[console.next] = "STOP" /\ session.state \in {"IDLE", "WAITING_CONFIRMATION"}
       THEN IF session.expiresAt <= telegramTime
              THEN console' = Reject /\ UNCHANGED session
              ELSE /\ session' = [session EXCEPT !.state = IF @ = "IDLE" THEN "WAITING_CONFIRMATION"
                                                                         ELSE "COMPLETED"]
                   /\ console' = [console EXCEPT !.step = "OPEN",
                                                 !.stop = session.state = "WAITING_CONFIRMATION"]
       ELSE console' = [console EXCEPT !.step = "OPEN"] /\ UNCHANGED session
  /\ UNCHANGED <<surroundings, offset, receipt, delivery, ghosts>>

\* A handler throws, or validateDeliveryIntent refuses its answer.
HandlerFails ==
  /\ IsAt("HANDLE") /\ updateKind[console.next] = "FAILING"
  /\ console' = Reject
  /\ UNCHANGED <<surroundings, offset, receipt, delivery, session, ghosts>>

\* beginDelivery: the intent and the receipt in one transaction, once.
BeginDelivery ==
  /\ IsAt("OPEN")
  /\ LET u == console.next IN
       IF receipt[u].state = "RECEIVED" /\ delivery[u] = "NONE"
         THEN /\ delivery' = [delivery EXCEPT ![u] = "UNCERTAIN"]
              /\ receipt' = [receipt EXCEPT ![u].state = "DELIVERY_UNCERTAIN"]
              /\ opened' = opened \union {u}
              /\ console' = [console EXCEPT !.step = "SEND"]
         ELSE console' = Down /\ UNCHANGED <<delivery, receipt, opened>>
  /\ UNCHANGED <<surroundings, offset, session, chat, forgotten>>

\* Mutant: a message whose answer is lost is sent again.
DeliverUntilAnswered ==
  /\ IsAt("SEND")
  /\ \E taken, answered \in BOOLEAN :
       /\ answered => taken
       /\ chat' = [chat EXCEPT ![console.next] = @ + IF taken THEN 1 ELSE 0]
       /\ console' = [console EXCEPT !.step = IF answered THEN "SETTLE" ELSE "SEND"]
  /\ UNCHANGED <<surroundings, offset, receipt, delivery, session, opened, forgotten>>

\* api.deliver: Telegram takes the message or not, and its answer comes back or not.
Deliver ==
  /\ IsAt("SEND")
  /\ \E taken, answered \in BOOLEAN :
       /\ answered => taken
       /\ chat' = [chat EXCEPT ![console.next] = @ + IF taken THEN 1 ELSE 0]
       /\ console' = [console EXCEPT !.step = IF answered THEN "SETTLE" ELSE "RECONCILE"]
  /\ UNCHANGED <<surroundings, offset, receipt, delivery, session, opened, forgotten>>

\* completeDeliveryAndAdvanceOffset; a confirmed /stop closes the operator.
CompleteDelivery ==
  /\ IsAt("SETTLE")
  /\ LET u == console.next IN
       /\ delivery' = [delivery EXCEPT ![u] = "DELIVERED"]
       /\ receipt' = [receipt EXCEPT ![u].state = console.outcome]
       /\ offset' = OffsetPast(u)
  /\ console' = IF console.stop THEN Down ELSE OnToNext
  /\ UNCHANGED <<surroundings, session, ghosts>>

\* advanceDeliveryUncertainOffset and DELIVERY_RECONCILIATION_REQUIRED.
LeaveUncertain ==
  /\ IsAt("RECONCILE")
  /\ offset' = OffsetPast(console.next)
  /\ console' = Down
  /\ UNCHANGED <<surroundings, receipt, delivery, session, ghosts>>

ProcessUpdate ==
  \/ Discard \/ Claim \/ OpenSession \/ Act \/ HandlerFails
  \/ BeginDelivery \/ Deliver \/ CompleteDelivery \/ LeaveUncertain

TelegramNext ==
  \/ UpdateArrives \/ TelegramTick \/ OperatorStops
  \/ StartOperator \/ PurgeSessions \/ PurgeReceipts \/ Poll \/ PollFails \/ PollIsDone
  \/ ProcessUpdate

TelegramSpec == TelegramInit /\ [][TelegramNext]_telegramVars

-----------------------------------------------------------------------------
(* Properties. *)

TelegramTypeOK ==
  /\ updateKind \in [Update -> UpdateKind]
  /\ arrived \in 0..LastUpdate /\ telegramTime \in 0..MaxTelegramTime
  /\ offset \in 1..LastUpdate + 1
  /\ \A u \in Update : /\ receipt[u].state \in {"NONE", "RECEIVED", "DELIVERY_UNCERTAIN"} \union Settled
                       /\ delivery[u] \in {"NONE", "UNCERTAIN", "DELIVERED"}
  /\ session.state \in {"NONE", "IDLE", "EXPIRED"} \union MissionStates
  /\ console.step \in {"DOWN", "PURGE", "PURGE_RECEIPTS", "POLL", "NEXT", "HANDLE", "ACT", "OPEN",
                       "SEND", "SETTLE", "RECONCILE"}

\* An update is answered again only if its receipt was purged while the update was
\* still due (at most one delivery per receipt, whatever the crashes and the lost
\* answers); polling passes no command for which no delivery was opened; and a
\* receipt says that an answer arrived only if it did (beginDelivery,
\* completeDeliveryAndAdvanceOffset).
UpdatesAreSettled ==
  /\ \A u \in Update : chat[u] <= 1 + forgotten[u]
  /\ \A u \in Update : u < offset => updateKind[u] = "FOREIGN" \/ u \in opened
  /\ \A u \in Update : receipt[u].state \in Settled => chat[u] > 0 /\ u < offset

\* "Restart does not redeliver that response": a message is answered at most once.
AnsweredOnce == \A u \in Update : chat[u] <= 1

=============================================================================
