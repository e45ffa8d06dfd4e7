---------------------------- MODULE PaidModelCalls ----------------------------
(***************************************************************************)
(* A paid model call: CostControlledLlmGateway reserves its estimated cost *)
(* in the durable ledger of ProductionCostControl, lets the                *)
(* ValidatedLlmGateway call the provider once (LIVE_PAID demands           *)
(* maxProviderCalls = 1), and settles what the answer says it cost.        *)
(* Requests run concurrently, each of the ledger's transactions is one     *)
(* step that may also fail, and the process may die between any two.       *)
(***************************************************************************)
EXTENDS Integers, FiniteSets, Functions

CONSTANTS
  ModelRequest,    \* model requests, each with a reservation of its own
  Mission,         \* the mission of each request
  Estimate,        \* its estimated cost in cents
  Cost,            \* what an answer may report as its cost
  Limit,           \* the policy: limits per day, per mission and in all
  AcceptLimit,     \* the highest cost that the operation limits let through
  DayLength,       \* ticks of a day; the first day ends after one tick
  ApprovalWindow,  \* ticks for which an approval is good (ten minutes)
  Horizon,         \* bound: the last instant considered
  MaxFaults        \* bound: crashes and failed transactions

ASSUME PaidAssumption ==
  /\ IsFiniteSet(ModelRequest) /\ Limit \in [day : Nat, mission : Nat, all : Nat]
  /\ Estimate \in [ModelRequest -> Nat] /\ Cost \subseteq Nat
  /\ DayLength \in Nat \ {0} /\ Horizon \in Nat /\ MaxFaults \in Nat

VARIABLES
  now,         \* the clock
  approvedAt,  \* when Fabio approved the activation this process runs with
  ledger,      \* the durable ledger
  caller,      \* where the call of each request stands in this process
  answer,      \* what the inner gateway returned to it
  calls,       \* history: calls the provider received for the request
  lost,        \* history: requests whose call was cut short
  faults       \* bound: how often that happened

paidVars == <<now, approvedAt, ledger, caller, answer, calls, lost, faults>>

NoAnswer == [cost |-> 0, calls |-> 0]
NoReservation == [status |-> "none", day |-> 0]

PaidInit ==
  /\ now = 0 /\ approvedAt = 0
  /\ ledger = [reservations |-> [r \in ModelRequest |-> NoReservation],
               settlements |-> [r \in ModelRequest |-> NoAnswer],
               anomalyStop |-> FALSE, killSwitch |-> "RELEASED"]
  /\ caller = [r \in ModelRequest |-> "idle"]
  /\ answer = [r \in ModelRequest |-> NoAnswer]
  /\ calls = [r \in ModelRequest |-> 0]
  /\ lost = {} /\ faults = 0

Day(t) == (t + DayLength - 1) \div DayLength

\* A look-up that finds settled reservations only.
ReservedAndSettled == {r \in ModelRequest : ledger.reservations[r].status = "SETTLED"}

Reserved == {r \in ModelRequest : ledger.reservations[r].status # "none"}

\* A budget that overlooks what is still open.
ChargeSettled(r) ==
  IF ledger.reservations[r].status = "SETTLED" THEN ledger.settlements[r].cost ELSE 0

Charge(r) ==
  IF ledger.reservations[r].status = "SETTLED"
    THEN ledger.settlements[r].cost ELSE Estimate[r]

Spend(records) == SumFunctionOnSet([r \in ModelRequest |-> Charge(r)], records)

OfDay(day) == {r \in Reserved : ledger.reservations[r].day = day}
OfMission(mission) == {r \in Reserved : Mission[r] = mission}

WithinBudgets(r, day) ==
  /\ Spend(OfDay(day)) + Estimate[r] <= Limit.day
  /\ Spend(OfMission(Mission[r])) + Estimate[r] <= Limit.mission
  /\ Spend(Reserved) + Estimate[r] <= Limit.all

Approved(r) ==
  /\ approvedAt <= now /\ now - approvedAt <= ApprovalWindow
  /\ Estimate[r] <= Limit.all

CostControlOpen == ledger.killSwitch = "RELEASED" /\ ~ledger.anomalyStop

Return(r) == caller' = [caller EXCEPT ![r] = "idle"]

Lose(rs) ==
  /\ faults < MaxFaults /\ faults' = faults + 1
  /\ lost' = lost \cup rs

----------------------------------------------------------------------------
\* A workflow step asks for the request's answer; asking again uses the same
\* modelRequestId.
Generate(r) ==
  /\ caller[r] = "idle"
  /\ caller' = [caller EXCEPT ![r] = "reserving"]
  /\ UNCHANGED <<now, approvedAt, ledger, answer, calls, lost, faults>>

\* EXISTS_OPEN, EXISTS_SETTLED and every error end the call.
RefuseReservation(r) ==
  /\ r \in Reserved \/ ~CostControlOpen \/ ~Approved(r) \/ ~WithinBudgets(r, Day(now))
  /\ Return(r)

\* The budgets are checked against one reading of the clock and the record is
\* dated by a second one, at most a tick later.
Reserve(r) ==
  /\ caller[r] = "reserving"
  /\ \/ /\ r \notin Reserved /\ CostControlOpen /\ Approved(r)
        /\ WithinBudgets(r, Day(now))
        /\ \E later \in {now, now + 1} :
             /\ later <= Horizon /\ now' = later
             /\ ledger' = [ledger EXCEPT !.reservations[r] =
                            [status |-> "OPEN", day |-> Day(later)]]
        /\ caller' = [caller EXCEPT ![r] = "calling"]
     \/ RefuseReservation(r) /\ UNCHANGED <<now, ledger>>
  /\ UNCHANGED <<approvedAt, answer, calls, lost, faults>>

Answered(r, cost, counted) ==
  /\ answer' = [answer EXCEPT ![r] = [cost |-> cost, calls |-> counted]]
  /\ caller' = [caller EXCEPT ![r] = "settling"]
  /\ UNCHANGED <<now, approvedAt, ledger, lost, faults>>

Call(r) ==
  /\ caller[r] = "calling"
  /\ calls' = [calls EXCEPT ![r] = @ + 1]

\* ModelRequest, limits, profile, provider or budget are refused before any call.
RefuseRequest(r) ==
  /\ caller[r] = "calling"
  /\ Answered(r, 0, 0)
  /\ UNCHANGED calls

\* A valid answer within the limits carries the accounted usage.
AcceptAnswer(r) ==
  \E cost \in Cost :
    /\ cost <= AcceptLimit
    /\ Call(r) /\ Answered(r, cost, 1)

\* A timeout or a provider failure is charged at the estimate.
ProviderFails(r) == Call(r) /\ Answered(r, Estimate[r], 1)

\* An answer that is invalid, of another request, or above a limit is replaced
\* by a failure that has no usage and whose stage providerWasCalled does not
\* take for a call.
RejectAnswer(r) == Call(r) /\ Answered(r, 0, 0)

\* The inner gateway throws, before any call.
GatewayThrows(r) ==
  /\ caller[r] = "calling"
  /\ answer' = [answer EXCEPT ![r] = [cost |-> Estimate[r], calls |-> 1]]
  /\ caller' = [caller EXCEPT ![r] = "settling thrown"]
  /\ UNCHANGED <<now, approvedAt, ledger, calls, lost, faults>>

Anomaly(r) == answer[r].cost > Estimate[r] \/ answer[r].calls > 1

Settle(r) ==
  /\ caller[r] \in {"settling", "settling thrown"}
  /\ ledger' = [ledger EXCEPT
                  !.reservations[r].status = "SETTLED",
                  !.settlements[r] = answer[r],
                  !.anomalyStop = @ \/ Anomaly(r),
                  !.killSwitch = IF Anomaly(r) THEN "ACTIVE" ELSE @]
  /\ IF caller[r] = "settling" THEN Return(r)
     ELSE caller' = [caller EXCEPT ![r] = "stopping"]
  /\ answer' = [answer EXCEPT ![r] = NoAnswer]
  /\ UNCHANGED <<now, approvedAt, calls, lost, faults>>

ActivateKillSwitch(r) ==
  /\ caller[r] = "stopping"
  /\ ledger' = [ledger EXCEPT !.killSwitch = "ACTIVE"]
  /\ Return(r)
  /\ UNCHANGED <<now, approvedAt, answer, calls, lost, faults>>

\* The lock stays busy or the file cannot be written: the call ends there.
LedgerFails(r) ==
  /\ caller[r] \notin {"idle", "calling"}
  /\ Return(r) /\ Lose({r})
  /\ answer' = [answer EXCEPT ![r] = NoAnswer]
  /\ UNCHANGED <<now, approvedAt, ledger, calls>>

\* The process dies, perhaps while the provider works, and is started again
\* with an activation that may have been approved anew.
GatewayCrash ==
  /\ approvedAt' \in {approvedAt, now}
  /\ Lose({r \in ModelRequest : caller[r] # "idle"})
  /\ \E reached \in SUBSET {r \in ModelRequest : caller[r] = "calling"} :
       calls' = [r \in ModelRequest |-> calls[r] + IF r \in reached THEN 1 ELSE 0]
  /\ caller' = [r \in ModelRequest |-> "idle"]
  /\ answer' = [r \in ModelRequest |-> NoAnswer]
  /\ UNCHANGED <<now, ledger>>

PaidTick ==
  /\ now < Horizon /\ now' = now + 1
  /\ UNCHANGED <<approvedAt, ledger, caller, answer, calls, lost, faults>>

PaidNext ==
  \/ \E r \in ModelRequest :
       \/ Generate(r) \/ Reserve(r) \/ RefuseRequest(r) \/ AcceptAnswer(r)
       \/ ProviderFails(r) \/ RejectAnswer(r) \/ GatewayThrows(r)
       \/ Settle(r) \/ ActivateKillSwitch(r) \/ LedgerFails(r)
  \/ GatewayCrash \/ PaidTick

PaidSpec == PaidInit /\ [][PaidNext]_paidVars

----------------------------------------------------------------------------
PaidTypeOK ==
  /\ now \in 0 .. Horizon /\ approvedAt \in 0 .. now
  /\ ledger.reservations \in
       [ModelRequest -> [status : {"none", "OPEN", "SETTLED"}, day : Nat]]
  /\ ledger.settlements \in [ModelRequest -> [cost : Nat, calls : 0 .. 1]]
  /\ ledger.anomalyStop \in BOOLEAN /\ ledger.killSwitch \in {"ACTIVE", "RELEASED"}
  /\ caller \in [ModelRequest -> {"idle", "reserving", "calling", "settling",
                              "settling thrown", "stopping"}]
  /\ answer \in [ModelRequest -> [cost : Nat, calls : 0 .. 1]]
  /\ calls \in [ModelRequest -> Nat]
  /\ lost \subseteq ModelRequest /\ faults \in 0 .. MaxFaults

\* However calls interleave, across midnight and across restarts, what is
\* reserved and settled stays within the budget of each day, of each mission
\* and of all, unless a settlement above its estimate has stopped everything.
BudgetsHold ==
  \/ ledger.anomalyStop /\ ledger.killSwitch = "ACTIVE"
  \/ /\ \A d \in 0 .. Day(Horizon) : Spend(OfDay(d)) <= Limit.day
     /\ \A r \in ModelRequest : Spend(OfMission(Mission[r])) <= Limit.mission
     /\ Spend(Reserved) <= Limit.all

\* A request is never paid twice: neither a repeated step nor a restart in the
\* middle of the call reaches the provider again.
PaidOnce == \A r \in ModelRequest : calls[r] <= 1

\* A reservation that no running call will settle belongs to a call that was
\* cut short: nothing else leaves the budget occupied for ever.
OpenOnlyWhenLost ==
  \A r \in ModelRequest :
    ledger.reservations[r].status = "OPEN" =>
      caller[r] \in {"calling", "settling", "settling thrown"} \/ r \in lost

\* Whatever dies or fails in the middle of a call, it is paid once, and what stays
\* reserved is what was lost.
ReservationsAreSound == PaidOnce /\ OpenOnlyWhenLost

=============================================================================
