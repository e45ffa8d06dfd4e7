----------------------------- MODULE ContentReview -----------------------------
(***************************************************************************)
(* The review of a content production, from what Fabio is shown to what is *)
(* recorded: proposals of the Command Center, kept in its memory           *)
(* (command-center-action-service.ts), the one-use approval of Telegram    *)
(* (telegram-workflow-operator-console.ts) and the command line's commands *)
(* all cross the command boundary, and an approval passes the Visual Gate  *)
(* (visual-approval-gate.ts) when it is proposed, when it is confirmed and *)
(* again in the review's own transaction.                                  *)
(***************************************************************************)
EXTENDS ContentPublication, CommandBoundary, Sequences

CONSTANTS
  CenterCaller,    \* requests to the Command Center that may run at once
  TelegramCaller,  \* the Telegram process: one update at a time
  DirectCaller,    \* the command line
  CenterAction,    \* identifiers of the Command Center's proposals
  DirectCommand,   \* what the command line sends, no reviews: a set of [id, input]
  MaxManifests,    \* bound: manifests that are put in place
  MaxReviewStops   \* bound: crashes of an adapter

ASSUME ReviewAssumption ==
  /\ CenterCaller \union {TelegramCaller, DirectCaller} \subseteq Caller
  /\ TelegramCaller # DirectCaller
  /\ {TelegramCaller, DirectCaller} \intersect CenterCaller = {}

VARIABLES
  manifest,   \* the visual manifest in place (0: none that passes) and the last one made
  actions,    \* [CenterAction -> proposal or NoAction]
  confirming, \* [CenterCaller -> the action being confirmed, or "NONE"]
  approval,   \* Telegram's outstanding approval button: the manifest shown, 0 for none
  telegram,   \* the approval Telegram is carrying out: its step and the manifest shown
  changes,    \* history: who changed the content, on which manifest, and the one shown
  reviewStops

reviewVars == <<publicationVars, boundaryVars, manifest, actions, confirming, approval,
                telegram, changes, reviewStops>>
adapterVars == <<actions, confirming, approval, telegram>>

NoAction == [decision |-> "NONE", manifest |-> 0, open |-> FALSE]
AtRest == [step |-> "IDLE", manifest |-> 0]

\* Manifests are bound to the version under review, which is always the first:
\* a production is pending only until its first change.
IsPending(record) == record.status = "PENDING_FABIO_APPROVAL"
GatePasses(shown) == manifest.current # 0 /\ manifest.current = shown

ReviewInit ==
  /\ PublicationInit /\ BoundaryInit
  /\ manifest = [current |-> 0, last |-> 0]
  /\ actions = [a \in CenterAction |-> NoAction]
  /\ confirming = [c \in CenterCaller |-> "NONE"]
  /\ approval = 0
  /\ telegram = AtRest
  /\ changes = <<>>
  /\ reviewStops = 0

\* The tools that make the visual pack put another manifest in place, or spoil it.
ManifestChanges ==
  /\ \/ manifest' = [manifest EXCEPT !.current = 0] /\ manifest.current # 0
     \/ /\ manifest.last < MaxManifests
        /\ manifest' = [current |-> manifest.last + 1, last |-> manifest.last + 1]
  /\ UNCHANGED <<publicationVars, boundaryVars, adapterVars, changes, reviewStops>>

\* operations-control-service.ts pauses and resumes the production.
ProductionIsControlled ==
  /\ \E action \in {"PAUSE", "RESUME"} : ControlProduction(action)
  /\ UNCHANGED <<boundaryVars, manifest, adapterVars, changes, reviewStops>>

-----------------------------------------------------------------------------
(* The commands. *)

ReviewAs(decision) == [operation |-> "REVIEW", decision |-> decision]
Archive == [operation |-> "ARCHIVE"]
Inspect == [operation |-> "INSPECT"]

\* The manifest behind the proposal that a caller is carrying out.
Shown(c) ==
  IF c = TelegramCaller THEN telegram.manifest
  ELSE IF c = DirectCaller THEN manifest.current
  ELSE actions[confirming[c]].manifest

Changed(c) ==
  changes' = Append(changes, [by |-> execution[c].command.id, input |-> execution[c].command.input,
                              manifest |-> manifest.current, shown |-> Shown(c),
                              status |-> content'.status])

\* The two decisions; an approval passes the gate once more, in the transaction.
MayReview(decision) ==
  /\ IsPending(content) /\ Unblocked
  /\ decision = "APPROVED" => manifest.current # 0

\* Mutant: a production that was reviewed already is answered as it is.
ReviewOrKeep(c, decision) ==
  IF MayReview(decision)
    THEN /\ ContentMoves(IF decision = "APPROVED" THEN "APPROVED_FOR_SCHEDULING" ELSE "ARCHIVED", FALSE)
         /\ Changed(c) /\ Dispatched(c, content')
  ELSE IF ~IsPending(content) THEN Dispatched(c, content) /\ UNCHANGED <<publicationVars, changes>>
  ELSE DispatchFails(c) /\ UNCHANGED <<publicationVars, changes>>

DispatchReview(c, decision) ==
  IF MayReview(decision)
    THEN /\ ContentMoves(IF decision = "APPROVED" THEN "APPROVED_FOR_SCHEDULING" ELSE "ARCHIVED", FALSE)
         /\ Changed(c) /\ Dispatched(c, content')
    ELSE DispatchFails(c) /\ UNCHANGED <<publicationVars, changes>>

DispatchArchive(c) ==
  IF content.status # "ARCHIVED"
    THEN ContentMoves("ARCHIVED", content.metrics) /\ Changed(c) /\ Dispatched(c, content')
    ELSE DispatchFails(c) /\ UNCHANGED <<publicationVars, changes>>

Dispatch(c) ==
  /\ execution[c].step = "DISPATCH"
  /\ LET input == execution[c].command.input IN
       \/ input = Inspect /\ Dispatched(c, content) /\ UNCHANGED <<publicationVars, changes>>
       \/ input = Archive /\ DispatchArchive(c)
       \/ \E decision \in {"APPROVED", "REJECTED"} :
            input = ReviewAs(decision) /\ DispatchReview(c, decision)
  /\ UNCHANGED <<manifest, adapterVars, reviewStops>>

CommandStep(c) ==
  \/ Dispatch(c)
  \/ /\ BoundaryStep(c)
     /\ UNCHANGED <<publicationVars, manifest, adapterVars, changes, reviewStops>>

-----------------------------------------------------------------------------
(* The Command Center. *)

ProposeReview(a, decision) ==
  /\ actions[a] = NoAction
  /\ IsPending(content) /\ Unblocked
  /\ decision = "APPROVED" => manifest.current # 0
  /\ actions' = [actions EXCEPT ![a] =
       [decision |-> decision, open |-> TRUE,
        manifest |-> IF decision = "APPROVED" THEN manifest.current ELSE 0]]
  /\ UNCHANGED <<publicationVars, boundaryVars, manifest, confirming, approval, telegram,
                 changes, reviewStops>>

\* The first half of a confirmation reads the production.  What it refuses stays
\* proposed, until its five minutes are over.
CheckAction(c, a) ==
  /\ confirming[c] = "NONE" /\ IsIdle(c)
  /\ actions[a].open
  /\ IsPending(content) /\ Unblocked
  /\ confirming' = [confirming EXCEPT ![c] = a]
  /\ UNCHANGED <<publicationVars, boundaryVars, manifest, actions, approval, telegram,
                 changes, reviewStops>>

\* The second half asks the gate, uses the action up and sends the command.
SendAction(c) ==
  /\ confirming[c] # "NONE" /\ IsIdle(c)
  /\ LET shown == confirming[c] IN
       /\ actions' = [actions EXCEPT ![shown].open = FALSE]
       /\ IF actions[shown].decision = "APPROVED" /\ ~GatePasses(actions[shown].manifest)
            THEN confirming' = [confirming EXCEPT ![c] = "NONE"] /\ UNCHANGED boundaryVars
            ELSE /\ Execute(c, [id |-> <<"center", shown>>, input |-> ReviewAs(actions[shown].decision)])
                 /\ UNCHANGED <<confirming, commandReceipts>>
  /\ UNCHANGED <<publicationVars, manifest, approval, telegram, changes, reviewStops>>

CenterAnswers(c) ==
  /\ IsOver(c)
  /\ execution' = [execution EXCEPT ![c] = NoExecution]
  /\ confirming' = [confirming EXCEPT ![c] = "NONE"]
  /\ UNCHANGED <<publicationVars, commandReceipts, manifest, actions, approval, telegram,
                 changes, reviewStops>>

ActionExpires(a) ==
  /\ actions[a].open
  /\ actions' = [actions EXCEPT ![a].open = FALSE]
  /\ UNCHANGED <<publicationVars, boundaryVars, manifest, confirming, approval, telegram,
                 changes, reviewStops>>

-----------------------------------------------------------------------------
(* Telegram.  Its inspections on /production have an identifier of their own *)
(* each time; those of a confirmation are named after the version.           *)

OfferApproval ==
  /\ IsPending(content) /\ manifest.current # 0 /\ telegram = AtRest
  /\ approval' = manifest.current
  /\ UNCHANGED <<publicationVars, boundaryVars, manifest, actions, confirming, telegram,
                 changes, reviewStops>>

PressApproval ==
  /\ approval # 0 /\ telegram = AtRest /\ IsIdle(TelegramCaller)
  /\ approval' = 0
  /\ telegram' = [step |-> "INSPECTING", manifest |-> approval]
  /\ Execute(TelegramCaller, [id |-> <<"content-confirm-inspect">>, input |-> Inspect])
  /\ UNCHANGED <<publicationVars, commandReceipts, manifest, actions, confirming, changes,
                 reviewStops>>

TelegramContinues ==
  /\ IsOver(TelegramCaller)
  /\ IF /\ telegram.step = "INSPECTING"
        /\ execution[TelegramCaller].step = "ANSWERED"
        /\ IsPending(execution[TelegramCaller].response)
        /\ GatePasses(telegram.manifest)
       THEN /\ telegram' = [telegram EXCEPT !.step = "APPROVING"]
            /\ Execute(TelegramCaller, [id |-> <<"content-approve">>, input |-> ReviewAs("APPROVED")])
       ELSE /\ telegram' = AtRest
            /\ execution' = [execution EXCEPT ![TelegramCaller] = NoExecution]
  /\ UNCHANGED <<publicationVars, commandReceipts, manifest, actions, confirming, approval,
                 changes, reviewStops>>

-----------------------------------------------------------------------------
(* The command line, and crashes. *)

\* A command is sent again, under the same identifier, as often as the operator likes.
SendDirectly ==
  /\ IsIdle(DirectCaller)
  /\ \E command \in DirectCommand : Execute(DirectCaller, command)
  /\ UNCHANGED <<publicationVars, commandReceipts, manifest, adapterVars, changes, reviewStops>>

DirectAnswers ==
  /\ IsOver(DirectCaller)
  /\ execution' = [execution EXCEPT ![DirectCaller] = NoExecution]
  /\ UNCHANGED <<publicationVars, commandReceipts, manifest, adapterVars, changes, reviewStops>>

\* A process takes its memory with it: the Command Center all its proposals.
AdapterCrashes(callers) ==
  /\ reviewStops < MaxReviewStops
  /\ \E c \in callers : ~IsIdle(c)
  /\ reviewStops' = reviewStops + 1
  /\ execution' = [c \in Caller |-> IF c \in callers THEN NoExecution ELSE execution[c]]
  /\ IF callers = CenterCaller
       THEN /\ confirming' = [c \in CenterCaller |-> "NONE"]
            /\ actions' = [a \in CenterAction |-> [actions[a] EXCEPT !.open = FALSE]]
       ELSE UNCHANGED <<actions, confirming>>
  /\ telegram' = IF TelegramCaller \in callers THEN AtRest ELSE telegram
  /\ UNCHANGED <<publicationVars, commandReceipts, manifest, approval, changes>>

ReviewNext ==
  \/ ManifestChanges \/ ProductionIsControlled
  \/ \E c \in Caller : CommandStep(c)
  \/ \E a \in CenterAction, decision \in {"APPROVED", "REJECTED"} : ProposeReview(a, decision)
  \/ \E c \in CenterCaller, a \in CenterAction : CheckAction(c, a)
  \/ \E c \in CenterCaller : SendAction(c) \/ CenterAnswers(c)
  \/ \E a \in CenterAction : ActionExpires(a)
  \/ OfferApproval \/ PressApproval \/ TelegramContinues
  \/ SendDirectly \/ DirectAnswers
  \/ \E callers \in {CenterCaller, {TelegramCaller}, {DirectCaller}} : AdapterCrashes(callers)

ReviewSpec == ReviewInit /\ [][ReviewNext]_reviewVars

-----------------------------------------------------------------------------
(* Properties. *)

\* A review that is answered is the one that decided: of all the confirmations,
\* buttons and commands that race for a production, retries and crashes
\* included, no more than one is ever told, or stored, that it went through
\* (reviewContentProduction and the receipts of execute).
AnsweredReviewDecided ==
  \A r \in commandReceipts : r.input.operation = "REVIEW" =>
    \E i \in 1..Len(changes) : changes[i].by = r.id /\ changes[i].status = r.response.status

\* Every caller is told what is stored, and what is stored of a review is what
\* became of its production (execute and reviewContentProduction together).
AnswersAreSound == OneAnswer /\ AnsweredReviewDecided

\* What a confirmation approves is what was shown when it was proposed.
\* docs/SUPERVISED_H24_RUNTIME_V1.md, "Exact Visual Gate shared by Command Center
\* and Telegram": "A changed manifest, asset, production version or package
\* consumes/invalidates the pending confirmation without approving anything."
ApprovedAsProposed ==
  \A i \in 1..Len(changes) :
    changes[i].status = "APPROVED_FOR_SCHEDULING" => changes[i].manifest = changes[i].shown

\* A command that took effect is answered, not refused, when it is sent again.
\* docs/CORE_V1_OPERATOR_GUIDE.md, "Shutdown, restart, and persisted recovery":
\* "Matching stable IDs replay; conflicting reuse fails closed."
AppliedIsReplayed ==
  [][\A c \in Caller : execution[c].step # "REFUSED" /\ execution'[c].step = "REFUSED" =>
       \A i \in 1..Len(changes) :
         changes[i].by = execution[c].command.id => changes[i].input # execution[c].command.input
    ]_reviewVars

=============================================================================
