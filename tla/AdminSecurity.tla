---------------------------- MODULE AdminSecurity ----------------------------
(***************************************************************************)
(* The founder's bootstrap, passkey ceremonies, sessions and step-up       *)
(* receipts.  All of it is one document: a mutation reads it, computes the *)
(* next one and writes it only over the revision it read, or computes it   *)
(* again from the newer one, so that a mutation is one step.  Between two  *)
(* mutations of a request, and before the first, everything may change: a  *)
(* request keeps what it read, with the moment at which it looked at the   *)
(* clock.  Used challenges, ended sessions and used receipts that the code *)
(* prunes stay in the model, where they are refused like missing ones.     *)
(***************************************************************************)
EXTENDS Integers, Sequences, FiniteSetsExt

CONSTANTS
  Request,    \* requests that are handled at the same time
  Setting,    \* settings: whether a founder is registered, how long ago a session
              \* was seen when it is written again (touch), the commands that are
              \* used, of "confirm", "killSwitch" and "revokeAll", and the bound on
              \* the sessions
  Ttl,        \* lifetimes: bootstrap, challenge, absolute, idle, stepUp
  MaxLag,     \* the longest time from a look at the clock to the write
  Horizon,    \* bound: the last moment
  MaxTokens,  \* bound: bootstrap tokens
  MaxFlows,   \* bound: challenges
  MaxReceipts,\* bound: step-up receipts
  MaxCounter  \* bound: the counter of the passkey

ASSUME AdminAssumption ==
  /\ Setting \subseteq [registered : BOOLEAN, touch : Nat, sessions : Nat,
                        commands : SUBSET {"confirm", "killSwitch", "revokeAll"}]
  /\ Ttl \in [bootstrap : Nat, challenge : Nat, absolute : Nat, idle : Nat, stepUp : Nat]
  /\ {MaxLag, Horizon, MaxTokens, MaxFlows, MaxReceipts, MaxCounter} \subseteq Nat

VARIABLES
  setting,     \* the setting, which never changes
  time,        \* the clock
  bootstrap,   \* the one-time bootstrap: its token, expiry and use
  founder,     \* the registered principal, the flow that made it, its passkey's counter
  challenges,  \* challenges in the order in which they were made
  sessions,    \* sessions, likewise
  receipts,    \* step-up receipts, likewise, and how often each was acted upon
  request      \* what each request in progress has read

adminVars == <<setting, time, bootstrap, founder, challenges, sessions, receipts, request>>

NoCommand == "none"
Idle == [op |-> "none", at |-> "end", now |-> 0, flow |-> 0, session |-> 0, receipt |-> 0,
         target |-> 0, command |-> NoCommand, counter |-> 0, revoked |-> FALSE]

SessionFrom(flow, now) ==
  [flow |-> flow, absolute |-> now + Ttl.absolute,
   idle |-> Min({now + Ttl.absolute, now + Ttl.idle}), seen |-> now, revoked |-> FALSE]

\* An empty document, or one with a founder who has signed in.
AdminInit ==
  /\ setting \in Setting
  /\ time = 0
  /\ bootstrap = [token |-> 0, expires |-> 0, consumed |-> setting.registered]
  /\ founder = [registered |-> setting.registered, flow |-> 0, counter |-> 0]
  /\ challenges = <<>>
  /\ sessions = IF setting.registered THEN <<SessionFrom(0, 0)>> ELSE <<>>
  /\ receipts = <<>>
  /\ request = [q \in Request |-> Idle]

\* The moments at which a request that writes now may have read the clock.
Recent == {now \in 0 .. time : time - now <= MaxLag}

Advance ==
  /\ time < Horizon
  /\ \A q \in Request : request[q].at = "touch" => time - request[q].now < MaxLag
  /\ time' = time + 1
  /\ UNCHANGED <<setting, bootstrap, founder, challenges, sessions, receipts, request>>

-----------------------------------------------------------------------------
\* Registration and authentication.

ActiveBootstrap(token, now) ==
  /\ ~founder.registered /\ ~bootstrap.consumed
  /\ bootstrap.token = token /\ bootstrap.expires > now

CreateFounderBootstrap ==
  \E now \in Recent :
    /\ ~founder.registered /\ ~bootstrap.consumed
    /\ bootstrap.expires <= now
    /\ bootstrap.token < MaxTokens
    /\ bootstrap' = [token |-> bootstrap.token + 1, expires |-> now + Ttl.bootstrap,
                     consumed |-> FALSE]
    /\ UNCHANGED <<setting, time, founder, challenges, sessions, receipts, request>>

NewChallenge(kind, token, session, command) ==
  \E now \in Recent :
    /\ kind = "registration" => ActiveBootstrap(token, now)
    /\ Len(challenges) < MaxFlows
    /\ challenges' = Append(challenges,
         [kind |-> kind, token |-> token, session |-> session, command |-> command,
          expires |-> now + Ttl.challenge, used |-> FALSE])

BeginFounderRegistration ==
  /\ \E token \in 1 .. bootstrap.token : NewChallenge("registration", token, 0, NoCommand)
  /\ UNCHANGED <<setting, time, bootstrap, founder, sessions, receipts, request>>

BeginAuthentication ==
  /\ founder.registered
  /\ NewChallenge("authentication", 0, 0, NoCommand)
  /\ UNCHANGED <<setting, time, bootstrap, founder, sessions, receipts, request>>

UsableAgain(flow, kind, now) ==
  /\ challenges[flow].kind = kind
  /\ challenges[flow].expires > now

Usable(flow, kind, now) ==
  /\ challenges[flow].kind = kind
  /\ ~challenges[flow].used
  /\ challenges[flow].expires > now

\* Where a request goes on once its challenge is taken.
AfterChallenge(kind) ==
  CASE kind = "registration" -> "register"
    [] kind = "authentication" -> "read"
    [] kind = "stepUp" -> "authenticate"

ConsumeChallenge(q) ==
  /\ request[q] = Idle
  /\ \E flow \in DOMAIN challenges, now \in Recent :
       LET kind == challenges[flow].kind
       IN /\ Usable(flow, kind, now)
          /\ challenges' = [challenges EXCEPT ![flow].used = TRUE]
          /\ \E s \in IF kind = "stepUp" THEN DOMAIN sessions ELSE {0} :
               request' = [request EXCEPT ![q] =
                 [Idle EXCEPT !.op = kind, !.at = AfterChallenge(kind), !.flow = flow,
                              !.session = s]]
  /\ UNCHANGED <<setting, time, bootstrap, founder, sessions, receipts>>

\* A passkey counts its uses, or answers 0 for ever.
VerifiedCounter(counter) ==
  {n \in 0 .. MaxCounter : n = counter + 1 \/ (n = 0 /\ counter = 0)}

\* The passkey's answer is right; anything else ends the request.
FinishFounderRegistration(q) ==
  /\ request[q].at = "register"
  /\ \E now \in Recent : ActiveBootstrap(challenges[request[q].flow].token, now)
  /\ bootstrap' = [bootstrap EXCEPT !.consumed = TRUE]
  /\ \E n \in VerifiedCounter(0) :
       founder' = [registered |-> TRUE, flow |-> request[q].flow, counter |-> n]
  /\ request' = [request EXCEPT ![q] = Idle]
  /\ UNCHANGED <<setting, time, challenges, sessions, receipts>>

\* A step-up goes on only in the session that its challenge is bound to.
ReadCredential(q) ==
  /\ \/ request[q].at = "read"
     \/ /\ request[q].op = "stepUp" /\ request[q].at = "authenticated"
        /\ challenges[request[q].flow].session = request[q].session
  /\ request' = [request EXCEPT ![q].at = "verify", ![q].counter = founder.counter]
  /\ UNCHANGED <<setting, time, bootstrap, founder, challenges, sessions, receipts>>

CounterMoves(q) ==
  /\ founder.counter = request[q].counter
  /\ \E n \in VerifiedCounter(request[q].counter) : founder' = [founder EXCEPT !.counter = n]

FinishAuthentication(q) ==
  /\ request[q].op = "authentication" /\ request[q].at = "verify"
  /\ CounterMoves(q)
  /\ Len(sessions) < setting.sessions
  /\ \E now \in Recent : sessions' = Append(sessions, SessionFrom(request[q].flow, now))
  /\ request' = [request EXCEPT ![q] = Idle]
  /\ UNCHANGED <<setting, time, bootstrap, challenges, receipts>>

-----------------------------------------------------------------------------
\* Sessions.

Active(s, now) == ~sessions[s].revoked /\ sessions[s].absolute > now /\ sessions[s].idle > now

\* A request that goes on in session s, unless s must be touched first.
Authenticated(q, asked) ==
  \E now \in Recent :
    /\ Active(asked.session, now)
    /\ request' = [request EXCEPT ![q] =
         IF now - sessions[asked.session].seen < setting.touch
           THEN [asked EXCEPT !.at = "authenticated"]
           ELSE [asked EXCEPT !.at = "touch", !.now = now]]

AuthenticateSession(q) ==
  /\ request[q].at = "authenticate"
  /\ Authenticated(q, request[q])
  /\ UNCHANGED <<setting, time, bootstrap, founder, challenges, sessions, receipts>>

\* The touch still judges, and dates, by the moment of the read.
TouchSession(q) ==
  LET s == request[q].session
      now == request[q].now
  IN /\ request[q].at = "touch"
     /\ Active(s, now)
     /\ sessions' = [sessions EXCEPT
          ![s].idle = Min({sessions[s].absolute, now + Ttl.idle}), ![s].seen = now]
     /\ request' = [request EXCEPT ![q].at = "authenticated", ![q].now = 0]
     /\ UNCHANGED <<setting, time, bootstrap, founder, challenges, receipts>>

\* The global logout revokes every session of the principal, its own too.
Revoked(all, s) ==
  [x \in DOMAIN sessions |->
     IF all \/ x = s THEN [sessions[x] EXCEPT !.revoked = TRUE] ELSE sessions[x]]

Logout ==
  /\ \E s \in DOMAIN sessions :
       /\ ~sessions[s].revoked
       /\ sessions' = Revoked(FALSE, s)
  /\ UNCHANGED <<setting, time, bootstrap, founder, challenges, receipts, request>>

AskForSession(q) ==
  /\ request[q] = Idle
  /\ \E s, target \in DOMAIN sessions :
       Authenticated(q, [Idle EXCEPT !.op = "revokeSession", !.session = s, !.target = target])
  /\ UNCHANGED <<setting, time, bootstrap, founder, challenges, sessions, receipts>>

RevokeSession(q) ==
  /\ request[q].op = "revokeSession" /\ request[q].at = "authenticated"
  /\ sessions' = Revoked(FALSE, request[q].target)
  /\ request' = [request EXCEPT ![q] = Idle]
  /\ UNCHANGED <<setting, time, bootstrap, founder, challenges, receipts>>

-----------------------------------------------------------------------------
\* Step-up: a receipt for one command of one session.

AskForStepUp(q) ==
  /\ request[q] = Idle
  /\ \E s \in DOMAIN sessions, c \in setting.commands :
       Authenticated(q, [Idle EXCEPT !.op = "beginStepUp", !.session = s, !.command = c])
  /\ UNCHANGED <<setting, time, bootstrap, founder, challenges, sessions, receipts>>

BeginStepUp(q) ==
  /\ request[q].op = "beginStepUp" /\ request[q].at = "authenticated"
  /\ NewChallenge("stepUp", 0, request[q].session, request[q].command)
  /\ request' = [request EXCEPT ![q] = Idle]
  /\ UNCHANGED <<setting, time, bootstrap, founder, sessions, receipts>>

FinishStepUp(q) ==
  LET challenge == challenges[request[q].flow]
  IN /\ request[q].op = "stepUp" /\ request[q].at = "verify"
     /\ CounterMoves(q)
     /\ Len(receipts) < MaxReceipts
     /\ \E now \in Recent :
          /\ Active(request[q].session, now)
          /\ receipts' = Append(receipts,
               [flow |-> request[q].flow, session |-> challenge.session,
                command |-> challenge.command, expires |-> now + Ttl.stepUp,
                consumed |-> FALSE, acted |-> 0])
     /\ request' = [request EXCEPT ![q] = Idle]
     /\ UNCHANGED <<setting, time, bootstrap, challenges, sessions>>

AskForCommand(q) ==
  /\ request[q] = Idle
  /\ \E r \in DOMAIN receipts, s \in DOMAIN sessions, c \in setting.commands :
       Authenticated(q, [Idle EXCEPT !.op = "command", !.session = s, !.receipt = r,
                                     !.command = c])
  /\ UNCHANGED <<setting, time, bootstrap, founder, challenges, sessions, receipts>>

NeverAuthenticatesAgain(command) == FALSE

\* A confirmation goes straight on; the other commands authenticate again.
AuthenticatesAgain(command) == command # "confirm"

\* The session is not looked at again when its receipt is taken.
ConsumeStepUpReceipt(q) ==
  LET r == request[q].receipt
      c == request[q].command
  IN /\ request[q].op = "command" /\ request[q].at = "authenticated"
     /\ ~receipts[r].consumed
     /\ \E now \in Recent : receipts[r].expires > now
     /\ receipts[r].session = request[q].session /\ receipts[r].command = c
     /\ receipts' = [receipts EXCEPT ![r].consumed = TRUE]
     /\ request' = [request EXCEPT
          ![q].op = "consumed",
          ![q].at = IF AuthenticatesAgain(c) THEN "authenticate" ELSE "authenticated",
          ![q].revoked = sessions[request[q].session].revoked]
     /\ UNCHANGED <<setting, time, bootstrap, founder, challenges, sessions>>

\* The command itself: an operator's confirmation or the change of the kill
\* switch, which are not part of this document, or the global logout.
PerformCommand(q) ==
  /\ request[q].op = "consumed" /\ request[q].at = "authenticated"
  /\ receipts' = [receipts EXCEPT ![request[q].receipt].acted = @ + 1]
  /\ sessions' = Revoked(request[q].command = "revokeAll", 0)
  /\ request' = [request EXCEPT ![q] = Idle]
  /\ UNCHANGED <<setting, time, bootstrap, founder, challenges>>

\* A request may end anywhere: refused, rate limited, failed, or its process died.
Abandon(q) ==
  /\ request[q] # Idle
  /\ request' = [request EXCEPT ![q] = Idle]
  /\ UNCHANGED <<setting, time, bootstrap, founder, challenges, sessions, receipts>>

AdminStep(q) ==
  \/ ConsumeChallenge(q)
  \/ FinishFounderRegistration(q)
  \/ ReadCredential(q)
  \/ FinishAuthentication(q)
  \/ AuthenticateSession(q)
  \/ TouchSession(q)
  \/ AskForSession(q)
  \/ RevokeSession(q)
  \/ AskForStepUp(q)
  \/ BeginStepUp(q)
  \/ FinishStepUp(q)
  \/ AskForCommand(q)
  \/ ConsumeStepUpReceipt(q)
  \/ PerformCommand(q)
  \/ Abandon(q)

AdminNext ==
  \/ Advance
  \/ CreateFounderBootstrap
  \/ BeginFounderRegistration
  \/ BeginAuthentication
  \/ Logout
  \/ \E q \in Request : AdminStep(q)

AdminSpec == AdminInit /\ [][AdminNext]_adminVars

-----------------------------------------------------------------------------
\* The document's records and the requests keep their shapes.
AdminTypeOK ==
  /\ bootstrap \in [token : 0 .. MaxTokens, expires : Nat, consumed : BOOLEAN]
  /\ founder \in [registered : BOOLEAN, flow : 0 .. MaxFlows, counter : 0 .. MaxCounter]
  /\ \A f \in DOMAIN challenges :
       /\ challenges[f].kind \in {"registration", "authentication", "stepUp"}
       /\ challenges[f].session \in 0 .. Len(sessions)
       /\ (challenges[f].kind = "stepUp") = (challenges[f].session # 0)
  /\ \A r \in DOMAIN receipts : receipts[r].session \in DOMAIN sessions
  /\ \A q \in Request :
       /\ request[q].at \in {"end", "register", "read", "verify", "authenticate", "touch",
                            "authenticated"}
       /\ request[q].flow \in 0 .. Len(challenges)
       /\ request[q].session \in 0 .. Len(sessions)

\* Nothing that is good for one use is used twice: a challenge makes at most
\* one founder, session or receipt, of its own kind and for its own session and
\* command; a receipt is acted upon at most once, and only after it was
\* consumed; and the founder was registered with the bootstrap that is now
\* consumed, so that no older token ever registers one
\* (admin-security-service.ts: #consumeChallenge, finishFounderRegistration,
\* finishAuthentication, finishStepUp, consumeStepUpReceipt).
CeremoniesAreOneUse ==
  /\ \A f \in DOMAIN challenges :
       LET made == {s \in DOMAIN sessions : sessions[s].flow = f}
           given == {r \in DOMAIN receipts : receipts[r].flow = f}
           registered == {x \in {f} : x = founder.flow}
       IN /\ Cardinality(made) + Cardinality(given) + Cardinality(registered) <= 1
          /\ made # {} => challenges[f].kind = "authentication"
          /\ given # {} => challenges[f].kind = "stepUp"
          /\ \A r \in given : /\ receipts[r].session = challenges[f].session
                              /\ receipts[r].command = challenges[f].command
          /\ ~challenges[f].used => made \union given \union registered = {}
  /\ \A r \in DOMAIN receipts :
       receipts[r].acted <= 1 /\ (receipts[r].acted = 1 => receipts[r].consumed)
  /\ founder.flow # 0 => challenges[founder.flow].token = bootstrap.token /\ bootstrap.consumed

\* A session that has ended stays ended, although requests that authenticated
\* before are still at work: no late touch opens a revoked session or moves the
\* absolute deadline, no receipt is given to a session that is revoked, and the
\* kill switch and the global logout are never performed for a session that was
\* revoked before its receipt was taken (authenticateSession, finishStepUp,
\* authorizeKillSwitchChange and revokeAllSessions).
SessionsEndForGood ==
  [][/\ \A s \in DOMAIN sessions :
          /\ sessions[s].revoked => sessions'[s].revoked
          /\ sessions'[s].absolute = sessions[s].absolute
          /\ sessions'[s].idle <= sessions'[s].absolute
     /\ \A r \in DOMAIN receipts' \ DOMAIN receipts : ~sessions[receipts'[r].session].revoked
     /\ \A q \in Request :
          PerformCommand(q) /\ request[q].command # "confirm" => ~request[q].revoked
    ]_adminVars
=============================================================================
