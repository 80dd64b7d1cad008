----------------------------- MODULE ToolApproval -----------------------------
(***************************************************************************)
(* Leave to run an outward tool: executeTool of tool-registry.js over the     *)
(* approvals of state-store.js.  A call checks the policy, waits for audit    *)
(* records, spends what the policy asks for, and checks again before its      *)
(* handler starts.  Meanwhile the owner changes the policy or pulls the kill  *)
(* switch, decides about approvals, stops the task and revokes the profile    *)
(* behind an authorization, and other calls spend the same approvals.         *)
(*                                                                          *)
(* The tool is an external write that the policy evaluator enforces.  Every   *)
(* operation of the store is one SQLite transaction; its rows are immutable   *)
(* (their triggers), so an operation that is repeated changes nothing.  One   *)
(* task with one capability profile stands behind the authorizations.         *)
(***************************************************************************)
EXTENDS Naturals, Sequences

CONSTANTS
  Calls, Arguments,
  Approvable,       \* the arguments that approvals are made for
  Grants,           \* one-time approvals (approval_grants)
  Authorizations,   \* policy authorizations, each with at most one scoped approval
  Requests,         \* what each call may ask for: arguments, a token, an authorization
  Policies,         \* the rules to start with
  NoRow,
  MaxTime, MaxChanges   \* bounds: the clock, changes of the rules

Rules == [approvals : BOOLEAN, standing : BOOLEAN, enforced : BOOLEAN, halted : BOOLEAN]
Tokens == Grants \cup Authorizations \cup {NoRow}
Asked == [args : Arguments, token : Tokens, authorization : Authorizations \cup {NoRow}]
Grant == [status : {"approved", "expired", "consumed"}, args : Arguments, expires : Nat]
Consumption == [call : Calls, grant : Grants \cup {NoRow}]

\* What is assumed of the constants.
ApprovalConstants ==
  /\ MaxTime \in Nat /\ MaxChanges \in Nat
  /\ Approvable \subseteq Arguments /\ Policies \subseteq Rules
  /\ Requests \in [Calls -> SUBSET Asked]
  /\ NoRow \notin Authorizations \cup Grants \cup Arguments \cup Grant \cup Consumption \cup Nat
  /\ Authorizations \cap Grants = {}

VARIABLES
  now,
  rules, changes,   \* what policy, settings and kill switch say; how often they changed
  backed,           \* the task behind the authorizations is active, its profile not revoked
  grants,           \* approval_grants
  authorizations,   \* the arguments an authorization is bound to
  expiries, events, \* scoped approvals: when they expire, and their stream of events
  consumptions,     \* policy_dispatch_consumptions, with the call that made each
  calls

world == <<now, rules, changes, backed>>
scoped == <<authorizations, expiries>>
store == <<grants, scoped, events, consumptions>>
approvalVars == <<world, store, calls>>

NoCall == [pc |-> "idle", args |-> NoRow, token |-> NoRow, authorization |-> NoRow,
           scoped |-> FALSE, required |-> FALSE, standing |-> FALSE, grant |-> NoRow]

ApprovalInit ==
  /\ now = 0
  /\ rules \in Policies /\ changes = 0
  /\ backed = TRUE
  /\ grants = [g \in Grants |-> NoRow]
  /\ authorizations = [a \in Authorizations |-> NoRow]
  /\ expiries = [a \in Authorizations |-> NoRow]
  /\ events = [a \in Authorizations |-> <<>>]
  /\ consumptions = [a \in Authorizations |-> NoRow]
  /\ calls = [c \in Calls |-> NoCall]

-----------------------------------------------------------------------------
(* The store: profiles, authorizations and approvals.  The profile expires at *)
(* MaxTime.                                                                   *)

\* createApprovalGrant
CreateGrant(g, args, expires) ==
  /\ grants[g] = NoRow /\ now < expires
  /\ grants' = [grants EXCEPT ![g] = [status |-> "approved", args |-> args, expires |-> expires]]
  /\ UNCHANGED <<world, scoped, events, consumptions, calls>>

\* prepare: the capability request and the authorization it carries.  (One that
\* is made when the task has stopped never binds, and is left out.)
Authorize(a, args) ==
  /\ backed /\ now < MaxTime
  /\ authorizations[a] = NoRow
  /\ authorizations' = [authorizations EXCEPT ![a] = args]
  /\ UNCHANGED <<world, grants, expiries, events, consumptions, calls>>

\* _scopedApprovalState: the latest event decides
Latest(a) == IF events[a] = <<>> THEN "none" ELSE events[a][Len(events[a])].what
Open(a) == Latest(a) \in {"created", "approved"}

Event(what) == [what |-> what, at |-> now]
Record(a, what) == events' = [events EXCEPT ![a] = Append(@, Event(what))]
RecordIfOpen(a, what) == IF Open(a) THEN Record(a, what) ELSE UNCHANGED events
Expired(a) == expiries[a] <= now

\* _assertP13DispatchBinding
Binds(a, args) == authorizations[a] = args /\ backed /\ now < MaxTime

\* createScopedApprovalAction
CreateScoped(a, args, expires) ==
  /\ expiries[a] = NoRow /\ now < expires
  /\ Binds(a, args)
  /\ expiries' = [expiries EXCEPT ![a] = expires]
  /\ Record(a, "created")
  /\ UNCHANGED <<world, grants, authorizations, consumptions, calls>>

eventOnly == <<world, grants, scoped, consumptions, calls>>

\* expireScopedApproval
Expire(a) ==
  /\ expiries[a] # NoRow /\ Expired(a) /\ Open(a)
  /\ Record(a, "expired")
  /\ UNCHANGED eventOnly

\* approveScopedApproval, declineScopedApproval: the owner answers what he was shown
Answer(a, what, shown) ==
  /\ expiries[a] # NoRow /\ Open(a)
  /\ \/ ~shown /\ Record(a, "mismatch")
     \/ shown /\ Expired(a) /\ Record(a, "expired")
     \/ shown /\ ~Expired(a) /\ Latest(a) = "created" /\ Record(a, what)
  /\ UNCHANGED eventOnly

\* cancelScopedApproval, revokeScopedApproval: expiry wins over a later withdrawal
Withdraw(a) ==
  /\ expiries[a] # NoRow /\ Open(a)
  /\ Record(a, IF Expired(a) THEN "expired" ELSE "withdrawn")
  /\ UNCHANGED eventOnly

-----------------------------------------------------------------------------
(* executeTool.  A step runs from one await to the next, but for the last     *)
(* one: "decided" lies inside the piece of code that ends in the handler,     *)
(* where other processes still change the store and the policy file.          *)

Put(c, changed) == calls' = [calls EXCEPT ![c] = changed]
MoveTo(c, place) == Put(c, [calls[c] EXCEPT !.pc = place])
Refuse(c) == Put(c, [NoCall EXCEPT !.pc = "refused"])

\* Up to the durable intent.  A scoped token is for enforced dispatch only.
Arrive(c, request) ==
  /\ calls[c].pc = "idle"
  /\ IF rules.halted \/ (request.token \in Authorizations /\ ~rules.enforced)
     THEN Refuse(c)
     ELSE Put(c, [NoCall EXCEPT !.pc = "checked", !.args = request.args, !.token = request.token,
                    !.authorization = request.authorization, !.scoped = rules.enforced])
  /\ UNCHANGED <<world, store>>

\* Up to the record of the policy decision.
Judge(c) ==
  /\ calls[c].pc = "checked"
  /\ Put(c, [calls[c] EXCEPT !.pc = "judged", !.required = rules.approvals, !.standing = rules.standing])
  /\ UNCHANGED <<world, store>>

\* A one-time approval is what the call was told to bring.
AsksForGrant(c) == ~calls[c].scoped /\ calls[c].required /\ ~calls[c].standing

\* consumeApprovalGrant, when it answers with the grant
Spendable(g, args) ==
  /\ grants[g] # NoRow /\ grants[g].args = args
  /\ grants[g].status = "approved" /\ now < grants[g].expires

\* consumeApprovalGrant, when the approval came too late
Overdue(g, args) ==
  /\ grants[g] # NoRow /\ grants[g].args = args
  /\ grants[g].status = "approved" /\ grants[g].expires <= now

Mark(g, status) == grants' = [grants EXCEPT ![g].status = status]

\* approvals.consume, up to the records of the consumption
ConsumeGrant(c) ==
  LET g == calls[c].token IN
  /\ calls[c].pc = "judged" /\ AsksForGrant(c)
  /\ IF g \in Grants /\ Spendable(g, calls[c].args)
     THEN Mark(g, "consumed") /\ Put(c, [calls[c] EXCEPT !.pc = "cleared", !.grant = g])
     ELSE /\ Refuse(c)
          /\ IF g \in Grants /\ Overdue(g, calls[c].args) THEN Mark(g, "expired") ELSE UNCHANGED grants
  /\ UNCHANGED <<world, scoped, events, consumptions>>

\* A standing authorization is recorded; a token nobody asked for is refused.
UseStanding(c) ==
  /\ calls[c].pc = "judged" /\ ~calls[c].scoped /\ calls[c].standing
  /\ IF calls[c].token = NoRow THEN MoveTo(c, "cleared") ELSE Refuse(c)
  /\ UNCHANGED <<world, store>>

RefuseToken(c) ==
  /\ calls[c].pc = "judged" /\ ~calls[c].scoped /\ ~calls[c].required /\ ~calls[c].standing
  /\ calls[c].token # NoRow
  /\ Refuse(c)
  /\ UNCHANGED <<world, store>>

\* No await is left before the handler.
AtHandler(c) ==
  \/ calls[c].pc = "cleared"
  \/ calls[c].pc = "judged" /\ calls[c].scoped
  \/ calls[c].pc = "judged" /\ ~calls[c].required /\ ~calls[c].standing /\ calls[c].token = NoRow

\* requireP13Decision, when nothing is enforced any more: a call that was to
\* bring a scoped approval still has to bring a token.
DecideNothing(c) ==
  /\ AtHandler(c) /\ ~rules.enforced
  /\ IF calls[c].scoped /\ calls[c].token = NoRow THEN Refuse(c) ELSE MoveTo(c, "decided")
  /\ UNCHANGED <<world, store>>

Consume(c) ==
  consumptions' = [consumptions EXCEPT ![calls[c].authorization] = [call |-> c, grant |-> calls[c].grant]]

\* consumeScopedApprovalDispatch: what becomes of the approval
ScopedOutcome(a, args, token) ==
  IF authorizations[a] # args THEN "mismatch"
  ELSE IF Expired(a) THEN "expired"
  ELSE IF Latest(a) # "approved" \/ token # a THEN "refused"
  ELSE IF ~Binds(a, args) THEN "cancelled"
  ELSE IF consumptions[a] # NoRow THEN "refused"
  ELSE "consumed"

\* requireP13Decision over a scoped approval
DecideScoped(c) ==
  LET a == calls[c].authorization
      outcome == IF a = NoRow \/ calls[c].token = NoRow \/ expiries[a] = NoRow THEN "refused"
                 ELSE ScopedOutcome(a, calls[c].args, calls[c].token)
  IN
  /\ AtHandler(c) /\ rules.enforced /\ calls[c].scoped
  /\ IF outcome = "refused" THEN UNCHANGED events ELSE RecordIfOpen(a, outcome)
  /\ IF outcome = "consumed" THEN Consume(c) /\ MoveTo(c, "decided")
     ELSE UNCHANGED consumptions /\ Refuse(c)
  /\ UNCHANGED <<world, grants, scoped>>

\* The grant the call spent is attached to no other authorization.
Attachable(c) ==
  calls[c].grant = NoRow
  \/ \A a \in Authorizations : consumptions[a] = NoRow \/ consumptions[a].grant # calls[c].grant

\* requireP13Decision, when enforcement came while the call waited: the
\* authorization is spent, but the checks that follow refuse the call.
DecidePlain(c) ==
  LET a == calls[c].authorization IN
  /\ AtHandler(c) /\ rules.enforced /\ ~calls[c].scoped
  /\ Refuse(c)
  /\ IF a # NoRow /\ Binds(a, calls[c].args) /\ consumptions[a] = NoRow /\ Attachable(c)
     THEN Consume(c)
     ELSE UNCHANGED consumptions
  /\ UNCHANGED <<world, grants, scoped, events>>

\* The policy is what the call was judged by.
SamePolicy(c) ==
  /\ rules.enforced = calls[c].scoped
  /\ ~calls[c].scoped => rules.approvals = calls[c].required /\ rules.standing = calls[c].standing

\* Mutation: the policy is not read again after the call waited.
StartAsJudged(c) ==
  /\ calls[c].pc = "decided"
  /\ IF ~rules.halted /\ (calls[c].grant # NoRow => now < grants[calls[c].grant].expires)
     THEN MoveTo(c, "started") ELSE Refuse(c)
  /\ UNCHANGED <<world, store>>

\* The last checks and the start of the handler.
Start(c) ==
  /\ calls[c].pc = "decided"
  /\ IF /\ ~rules.halted /\ SamePolicy(c)
        /\ calls[c].grant # NoRow => now < grants[calls[c].grant].expires
     THEN MoveTo(c, "started") ELSE Refuse(c)
  /\ UNCHANGED <<world, store>>

\* An audit record is refused, the caller aborts, the evaluator denies the call,
\* or the process dies.
Fail(c) ==
  /\ calls[c].pc \in {"checked", "judged", "cleared", "decided"}
  /\ Refuse(c)
  /\ UNCHANGED <<world, store>>

-----------------------------------------------------------------------------
(* What goes on outside. *)

TimePasses ==
  /\ now < MaxTime
  /\ now' = now + 1
  /\ UNCHANGED <<rules, changes, backed, store, calls>>

\* The owner edits the policy file or a setting, or pulls the kill switch.
\* Enforcement is in the environment of the process that runs the calls, which
\* does not change it in the middle of a piece of code.
ChangeRules ==
  /\ changes < MaxChanges
  /\ changes' = changes + 1
  /\ \E rule \in {"approvals", "standing", "enforced", "halted"} :
       /\ rule = "enforced" => \A c \in Calls : calls[c].pc # "decided"
       /\ rules' = [rules EXCEPT ![rule] = ~@]
  /\ UNCHANGED <<now, backed, store, calls>>

\* The task ends or is to be cancelled, or its profile is revoked
\* (revokeCapabilityProfile, revokeActiveCapabilityProfiles).
Withhold ==
  /\ backed
  /\ backed' = FALSE
  /\ UNCHANGED <<now, rules, changes, store, calls>>

Step(c) ==
  \/ Judge(c) \/ ConsumeGrant(c) \/ UseStanding(c) \/ RefuseToken(c)
  \/ DecideNothing(c) \/ DecideScoped(c) \/ DecidePlain(c) \/ Start(c) \/ Fail(c)
  \/ \E request \in Requests[c] : Arrive(c, request)

Decide(a) ==
  \/ Expire(a) \/ Withdraw(a)
  \/ \E what \in {"approved", "declined"}, shown \in BOOLEAN : Answer(a, what, shown)
  \/ \E args \in Approvable : Authorize(a, args)
  \/ \E args \in Approvable, expires \in 1 .. MaxTime : CreateScoped(a, args, expires)

ApprovalNext ==
  \/ \E c \in Calls : Step(c)
  \/ \E a \in Authorizations : Decide(a)
  \/ \E g \in Grants, args \in Approvable, expires \in 1 .. MaxTime : CreateGrant(g, args, expires)
  \/ Withhold \/ TimePasses \/ ChangeRules

ApprovalSpec == ApprovalInit /\ [][ApprovalNext]_approvalVars

-----------------------------------------------------------------------------
(* Properties. *)

Stages == {"idle", "checked", "judged", "cleared", "decided", "started", "refused"}
Call == [pc : Stages, args : Arguments \cup {NoRow}, token : Tokens,
         authorization : Authorizations \cup {NoRow}, scoped : BOOLEAN, required : BOOLEAN,
         standing : BOOLEAN, grant : Grants \cup {NoRow}]

Kinds == {"created", "approved", "declined", "withdrawn", "cancelled", "consumed", "expired", "mismatch"}

\* The kinds of the variables.
ApprovalTypeOK ==
  /\ now \in 0 .. MaxTime /\ rules \in Rules /\ changes \in 0 .. MaxChanges
  /\ backed \in BOOLEAN
  /\ grants \in [Grants -> Grant \cup {NoRow}]
  /\ authorizations \in [Authorizations -> Arguments \cup {NoRow}]
  /\ expiries \in [Authorizations -> Nat \cup {NoRow}]
  /\ events \in [Authorizations -> Seq([what : Kinds, at : Nat])]
  /\ consumptions \in [Authorizations -> Consumption \cup {NoRow}]
  /\ calls \in [Calls -> Call]

Approved(a) == \E k \in DOMAIN events[a] : events[a][k].what = "approved" /\ events[a][k].at < expiries[a]

\* What a call has to show when its handler starts.
HasLeave(c) ==
  LET a == calls[c].authorization  g == calls[c].grant IN
  /\ ~rules.halted
  /\ rules.enforced =>
       /\ a # NoRow /\ authorizations[a] = calls[c].args /\ Approved(a)
       /\ consumptions[a] # NoRow /\ consumptions[a].call = c
  /\ ~rules.enforced /\ rules.approvals /\ ~rules.standing =>
       g # NoRow /\ grants[g].status = "consumed" /\ grants[g].args = calls[c].args /\ now < grants[g].expires

\* A handler starts only with the leave that the policy of that moment asks
\* for, whatever it asked for when the call was checked.
StartsWithLeave ==
  \A c \in Calls : calls[c].pc # "started" /\ calls'[c].pc = "started" => HasLeave(c)

\* No approval starts two handlers.
UsedOnce ==
  \A c, d \in Calls : c # d /\ calls[c].pc = "started" /\ calls[d].pc = "started" =>
    /\ calls[c].grant = NoRow \/ calls[c].grant # calls[d].grant
    /\ calls[c].scoped /\ calls[d].scoped => calls[c].authorization # calls[d].authorization

\* A decision about a scoped approval is final, and none but a mismatch is
\* made after it expired.
DecisionFinal(a) ==
  events'[a] # events[a] =>
    /\ events[a] = <<>> \/ Open(a)
    /\ \E what \in Kinds :
         /\ events'[a] = Append(events[a], Event(what))
         /\ what \notin {"expired", "mismatch"} => now < expiries'[a]
         /\ what = "consumed" => Latest(a) = "approved" /\ backed /\ now < MaxTime

\* Only approved calls start, each approval serves once, and decisions stand
\* (tool-registry.js: the checks around the handler; state-store.js: single use).
ApprovalsHold ==
  [][StartsWithLeave /\ UsedOnce' /\ \A a \in Authorizations : DecisionFinal(a)]_approvalVars
=============================================================================
