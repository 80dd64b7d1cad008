----------------------------- MODULE MCProtocols -----------------------------
(***************************************************************************)
(* Five small protocols, each explored by itself in one run: the initial     *)
(* state chooses the one that moves, and the variables of the others stay as *)
(* they are.  The spool is explored twice: one custodian finds records that   *)
(* have to be recovered, or two custodians find none.                         *)
(***************************************************************************)
EXTENDS LedgerContinuation, EventBackpressure, CaptureSpool, ToolApproval, ByteAuthority, TLC

CONSTANTS
  n1, n2, t1, r1, r2, p1, p2, s1, s2, v1, v2, c1, c2, g1, a1

VARIABLE component

MCAssignments == {<<t1>>}

\* Two calls, which bring a one-time approval, the token of the scoped approval
\* (one of them with other arguments than it was made for), or nothing.
Asks(args, token, authorization) ==
  [args |-> args, token |-> token, authorization |-> authorization]
MCRequests ==
  c1 :> {Asks(v1, g1, a1), Asks(v1, a1, a1)} @@
  c2 :> {Asks(v1, a1, a1), Asks(v2, a1, a1), Asks(v1, g1, NoRow), Asks(v1, NoRow, NoRow)}
MCPolicies ==
  {p \in [approvals : BOOLEAN, standing : BOOLEAN, enforced : BOOLEAN, halted : {FALSE}] :
     p.approvals # p.standing /\ ~(p.standing /\ p.enforced)}

MCFiles == {<<v1, v2>>}
MCPatches == {<<v2, v2>>}

ASSUME ProtocolConstants ==
  /\ ContinuationConstants /\ BackpressureConstants /\ SpoolConstants
  /\ ApprovalConstants /\ BytesConstants

Chosen(name) == component = name /\ UNCHANGED component

vars == <<component, continuationVars, backpressureVars, spoolVars, approvalVars, bytesVars>>

Init ==
  /\ component \in {"continuation", "backpressure", "recovery", "custodians", "bytes", "approval"}
  /\ IF component = "continuation" THEN ContinuationInit
     ELSE ContinuationInit /\ ledger = [t \in Tasks |-> [owner |-> n1, status |-> "open", stamp |-> 0]]
  /\ BackpressureInit
  /\ IF component = "recovery" THEN SpoolInit
     ELSE SpoolInit /\ reconciled = [r \in Records |-> NoFile]
  /\ IF component = "approval" THEN ApprovalInit
     ELSE ApprovalInit /\ rules = [approvals |-> TRUE, standing |-> FALSE, enforced |-> FALSE, halted |-> FALSE]
  /\ IF component = "bytes" THEN BytesInit
     ELSE BytesInit /\ ~wholeFileName /\ file = [bytes |-> Absent, staged |-> FALSE]

\* While records are recovered, one custodian does nothing.
Next ==
  \/ Chosen("continuation") /\ ContinuationNext /\ UNCHANGED <<backpressureVars, spoolVars, approvalVars, bytesVars>>
  \/ Chosen("backpressure") /\ BackpressureNext /\ UNCHANGED <<continuationVars, spoolVars, approvalVars, bytesVars>>
  \/ Chosen("recovery") /\ SpoolNext /\ pc'[p2] = "idle" /\ UNCHANGED <<continuationVars, backpressureVars, approvalVars, bytesVars>>
  \/ Chosen("custodians") /\ SpoolNext /\ UNCHANGED <<continuationVars, backpressureVars, approvalVars, bytesVars>>
  \/ Chosen("approval") /\ ApprovalNext /\ UNCHANGED <<continuationVars, backpressureVars, spoolVars, bytesVars>>
  \/ Chosen("bytes") /\ BytesNext /\ UNCHANGED <<continuationVars, backpressureVars, spoolVars, approvalVars>>

\* The fairness of the modules, for the one that moves.
Fairness ==
  /\ \A n \in Nodes :
       /\ WF_continuationVars(component = "continuation" /\ Tick(n))
       /\ WF_continuationVars(component = "continuation" /\ (Accepted(n) \/ SendFails(n)))
       /\ WF_continuationVars(component = "continuation" /\ (TurnSucceeds(n) \/ TurnFails(n)))
  /\ WF_backpressureVars(component = "backpressure" /\ (ListenersReturn \/ ListenerPromises))
  /\ WF_backpressureVars(component = "backpressure" /\ (PromiseResolves \/ PromiseRejects))
  /\ WF_backpressureVars(component = "backpressure" /\ (ResumeReturns \/ LastResumeReturns))

Spec == Init /\ [][Next]_vars /\ Fairness

-----------------------------------------------------------------------------
(* The properties, as the modules state them. *)

\* The kinds of the variables of every module; those of the modules that do not
\* move are as they were in the initial state.
TypeOK == ContinuationTypeOK /\ BackpressureTypeOK /\ SpoolTypeOK /\ ApprovalTypeOK /\ BytesTypeOK

\* LedgerContinuation: no worker goes on for ever without progress.
\* EventBackpressure: what was accepted is handled.
EverythingSettles == RunsStop /\ EventsHandled
=============================================================================
