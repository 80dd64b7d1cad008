------------------------------- MODULE MCAudit -------------------------------
(***************************************************************************)
(* The two halves of the audit, each explored by itself: the initial state *)
(* chooses the lane that takes records to the ledger or the processes that *)
(* write it, and the variables of the other stay as they are.  Records 1   *)
(* and 2 of the lane carry an event id.                                    *)
(***************************************************************************)
EXTENDS AuditAdmission, AuditLedger

CONSTANTS p1, p2, Components

FirstTwo == {1, 2} \cap Records

VARIABLE component

Init ==
  /\ component \in Components
  /\ AdmissionInit
  /\ IF component = "ledger" THEN LedgerInit
     ELSE LedgerInit /\ db = [chain |-> << >>, boundary |-> 0, cursor |-> 0]

Next ==
  \/ component = "admission" /\ AdmissionNext /\ UNCHANGED <<component, ledgerVars>>
  \/ component = "ledger" /\ LedgerNext /\ UNCHANGED <<component, admissionVars>>

\* The event loop of the lane runs; its worker thread may hang, which is what
\* the timeout of each request is for.  A process that writes the ledger goes
\* on, unless it crashes, and the health of the ledger is looked at on a timer.
Fairness ==
  /\ WF_admissionVars(component = "admission" /\ Tick)
  /\ WF_admissionVars(component = "admission" /\ FlushDrain)
  /\ WF_admissionVars(component = "admission" /\ Reply)
  /\ WF_admissionVars(component = "admission" /\ AskToClose)
  /\ WF_admissionVars(component = "admission" /\ \E b \in BOOLEAN : Terminate(b))
  /\ WF_admissionVars(component = "admission" /\ \E id \in waiters : Timeout(id))
  /\ \A p \in Procs : WF_ledgerVars(component = "ledger" /\ Step(p))
  /\ \A p \in Pollers : WF_ledgerVars(component = "ledger" /\ Poll(p))

Spec == Init /\ [][Next]_<<component, admissionVars, ledgerVars>> /\ Fairness

\* The kinds of the variables of both.
TypeOK == IF component = "admission" THEN AdmissionTypeOK ELSE LedgerTypeOK
=============================================================================
