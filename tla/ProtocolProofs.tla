---------------------------- MODULE ProtocolProofs ----------------------------
(***************************************************************************)
(* Proofs about the five small protocols, each by itself:                  *)
(*                                                                         *)
(* LedgerContinuation, for any number of workers, tasks and records, and   *)
(* any number of failed saves and restarts.  TurnsOnRecord is inductive    *)
(* together with what a run says about its attempt (GoodRun), in memory    *)
(* and in the saved document.                                              *)
(*                                                                         *)
(* EventBackpressure, for any number of events and of holds.               *)
(* EventsInOrder says what the three parts of the stream are together.     *)
(* Its inductive form, Numbered, says where each of them starts, and       *)
(* Standing what the place of the pump says about the event the listeners  *)
(* are at.                                                                 *)
(*                                                                         *)
(* CaptureSpool, for any number of records and filings, when nobody        *)
(* recovers records while another custodian is at work: there is none to   *)
(* recover, or there is one custodian.  SpoolKept is not inductive: that a *)
(* removal leaves the other copy behind depends on what the custodian did  *)
(* before it.  Steps says it.                                              *)
(*                                                                         *)
(* ToolApproval, for any calls, approvals, requests and rules.             *)
(* ApprovalsHold follows from an invariant that says, for every call, that *)
(* what it spent is spent for it: its one-time approval (SpentFor), and    *)
(* once it is past the last decision its scoped approval (Held); and for   *)
(* every scoped approval that its events are those of one action (Stream). *)
(*                                                                         *)
(* ByteAuthority, for any contents, patches and sessions, and any number   *)
(* of reads.  ObservationsKept is a property of steps; the invariant       *)
(* behind it says that a current observation is true of the recorded bytes *)
(* (TrueOf), and that an operation which is not published yet is that of a *)
(* session which knows what it is about to replace, and that the file still *)
(* has it once it was looked at, unless somebody edits it then (Underway).  *)
(***************************************************************************)
EXTENDS MCProtocols,
        SequenceTheorems, FiniteSetTheorems, TLAPS

-----------------------------------------------------------------------------
(* LedgerContinuation *)

\* A run with an attempt is at it, or is stopped with the attempt open; when
\* it was sent, turns on the same record had shown no progress fewer than
\* NoProgressLimit times.  A run its manager has withdrawn is not live, and
\* only such a run is disabled.
GoodRun(r) ==
  /\ r \in Runs
  /\ r.state \in {"ready", "waiting", "running"} => ~r.withdrawn
  /\ r.state = "disabled" => r.withdrawn
  /\ r.active # None =>
       /\ r.state \in {"running", "paused", "disabled"}
       /\ Has(r.tasks, r.active.task)
       /\ r.progress[r.active.task].stamp = r.active.stamp
            => r.progress[r.active.task].noProgress < NoProgressLimit
GoodRuns(f) == DOMAIN f = Nodes /\ \A n \in Nodes : GoodRun(f[n])

Live(r) == r.state \in {"ready", "waiting", "running"}

\* A run that keeps its tasks from other workers; no two such runs share one.
Enrolled(r) == ~Over(r) /\ ~r.withdrawn
Apart(f) ==
  \A n, other \in Nodes : \A t \in Tasks :
    n # other /\ Enrolled(f[n]) /\ Enrolled(f[other]) => ~(Has(f[n].tasks, t) /\ Has(f[other].tasks, t))

RunTypes ==
  /\ ledger \in [Tasks -> [owner : Nodes, status : Statuses, stamp : 0..MaxStamp]]
  /\ run \in [Nodes -> Runs] /\ GoodRuns(run)
  /\ disk \in [Nodes -> Runs] /\ GoodRuns(disk)
  /\ unresolved \in [Nodes -> SUBSET Attempts]
  /\ failures \in 0..MaxFailures

ContinuationInv == RunTypes /\ SentIsOnRecord /\ Apart(run) /\ Apart(disk)

-----------------------------------------------------------------------------
(* Runs *)

LEMMA NoRunIsGood == ASSUME ContinuationConstants PROVE GoodRun(NoRun)
BY DEF ContinuationConstants, GoodRun, Runs, NoRun, NoProgressLimit

\* A run with another state, and nothing else changed.
LEMMA StateChange ==
  ASSUME NEW r \in Runs,
         NEW s \in {"none", "ready", "waiting", "running", "paused", "done", "disabled"}
  PROVE  /\ [r EXCEPT !.state = s] \in Runs
         /\ [r EXCEPT !.state = s].state = s
         /\ [r EXCEPT !.state = s].tasks = r.tasks
         /\ [r EXCEPT !.state = s].active = r.active
         /\ [r EXCEPT !.state = s].progress = r.progress
         /\ [r EXCEPT !.state = s].withdrawn = r.withdrawn
BY DEF Runs

LEMMA PausedIsGood ==
  ASSUME NEW r, GoodRun(r)
  PROVE  /\ GoodRun([r EXCEPT !.state = "paused"])
         /\ GoodRun(Paused(r)) /\ ~Live(Paused(r))
         /\ Paused(r).tasks = r.tasks
         /\ Paused(r).active = r.active
         /\ Paused(r).withdrawn = r.withdrawn
         /\ Over(Paused(r)) <=> Over(r)
BY StateChange, ZenonT(60) DEF GoodRun, Paused, Over, Live, Runs

\* The run that is written when a turn is about to be sent.
Sending(r, attempt, turns) == [r EXCEPT !.active = attempt, !.turns = turns, !.state = "running"]

LEMMA SendingRun ==
  ASSUME ContinuationConstants, NEW r \in Runs, ~r.withdrawn, NEW attempt \in Attempts, NEW turns \in Nat,
         Has(r.tasks, attempt.task),
         r.progress[attempt.task].stamp = attempt.stamp => r.progress[attempt.task].noProgress < NoProgressLimit
  PROVE  /\ GoodRun(Sending(r, attempt, turns))
         /\ Sending(r, attempt, turns).tasks = r.tasks
         /\ Sending(r, attempt, turns).active = attempt
         /\ ~Sending(r, attempt, turns).withdrawn
BY DEF Runs, GoodRun, Sending

\* The run that is written when a turn is over.
Finished(r, t, p) == [r EXCEPT !.progress[t] = p, !.active = None, !.state = "ready"]

LEMMA FinishedRun ==
  ASSUME ContinuationConstants, NEW r \in Runs, ~r.withdrawn, NEW t \in Tasks,
         NEW p \in [stamp : 0..MaxStamp \cup {None}, noProgress : 0..NoProgressLimit]
  PROVE  /\ GoodRun(Finished(r, t, p))
         /\ Finished(r, t, p).tasks = r.tasks
         /\ Finished(r, t, p).active = None
         /\ Finished(r, t, p).state = "ready" /\ ~Finished(r, t, p).withdrawn
BY DEF Runs, GoodRun, Finished

-----------------------------------------------------------------------------
(* Saves *)

\* What a save of r for worker n leaves behind.
Saved(n, r, had) ==
  /\ run' \in [Nodes -> Runs] /\ GoodRuns(run')
  /\ \A m \in Nodes \ {n} : run'[m] = run[m]
  /\ run'[n].tasks = r.tasks /\ run'[n].active = r.active
  /\ run'[n].state \in {r.state, "paused"} /\ run'[n].withdrawn = r.withdrawn
  /\ (disk' = run' /\ failures' = failures) \/ (disk' = had /\ failures' # failures)
  /\ disk' \in [Nodes -> Runs] /\ GoodRuns(disk')
  /\ failures' \in 0..MaxFailures

\* save: r is in memory, paused when the write failed, and on the disk unless
\* it did.
LEMMA SaveLeaves ==
  ASSUME ContinuationConstants, RunTypes, NEW n \in Nodes, NEW r, GoodRun(r),
         NEW had \in [Nodes -> Runs], GoodRuns(had), Save(n, r, had)
  PROVE  Saved(n, r, had)
<1> DEFINE stopped == [r EXCEPT !.state = "paused"]
<1>1. GoodRun(stopped) /\ stopped.tasks = r.tasks /\ stopped.active = r.active /\ stopped.state = "paused"
      /\ stopped.withdrawn = r.withdrawn
  BY PausedIsGood, StateChange DEF GoodRun
<1>2. \/ run' = [run EXCEPT ![n] = r] /\ disk' = run' /\ failures' = failures
      \/ /\ run' = [run EXCEPT ![n] = stopped] /\ disk' = had
         /\ failures' = failures + 1 /\ failures < MaxFailures
  BY DEF Save
<1> HIDE DEF stopped
<1>3. CASE run' = [run EXCEPT ![n] = r] /\ disk' = run' /\ failures' = failures
  <2>1. r \in Runs
    BY DEF GoodRun
  <2>2. /\ run' \in [Nodes -> Runs] /\ run'[n] = r
        /\ \A m \in Nodes \ {n} : run'[m] = run[m]
    BY <1>3, <2>1 DEF RunTypes
  <2>3. GoodRuns(run')
    BY <2>2 DEF RunTypes, GoodRuns
  <2>4. failures' = failures /\ failures' \in 0..MaxFailures /\ disk' = run'
    BY <1>3 DEF RunTypes
  <2>5. disk' \in [Nodes -> Runs] /\ GoodRuns(disk')
    BY <2>2, <2>3, <2>4, Zenon
  <2>6. run'[n].tasks = r.tasks /\ run'[n].active = r.active /\ run'[n].state \in {r.state, "paused"}
        /\ run'[n].withdrawn = r.withdrawn
    BY <2>2
  <2> QED
    BY <2>2, <2>3, <2>4, <2>5, <2>6, Zenon DEF Saved
<1>4. CASE /\ run' = [run EXCEPT ![n] = stopped] /\ disk' = had
           /\ failures' = failures + 1 /\ failures < MaxFailures
  <2>1. failures' \in 0..MaxFailures /\ failures' # failures
    BY <1>4 DEF RunTypes, ContinuationConstants
  <2>2. stopped \in Runs
    BY <1>1 DEF GoodRun
  <2>3. /\ run' \in [Nodes -> Runs] /\ run'[n] = stopped
        /\ \A m \in Nodes \ {n} : run'[m] = run[m]
    BY <1>4, <2>2 DEF RunTypes
  <2>4. GoodRuns(run')
    BY <1>1, <2>3 DEF RunTypes, GoodRuns
  <2> QED
    BY <1>1, <1>4, <2>1, <2>3, <2>4 DEF Saved
<1> QED
  BY <1>2, <1>3, <1>4

-----------------------------------------------------------------------------
(* Steps *)

\* What a step that leaves the records alone does to worker n: its run is that
\* of r, which is enrolled if the run is after the step, and the document is
\* had or what is in memory now.
WorkerStep(n, r, had) ==
  /\ run' \in [Nodes -> Runs] /\ GoodRuns(run')
  /\ disk' \in [Nodes -> Runs] /\ GoodRuns(disk')
  /\ unresolved' \in [Nodes -> SUBSET Attempts]
  /\ failures' \in 0..MaxFailures
  /\ SentIsOnRecord'
  /\ \A m \in Nodes \ {n} : run'[m] = run[m]
  /\ run'[n].tasks = r.tasks
  /\ Enrolled(run'[n]) => Enrolled(r)
  /\ disk' \in {run', had}

\* A save of a run with the attempt it had, which may be settled now.
LEMMA SavedStep ==
  ASSUME ContinuationConstants, ContinuationInv, NEW n \in Nodes, NEW r, GoodRun(r),
         NEW had \in [Nodes -> Runs], GoodRuns(had),
         NEW next, Saved(n, next, had), next.tasks = r.tasks, ~next.withdrawn => Enrolled(r),
         NEW open \in SUBSET Attempts, unresolved' = [unresolved EXCEPT ![n] = open],
         \A m \in Nodes \ {n} : \A a \in unresolved[m] : a = had[m].active,
         \A a \in open : a = next.active /\ (failures' # failures => a = had[n].active)
  PROVE  WorkerStep(n, r, had)
<1>1. unresolved' \in [Nodes -> SUBSET Attempts] /\ unresolved'[n] = open
      /\ \A m \in Nodes \ {n} : unresolved'[m] = unresolved[m]
  BY DEF ContinuationInv, RunTypes
<1>2. Enrolled(run'[n]) => Enrolled(r)
  BY DEF Saved, Enrolled
<1>3. ASSUME NEW m \in Nodes, NEW a \in unresolved'[m]
      PROVE  a = run'[m].active /\ a = disk'[m].active
  <2>1. CASE m = n
    BY <1>1, <1>3, <2>1 DEF Saved
  <2>2. CASE m # n
    BY <1>1, <1>3, <2>2 DEF Saved, ContinuationInv, SentIsOnRecord
  <2> QED
    BY <2>1, <2>2
<1>4. SentIsOnRecord'
  BY <1>3 DEF SentIsOnRecord
<1> QED
  BY <1>1, <1>2, <1>4 DEF Saved, WorkerStep

\* A run that is settled or new has no open attempt.
LEMMA NothingOpen ==
  ASSUME ContinuationConstants, NEW open \in SUBSET Attempts, \A a \in open : a = None
  PROVE  open = {}
BY DEF ContinuationConstants, Attempts

\* tick, after whatever its caller did.
LEMMA TicksStep ==
  ASSUME ContinuationConstants, ContinuationInv, NEW n \in Nodes, NEW r, GoodRun(r),
         NEW had \in [Nodes -> Runs], GoodRuns(had),
         NEW open \in SUBSET Attempts,
         \A m \in Nodes \ {n} : \A a \in unresolved[m] : a = had[m].active,
         \A a \in open : a = r.active /\ a = had[n].active,
         Ticks(n, [run |-> r, had |-> had, open |-> open])
  PROVE  WorkerStep(n, r, had)
<1> DEFINE c == [run |-> r, had |-> had, open |-> open]
<1>1. c.run = r /\ c.had = had /\ c.open = open
  OBVIOUS
<1>2. r \in Runs /\ r.tasks \in Assignments \cup {<<>>} /\ r.turns \in Nat
  BY DEF GoodRun, Runs
<1>3. MayTick(n, c) => r.active = None /\ open = {} /\ Enrolled(r)
  BY NothingOpen DEF MayTick, GoodRun, Enrolled, Over
<1>5. TickNothing(n, c) \/ TickStops(n, c) \/ TickFindsNone(n, c) \/ TickSends(n, c) \/ TickSpent(n, c)
  BY DEF Ticks
<1> HIDE DEF c
<1>6. ASSUME run' = [run EXCEPT ![n] = r], disk' = had, unresolved' = [unresolved EXCEPT ![n] = open],
             failures' = failures
      PROVE  WorkerStep(n, r, had)
  <2>1. unresolved' \in [Nodes -> SUBSET Attempts] /\ unresolved'[n] = open
        /\ \A m \in Nodes \ {n} : unresolved'[m] = unresolved[m]
    BY <1>6 DEF ContinuationInv, RunTypes
  <2>2. /\ run' \in [Nodes -> Runs] /\ run'[n] = r
        /\ \A m \in Nodes \ {n} : run'[m] = run[m]
    BY <1>2, <1>6 DEF ContinuationInv, RunTypes
  <2>3. GoodRuns(run')
    BY <2>2 DEF GoodRuns, ContinuationInv, RunTypes
  <2>4. SentIsOnRecord'
    BY <1>6, <2>1, <2>2 DEF SentIsOnRecord, ContinuationInv
  <2> QED
    BY <1>6, <2>1, <2>2, <2>3, <2>4 DEF WorkerStep, ContinuationInv, RunTypes
<1>7. ASSUME Save(n, Paused(r), had), unresolved' = [unresolved EXCEPT ![n] = open], open = {}, Enrolled(r)
      PROVE  WorkerStep(n, r, had)
  <2>1. GoodRun(Paused(r)) /\ Paused(r).tasks = r.tasks
    BY PausedIsGood
  <2>2. Saved(n, Paused(r), had)
    BY <1>7, <2>1, SaveLeaves DEF ContinuationInv
  <2> QED
    BY <1>7, <2>1, <2>2, SavedStep
<1>8. CASE TickNothing(n, c)
  BY <1>1, <1>6, <1>8 DEF TickNothing
<1>9. CASE TickStops(n, c)
  BY <1>1, <1>3, <1>7, <1>9 DEF TickStops
<1>10. CASE TickSpent(n, c)
  BY <1>1, <1>3, <1>7, <1>10 DEF TickSpent
<1>11. CASE TickFindsNone(n, c)
  <2> DEFINE over == \A k \in DOMAIN r.tasks : Settled(n, r.tasks[k])
             state == IF over THEN "done" ELSE "waiting"
             next == [r EXCEPT !.state = state]
  <2>1. /\ MayTick(n, c)
        /\ \/ Save(n, next, had)
           \/ run' = [run EXCEPT ![n] = r] /\ disk' = had /\ UNCHANGED failures
        /\ unresolved' = [unresolved EXCEPT ![n] = open]
    BY <1>1, <1>11 DEF TickFindsNone
  <2>2. state \in {"done", "waiting"}
    OBVIOUS
  <2> HIDE DEF state
  <2>3. next \in Runs /\ next.tasks = r.tasks /\ next.active = r.active
       /\ next.withdrawn = r.withdrawn /\ next.state \in {"done", "waiting"}
    <3>1. state \in {"none", "ready", "waiting", "running", "paused", "done", "disabled"}
      BY <2>2
    <3> QED
      BY <1>2, <2>2, <3>1, StateChange, ZenonT(60)
  <2> HIDE DEF next
  <2>4. GoodRun(next) /\ Enrolled(r) /\ open = {}
    BY <1>3, <2>1, <2>3 DEF GoodRun, Enrolled
  <2>5. CASE Save(n, next, had)
    <3>1. Saved(n, next, had)
      BY <2>4, <2>5, SaveLeaves DEF ContinuationInv
    <3> QED
      BY <2>1, <2>3, <2>4, <3>1, SavedStep
  <2> QED
    BY <1>6, <2>1, <2>5
<1>12. CASE TickSends(n, c)
  <2> DEFINE turns == IF r.budget = NoBudget THEN r.turns ELSE r.turns + 1
             Attempt(t) == [task |-> t, stamp |-> ledger[t].stamp]
             next(t) == [r EXCEPT !.active = Attempt(t), !.turns = turns, !.state = "running"]
  <2>1. MayTick(n, c)
    BY <1>12 DEF TickSends
  <2>2. PICK k \in DOMAIN r.tasks :
          /\ Save(n, next(r.tasks[k]), had)
          /\ \/ /\ failures' = failures
                /\ unresolved' = [unresolved EXCEPT ![n] = open \cup {Attempt(r.tasks[k])}]
             \/ failures' # failures /\ unresolved' = [unresolved EXCEPT ![n] = open]
          /\ Eligible(n, r, r.tasks[k])
    BY <1>1, <1>12 DEF TickSends, First
  <2>3. r.tasks[k] \in Tasks
    BY <1>2, <2>2 DEF ContinuationConstants
  <2>4. turns \in Nat
    BY <1>2
  <2>5. Attempt(r.tasks[k]) \in Attempts
    BY <2>3 DEF ContinuationInv, RunTypes, Attempts
  <2> DEFINE attempt == Attempt(r.tasks[k])
             new == next(r.tasks[k])
  <2>13. /\ r.progress[attempt.task].stamp = attempt.stamp => r.progress[attempt.task].noProgress < NoProgressLimit
         /\ Has(r.tasks, attempt.task)
    BY <2>2 DEF Eligible, Has
  <2>8. Enrolled(r) /\ ~r.withdrawn /\ open = {}
    BY <1>3, <2>1 DEF Enrolled
  <2> HIDE DEF turns, Attempt, next
  <2>11. new = Sending(r, attempt, turns)
    BY Zenon DEF next, Sending
  <2> HIDE DEF attempt, new
  <2>12. attempt \in Attempts
    BY <2>5 DEF attempt
  <2>6. GoodRun(new) /\ new.tasks = r.tasks /\ new.active = attempt
    BY <1>2, <2>4, <2>8, <2>11, <2>12, <2>13, SendingRun
  <2> HIDE DEF attempt, new, next
  <2>7. Saved(n, new, had)
    BY <2>2, <2>6, SaveLeaves DEF ContinuationInv, new
  <2>9. CASE failures' = failures /\ unresolved' = [unresolved EXCEPT ![n] = {attempt}]
    <3> DEFINE sent == {attempt}
    <3>1. sent \in SUBSET Attempts /\ unresolved' = [unresolved EXCEPT ![n] = sent]
      BY <2>5, <2>9 DEF attempt
    <3>2. \A x \in sent : x = new.active /\ (failures' # failures => x = had[n].active)
      BY <2>6, <2>9
    <3>3. ~new.withdrawn => Enrolled(r)
      BY <2>8
    <3> HIDE DEF sent
    <3> QED
      BY <2>6, <2>7, <3>1, <3>2, <3>3, SavedStep, ZenonT(60)
  <2>10. CASE failures' # failures /\ unresolved' = [unresolved EXCEPT ![n] = {}]
    BY <2>6, <2>7, <2>8, <2>10, SavedStep
  <2> QED
    BY <2>2, <2>8, <2>9, <2>10 DEF attempt
<1> QED
  BY <1>5, <1>8, <1>9, <1>10, <1>11, <1>12

\* A worker's step that starts no run keeps two enrolled runs from sharing a
\* task.
LEMMA StepKeeps ==
  ASSUME ContinuationInv, NEW n \in Nodes, WorkerStep(n, run[n], disk),
         ledger' \in [Tasks -> [owner : Nodes, status : Statuses, stamp : 0..MaxStamp]]
  PROVE  ContinuationInv'
<1>1. RunTypes' /\ SentIsOnRecord'
  BY DEF WorkerStep, RunTypes
<1>2. \A m \in Nodes : run'[m].tasks = run[m].tasks /\ (Enrolled(run'[m]) => Enrolled(run[m]))
  BY DEF WorkerStep
<1>3. Apart(run')
  BY <1>2 DEF ContinuationInv, Apart, Has
<1>4. Apart(disk')
  BY <1>3 DEF WorkerStep, ContinuationInv
<1> QED
  BY <1>1, <1>3, <1>4 DEF ContinuationInv

\* A run in memory that is saved as it is, with another state or with its
\* attempt settled.
LEMMA SaveKeeps ==
  ASSUME ContinuationConstants, ContinuationInv, NEW n \in Nodes, NEW next, GoodRun(next), Save(n, next,
         disk),
         next.tasks = run[n].tasks, ~next.withdrawn => Enrolled(run[n]),
         \/ next.active = run[n].active /\ unresolved' = unresolved
         \/ unresolved' = [unresolved EXCEPT ![n] = {}],
         ledger' = ledger
  PROVE  ContinuationInv'
<1>1. disk \in [Nodes -> Runs] /\ GoodRuns(disk) /\ GoodRun(run[n])
  BY DEF ContinuationInv, RunTypes, GoodRuns
<1>2. Saved(n, next, disk)
  BY <1>1, SaveLeaves DEF ContinuationInv
<1>3. \A m \in Nodes : \A a \in unresolved[m] : a = disk[m].active
  BY DEF ContinuationInv, SentIsOnRecord
<1>4. PICK open \in SUBSET Attempts :
        /\ unresolved' = [unresolved EXCEPT ![n] = open]
        /\ \A a \in open : a = next.active /\ (failures' # failures => a = disk[n].active)
  <2>1. CASE next.active = run[n].active /\ unresolved' = unresolved
    <3>1. unresolved' = [unresolved EXCEPT ![n] = unresolved[n]] /\ unresolved[n] \in SUBSET Attempts
      BY <2>1 DEF ContinuationInv, RunTypes
    <3>2. \A a \in unresolved[n] : a = next.active /\ (failures' # failures => a = disk[n].active)
      BY <2>1 DEF ContinuationInv, SentIsOnRecord
    <3> QED
      BY <3>1, <3>2
  <2>2. CASE unresolved' = [unresolved EXCEPT ![n] = {}]
    <3> DEFINE none == {}
    <3>1. none \in SUBSET Attempts /\ \A a \in none : FALSE
      OBVIOUS
    <3>2. unresolved' = [unresolved EXCEPT ![n] = none]
      BY <2>2
    <3> HIDE DEF none
    <3> QED
      BY <3>1, <3>2
  <2> QED
    BY <2>1, <2>2
<1>5. WorkerStep(n, run[n], disk)
  BY <1>1, <1>2, <1>3, <1>4, SavedStep, ZenonT(60)
<1> QED
  BY <1>5, StepKeeps DEF ContinuationInv, RunTypes

\* pause: a run that is not over is saved as paused.
LEMMA PausesKeep ==
  ASSUME ContinuationConstants, ContinuationInv, NEW n \in Nodes, Pauses(n), UNCHANGED <<ledger, unresolved>>
  PROVE  ContinuationInv'
<1>1. GoodRun(run[n])
  BY DEF ContinuationInv, RunTypes, GoodRuns
<1>2. CASE UNCHANGED <<run, disk, failures>>
  BY <1>2 DEF ContinuationInv, RunTypes, GoodRuns, SentIsOnRecord
<1>3. CASE ~Over(run[n]) /\ Save(n, Paused(run[n]), disk)
  <2> DEFINE next == Paused(run[n])
  <2>1. GoodRun(next) /\ next.tasks = run[n].tasks /\ next.active = run[n].active
        /\ next.withdrawn = run[n].withdrawn
    BY <1>1, PausedIsGood
  <2> HIDE DEF next
  <2>2. Save(n, next, disk)
    BY <1>3 DEF next
  <2> QED
    BY <1>3, <2>1, <2>2, SaveKeeps DEF Enrolled
<1> QED
  BY <1>2, <1>3 DEF Pauses

\* The tick of a turn boundary.
LEMMA TickKeeps ==
  ASSUME ContinuationConstants, ContinuationInv, NEW n \in Nodes, Tick(n)
  PROVE  ContinuationInv'
<1>1. /\ disk \in [Nodes -> Runs] /\ GoodRuns(disk) /\ GoodRun(run[n])
      /\ unresolved[n] \in SUBSET Attempts
      /\ \A m \in Nodes : \A a \in unresolved[m] : a = disk[m].active /\ a = run[m].active
  BY DEF ContinuationInv, RunTypes, GoodRuns, SentIsOnRecord
<1>2. Ticks(n, [run |-> run[n], had |-> disk, open |-> unresolved[n]])
  BY DEF Tick
<1>3. WorkerStep(n, run[n], disk)
  BY <1>1, <1>2, TicksStep
<1>4. ledger' = ledger
  BY <1>2 DEF Ticks
<1> QED
  BY <1>3, <1>4, StepKeeps DEF ContinuationInv, RunTypes

\* enroll: the new run shares no task with one that is not over, and starts with no
\* attempt open.
LEMMA EnrollKeeps ==
  ASSUME ContinuationConstants, ContinuationInv, NEW n \in Nodes, NEW tasks \in Assignments,
         NEW budget \in Budgets,
         Enroll(n, tasks, budget)
  PROVE  ContinuationInv'
<1> DEFINE new == [NoRun EXCEPT !.state = "ready", !.tasks = tasks, !.budget = budget]
           open == {a \in unresolved[n] : ledger[a.task].stamp = a.stamp}
           had == [run EXCEPT ![n] = new]
           failed == [new EXCEPT !.state = "paused"]
<1>1. GoodRun(new) /\ new.tasks = tasks /\ new.active = None /\ new.state = "ready" /\ ~new.withdrawn
  <2>1. NoRun \in Runs /\ NoRun.active = None /\ ~NoRun.withdrawn
    BY NoRunIsGood DEF GoodRun, NoRun
  <2>2. new \in Runs /\ new.tasks = tasks /\ new.active = None /\ new.state = "ready" /\ ~new.withdrawn
    BY <2>1 DEF Runs
  <2> QED
    BY <2>2 DEF GoodRun
<1>2. open = {}
  <2>1. ASSUME NEW a \in open PROVE FALSE
    <3>1. a = run[n].active /\ a \in Attempts
      BY <2>1 DEF ContinuationInv, SentIsOnRecord, RunTypes
    <3>2. a # None
      BY <3>1 DEF ContinuationConstants, Attempts
    <3> QED
      BY <2>1, <3>1, <3>2 DEF Enroll, MayEnroll
  <2> QED
    BY <2>1
<1>3. \/ Ticks(n, [run |-> new, had |-> had, open |-> {}])
      \/ /\ failures' = failures + 1 /\ failures < MaxFailures
         /\ run' = [run EXCEPT ![n] = failed]
         /\ unresolved' = [unresolved EXCEPT ![n] = {}]
         /\ UNCHANGED <<ledger, disk>>
  BY <1>2, Zenon DEF Enroll
<1> HIDE DEF new, open
<1>4. GoodRun(failed) /\ failed.tasks = tasks /\ failed.state = "paused"
  BY <1>1, PausedIsGood, StateChange DEF GoodRun
<1>5. Others(n, tasks)
  BY DEF Enroll, MayEnroll
<1> HIDE DEF failed
<1>6. had \in [Nodes -> Runs] /\ GoodRuns(had) /\ had[n].tasks = tasks /\ \A m \in Nodes \ {n} : had[m] = run[m]
  BY <1>1 DEF ContinuationInv, RunTypes, GoodRuns, GoodRun
<1> HIDE DEF had
<1>7. WorkerStep(n, new, had) \/ WorkerStep(n, new, disk)
  <2>1. CASE Ticks(n, [run |-> new, had |-> had, open |-> {}])
    <3>1. \A m \in Nodes \ {n} : \A a \in unresolved[m] : a = had[m].active
      BY <1>6 DEF ContinuationInv, SentIsOnRecord
    <3>2. {} \in SUBSET Attempts /\ \A a \in {} : a = new.active /\ a = had[n].active
      OBVIOUS
    <3> QED
      BY <1>1, <1>6, <2>1, <3>1, <3>2, TicksStep
  <2>2. CASE /\ failures' = failures + 1 /\ failures < MaxFailures
             /\ run' = [run EXCEPT ![n] = failed]
             /\ unresolved' = [unresolved EXCEPT ![n] = {}]
             /\ UNCHANGED <<ledger, disk>>
    <3>1. failed \in Runs
      BY <1>4 DEF GoodRun
    <3>2. /\ run' \in [Nodes -> Runs] /\ run'[n] = failed
          /\ \A m \in Nodes \ {n} : run'[m] = run[m]
      BY <2>2, <3>1 DEF ContinuationInv, RunTypes
    <3>3. GoodRuns(run')
      BY <1>4, <3>2 DEF GoodRuns, ContinuationInv, RunTypes
    <3>4. unresolved' \in [Nodes -> SUBSET Attempts] /\ unresolved'[n] = {}
          /\ \A m \in Nodes \ {n} : unresolved'[m] = unresolved[m]
      BY <2>2 DEF ContinuationInv, RunTypes
    <3>5. SentIsOnRecord'
      BY <2>2, <3>2, <3>4 DEF SentIsOnRecord, ContinuationInv
    <3>6. run'[n].tasks = new.tasks /\ Enrolled(new)
      BY <1>1, <1>4, <3>2 DEF Enrolled, Over
    <3>7. failures' \in 0..MaxFailures
      BY <2>2 DEF ContinuationInv, RunTypes, ContinuationConstants
    <3> QED
      BY <2>2, <3>2, <3>3, <3>4, <3>5, <3>6, <3>7 DEF WorkerStep, ContinuationInv, RunTypes
  <2> QED
    BY <1>3, <2>1, <2>2
<1>8. RunTypes' /\ SentIsOnRecord'
  <2>1. ledger' = ledger
    BY <1>3 DEF Ticks
  <2> QED
    BY <1>7, <2>1 DEF WorkerStep, ContinuationInv, RunTypes
<1>9. ASSUME NEW f, f[n].tasks = tasks, \A m \in Nodes \ {n} : f[m] = run[m]
      PROVE  Apart(f)
  <2>1. ASSUME NEW m \in Nodes \ {n}, NEW t \in Tasks, Enrolled(f[m]), Has(f[n].tasks, t)
        PROVE  ~Has(f[m].tasks, t)
    <3>1. PICK k \in DOMAIN tasks : tasks[k] = t
      BY <1>9, <2>1 DEF Has
    <3>2. ~Has(run[m].tasks, tasks[k])
      BY <1>5, <1>9, <2>1 DEF Others, Enrolled
    <3> QED
      BY <1>9, <3>1, <3>2
  <2>2. ASSUME NEW m \in Nodes, NEW other \in Nodes, NEW t \in Tasks, m # other,
               Enrolled(f[m]), Enrolled(f[other]), Has(f[m].tasks, t), Has(f[other].tasks, t)
        PROVE  FALSE
    <3>1. CASE m = n \/ other = n
      BY <2>1, <2>2, <3>1
    <3>2. CASE m # n /\ other # n
      BY <1>9, <2>2, <3>2 DEF ContinuationInv, Apart
    <3> QED
      BY <3>1, <3>2
  <2> QED
    BY <2>2 DEF Apart
<1>10. run'[n].tasks = tasks /\ \A m \in Nodes \ {n} : run'[m] = run[m]
  BY <1>1, <1>7 DEF WorkerStep
<1>11. Apart(run')
  BY <1>9, <1>10
<1>12. Apart(had)
  BY <1>6, <1>9
<1>13. Apart(disk')
  <2>1. disk' = run' \/ disk' = had \/ disk' = disk
    BY <1>7 DEF WorkerStep
  <2> QED
    BY <1>11, <1>12, <2>1 DEF ContinuationInv
<1> QED
  BY <1>8, <1>11, <1>13 DEF ContinuationInv

\* completed, for a turn that went well: its attempt is settled.
LEMMA SucceedsKeeps ==
  ASSUME ContinuationConstants, ContinuationInv, NEW n \in Nodes, TurnSucceeds(n)
  PROVE  ContinuationInv'
<1> DEFINE r == run[n]
           t == r.active.task
           p == [stamp |-> ledger[t].stamp, noProgress |-> NoProgress(r, t)]
<1>1. r \in Runs /\ GoodRun(r)
  BY DEF ContinuationInv, RunTypes, GoodRuns
<1>2. CASE UNCHANGED <<run, disk, unresolved, failures>>
  BY <1>2 DEF TurnSucceeds, ContinuationInv, RunTypes, GoodRuns, SentIsOnRecord
<1>3. CASE /\ r.active # None /\ r.state \notin {"paused", "disabled"}
           /\ Save(n, Finished(r, t, p), disk)
           /\ unresolved' = [unresolved EXCEPT ![n] = {}]
  <2>1. r.active \in Attempts /\ t \in Tasks
    BY <1>1, <1>3 DEF Runs, Attempts
  <2>2. ledger[t].stamp \in 0..MaxStamp
    BY <2>1 DEF ContinuationInv, RunTypes
  <2>3. NoProgress(r, t) \in 0..NoProgressLimit
    <3>1. r.progress[t] \in [stamp : 0..MaxStamp \cup {None}, noProgress : 0..NoProgressLimit]
      BY <1>1, <2>1 DEF Runs
    <3>2. r.progress[t].stamp = r.active.stamp => r.progress[t].noProgress < NoProgressLimit
      BY <1>1, <1>3 DEF GoodRun
    <3> QED
      BY <3>1, <3>2 DEF NoProgress, NoProgressLimit
  <2>4. p \in [stamp : 0..MaxStamp \cup {None}, noProgress : 0..NoProgressLimit]
    BY <2>2, <2>3
  <2>6. Enrolled(run[n])
    BY <1>1, <1>3 DEF GoodRun, Enrolled, Over
  <2> HIDE DEF p
  <2> DEFINE next == Finished(r, t, p)
  <2>5. GoodRun(next) /\ next.tasks = r.tasks /\ next.active = None
    BY <1>1, <2>1, <2>4, <2>6, FinishedRun DEF Enrolled
  <2> HIDE DEF next
  <2>7. Save(n, next, disk)
    BY <1>3 DEF next
  <2>8. ledger' = ledger
    BY DEF TurnSucceeds
  <2> QED
    BY <1>3, <2>5, <2>6, <2>7, <2>8, SaveKeeps
<1>4. \/ UNCHANGED <<run, disk, unresolved, failures>>
      \/ /\ r.active # None /\ r.state \notin {"paused", "disabled"}
         /\ Save(n, Finished(r, t, p), disk)
         /\ unresolved' = [unresolved EXCEPT ![n] = {}]
  BY Zenon DEF TurnSucceeds, Finished
<1> QED
  BY <1>2, <1>3, <1>4

\* enroll with enabled: false
LEMMA DisableKeeps ==
  ASSUME ContinuationConstants, ContinuationInv, NEW n \in Nodes, Disable(n)
  PROVE  ContinuationInv'
<1> DEFINE next == [run[n] EXCEPT !.state = "disabled", !.withdrawn = TRUE]
<1>1. GoodRun(run[n]) /\ run[n] \in Runs
  BY DEF ContinuationInv, RunTypes, GoodRuns
<1>2. GoodRun(next) /\ next.tasks = run[n].tasks /\ next.active = run[n].active /\ next.withdrawn
  <2>1. /\ next \in Runs /\ next.state = "disabled" /\ next.withdrawn /\ next.tasks = run[n].tasks
        /\ next.active = run[n].active /\ next.progress = run[n].progress
    BY <1>1 DEF Runs
  <2> HIDE DEF next
  <2> QED
    BY <1>1, <2>1 DEF GoodRun
<1>3. Save(n, next, disk) /\ UNCHANGED <<ledger, unresolved>>
  BY DEF Disable
<1> HIDE DEF next
<1> QED
  BY <1>2, <1>3, SaveKeeps

\* The host starts again: what the document says of a run is paused.
LEMMA RestartKeeps == ASSUME ContinuationConstants, ContinuationInv, Restart PROVE ContinuationInv'
<1>1. \A n \in Nodes : /\ GoodRun(Paused(disk[n])) /\ Paused(disk[n]).tasks = disk[n].tasks
                       /\ Enrolled(Paused(disk[n])) => Enrolled(disk[n])
                       /\ Paused(disk[n]).active = disk[n].active
  BY PausedIsGood DEF ContinuationInv, RunTypes, GoodRuns, Enrolled
<1>2. /\ run' = [n \in Nodes |-> Paused(disk[n])] /\ disk' = run'
      /\ failures' = failures + 1 /\ failures < MaxFailures
      /\ UNCHANGED <<ledger, unresolved>>
  BY DEF Restart
<1>3. run' \in [Nodes -> Runs] /\ GoodRuns(run')
  BY <1>1, <1>2 DEF GoodRuns, GoodRun
<1>4. RunTypes'
  BY <1>2, <1>3 DEF ContinuationInv, RunTypes, ContinuationConstants
<1>5. SentIsOnRecord'
  BY <1>1, <1>2 DEF ContinuationInv, SentIsOnRecord
<1>6. Apart(run') /\ disk' = run'
  BY <1>1, <1>2 DEF ContinuationInv, Apart
<1> QED
  BY <1>4, <1>5, <1>6 DEF ContinuationInv

\* It holds at first: nobody is enrolled.
LEMMA ContinuationInitInvariant ==
  ASSUME ContinuationConstants
  PROVE  ContinuationInit => ContinuationInv
<1> SUFFICES ASSUME ContinuationInit PROVE ContinuationInv
  OBVIOUS
<1>1. GoodRun(NoRun) /\ NoRun \in Runs /\ ~Enrolled(NoRun)
  BY NoRunIsGood DEF GoodRun, Enrolled, Over, NoRun
<1>2. run = [n \in Nodes |-> NoRun] /\ disk = run
  BY DEF ContinuationInit
<1>3. RunTypes
  BY <1>1, <1>2 DEF ContinuationInit, RunTypes, GoodRuns, Statuses, ContinuationConstants
<1>4. SentIsOnRecord
  BY DEF ContinuationInit, SentIsOnRecord
<1>5. Apart(run) /\ Apart(disk)
  BY <1>1, <1>2 DEF Apart
<1> QED
  BY <1>3, <1>4, <1>5 DEF ContinuationInv

\* Every step keeps the invariant.
LEMMA ContinuationNextInvariant ==
  ASSUME ContinuationConstants
  PROVE  ContinuationInv /\ [ContinuationNext]_continuationVars => ContinuationInv'
<1> SUFFICES ASSUME ContinuationInv, [ContinuationNext]_continuationVars PROVE ContinuationInv'
  OBVIOUS
<1>1. ASSUME UNCHANGED <<run, disk, unresolved, failures>>,
             ledger' \in [Tasks -> [owner : Nodes, status : Statuses, stamp : 0..MaxStamp]]
      PROVE  ContinuationInv'
  BY <1>1 DEF ContinuationInv, RunTypes, GoodRuns, SentIsOnRecord
<1>2. ledger \in [Tasks -> [owner : Nodes, status : Statuses, stamp : 0..MaxStamp]]
  BY DEF ContinuationInv, RunTypes
<1>3. ASSUME NEW n \in Nodes, Tick(n) PROVE ContinuationInv'
  BY <1>3, TickKeeps
<1>4. ASSUME NEW n \in Nodes, Disable(n) PROVE ContinuationInv'
  BY <1>4, DisableKeeps
<1>5. ASSUME NEW n \in Nodes, Pause(n) PROVE ContinuationInv'
  BY <1>5, PausesKeep DEF Pause
<1>6. ASSUME NEW n \in Nodes, NEW tasks \in Assignments, NEW budget \in Budgets, Enroll(n, tasks, budget)
      PROVE  ContinuationInv'
  BY <1>6, EnrollKeeps
<1>7. ASSUME NEW n \in Nodes, Accepted(n) PROVE ContinuationInv'
  BY <1>1, <1>2, <1>7 DEF Accepted
<1>8. ASSUME NEW n \in Nodes, SendFails(n) PROVE ContinuationInv'
  BY <1>8, PausesKeep DEF SendFails
<1>9. ASSUME NEW n \in Nodes, MessageTurn(n) PROVE ContinuationInv'
  BY <1>1, <1>2, <1>9 DEF MessageTurn
<1>10. ASSUME NEW n \in Nodes, TurnSucceeds(n) PROVE ContinuationInv'
  BY <1>10, SucceedsKeeps
<1>11. ASSUME NEW n \in Nodes, TurnFails(n) PROVE ContinuationInv'
  BY <1>11, PausesKeep DEF TurnFails
<1>12. ASSUME NEW n \in Nodes, WorkerEnds(n) PROVE ContinuationInv'
  BY <1>12, PausesKeep DEF WorkerEnds
<1>13. ASSUME NEW t \in Tasks, LedgerChanges(t) PROVE ContinuationInv'
  <2>1. PICK owner \in Nodes, status \in Statuses :
          ledger' = [ledger EXCEPT ![t] = [owner |-> owner, status |-> status, stamp |-> @.stamp + 1]]
    BY <1>13 DEF LedgerChanges
  <2>2. ledger[t].stamp \in 0..MaxStamp /\ ledger[t].stamp < MaxStamp /\ MaxStamp \in Nat
    BY <1>2, <1>13 DEF LedgerChanges, ContinuationConstants
  <2> DEFINE changed == [owner |-> owner, status |-> status, stamp |-> ledger[t].stamp + 1]
  <2>3. changed \in [owner : Nodes, status : Statuses, stamp : 0..MaxStamp]
    BY <2>2
  <2>4. ledger' = [ledger EXCEPT ![t] = changed]
    BY <2>1
  <2> HIDE DEF changed
  <2>5. ledger' \in [Tasks -> [owner : Nodes, status : Statuses, stamp : 0..MaxStamp]]
    BY <1>2, <2>3, <2>4
  <2> QED
    BY <1>1, <1>13, <2>5 DEF LedgerChanges
<1>14. CASE Restart
  BY <1>14, RestartKeeps
<1>15. CASE UNCHANGED continuationVars
  BY <1>1, <1>2, <1>15 DEF continuationVars
<1> QED
  BY <1>3, <1>4, <1>5, <1>6, <1>7, <1>8, <1>9, <1>10, <1>11, <1>12, <1>13, <1>14, <1>15 DEF ContinuationNext

\* The invariant, of every state.
THEOREM ContinuationInvariance == ASSUME ContinuationConstants PROVE ContinuationSpec => []ContinuationInv
BY ContinuationInitInvariant, ContinuationNextInvariant, PTL DEF ContinuationSpec

\* A turn that was sent is the attempt on record, in memory and in the saved
\* document, until it is settled; two live runs share no task; and two turns
\* that are not settled are on one task only when the manager has withdrawn one
\* of the runs (TurnsOnRecord), whichever saves fail and whenever the host dies.
THEOREM TurnsCorrect == ASSUME ContinuationConstants PROVE ContinuationSpec => []TurnsOnRecord
<1>1. ASSUME ContinuationInv PROVE TurnsOnRecord
  <2>1. \A n \in Nodes : GoodRun(run[n])
    BY <1>1 DEF ContinuationInv, RunTypes, GoodRuns
  <2>2. OneWorkerPerTask
    BY <1>1, <2>1 DEF ContinuationInv, Apart, OneWorkerPerTask, GoodRun, Enrolled, Over
  <2>3. ASSUME NEW n \in Nodes, NEW a \in unresolved[n], ~run[n].withdrawn
        PROVE  Enrolled(run[n]) /\ Has(run[n].tasks, a.task) /\ a.task \in Tasks
    <3>1. a \in Attempts /\ a = run[n].active /\ a # None
      BY <1>1 DEF ContinuationInv, RunTypes, SentIsOnRecord, ContinuationConstants, Attempts
    <3> QED
      BY <2>1, <2>3, <3>1 DEF GoodRun, Enrolled, Over, Attempts
  <2>4. TurnsAlone
    BY <1>1, <2>3 DEF TurnsAlone, ContinuationInv, Apart
  <2> QED
    BY <1>1, <2>2, <2>4 DEF ContinuationInv, TurnsOnRecord
<1> QED
  BY <1>1, ContinuationInvariance, PTL

\* The session is idle, is being sent a turn, or is at one of the controller's
\* or of somebody else.
TurnTypes == turn \in [Nodes -> {"idle", "sending", "running", "message"}]

LEMMA TurnTypesStep == TurnTypes /\ [ContinuationNext]_continuationVars => TurnTypes'
<1> SUFFICES ASSUME TurnTypes, [ContinuationNext]_continuationVars PROVE TurnTypes'
  OBVIOUS
<1> USE DEF TurnTypes
<1>1. ASSUME NEW n \in Nodes, NEW c, Ticks(n, c) PROVE TurnTypes'
  BY <1>1 DEF Ticks, TickNothing, TickStops, TickFindsNone, TickSends, TickSpent
<1>2. ASSUME NEW n \in Nodes, Tick(n) \/ Disable(n) \/ Pause(n) PROVE TurnTypes'
  BY <1>1, <1>2 DEF Tick, Disable, Pause
<1>3. ASSUME NEW n \in Nodes, NEW tasks \in Assignments, NEW budget \in Budgets, Enroll(n, tasks, budget)
      PROVE  TurnTypes'
  BY <1>1, <1>3 DEF Enroll
<1>4. ASSUME NEW n \in Nodes, Accepted(n) \/ SendFails(n) \/ MessageTurn(n) PROVE TurnTypes'
  BY <1>4 DEF Accepted, SendFails, MessageTurn
<1>5. ASSUME NEW n \in Nodes, TurnSucceeds(n) \/ TurnFails(n) \/ WorkerEnds(n) PROVE TurnTypes'
  BY <1>5 DEF TurnSucceeds, TurnFails, WorkerEnds
<1>6. ASSUME NEW t \in Tasks, LedgerChanges(t) PROVE TurnTypes'
  BY <1>6 DEF LedgerChanges
<1>7. CASE Restart
  BY <1>7 DEF Restart
<1>8. CASE UNCHANGED continuationVars
  BY <1>8 DEF continuationVars
<1> QED
  BY <1>2, <1>3, <1>4, <1>5, <1>6, <1>7, <1>8 DEF ContinuationNext

\* Every variable keeps its kind; in particular, through lost saves and
\* restarts, no task is tried more than NoProgressLimit times on one record
\* (ContinuationTypeOK).
THEOREM ContinuationTypes == ASSUME ContinuationConstants PROVE ContinuationSpec => []ContinuationTypeOK
<1>1. ContinuationInit => TurnTypes
  BY DEF ContinuationInit, TurnTypes
<1>2. ContinuationInv /\ TurnTypes => ContinuationTypeOK
  BY DEF ContinuationInv, RunTypes, TurnTypes, ContinuationTypeOK
<1> QED
  BY <1>1, <1>2, TurnTypesStep, ContinuationInvariance, PTL DEF ContinuationSpec

-----------------------------------------------------------------------------
(* EventBackpressure *)

Here == IF active = 0 THEN 0 ELSE 1

\* Every part of the stream goes on where the one before it ends.
Numbered ==
  /\ accepted = Len(handled) + Here + Len(queue)
  /\ \A i \in 1..Len(handled) : handled[i] = i
  /\ active # 0 => active = Len(handled) + 1
  /\ \A i \in 1..Len(queue) : queue[i] = Len(handled) + Here + i

Standing ==
  /\ pump \in {"dispatch", "wait"} => active # 0
  /\ pump = "resume" => active = 0

BackpressureInv == BackpressureTypeOK /\ Numbered /\ Standing /\ SourceControlled

\* It holds at first: the stream is empty.
LEMMA BackpressureInitInvariant ==
  ASSUME BackpressureConstants
  PROVE  BackpressureInit => BackpressureInv
<1> SUFFICES ASSUME BackpressureInit PROVE BackpressureInv
  OBVIOUS
<1>1. <<>> \in Seq(1..MaxEvents) /\ Len(<<>>) = 0
  BY EmptySeq
<1>2. BackpressureTypeOK
  <2>1. queue \in Seq(1..MaxEvents) /\ handled \in Seq(1..MaxEvents)
    BY <1>1, Zenon DEF BackpressureInit
  <2>2. /\ accepted = 0 /\ active = 0 /\ holds = 0 /\ pump = "off"
        /\ paused = FALSE /\ closing = FALSE /\ closed = FALSE /\ failure = FALSE
    BY DEF BackpressureInit
  <2>3. 0 \in 0..MaxEvents /\ 0 \in 0..MaxHolds
    BY DEF BackpressureConstants
  <2> QED
    BY <2>1, <2>2, <2>3, Zenon DEF BackpressureTypeOK
<1>3. Numbered
  BY <1>1 DEF BackpressureInit, Numbered, Here
<1> QED
  BY <1>2, <1>3 DEF BackpressureInit, BackpressureInv, Standing, SourceControlled, Pumping

\* The head of the queue goes to the listeners when they are at no event.
LEMMA DispatchKeeps ==
  ASSUME NEW n \in Nat, NEW q \in Seq(1..MaxEvents), q # <<>>, Dispatch(q),
         \A i \in 1..Len(q) : q[i] = n + i
  PROVE  /\ pump' = "dispatch"
         /\ active' \in 1..MaxEvents /\ active' = n + 1
         /\ queue' \in Seq(1..MaxEvents)
         /\ Len(q) \in Nat /\ Len(queue') = Len(q) - 1
         /\ \A i \in 1..Len(queue') : queue'[i] = n + 1 + i
<1>1. Len(q) \in Nat /\ Len(q) >= 1
  BY EmptySeq
<1>2. /\ Head(q) \in 1..MaxEvents
      /\ Tail(q) \in Seq(1..MaxEvents)
      /\ Len(Tail(q)) = Len(q) - 1
      /\ \A i \in 1..Len(Tail(q)) : Tail(q)[i] = q[i + 1]
  BY HeadTailProperties
<1>3. Head(q) = q[1]
  BY <1>1
<1>4. active' = Head(q) /\ queue' = Tail(q) /\ pump' = "dispatch"
  BY DEF Dispatch
<1>5. active' = n + 1
  BY <1>1, <1>3, <1>4
<1>6. \A i \in 1..Len(queue') : queue'[i] = q[i + 1]
  BY <1>2, <1>4
<1>7. Len(queue') = Len(q) - 1
  BY <1>2, <1>4
<1>8. \A i \in 1..Len(queue') : queue'[i] = n + 1 + i
  BY <1>1, <1>6, <1>7
<1> QED
  BY <1>1, <1>2, <1>4, <1>5, <1>7, <1>8

\* An event more at the end of a part of the stream.
LEMMA AppendKeeps ==
  ASSUME NEW q \in Seq(1..MaxEvents), NEW n \in Nat, NEW e \in 1..MaxEvents,
         e = n + Len(q) + 1,
         \A i \in 1..Len(q) : q[i] = n + i
  PROVE  /\ Append(q, e) \in Seq(1..MaxEvents)
         /\ Len(Append(q, e)) = Len(q) + 1
         /\ \A i \in 1..Len(Append(q, e)) : Append(q, e)[i] = n + i
         /\ Append(q, e) # <<>>
<1> DEFINE s == Append(q, e)
           E == 1..MaxEvents
<1>0. q \in Seq(E) /\ e \in E
  OBVIOUS
<1> HIDE DEF E
<1>1. /\ s \in Seq(E)
      /\ s # <<>>
      /\ Len(s) = Len(q) + 1
      /\ \A i \in 1..Len(q) : s[i] = q[i]
      /\ s[Len(q) + 1] = e
  BY <1>0, AppendProperties
<1>2. Len(q) \in Nat
  BY LenProperties
<1> HIDE DEF s
<1>3. \A i \in 1..Len(s) : s[i] = n + i
  BY <1>1, <1>2
<1> QED
  BY <1>1, <1>3 DEF s, E

\* What the listeners are done with joins what they were done with.
LEMMA HandledKeeps ==
  ASSUME BackpressureConstants, BackpressureInv, active # 0, handled' = Append(handled, active)
  PROVE  /\ handled' \in Seq(1..MaxEvents)
         /\ Len(handled) \in Nat /\ Len(handled') = Len(handled) + 1
         /\ \A i \in 1..Len(handled') : handled'[i] = i
<1>1. Len(handled) \in Nat
  BY LenProperties DEF BackpressureInv, BackpressureTypeOK
<1>2. active \in 1..MaxEvents /\ active = 0 + Len(handled) + 1
  BY <1>1 DEF BackpressureInv, BackpressureTypeOK, Numbered, BackpressureConstants
<1>3. \A i \in 1..Len(handled) : handled[i] = 0 + i
  BY <1>1 DEF BackpressureInv, Numbered
<1>4. handled \in Seq(1..MaxEvents) /\ 0 \in Nat
  BY DEF BackpressureInv, BackpressureTypeOK
<1> DEFINE s == Append(handled, active)
<1>5. /\ s \in Seq(1..MaxEvents) /\ Len(s) = Len(handled) + 1
      /\ \A i \in 1..Len(s) : s[i] = 0 + i
  BY <1>2, <1>3, <1>4, AppendKeeps
<1> HIDE DEF s
<1>6. \A i \in 1..Len(s) : s[i] = i
  BY <1>1, <1>5
<1> QED
  BY <1>1, <1>5, <1>6 DEF s

\* The head of the loop: the listeners are at no event, and the next one goes
\* to them, or the queue is empty.
LEMMA NextEvent ==
  ASSUME BackpressureConstants, BackpressureInv,
         handled' \in Seq(1..MaxEvents), Len(handled') \in Nat,
         \A i \in 1..Len(handled') : handled'[i] = i,
         accepted = Len(handled') + Len(queue), accepted' = accepted,
         \A i \in 1..Len(queue) : queue[i] = Len(handled') + i,
         ~failure, UNCHANGED holds,
         \/ queue # <<>> /\ Dispatch(queue) /\ UNCHANGED <<paused, closing, closed, failure>>
         \/ /\ queue = <<>>
            /\ active' = 0 /\ queue' = queue /\ failure' = failure
            /\ closing' \in BOOLEAN /\ closed' \in BOOLEAN
            /\ \/ pump' = "resume" /\ paused' = FALSE
               \/ pump' = "resumeLast" /\ paused' = FALSE
               \/ pump' = "off" /\ paused' = paused /\ (paused => holds # 0)
  PROVE  BackpressureInv'
<1>1. CASE queue # <<>> /\ Dispatch(queue) /\ UNCHANGED <<paused, closing, closed, failure>>
  <2>1. /\ pump' = "dispatch"
        /\ active' \in 1..MaxEvents /\ active' = Len(handled') + 1
        /\ queue' \in Seq(1..MaxEvents)
        /\ Len(queue) \in Nat /\ Len(queue') = Len(queue) - 1
        /\ \A i \in 1..Len(queue') : queue'[i] = Len(handled') + 1 + i
    BY <1>1, DispatchKeeps DEF BackpressureInv, BackpressureTypeOK
  <2>2. BackpressureTypeOK'
    BY <1>1, <2>1 DEF BackpressureInv, BackpressureTypeOK, BackpressureConstants
  <2>3. active' # 0 /\ Here' = 1
    BY <2>1 DEF Here
  <2>4. Numbered'
    BY <2>1, <2>3 DEF Numbered
  <2> QED
    BY <1>1, <2>1, <2>2, <2>3, <2>4 DEF BackpressureInv, Standing, SourceControlled, Pumping
<1>2. CASE /\ queue = <<>>
           /\ active' = 0 /\ queue' = queue /\ failure' = failure
           /\ closing' \in BOOLEAN /\ closed' \in BOOLEAN
           /\ \/ pump' = "resume" /\ paused' = FALSE
              \/ pump' = "resumeLast" /\ paused' = FALSE
              \/ pump' = "off" /\ paused' = paused /\ (paused => holds # 0)
  <2>1. BackpressureTypeOK'
    <3>1. queue' \in Seq(1..MaxEvents) /\ accepted' \in 0..MaxEvents /\ holds' \in 0..MaxHolds
      BY <1>2, Zenon DEF BackpressureInv, BackpressureTypeOK
    <3>2. pump' \in {"resume", "resumeLast", "off"} /\ paused' \in BOOLEAN /\ failure' \in BOOLEAN
      BY <1>2 DEF BackpressureInv, BackpressureTypeOK
    <3> QED
      BY <1>2, <3>1, <3>2 DEF BackpressureTypeOK, BackpressureConstants
  <2>2. Len(queue') = 0 /\ Here' = 0
    BY <1>2, EmptySeq DEF Here
  <2>3. Numbered'
    BY <1>2, <2>2 DEF Numbered
  <2> QED
    BY <1>2, <2>1, <2>3
       DEF BackpressureInv, BackpressureTypeOK, BackpressureConstants, Standing, SourceControlled, Pumping
<1> QED
  BY <1>1, <1>2

\* The event the listeners are at is done with.
LEMMA DoneWith ==
  ASSUME BackpressureConstants, BackpressureInv, pump \in {"dispatch", "wait"},
         handled' = Append(handled, active),
         Continue, UNCHANGED <<accepted, holds>>
  PROVE  BackpressureInv'
<1>1. active # 0 /\ ~failure /\ Here = 1
  BY DEF BackpressureInv, Standing, SourceControlled, Pumping, Here
<1>2. /\ handled' \in Seq(1..MaxEvents)
      /\ Len(handled) \in Nat /\ Len(handled') = Len(handled) + 1
      /\ \A i \in 1..Len(handled') : handled'[i] = i
  BY <1>1, HandledKeeps
<1>3. Len(queue) \in Nat
  BY LenProperties DEF BackpressureInv, BackpressureTypeOK
<1>4. /\ accepted = Len(handled') + Len(queue)
      /\ \A i \in 1..Len(queue) : queue[i] = Len(handled') + i
      /\ Len(handled') \in Nat
  BY <1>1, <1>2, <1>3 DEF BackpressureInv, Numbered
<1>5. \/ queue # <<>> /\ Dispatch(queue) /\ UNCHANGED <<paused, closing, closed, failure>>
      \/ /\ queue = <<>>
         /\ active' = 0 /\ queue' = queue /\ failure' = failure
         /\ closing' \in BOOLEAN /\ closed' \in BOOLEAN
         /\ \/ pump' = "resume" /\ paused' = FALSE
            \/ pump' = "resumeLast" /\ paused' = FALSE
            \/ pump' = "off" /\ paused' = paused /\ (paused => holds # 0)
  BY DEF Continue, Finish, BackpressureInv, BackpressureTypeOK
<1> QED
  BY <1>1, <1>2, <1>4, <1>5, NextEvent

\* The resume hook of the loop returns.
LEMMA ResumeKeeps ==
  ASSUME BackpressureConstants, BackpressureInv, ResumeReturns
  PROVE  BackpressureInv'
<1>1. active = 0 /\ ~failure /\ Here = 0 /\ UNCHANGED <<accepted, handled, holds>>
  BY DEF BackpressureInv, ResumeReturns, Standing, SourceControlled, Pumping, Here
<1>2. Len(handled) \in Nat /\ Len(queue) \in Nat /\ handled \in Seq(1..MaxEvents)
  BY LenProperties DEF BackpressureInv, BackpressureTypeOK
<1>3. /\ accepted = Len(handled) + Len(queue)
      /\ \A i \in 1..Len(queue) : queue[i] = Len(handled) + i
      /\ \A i \in 1..Len(handled) : handled[i] = i
  BY <1>1, <1>2 DEF BackpressureInv, Numbered
<1>4. \/ queue # <<>> /\ Dispatch(queue) /\ UNCHANGED <<paused, closing, closed, failure>>
      \/ /\ queue = <<>>
         /\ active' = 0 /\ queue' = queue /\ failure' = failure
         /\ closing' \in BOOLEAN /\ closed' \in BOOLEAN
         /\ \/ pump' = "resume" /\ paused' = FALSE
            \/ pump' = "resumeLast" /\ paused' = FALSE
            \/ pump' = "off" /\ paused' = paused /\ (paused => holds # 0)
  BY DEF ResumeReturns, Finish, BackpressureInv, BackpressureTypeOK
<1>5. /\ handled' \in Seq(1..MaxEvents) /\ Len(handled') \in Nat
      /\ \A i \in 1..Len(handled') : handled'[i] = i
      /\ accepted = Len(handled') + Len(queue) /\ accepted' = accepted
      /\ \A i \in 1..Len(queue) : queue[i] = Len(handled') + i
      /\ UNCHANGED holds
  BY <1>1, <1>2, <1>3
<1> QED
  BY <1>1, <1>4, <1>5, NextEvent

\* emit
LEMMA EmitKeeps == ASSUME BackpressureConstants, BackpressureInv, Emit PROVE BackpressureInv'
<1> DEFINE q == Append(queue, accepted')
<1>1. /\ Len(handled) \in Nat /\ Len(queue) \in Nat /\ Here \in Nat
      /\ queue \in Seq(1..MaxEvents) /\ handled \in Seq(1..MaxEvents)
  BY LenProperties DEF BackpressureInv, BackpressureTypeOK, Here
<1>2. /\ accepted' \in 1..MaxEvents
      /\ accepted' = (Len(handled) + Here) + Len(queue) + 1
      /\ Len(handled) + Here \in Nat
      /\ \A i \in 1..Len(queue) : queue[i] = (Len(handled) + Here) + i
  BY <1>1 DEF Emit, BackpressureInv, BackpressureTypeOK, Numbered, BackpressureConstants
<1>3. /\ q \in Seq(1..MaxEvents)
      /\ Len(q) = Len(queue) + 1
      /\ \A i \in 1..Len(q) : q[i] = (Len(handled) + Here) + i
      /\ q # <<>>
  BY <1>1, <1>2, AppendKeeps
<1>4. /\ UNCHANGED <<handled, paused, holds, closing, closed, failure>> /\ ~failure
      /\ IF Pumping THEN queue' = q /\ UNCHANGED <<active, pump>> ELSE Dispatch(q)
  BY DEF Emit
<1> HIDE DEF q
<1>5. CASE Pumping /\ queue' = q /\ UNCHANGED <<active, pump>>
  <2>1. BackpressureTypeOK'
    BY <1>2, <1>3, <1>4, <1>5 DEF BackpressureInv, BackpressureTypeOK
  <2>2. Here' = Here
    BY <1>5 DEF Here
  <2>3. Numbered'
    BY <1>1, <1>2, <1>3, <1>4, <1>5, <2>2 DEF BackpressureInv, Numbered
  <2> QED
    BY <1>4, <1>5, <2>1, <2>3 DEF BackpressureInv, Standing, SourceControlled, Pumping
<1>6. CASE ~Pumping /\ Dispatch(q)
  <2>1. queue = <<>> /\ active = 0 /\ Here = 0
    BY <1>4, <1>6 DEF BackpressureInv, SourceControlled, Here
  <2>2. Len(queue) = 0
    BY <2>1, EmptySeq
  <2>3. \A i \in 1..Len(q) : q[i] = Len(handled) + i
    BY <1>1, <1>3, <2>1
  <2>4. /\ pump' = "dispatch"
        /\ active' \in 1..MaxEvents /\ active' = Len(handled) + 1
        /\ queue' \in Seq(1..MaxEvents)
        /\ Len(queue') = Len(q) - 1
        /\ \A i \in 1..Len(queue') : queue'[i] = Len(handled) + 1 + i
    BY <1>1, <1>3, <1>6, <2>3, DispatchKeeps
  <2>5. BackpressureTypeOK'
    BY <1>2, <1>4, <2>4 DEF BackpressureInv, BackpressureTypeOK, BackpressureConstants
  <2>6. active' # 0 /\ Here' = 1
    BY <2>4 DEF Here
  <2>7. Numbered'
    BY <1>1, <1>2, <1>3, <1>4, <2>1, <2>2, <2>4, <2>6 DEF BackpressureInv, Numbered
  <2> QED
    BY <1>4, <2>4, <2>5, <2>6, <2>7 DEF BackpressureInv, Standing, SourceControlled, Pumping
<1> QED
  BY <1>4, <1>5, <1>6

\* Every step keeps the invariant.
LEMMA BackpressureNextInvariant ==
  ASSUME BackpressureConstants
  PROVE  BackpressureInv /\ [BackpressureNext]_backpressureVars => BackpressureInv'
<1> SUFFICES ASSUME BackpressureInv, [BackpressureNext]_backpressureVars PROVE BackpressureInv'
  OBVIOUS
<1> USE DEF BackpressureConstants
<1>1. ASSUME UNCHANGED <<accepted, queue, active, handled>>,
             BackpressureTypeOK', Standing', SourceControlled'
      PROVE  BackpressureInv'
  BY <1>1 DEF BackpressureInv, Numbered, Here
<1>2. CASE ListenersReturn
  BY <1>2, DoneWith DEF ListenersReturn
<1>3. CASE ListenerPromises
  BY <1>1, <1>3 DEF ListenerPromises, BackpressureInv, BackpressureTypeOK, Standing, SourceControlled, Pumping
<1>4. CASE PromiseResolves
  BY <1>4, DoneWith DEF PromiseResolves
<1>5. CASE PromiseRejects
  BY <1>1, <1>5 DEF PromiseRejects, BackpressureInv, BackpressureTypeOK, Standing, SourceControlled, Pumping
<1>6. CASE ResumeReturns
  BY <1>6, ResumeKeeps
<1>7. CASE LastResumeReturns
  BY <1>1, <1>7
     DEF LastResumeReturns, BackpressureInv, BackpressureTypeOK, Standing, SourceControlled, Pumping
<1>8. CASE Emit
  BY <1>8, EmitKeeps
<1>9. CASE HoldSource
  BY <1>1, <1>9 DEF HoldSource, BackpressureInv, BackpressureTypeOK, Standing, SourceControlled, Pumping
<1>10. CASE ReleaseSource
  BY <1>1, <1>10 DEF ReleaseSource, BackpressureInv, BackpressureTypeOK, Standing, SourceControlled, Pumping
<1>11. CASE Close
  BY <1>1, <1>11 DEF Close, BackpressureInv, BackpressureTypeOK, Standing, SourceControlled, Pumping
<1>12. CASE UNCHANGED backpressureVars
  BY <1>12
     DEF backpressureVars, BackpressureInv, BackpressureTypeOK, Numbered, Here, Standing, SourceControlled, Pumping
<1> QED
  BY <1>2, <1>3, <1>4, <1>5, <1>6, <1>7, <1>8, <1>9, <1>10, <1>11, <1>12 DEF BackpressureNext, Settle

\* The parts of the stream, put together, are the stream.
LEMMA PartsAreTheStream == ASSUME BackpressureConstants PROVE BackpressureInv => InOrder
<1> SUFFICES ASSUME BackpressureInv PROVE InOrder
  OBVIOUS
<1> DEFINE here == IF active = 0 THEN <<>> ELSE <<active>>
           first == handled \o here
           stream == first \o queue
           all == [i \in 1..accepted |-> i]
<1>1. /\ handled \in Seq(1..MaxEvents) /\ queue \in Seq(1..MaxEvents)
      /\ Len(handled) \in Nat /\ Len(queue) \in Nat /\ accepted \in 0..MaxEvents
  BY LenProperties DEF BackpressureInv, BackpressureTypeOK
<1>2. here \in Seq(1..MaxEvents) /\ Len(here) = Here /\ Here \in {0, 1}
      /\ \A i \in 1..Here : here[i] = Len(handled) + 1
  <2>1. CASE active = 0
    BY <2>1, EmptySeq DEF Here
  <2>2. CASE active # 0
    <3>1. active \in 1..MaxEvents
      BY <2>2 DEF BackpressureInv, BackpressureTypeOK, BackpressureConstants
    <3>2. <<active>> \in Seq(1..MaxEvents) /\ Len(<<active>>) = 1 /\ <<active>>[1] = active
      BY <3>1
    <3>3. active = Len(handled) + 1
      BY <2>2 DEF BackpressureInv, Numbered
    <3> QED
      BY <2>2, <3>2, <3>3 DEF Here
  <2> QED
    BY <2>1, <2>2
<1> HIDE DEF here, first, stream, all
<1>3. /\ first \in Seq(1..MaxEvents)
      /\ Len(first) = Len(handled) + Here
      /\ \A i \in 1..(Len(handled) + Here) :
           first[i] = IF i <= Len(handled) THEN handled[i] ELSE here[i - Len(handled)]
  BY <1>1, <1>2, ConcatProperties DEF first
<1>4. \A i \in 1..Len(first) : first[i] = i
  <2> SUFFICES ASSUME NEW i \in 1..Len(first) PROVE first[i] = i
    OBVIOUS
  <2>1. CASE i <= Len(handled)
    <3>1. first[i] = handled[i] /\ i \in 1..Len(handled)
      BY <1>1, <1>2, <1>3, <2>1
    <3> QED
      BY <3>1 DEF BackpressureInv, Numbered
  <2>2. CASE i > Len(handled)
    <3>1. Here = 1 /\ i = Len(handled) + 1 /\ i - Len(handled) = 1
      BY <1>1, <1>2, <1>3, <2>2
    <3> QED
      BY <1>1, <1>2, <1>3, <2>2, <3>1
  <2> QED
    BY <1>1, <1>3, <2>1, <2>2
<1>5. /\ stream \in Seq(1..MaxEvents)
      /\ Len(stream) = Len(first) + Len(queue)
      /\ \A i \in 1..(Len(first) + Len(queue)) :
           stream[i] = IF i <= Len(first) THEN first[i] ELSE queue[i - Len(first)]
  BY <1>1, <1>3, ConcatProperties DEF stream
<1>6. Len(stream) = accepted /\ \A i \in 1..accepted : stream[i] = i
  <2>1. /\ accepted = Len(first) + Len(queue)
        /\ \A i \in 1..Len(queue) : queue[i] = Len(first) + i
    BY <1>1, <1>2, <1>3 DEF BackpressureInv, Numbered
  <2>2. Len(first) \in Nat
    BY <1>1, <1>2, <1>3
  <2> SUFFICES ASSUME NEW i \in 1..accepted PROVE stream[i] = i
    BY <1>5, <2>1
  <2>3. CASE i <= Len(first)
    BY <1>1, <1>4, <1>5, <2>1, <2>2, <2>3
  <2>4. CASE i > Len(first)
    <3>1. i - Len(first) \in 1..Len(queue)
      BY <1>1, <2>1, <2>2, <2>4
    <3>2. stream[i] = queue[i - Len(first)]
      BY <1>1, <1>5, <2>1, <2>2, <2>4
    <3>3. queue[i - Len(first)] = Len(first) + (i - Len(first))
      BY <2>1, <3>1
    <3> QED
      BY <1>1, <2>2, <3>2, <3>3
  <2> QED
    BY <1>1, <2>2, <2>3, <2>4
<1>7. all \in Seq(1..MaxEvents) /\ Len(all) = accepted /\ \A i \in 1..accepted : all[i] = i
  BY <1>1 DEF all, BackpressureConstants
<1>8. stream = all
  BY <1>5, <1>6, <1>7, SeqEqual
<1> QED
  BY <1>8 DEF InOrder, here, first, stream, all

\* The invariant, of every state.
THEOREM BackpressureInvariance == ASSUME BackpressureConstants PROVE BackpressureSpec => []BackpressureInv
BY BackpressureInitInvariant, BackpressureNextInvariant, PTL DEF BackpressureSpec

\* Every variable keeps its kind.
THEOREM BackpressureTypes == ASSUME BackpressureConstants PROVE BackpressureSpec => []BackpressureTypeOK
<1>1. BackpressureInv => BackpressureTypeOK
  BY DEF BackpressureInv
<1> QED
  BY <1>1, BackpressureInvariance, PTL

\* The listeners had, have and will have the events of the stream, once and in
\* order, and the source is never left paused for nothing (EventsInOrder),
\* whatever the listeners and the hooks do while the pump waits.
THEOREM OrderCorrect == ASSUME BackpressureConstants PROVE BackpressureSpec => []EventsInOrder
<1>1. BackpressureInv => EventsInOrder
  BY PartsAreTheStream DEF BackpressureInv, EventsInOrder
<1> QED
  BY <1>1, BackpressureInvariance, PTL

-----------------------------------------------------------------------------
(* CaptureSpool *)

\* There are no records to recover, or there is one custodian.
Alone == Misdiscarded = {} \/ \A p, q \in Procs : p = q

\* What a custodian has done when it stands where it does.
StepOf(p) ==
  /\ pc[p] \in {"found", "filed", "settled", "restored"} => at[p] \in Records
  /\ pc[p] = "filed" => filed[at[p]]
  /\ pc[p] = "settled" => reconciled[at[p]] \in Decided
  /\ pc[p] = "restored" => pending[at[p]] # NoFile
Steps == \A p \in Procs : StepOf(p)

\* Nothing ever has to be recovered when nothing had at the start.
NoRecovery ==
  Misdiscarded = {} =>
    /\ \A p \in Procs : pc[p] \notin {"recovering", "restored"}
    /\ \A r \in Records : reconciled[r] # "misdiscarded"

SpoolInv == SpoolTypeOK /\ Steps /\ NoRecovery /\ SettledIsTrue

\* It holds at first: no custodian has done anything.
LEMMA SpoolInitInvariant == ASSUME SpoolConstants PROVE SpoolInit => SpoolInv
<1> SUFFICES ASSUME SpoolInit PROVE SpoolInv
  OBVIOUS
<1>1. PICK discarded \in SUBSET Misdiscarded :
        reconciled = [r \in Records |-> IF r \in discarded THEN "misdiscarded" ELSE NoFile]
  BY DEF SpoolInit
<1>2. reconciled \in [Records -> {"misdiscarded", NoFile}]
      /\ \A r \in Records : reconciled[r] = "misdiscarded" => r \in Misdiscarded
  BY <1>1 DEF SpoolConstants
<1> QED
  BY <1>2 DEF SpoolConstants, SpoolInit, SpoolInv, SpoolTypeOK, Steps, StepOf, NoRecovery, SettledIsTrue,
              Undecided, Decided

\* A custodian that holds a record names it.
Holding == \A p \in Procs : pc[p] \in {"found", "filed", "settled", "restored"} => at[p] \in Records

\* Every state variable keeps its kind.
LEMMA TypeStep ==
  ASSUME SpoolConstants
  PROVE  SpoolTypeOK /\ Holding /\ [SpoolNext]_spoolVars => SpoolTypeOK'
<1> SUFFICES ASSUME SpoolTypeOK, Holding, [SpoolNext]_spoolVars PROVE SpoolTypeOK'
  OBVIOUS
<1> USE DEF SpoolTypeOK, Undecided, Decided, Goto
<1>1. ASSUME NEW p \in Procs, NEW r \in Records, WriteAhead(p, r) PROVE SpoolTypeOK'
  BY <1>1 DEF WriteAhead
<1>2. ASSUME NEW p \in Procs, NEW r \in Records, Find(p, r) PROVE SpoolTypeOK'
  BY <1>2 DEF Find
<1>3. ASSUME NEW p \in Procs, NEW r \in Records, Restore(p, r) PROVE SpoolTypeOK'
  BY <1>3 DEF Restore
<1>4. ASSUME NEW p \in Procs, File(p) PROVE SpoolTypeOK'
  BY <1>4 DEF File, Holding, SpoolConstants
<1>5. ASSUME NEW p \in Procs, MarkReconciled(p) PROVE SpoolTypeOK'
  BY <1>5 DEF MarkReconciled
<1>6. ASSUME NEW p \in Procs, MarkDiscarded(p) PROVE SpoolTypeOK'
  BY <1>6 DEF MarkDiscarded
<1>7. ASSUME NEW p \in Procs, RemovePending(p) PROVE SpoolTypeOK'
  BY <1>7 DEF RemovePending
<1>8. ASSUME NEW p \in Procs, Annotate(p) PROVE SpoolTypeOK'
  BY <1>8, ZenonT(60) DEF Annotate
<1>9. ASSUME NEW p \in Procs, ListMisdiscarded(p) PROVE SpoolTypeOK'
  BY <1>9 DEF ListMisdiscarded
<1>10. ASSUME NEW p \in Procs, RemoveReconciled(p) PROVE SpoolTypeOK'
  BY <1>10 DEF RemoveReconciled
<1>11. ASSUME NEW p \in Procs, Abandon(p) PROVE SpoolTypeOK'
  BY <1>11 DEF Abandon
<1>12. CASE UNCHANGED spoolVars
  BY <1>12 DEF spoolVars
<1> QED
  BY <1>1, <1>2, <1>3, <1>4, <1>5, <1>6, <1>7, <1>8, <1>9, <1>10, <1>11, <1>12 DEF SpoolNext

\* Every step keeps the invariant.
LEMMA SpoolNextInvariant ==
  ASSUME SpoolConstants, Alone
  PROVE  SpoolInv /\ [SpoolNext]_spoolVars => SpoolInv'
<1> SUFFICES ASSUME SpoolInv, [SpoolNext]_spoolVars PROVE Steps' /\ NoRecovery' /\ SettledIsTrue'
  BY TypeStep DEF SpoolInv, Steps, StepOf, Holding
<1> DEFINE Goal == Steps' /\ NoRecovery' /\ SettledIsTrue'
<1> USE DEF SpoolInv, SpoolTypeOK, Steps, StepOf, NoRecovery, SettledIsTrue, Undecided, Decided, Goto,
            SpoolConstants, Alone
<1>1. ASSUME NEW p \in Procs, NEW r \in Records, WriteAhead(p, r) PROVE Goal
  BY <1>1 DEF WriteAhead
<1>2. ASSUME NEW p \in Procs, NEW r \in Records, Find(p, r) PROVE Goal
  BY <1>2 DEF Find
<1>3. ASSUME NEW p \in Procs, NEW r \in Records, Restore(p, r) PROVE Goal
  BY <1>3 DEF Restore
<1>4. ASSUME NEW p \in Procs, File(p) PROVE Goal
  BY <1>4 DEF File
<1>5. ASSUME NEW p \in Procs, MarkReconciled(p) PROVE Goal
  BY <1>5 DEF MarkReconciled
<1>6. ASSUME NEW p \in Procs, MarkDiscarded(p) PROVE Goal
  BY <1>6 DEF MarkDiscarded
<1>7. ASSUME NEW p \in Procs, RemovePending(p) PROVE Goal
  BY <1>7 DEF RemovePending
<1>8. ASSUME NEW p \in Procs, Annotate(p) PROVE Goal
  BY <1>8 DEF Annotate
<1>9. ASSUME NEW p \in Procs, ListMisdiscarded(p) PROVE Goal
  BY <1>9 DEF ListMisdiscarded
<1>10. ASSUME NEW p \in Procs, RemoveReconciled(p) PROVE Goal
  BY <1>10 DEF RemoveReconciled
<1>11. ASSUME NEW p \in Procs, Abandon(p) PROVE Goal
  BY <1>11 DEF Abandon
<1>12. CASE UNCHANGED spoolVars
  BY <1>12 DEF spoolVars
<1> QED
  BY <1>1, <1>2, <1>3, <1>4, <1>5, <1>6, <1>7, <1>8, <1>9, <1>10, <1>11, <1>12 DEF SpoolNext

LeavesByDecision ==
  \A r \in Records : pending[r] # NoFile /\ pending'[r] = NoFile => reconciled'[r] \in Decided
StaysSomewhere ==
  \A r \in Records : pending[r] # NoFile \/ reconciled[r] # NoFile
                     => pending'[r] # NoFile \/ reconciled'[r] # NoFile

\* In a state of the invariant, a step that takes a file away leaves the other
\* copy, and one that ends a record's time in pending/ has decided about it.
LEMMA NothingGoesMissing ==
  ASSUME SpoolConstants PROVE SpoolInv /\ [SpoolNext]_spoolVars => LeavesByDecision /\ StaysSomewhere
<1> SUFFICES ASSUME SpoolInv, [SpoolNext]_spoolVars PROVE LeavesByDecision /\ StaysSomewhere
  OBVIOUS
<1> DEFINE Goal == LeavesByDecision /\ StaysSomewhere
<1> USE DEF LeavesByDecision, StaysSomewhere, SpoolInv, SpoolTypeOK, Undecided, Decided, SpoolConstants
<1>1. ASSUME NEW p \in Procs, NEW r \in Records, WriteAhead(p, r) PROVE Goal
  BY <1>1 DEF WriteAhead
<1>2. ASSUME NEW p \in Procs, NEW r \in Records, Find(p, r) PROVE Goal
  BY <1>2 DEF Find
<1>3. ASSUME NEW p \in Procs, NEW r \in Records, Restore(p, r) PROVE Goal
  BY <1>3 DEF Restore
<1>4. ASSUME NEW p \in Procs, File(p) PROVE Goal
  BY <1>4 DEF File
<1>5. ASSUME NEW p \in Procs, MarkReconciled(p) PROVE Goal
  BY <1>5 DEF MarkReconciled
<1>6. ASSUME NEW p \in Procs, MarkDiscarded(p) PROVE Goal
  BY <1>6 DEF MarkDiscarded
<1>7. ASSUME NEW p \in Procs, RemovePending(p) PROVE Goal
  BY <1>7 DEF RemovePending, Steps, StepOf
<1>8. ASSUME NEW p \in Procs, Annotate(p) PROVE Goal
  BY <1>8 DEF Annotate
<1>9. ASSUME NEW p \in Procs, ListMisdiscarded(p) PROVE Goal
  BY <1>9 DEF ListMisdiscarded
<1>10. ASSUME NEW p \in Procs, RemoveReconciled(p) PROVE Goal
  BY <1>10 DEF RemoveReconciled, Steps, StepOf
<1>11. ASSUME NEW p \in Procs, Abandon(p) PROVE Goal
  BY <1>11 DEF Abandon
<1>12. CASE UNCHANGED spoolVars
  BY <1>12 DEF spoolVars
<1> QED
  BY <1>1, <1>2, <1>3, <1>4, <1>5, <1>6, <1>7, <1>8, <1>9, <1>10, <1>11, <1>12 DEF SpoolNext

LEMMA HoldingStep ==
  SpoolTypeOK /\ Holding /\ [SpoolNext]_spoolVars => Holding'
<1> SUFFICES ASSUME SpoolTypeOK, Holding, [SpoolNext]_spoolVars PROVE Holding'
  OBVIOUS
<1> USE DEF SpoolTypeOK, Holding, Goto
<1>1. ASSUME NEW p \in Procs, NEW r \in Records, WriteAhead(p, r) \/ Find(p, r) \/ Restore(p, r) PROVE Holding'
  BY <1>1 DEF WriteAhead, Find, Restore
<1>2. ASSUME NEW p \in Procs, File(p) \/ MarkReconciled(p) \/ MarkDiscarded(p) PROVE Holding'
  BY <1>2 DEF File, MarkReconciled, MarkDiscarded
<1>3. ASSUME NEW p \in Procs, RemovePending(p) \/ Annotate(p) \/ Abandon(p) PROVE Holding'
  BY <1>3 DEF RemovePending, Annotate, Abandon
<1>4. ASSUME NEW p \in Procs, ListMisdiscarded(p) \/ RemoveReconciled(p) PROVE Holding'
  BY <1>4 DEF ListMisdiscarded, RemoveReconciled
<1>5. CASE UNCHANGED spoolVars
  BY <1>5 DEF spoolVars
<1> QED
  BY <1>1, <1>2, <1>3, <1>4, <1>5 DEF SpoolNext

\* Every variable keeps its kind, with any custodians and any records to recover.
THEOREM SpoolTypes == ASSUME SpoolConstants PROVE SpoolSpec => []SpoolTypeOK
<1>1. SpoolInit => SpoolTypeOK /\ Holding
  BY SpoolInitInvariant DEF SpoolInv, SpoolInit, Holding
<1> QED
  BY <1>1, TypeStep, HoldingStep, PTL DEF SpoolSpec

\* The invariant, of every state.
THEOREM SpoolInvariance == ASSUME SpoolConstants, Alone PROVE SpoolSpec => []SpoolInv
BY SpoolInitInvariant, SpoolNextInvariant, PTL DEF SpoolSpec

\* Only a decision takes a record out of pending/, no step leaves a record in
\* neither place, and a record that says the ledger has its words is right
\* (SpoolKept): whatever is interrupted, and whoever else decides meanwhile.
THEOREM SpoolCorrect == ASSUME SpoolConstants, Alone PROVE SpoolSpec => SpoolKept
<1>1. SpoolInv => SettledIsTrue
  BY DEF SpoolInv
<1>2. SpoolInv /\ [SpoolNext]_spoolVars => [LeavesByDecision]_spoolVars /\ [StaysSomewhere]_spoolVars
  BY NothingGoesMissing
<1>3. SpoolSpec => [][LeavesByDecision]_spoolVars /\ [][StaysSomewhere]_spoolVars /\ []SettledIsTrue
  BY <1>1, <1>2, SpoolInvariance, PTL DEF SpoolSpec
<1>4. (SpoolSpec => SpoolKept) <=>
        (SpoolSpec => [][LeavesByDecision]_spoolVars /\ [][StaysSomewhere]_spoolVars /\ []SettledIsTrue)
  BY DEF SpoolKept, OnlyADecisionLeaves, NeverInNeither, LeavesByDecision, StaysSomewhere
<1> QED
  BY <1>3, <1>4

-----------------------------------------------------------------------------
(* ToolApproval *)

\* The one-time approval of a call is consumed, for its arguments.
SpentFor(r, g) == g # NoRow => grants[g] # NoRow /\ grants[g].status = "consumed" /\ grants[g].args = r.args

\* A call that was told to bring a one-time approval has brought one.
Brought(r) ==
  r.pc \in {"cleared", "decided"} /\ ~r.scoped /\ r.required /\ ~r.standing => r.grant # NoRow

\* The scoped approval of a call is approved, bound to its arguments and spent for it.
Hands(c, r) ==
  /\ r.authorization \in Authorizations
  /\ expiries[r.authorization] # NoRow
  /\ authorizations[r.authorization] = r.args
  /\ consumptions[r.authorization] # NoRow
  /\ consumptions[r.authorization].call = c
  /\ Approved(r.authorization)

Held(c, r) ==
  r.scoped /\ (r.pc = "started" \/ (r.pc = "decided" /\ rules.enforced)) => Hands(c, r)

GoodCall(c, r) == SpentFor(r, r.grant) /\ Brought(r) /\ Held(c, r)

\* Events follow the creation of a scoped approval, and approve it in time.
Stream(a) ==
  /\ expiries[a] = NoRow => events[a] = <<>>
  /\ expiries[a] # NoRow => authorizations[a] \in Arguments
  /\ \A k \in DOMAIN events[a] : events[a][k].what = "approved" => events[a][k].at < expiries[a]

GrantsApart ==
  \A c, d \in Calls : c # d => calls[c].grant = NoRow \/ calls[c].grant # calls[d].grant

ApprovalInv ==
  /\ ApprovalTypeOK
  /\ \A c \in Calls : GoodCall(c, calls[c])
  /\ GrantsApart
  /\ \A a \in Authorizations : Stream(a)

-----------------------------------------------------------------------------
(* Calls *)

\* A call at another place, and nothing else changed.
At(r, place) == [r EXCEPT !.pc = place]

LEMMA AtPlace ==
  ASSUME NEW r \in Call, NEW place \in Stages
  PROVE  /\ At(r, place) \in Call /\ At(r, place).pc = place
         /\ At(r, place).args = r.args /\ At(r, place).token = r.token
         /\ At(r, place).authorization = r.authorization /\ At(r, place).grant = r.grant
         /\ At(r, place).scoped = r.scoped /\ At(r, place).required = r.required
         /\ At(r, place).standing = r.standing
BY DEF Call, At

\* The fields of a call that has not begun, and of one that was refused.
LEMMA EmptyCall ==
  ASSUME NEW place \in Stages
  PROVE  At(NoCall, place) \in Call /\ At(NoCall, place).pc = place /\ At(NoCall, place).grant = NoRow
BY DEF Call, At, NoCall, Tokens

LEMMA NoCallIsCall == NoCall \in Call /\ NoCall.pc = "idle" /\ NoCall.grant = NoRow
BY DEF Call, NoCall, Stages, Tokens

Checked(q, enforced) ==
  [NoCall EXCEPT !.pc = "checked", !.args = q.args, !.token = q.token,
                 !.authorization = q.authorization, !.scoped = enforced]

LEMMA CheckedCall ==
  ASSUME NEW q \in Asked, NEW enforced \in BOOLEAN
  PROVE  Checked(q, enforced) \in Call /\ Checked(q, enforced).pc = "checked"
         /\ Checked(q, enforced).grant = NoRow
BY DEF Call, Checked, NoCall, Stages, Asked, Tokens

Judged(r, required, standing) == [r EXCEPT !.pc = "judged", !.required = required, !.standing = standing]

LEMMA JudgedCall ==
  ASSUME NEW r \in Call, NEW required \in BOOLEAN, NEW standing \in BOOLEAN
  PROVE  Judged(r, required, standing) \in Call /\ Judged(r, required, standing).pc = "judged"
         /\ Judged(r, required, standing).grant = r.grant /\ Judged(r, required, standing).args = r.args
BY DEF Call, Judged, Stages

Cleared(r, g) == [r EXCEPT !.pc = "cleared", !.grant = g]

LEMMA ClearedCall ==
  ASSUME NEW r \in Call, NEW g \in Grants
  PROVE  Cleared(r, g) \in Call /\ Cleared(r, g).pc = "cleared" /\ Cleared(r, g).grant = g
         /\ Cleared(r, g).args = r.args
BY DEF Call, Cleared, Stages

\* What becomes of the calls when one of them is changed.
LEMMA OneCall ==
  ASSUME ApprovalTypeOK, NEW c \in Calls, NEW r \in Call, Put(c, r)
  PROVE  /\ calls' \in [Calls -> Call]
         /\ calls'[c] = r /\ \A d \in Calls \ {c} : calls'[d] = calls[d]
BY DEF ApprovalTypeOK, Put

\* A call that was not changed is as good as it was when nothing it stands on was.
LEMMA Untouched ==
  ASSUME NEW c \in Calls, GoodCall(c, calls[c]), calls'[c] = calls[c],
         UNCHANGED <<rules, grants, authorizations, expiries, events, consumptions>>
  PROVE  GoodCall(c, calls[c])'
BY DEF GoodCall, SpentFor, Brought, Held, Hands, Approved

\* A step that changes nothing but a call.
LEMMA CallMoves ==
  ASSUME ApprovalInv, NEW c \in Calls, NEW r \in Call, Put(c, r), UNCHANGED <<world, store>>,
         r.grant = NoRow \/ (r.grant = calls[c].grant /\ r.args = calls[c].args),
         Brought(r), Held(c, r)
  PROVE  ApprovalInv'
<1>1. calls' \in [Calls -> Call] /\ calls'[c] = r /\ \A d \in Calls \ {c} : calls'[d] = calls[d]
  BY OneCall DEF ApprovalInv
<1>2. ApprovalTypeOK'
  BY <1>1 DEF ApprovalInv, ApprovalTypeOK, world, store, scoped
<1>3. ASSUME NEW d \in Calls PROVE GoodCall(d, calls[d])'
  <2>1. UNCHANGED <<rules, grants, authorizations, expiries, events, consumptions>>
    BY DEF world, store, scoped
  <2>2. CASE d # c
    BY <1>1, <2>1, <2>2, Untouched DEF ApprovalInv
  <2>3. CASE d = c
    <3>1. SpentFor(r, r.grant)
      BY DEF ApprovalInv, GoodCall, SpentFor
    <3> QED
      BY <1>1, <2>1, <2>3, <3>1 DEF GoodCall, SpentFor, Brought, Held, Hands, Approved
  <2> QED
    BY <2>2, <2>3
<1>4. GrantsApart'
  BY <1>1 DEF ApprovalInv, GrantsApart
<1>5. ASSUME NEW a \in Authorizations PROVE Stream(a)'
  BY <1>5 DEF ApprovalInv, Stream, store, scoped
<1> QED
  BY <1>2, <1>3, <1>4, <1>5 DEF ApprovalInv

\* A refused call has nothing to show.
LEMMA RefusalIsGood ==
  ASSUME ApprovalInv, NEW c \in Calls, Refuse(c), UNCHANGED <<world, store>>
  PROVE  ApprovalInv'
<1>1. Put(c, At(NoCall, "refused"))
  BY DEF Refuse, At
<1>2. "refused" \in Stages
  BY DEF Stages
<1>3. Brought(At(NoCall, "refused")) /\ Held(c, At(NoCall, "refused"))
  BY <1>2, EmptyCall DEF Brought, Held
<1> QED
  BY <1>1, <1>2, <1>3, EmptyCall, CallMoves

\* A call that goes on with what it has.
LEMMA MoveIsGood ==
  ASSUME ApprovalInv, NEW c \in Calls, NEW place \in Stages, MoveTo(c, place), UNCHANGED <<world, store>>,
         Brought(At(calls[c], place)), Held(c, At(calls[c], place))
  PROVE  ApprovalInv'
<1>1. calls[c] \in Call
  BY DEF ApprovalInv, ApprovalTypeOK
<1>2. Put(c, At(calls[c], place))
  BY DEF MoveTo, At
<1> QED
  BY <1>1, <1>2, AtPlace, CallMoves
-----------------------------------------------------------------------------
(* The store *)

\* An event on a scoped approval that exists: its stream stays as it was, and an
\* approval that was given in time stays given.
LEMMA EventRecorded ==
  ASSUME ApprovalInv, NEW a \in Authorizations, NEW what \in Kinds, Record(a, what),
         expiries[a] # NoRow, what = "approved" => now < expiries[a],
         UNCHANGED <<authorizations, expiries>>
  PROVE  /\ events' \in [Authorizations -> Seq([what : Kinds, at : Nat])]
         /\ \A b \in Authorizations : Stream(b)' /\ (Approved(b) => Approved(b)')
<1> DEFINE E == [what : Kinds, at : Nat]
           e == Event(what)
<1>1. events \in [Authorizations -> Seq(E)]
  BY DEF ApprovalInv, ApprovalTypeOK
<1>2. e \in E /\ e.what = what /\ e.at = now
  BY DEF ApprovalInv, ApprovalTypeOK, Event
<1>3. events' = [events EXCEPT ![a] = Append(events[a], e)]
  BY DEF Record
<1> HIDE DEF E, e
<1>4. events[a] \in Seq(E)
  BY <1>1
<1> DEFINE longer == Append(events[a], e)
<1>5. longer \in Seq(E) /\ Len(longer) = Len(events[a]) + 1 /\ Len(events[a]) \in Nat
      /\ longer[Len(events[a]) + 1] = e /\ \A k \in 1 .. Len(events[a]) : longer[k] = events[a][k]
      /\ DOMAIN longer = 1 .. Len(events[a]) + 1 /\ DOMAIN events[a] = 1 .. Len(events[a])
  BY <1>2, <1>4
<1>6. events'[a] = longer /\ \A b \in Authorizations \ {a} : events'[b] = events[b]
  BY <1>1, <1>3
<1>7. events' \in [Authorizations -> Seq(E)]
  BY <1>1, <1>3, <1>5
<1> HIDE DEF longer
<1>8. ASSUME NEW b \in Authorizations PROVE Stream(b)' /\ (Approved(b) => Approved(b)')
  <2>1. CASE b # a
    BY <1>6, <2>1 DEF ApprovalInv, Stream, Approved
  <2>2. CASE b = a
    <3>1. Stream(a)
      BY DEF ApprovalInv
    <3>2. ASSUME NEW k \in DOMAIN longer, longer[k].what = "approved" PROVE longer[k].at < expiries[a]
      <4>1. CASE k = Len(events[a]) + 1
        BY <1>2, <1>5, <3>2, <4>1
      <4>2. CASE k \in 1 .. Len(events[a])
        BY <1>5, <3>1, <3>2, <4>2 DEF Stream
      <4> QED
        BY <1>5, <4>1, <4>2
    <3>3. Stream(a)'
      BY <1>6, <3>1, <3>2 DEF Stream
    <3>4. Approved(a) => Approved(a)'
      BY <1>5, <1>6 DEF Approved
    <3> QED
      BY <2>2, <3>3, <3>4
  <2> QED
    BY <2>1, <2>2
<1> QED
  BY <1>7, <1>8 DEF E

\* A step that leaves the calls alone, takes no row back that a call stands on,
\* and does not change enforcement under a call that is about to start.
LEMMA StoreMoves ==
  ASSUME ApprovalInv, ApprovalTypeOK', UNCHANGED calls,
         rules'.enforced = rules.enforced \/ \A c \in Calls : calls[c].pc # "decided",
         \A g \in Grants : grants[g] # NoRow /\ grants[g].status = "consumed" => grants'[g] = grants[g],
         \A a \in Authorizations :
           /\ expiries[a] # NoRow => expiries'[a] = expiries[a] /\ authorizations'[a] = authorizations[a]
           /\ consumptions[a] # NoRow => consumptions'[a] = consumptions[a]
           /\ Approved(a) => Approved(a)'
           /\ Stream(a)'
  PROVE  ApprovalInv'
<1>1. ASSUME NEW c \in Calls PROVE GoodCall(c, calls[c])'
  <2>1. calls[c] \in Call
    BY DEF ApprovalInv, ApprovalTypeOK
  <2>2. SpentFor(calls[c], calls[c].grant)'
    BY <2>1 DEF ApprovalInv, GoodCall, SpentFor, Call
  <2>3. Brought(calls[c])'
    BY DEF ApprovalInv, GoodCall, Brought
  <2>4. Hands(c, calls[c]) => Hands(c, calls[c])'
    BY DEF Hands
  <2>5. Held(c, calls[c])'
    BY <2>4 DEF ApprovalInv, GoodCall, Held
  <2> QED
    BY <2>2, <2>3, <2>5 DEF GoodCall
<1>2. GrantsApart'
  BY DEF ApprovalInv, GrantsApart
<1> QED
  BY <1>1, <1>2 DEF ApprovalInv
-----------------------------------------------------------------------------
(* What single steps do *)

\* A step that writes no event makes no decision, and one that moves no call to
\* its handler starts none.
LEMMA NoDecision == ASSUME UNCHANGED events PROVE \A a \in Authorizations : DecisionFinal(a)
BY DEF DecisionFinal

LEMMA NoStart ==
  ASSUME ApprovalTypeOK, NEW c \in Calls, NEW r \in Call, Put(c, r), r.pc # "started"
  PROVE  StartsWithLeave
BY OneCall DEF StartsWithLeave

LEMMA NoCallNoStart == ASSUME UNCHANGED calls PROVE StartsWithLeave
BY DEF StartsWithLeave

LEMMA RefusalStartsNothing ==
  ASSUME ApprovalTypeOK, NEW c \in Calls, Refuse(c)
  PROVE  StartsWithLeave
<1>1. Put(c, At(NoCall, "refused")) /\ "refused" \in Stages
  BY DEF Refuse, At, Stages
<1> QED
  BY <1>1, EmptyCall, NoStart

\* A step of a call that changes nothing but the call.
LEMMA CallSteps ==
  ASSUME ApprovalConstants, ApprovalInv, NEW c \in Calls,
         \/ Judge(c) \/ UseStanding(c) \/ RefuseToken(c) \/ DecideNothing(c) \/ Fail(c)
         \/ \E q \in Requests[c] : Arrive(c, q)
  PROVE  ApprovalInv' /\ StartsWithLeave /\ UNCHANGED events
<1>0. /\ calls[c] \in Call /\ rules \in Rules /\ GoodCall(c, calls[c]) /\ ApprovalTypeOK
      /\ {"cleared", "decided"} \subseteq Stages
  BY DEF ApprovalInv, ApprovalTypeOK, Stages
<1>1. CASE Refuse(c) /\ UNCHANGED <<world, store>>
  BY <1>0, <1>1, RefusalIsGood, RefusalStartsNothing DEF store
<1>2. ASSUME NEW place \in {"cleared", "decided"}, MoveTo(c, place), UNCHANGED <<world, store>>,
             Brought(At(calls[c], place)), Held(c, At(calls[c], place))
      PROVE  ApprovalInv' /\ StartsWithLeave /\ UNCHANGED events
  <2>1. Put(c, At(calls[c], place)) /\ place \in Stages
    BY <1>0, <1>2 DEF MoveTo, At
  <2>2. At(calls[c], place) \in Call /\ At(calls[c], place).pc # "started"
    BY <1>0, <1>2, <2>1, AtPlace
  <2>3. ApprovalInv'
    BY <1>2, <2>1, MoveIsGood
  <2> QED
    BY <1>0, <1>2, <2>1, <2>2, <2>3, NoStart DEF store
<1>3. CASE Judge(c)
  <2>1. Put(c, Judged(calls[c], rules.approvals, rules.standing)) /\ UNCHANGED <<world, store>>
    BY <1>3 DEF Judge, Judged
  <2>2. rules.approvals \in BOOLEAN /\ rules.standing \in BOOLEAN
    BY <1>0 DEF Rules
  <2> DEFINE r == Judged(calls[c], rules.approvals, rules.standing)
  <2>3. r \in Call /\ r.pc = "judged" /\ r.grant = calls[c].grant /\ r.args = calls[c].args
    BY <1>0, <2>2, JudgedCall
  <2> HIDE DEF r
  <2>4. Brought(r) /\ Held(c, r)
    BY <2>3 DEF Brought, Held
  <2> QED
    BY <1>0, <2>1, <2>3, <2>4, CallMoves, NoStart DEF store, r
<1>4. CASE UseStanding(c)
  <2>1. CASE MoveTo(c, "cleared") /\ UNCHANGED <<world, store>>
    <3>1. Brought(At(calls[c], "cleared")) /\ Held(c, At(calls[c], "cleared"))
      BY <1>0, <1>4, AtPlace DEF UseStanding, Brought, Held
    <3> QED
      BY <1>2, <2>1, <3>1
  <2> QED
    BY <1>1, <1>4, <2>1 DEF UseStanding
<1>5. CASE RefuseToken(c) \/ Fail(c)
  BY <1>1, <1>5 DEF RefuseToken, Fail
<1>6. CASE DecideNothing(c)
  <2>1. CASE MoveTo(c, "decided") /\ UNCHANGED <<world, store>>
    <3>1. Brought(At(calls[c], "decided"))
      BY <1>0, <1>6, AtPlace DEF DecideNothing, AtHandler, GoodCall, Brought
    <3>2. Held(c, At(calls[c], "decided"))
      BY <1>0, <1>6, AtPlace DEF DecideNothing, Held
    <3> QED
      BY <1>2, <2>1, <3>1, <3>2
  <2> QED
    BY <1>1, <1>6, <2>1 DEF DecideNothing
<1>7. ASSUME NEW q \in Requests[c], Arrive(c, q)
      PROVE  ApprovalInv' /\ StartsWithLeave /\ UNCHANGED events
  <2>1. q \in Asked /\ rules.enforced \in BOOLEAN
    BY <1>0, <1>7 DEF ApprovalConstants, Rules
  <2>2. CASE Put(c, Checked(q, rules.enforced)) /\ UNCHANGED <<world, store>>
    <3> DEFINE r == Checked(q, rules.enforced)
    <3>1. r \in Call /\ r.pc = "checked" /\ r.grant = NoRow
      BY <2>1, CheckedCall
    <3> HIDE DEF r
    <3>2. Brought(r) /\ Held(c, r)
      BY <3>1 DEF Brought, Held
    <3> QED
      BY <1>0, <2>2, <3>1, <3>2, CallMoves, NoStart DEF store, r
  <2> QED
    BY <1>1, <1>7, <2>2 DEF Arrive, Checked
<1> QED
  BY <1>3, <1>4, <1>5, <1>6, <1>7

\* The start of a handler.
LEMMA StartStep ==
  ASSUME ApprovalConstants, ApprovalInv, NEW c \in Calls, Start(c)
  PROVE  ApprovalInv' /\ StartsWithLeave /\ UNCHANGED events
<1>0. calls[c] \in Call /\ rules \in Rules /\ GoodCall(c, calls[c]) /\ ApprovalTypeOK /\ "started" \in Stages
  BY DEF ApprovalInv, ApprovalTypeOK, Stages
<1>1. CASE Refuse(c) /\ UNCHANGED <<world, store>>
  BY <1>0, <1>1, RefusalIsGood, RefusalStartsNothing DEF store
<1>2. CASE /\ ~rules.halted /\ SamePolicy(c) /\ (calls[c].grant # NoRow => now < grants[calls[c].grant].expires)
           /\ MoveTo(c, "started") /\ UNCHANGED <<world, store>>
  <2>1. calls[c].pc = "decided"
    BY DEF Start
  <2>2. calls[c].scoped => rules.enforced /\ Hands(c, calls[c])
    BY <1>0, <1>2, <2>1 DEF SamePolicy, GoodCall, Held
  <2>3. Brought(At(calls[c], "started")) /\ Held(c, At(calls[c], "started"))
    BY <1>0, <2>2, AtPlace DEF Brought, Held, Hands
  <2>4. ApprovalInv'
    BY <1>0, <1>2, <2>3, MoveIsGood
  <2>5. HasLeave(c)
    <3>1. CASE calls[c].scoped
      BY <1>0, <1>2, <2>2, <3>1 DEF HasLeave, Hands, ApprovalConstants, Rules
    <3>2. CASE ~calls[c].scoped
      <4>1. ~rules.enforced /\ rules.approvals = calls[c].required /\ rules.standing = calls[c].standing
        BY <1>2, <3>2 DEF SamePolicy, Rules
      <4>2. rules.approvals /\ ~rules.standing => calls[c].grant # NoRow
        BY <1>0, <2>1, <3>2, <4>1 DEF GoodCall, Brought
      <4> QED
        BY <1>0, <1>2, <4>1, <4>2 DEF HasLeave, GoodCall, SpentFor
    <3> QED
      BY <3>1, <3>2
  <2>6. \A d \in Calls \ {c} : calls'[d] = calls[d]
    BY <1>0, <1>2 DEF MoveTo, Put, ApprovalTypeOK
  <2> QED
    BY <1>2, <2>4, <2>5, <2>6 DEF StartsWithLeave, store
<1> QED
  BY <1>1, <1>2 DEF Start
\* A step that takes one open grant, and changes a call that is not about to start.
LEMMA GrantMoves ==
  ASSUME ApprovalConstants, ApprovalInv, NEW c \in Calls, NEW r \in Call, NEW g \in Grants, Put(c, r),
         UNCHANGED <<world, scoped, events, consumptions>>,
         grants[g] # NoRow, grants[g].status = "approved",
         grants' \in [Grants -> Grant \cup {NoRow}], \A h \in Grants \ {g} : grants'[h] = grants[h],
         r.grant = NoRow
           \/ (r.grant = g /\ grants'[g] # NoRow /\ grants'[g].status = "consumed" /\ grants'[g].args = r.args),
         Brought(r), r.pc \notin {"decided", "started"}
  PROVE  ApprovalInv'
<1>1. calls' \in [Calls -> Call] /\ calls'[c] = r /\ \A d \in Calls \ {c} : calls'[d] = calls[d]
  BY OneCall DEF ApprovalInv
<1>2. ApprovalTypeOK'
  BY <1>1 DEF ApprovalInv, ApprovalTypeOK, world, scoped
<1>3. ASSUME NEW d \in Calls \ {c} PROVE GoodCall(d, calls[d])' /\ calls[d].grant # g
  <2>1. GoodCall(d, calls[d]) /\ calls[d] \in Call
    BY DEF ApprovalInv, ApprovalTypeOK
  <2>2. calls[d].grant # g
    BY <2>1 DEF GoodCall, SpentFor, ApprovalConstants
  <2>3. SpentFor(calls[d], calls[d].grant)'
    BY <1>1, <2>1, <2>2 DEF GoodCall, SpentFor, Call
  <2>4. Brought(calls[d])' /\ Held(d, calls[d])'
    BY <1>1, <2>1 DEF GoodCall, Brought, Held, Hands, Approved, world, scoped
  <2> QED
    BY <2>2, <2>3, <2>4 DEF GoodCall
<1>4. GoodCall(c, calls[c])'
  BY <1>1 DEF GoodCall, SpentFor, Brought, Held
<1>5. GrantsApart'
  BY <1>1, <1>3 DEF ApprovalInv, GrantsApart
<1>6. ASSUME NEW a \in Authorizations PROVE Stream(a)'
  BY <1>6 DEF ApprovalInv, Stream, scoped
<1> QED
  BY <1>2, <1>3, <1>4, <1>5, <1>6 DEF ApprovalInv

LEMMA ConsumeGrantStep ==
  ASSUME ApprovalConstants, ApprovalInv, NEW c \in Calls, ConsumeGrant(c)
  PROVE  ApprovalInv' /\ StartsWithLeave /\ UNCHANGED events
<1> DEFINE g == calls[c].token
           r == Cleared(calls[c], g)
<1>0. calls[c] \in Call /\ ApprovalTypeOK /\ grants \in [Grants -> Grant \cup {NoRow}]
  BY DEF ApprovalInv, ApprovalTypeOK
<1>1. UNCHANGED events /\ UNCHANGED <<world, scoped, events, consumptions>>
  BY DEF ConsumeGrant
<1>2. CASE Refuse(c) /\ UNCHANGED <<world, store>>
  BY <1>0, <1>1, <1>2, RefusalIsGood, RefusalStartsNothing
<1>3. CASE g \in Grants /\ Spendable(g, calls[c].args) /\ Mark(g, "consumed") /\ Put(c, r)
  <2>1. r \in Call /\ r.pc = "cleared" /\ r.grant = g /\ r.args = calls[c].args
    BY <1>0, <1>3, ClearedCall
  <2>2. grants[g] # NoRow /\ grants[g] \in Grant /\ grants[g].status = "approved" /\ grants[g].args = calls[c].args
    BY <1>0, <1>3 DEF Spendable
  <2>3. /\ grants' \in [Grants -> Grant \cup {NoRow}] /\ \A h \in Grants \ {g} : grants'[h] = grants[h]
        /\ grants'[g] \in Grant /\ grants'[g].status = "consumed" /\ grants'[g].args = calls[c].args
    BY <1>0, <1>3, <2>2 DEF Mark, Grant
  <2>4. grants'[g] # NoRow /\ r.grant # NoRow
    BY <1>3, <2>1, <2>3 DEF ApprovalConstants
  <2> HIDE DEF r
  <2>5. Brought(r)
    BY <2>4 DEF Brought
  <2> HIDE DEF g
  <2>6. ApprovalInv'
    BY <1>1, <1>3, <2>1, <2>2, <2>3, <2>4, <2>5, GrantMoves
  <2> QED
    BY <1>0, <1>1, <1>3, <2>1, <2>6, NoStart
<1>4. CASE g \in Grants /\ Overdue(g, calls[c].args) /\ Mark(g, "expired") /\ Refuse(c)
  <2> DEFINE q == At(NoCall, "refused")
  <2>1. q \in Call /\ q.pc = "refused" /\ q.grant = NoRow /\ Put(c, q)
    BY <1>4, EmptyCall DEF Refuse, At, Stages
  <2>2. grants[g] # NoRow /\ grants[g] \in Grant /\ grants[g].status = "approved"
    BY <1>0, <1>4 DEF Overdue
  <2>3. grants' \in [Grants -> Grant \cup {NoRow}] /\ \A h \in Grants \ {g} : grants'[h] = grants[h]
    BY <1>0, <1>4, <2>2 DEF Mark, Grant
  <2> HIDE DEF q
  <2>4. Brought(q)
    BY <2>1 DEF Brought
  <2> HIDE DEF g
  <2>5. ApprovalInv'
    BY <1>1, <1>4, <2>1, <2>2, <2>3, <2>4, GrantMoves
  <2> QED
    BY <1>0, <1>1, <1>4, <2>5, RefusalStartsNothing
<1> QED
  BY <1>1, <1>2, <1>3, <1>4 DEF ConsumeGrant, Cleared, store

-----------------------------------------------------------------------------
(* The last decision *)

\* A step that decides a call: it takes no row back, and events grow.
LEMMA DecisionMoves ==
  ASSUME ApprovalInv, NEW c \in Calls, NEW r \in Call, Put(c, r), UNCHANGED <<world, grants, scoped>>,
         consumptions' \in [Authorizations -> Consumption \cup {NoRow}],
         events' \in [Authorizations -> Seq([what : Kinds, at : Nat])],
         \A a \in Authorizations :
           /\ consumptions[a] # NoRow => consumptions'[a] = consumptions[a]
           /\ Stream(a)' /\ (Approved(a) => Approved(a)'),
         r.grant = NoRow \/ (r.grant = calls[c].grant /\ r.args = calls[c].args),
         Brought(r), Held(c, calls[c])'
  PROVE  ApprovalInv'
<1>1. calls' \in [Calls -> Call] /\ calls'[c] = r /\ \A d \in Calls \ {c} : calls'[d] = calls[d]
  BY OneCall DEF ApprovalInv
<1>2. ApprovalTypeOK'
  BY <1>1 DEF ApprovalInv, ApprovalTypeOK, world, scoped
<1>3. ASSUME NEW d \in Calls \ {c} PROVE GoodCall(d, calls[d])'
  <2>1. GoodCall(d, calls[d])
    BY DEF ApprovalInv
  <2>2. Hands(d, calls[d]) => Hands(d, calls[d])'
    BY <1>1 DEF Hands, scoped
  <2> QED
    BY <1>1, <2>1, <2>2 DEF GoodCall, SpentFor, Brought, Held, world
<1>4. GoodCall(c, calls[c])'
  BY <1>1 DEF ApprovalInv, GoodCall, SpentFor, Brought
<1>5. GrantsApart'
  BY <1>1 DEF ApprovalInv, GrantsApart
<1> QED
  BY <1>2, <1>3, <1>4, <1>5 DEF ApprovalInv
\* What consumeScopedApprovalDispatch makes of an approval is an event of its own.
LEMMA Outcomes ==
  ASSUME NEW a, NEW args, NEW token
  PROVE  /\ ScopedOutcome(a, args, token) \in {"mismatch", "expired", "refused", "cancelled", "consumed"}
         /\ ScopedOutcome(a, args, token) \in {"cancelled", "consumed"} => ~Expired(a)
         /\ ScopedOutcome(a, args, token) = "consumed" =>
              Latest(a) = "approved" /\ Binds(a, args) /\ consumptions[a] = NoRow
BY DEF ScopedOutcome

LEMMA LatestApproved ==
  ASSUME ApprovalInv, NEW a \in Authorizations, Latest(a) = "approved"
  PROVE  Approved(a)
<1>1. events[a] \in Seq([what : Kinds, at : Nat]) /\ Stream(a)
  BY DEF ApprovalInv, ApprovalTypeOK
<1>2. events[a] # <<>> /\ events[a][Len(events[a])].what = "approved"
  BY DEF Latest
<1>3. Len(events[a]) \in DOMAIN events[a]
  BY <1>1, <1>2
<1> QED
  BY <1>1, <1>2, <1>3 DEF Stream, Approved

\* Nothing happened to the events.
LEMMA EventsKept ==
  ASSUME ApprovalInv, UNCHANGED <<events, authorizations, expiries>>
  PROVE  /\ events' \in [Authorizations -> Seq([what : Kinds, at : Nat])]
         /\ \A b \in Authorizations : Stream(b)' /\ (Approved(b) => Approved(b)')
BY DEF ApprovalInv, ApprovalTypeOK, Stream, Approved

\* The record of an event that the code may make is a decision of DecisionFinal.
LEMMA RecordIsFinal ==
  ASSUME ApprovalConstants, ApprovalInv, NEW a \in Authorizations, NEW what \in Kinds, Record(a, what), Open(a),
         expiries[a] # NoRow, UNCHANGED expiries,
         what \notin {"expired", "mismatch"} => ~Expired(a),
         what = "consumed" => Latest(a) = "approved" /\ backed /\ now < MaxTime
  PROVE  \A b \in Authorizations : DecisionFinal(b)
<1>1. events'[a] = Append(events[a], Event(what)) /\ \A b \in Authorizations \ {a} : events'[b] = events[b]
  BY DEF ApprovalInv, ApprovalTypeOK, Record
<1>2. what \notin {"expired", "mismatch"} => now < expiries'[a]
  BY DEF ApprovalInv, ApprovalTypeOK, Expired, ApprovalConstants
<1> QED
  BY <1>1, <1>2 DEF DecisionFinal

LEMMA DecideScopedStep ==
  ASSUME ApprovalConstants, ApprovalInv, NEW c \in Calls, DecideScoped(c)
  PROVE  ApprovalInv' /\ StartsWithLeave /\ \A a \in Authorizations : DecisionFinal(a)
<1> DEFINE a == calls[c].authorization
           outcome == IF a = NoRow \/ calls[c].token = NoRow \/ expiries[a] = NoRow THEN "refused"
                      ELSE ScopedOutcome(a, calls[c].args, calls[c].token)
           q == At(NoCall, "refused")
           r == At(calls[c], "decided")
<1>0. calls[c] \in Call /\ ApprovalTypeOK
  BY DEF ApprovalInv, ApprovalTypeOK
<1>1. /\ AtHandler(c) /\ rules.enforced /\ calls[c].scoped
      /\ UNCHANGED <<world, grants, scoped>>
      /\ IF outcome = "refused" THEN UNCHANGED events ELSE RecordIfOpen(a, outcome)
      /\ IF outcome = "consumed" THEN Consume(c) /\ MoveTo(c, "decided")
         ELSE UNCHANGED consumptions /\ Refuse(c)
  BY DEF DecideScoped
<1>2. /\ outcome \in {"mismatch", "expired", "refused", "cancelled", "consumed"}
      /\ outcome # "refused" => a \in Authorizations /\ expiries[a] # NoRow
      /\ outcome \in {"cancelled", "consumed"} => ~Expired(a)
      /\ outcome = "consumed" =>
           Latest(a) = "approved" /\ Binds(a, calls[c].args) /\ consumptions[a] = NoRow
  BY <1>0, Outcomes DEF Call
<1>3. UNCHANGED <<authorizations, expiries>>
  BY <1>1 DEF scoped
<1> HIDE DEF a, outcome
<1>4. /\ events' \in [Authorizations -> Seq([what : Kinds, at : Nat])]
      /\ \A b \in Authorizations : Stream(b)' /\ (Approved(b) => Approved(b)')
      /\ \A b \in Authorizations : DecisionFinal(b)
  <2>1. CASE UNCHANGED events
    BY <1>3, <2>1, EventsKept, NoDecision
  <2>2. CASE outcome # "refused" /\ Open(a) /\ Record(a, outcome)
    <3>1. outcome \in Kinds /\ outcome # "approved"
      BY <1>2, <2>2 DEF Kinds
    <3>2. outcome = "consumed" => Latest(a) = "approved" /\ backed /\ now < MaxTime
      BY <1>2 DEF Binds
    <3> QED
      BY <1>2, <1>3, <2>2, <3>1, <3>2, EventRecorded, RecordIsFinal
  <2> QED
    BY <1>1, <2>1, <2>2 DEF RecordIfOpen
<1>5. CASE outcome # "consumed"
  <2>1. Put(c, q) /\ q \in Call /\ q.pc = "refused" /\ q.grant = NoRow
    BY <1>1, <1>5, EmptyCall DEF Refuse, At, Stages
  <2> HIDE DEF q
  <2>2. Brought(q) /\ calls'[c] = q
    BY <1>0, <2>1, OneCall DEF Brought
  <2>3. Held(c, calls[c])'
    BY <2>1, <2>2 DEF Held
  <2>4. consumptions' = consumptions /\ consumptions' \in [Authorizations -> Consumption \cup {NoRow}]
    BY <1>0, <1>1, <1>5 DEF ApprovalTypeOK
  <2>5. ApprovalInv'
    BY <1>1, <1>4, <2>1, <2>2, <2>3, <2>4, DecisionMoves
  <2> QED
    BY <1>0, <1>4, <2>1, <2>5, NoStart
<1>6. CASE outcome = "consumed"
  <2>1. Put(c, r) /\ "decided" \in Stages /\ Consume(c)
    BY <1>1, <1>6 DEF MoveTo, At, Stages
  <2>2. r \in Call /\ r.pc = "decided" /\ r.args = calls[c].args /\ r.authorization = a /\ r.scoped
        /\ r.grant = calls[c].grant
    BY <1>0, <1>1, <2>1, AtPlace DEF a
  <2> HIDE DEF r
  <2>3. Brought(r) /\ calls'[c] = r
    BY <1>0, <2>1, <2>2, OneCall DEF Brought
  <2>4. /\ consumptions' \in [Authorizations -> Consumption \cup {NoRow}]
        /\ \A b \in Authorizations \ {a} : consumptions'[b] = consumptions[b]
        /\ consumptions'[a] \in Consumption /\ consumptions'[a].call = c
    BY <1>0, <1>2, <1>6, <2>1 DEF Consume, ApprovalTypeOK, Consumption, Call, a
  <2>5. consumptions'[a] # NoRow
    BY <2>4 DEF ApprovalConstants
  <2>6. PICK b \in Authorizations : b = a
    BY <1>2, <1>6
  <2>7. Approved(b)'
    BY <1>2, <1>4, <1>6, <2>6, LatestApproved
  <2>8. Hands(c, calls[c])'
    BY <1>2, <1>3, <1>6, <2>2, <2>3, <2>4, <2>5, <2>6, <2>7 DEF Hands, Binds
  <2>9. ApprovalInv'
    BY <1>1, <1>2, <1>4, <1>6, <2>1, <2>2, <2>3, <2>4, <2>8, DecisionMoves DEF Held
  <2> QED
    BY <1>0, <1>4, <2>1, <2>2, <2>9, NoStart
<1> QED
  BY <1>5, <1>6

LEMMA DecidePlainStep ==
  ASSUME ApprovalConstants, ApprovalInv, NEW c \in Calls, DecidePlain(c)
  PROVE  ApprovalInv' /\ StartsWithLeave /\ UNCHANGED events
<1> DEFINE a == calls[c].authorization
           q == At(NoCall, "refused")
<1>0. calls[c] \in Call /\ ApprovalTypeOK
  BY DEF ApprovalInv, ApprovalTypeOK
<1>1. /\ UNCHANGED <<world, grants, scoped>> /\ UNCHANGED events /\ Refuse(c)
      /\ UNCHANGED <<events, authorizations, expiries>>
  BY DEF DecidePlain, scoped
<1>2. Put(c, q) /\ q \in Call /\ q.pc = "refused" /\ q.grant = NoRow
  BY <1>1, EmptyCall DEF Refuse, At, Stages
<1> HIDE DEF q
<1>3. Brought(q) /\ calls'[c] = q
  BY <1>0, <1>2, OneCall DEF Brought
<1>4. Held(c, calls[c])'
  BY <1>2, <1>3 DEF Held
<1>5. /\ consumptions' \in [Authorizations -> Consumption \cup {NoRow}]
      /\ \A b \in Authorizations : consumptions[b] # NoRow => consumptions'[b] = consumptions[b]
  <2>1. CASE a \in Authorizations /\ consumptions[a] = NoRow /\ Consume(c)
    BY <1>0, <2>1 DEF Consume, ApprovalTypeOK, Consumption, Call
  <2>2. CASE UNCHANGED consumptions
    BY <1>0, <2>2 DEF ApprovalTypeOK
  <2> QED
    BY <1>0, <2>1, <2>2 DEF DecidePlain, Call
<1>6. ApprovalInv'
  BY <1>1, <1>2, <1>3, <1>4, <1>5, EventsKept, DecisionMoves
<1> QED
  BY <1>0, <1>1, <1>2, <1>6, NoStart
-----------------------------------------------------------------------------
(* What goes on outside *)

LEMMA OutsideSteps ==
  ASSUME ApprovalConstants, ApprovalInv, TimePasses \/ ChangeRules \/ Withhold
  PROVE  ApprovalInv' /\ UNCHANGED events /\ UNCHANGED calls
<1>1. ApprovalTypeOK
  BY DEF ApprovalInv
<1>2. /\ UNCHANGED <<grants, authorizations, expiries, events, consumptions, calls>>
      /\ rules'.enforced = rules.enforced \/ \A c \in Calls : calls[c].pc # "decided"
  <2>1. CASE TimePasses \/ Withhold
    BY <2>1 DEF TimePasses, Withhold, store, scoped
  <2>2. CASE ChangeRules
    <3>1. PICK rule \in {"approvals", "standing", "enforced", "halted"} :
            /\ rule = "enforced" => \A c \in Calls : calls[c].pc # "decided"
            /\ rules' = [rules EXCEPT ![rule] = ~@]
      BY <2>2 DEF ChangeRules
    <3>2. rules \in Rules
      BY <1>1 DEF ApprovalTypeOK
    <3>3. rule # "enforced" => rules'.enforced = rules.enforced
      BY <3>1, <3>2 DEF Rules
    <3> QED
      BY <2>2, <3>1, <3>3 DEF ChangeRules, store, scoped
  <2> QED
    BY <2>1, <2>2
<1>3. now' \in 0 .. MaxTime /\ rules' \in Rules /\ changes' \in 0 .. MaxChanges /\ backed' \in BOOLEAN
  <2>1. CASE TimePasses
    BY <1>1, <2>1 DEF TimePasses, ApprovalTypeOK, ApprovalConstants
  <2>2. CASE Withhold
    BY <1>1, <2>2 DEF Withhold, ApprovalTypeOK
  <2>3. CASE ChangeRules
    <3>1. changes' \in 0 .. MaxChanges /\ now' = now /\ backed' = backed
      BY <1>1, <2>3 DEF ChangeRules, ApprovalTypeOK, ApprovalConstants
    <3>2. rules' \in Rules
      BY <1>1, <2>3 DEF ChangeRules, ApprovalTypeOK, Rules
    <3> QED
      BY <1>1, <3>1, <3>2 DEF ApprovalTypeOK
  <2> QED
    BY <2>1, <2>2, <2>3
<1>4. ApprovalTypeOK'
  BY <1>1, <1>2, <1>3 DEF ApprovalTypeOK
<1>5. \A a \in Authorizations : Stream(a)' /\ (Approved(a) => Approved(a)')
  BY <1>2, EventsKept
<1> QED
  BY <1>2, <1>4, <1>5, StoreMoves

LEMMA RowSteps ==
  ASSUME ApprovalConstants, ApprovalInv,
         \/ \E g \in Grants, args \in Approvable, expires \in 1 .. MaxTime : CreateGrant(g, args, expires)
         \/ \E a \in Authorizations, args \in Approvable : Authorize(a, args)
  PROVE  ApprovalInv' /\ UNCHANGED events /\ UNCHANGED calls
<1>1. ApprovalTypeOK /\ Approvable \subseteq Arguments
  BY DEF ApprovalInv, ApprovalConstants
<1>2. ASSUME NEW g \in Grants, NEW args \in Approvable, NEW expires \in 1 .. MaxTime, CreateGrant(g, args, expires)
      PROVE  ApprovalInv' /\ UNCHANGED events /\ UNCHANGED calls
  <2> DEFINE row == [status |-> "approved", args |-> args, expires |-> expires]
  <2>1. row \in Grant
    BY <1>1 DEF Grant, ApprovalConstants
  <2>2. /\ grants[g] = NoRow /\ grants' = [grants EXCEPT ![g] = row]
        /\ UNCHANGED <<now, rules, changes, backed, authorizations, expiries, events, consumptions, calls>>
    BY <1>2 DEF CreateGrant, world, scoped
  <2> HIDE DEF row
  <2>3. grants' \in [Grants -> Grant \cup {NoRow}] /\ \A h \in Grants : grants[h] # NoRow => grants'[h] = grants[h]
    BY <1>1, <2>1, <2>2 DEF ApprovalTypeOK
  <2>4. ApprovalTypeOK'
    BY <1>1, <2>2, <2>3 DEF ApprovalTypeOK
  <2>5. \A a \in Authorizations : Stream(a)' /\ (Approved(a) => Approved(a)')
    BY <2>2, EventsKept
  <2> QED
    BY <2>2, <2>3, <2>4, <2>5, StoreMoves
<1>3. ASSUME NEW a \in Authorizations, NEW args \in Approvable, Authorize(a, args)
      PROVE  ApprovalInv' /\ UNCHANGED events /\ UNCHANGED calls
  <2>1. /\ authorizations[a] = NoRow /\ authorizations' = [authorizations EXCEPT ![a] = args]
        /\ UNCHANGED <<now, rules, changes, backed, grants, expiries, events, consumptions, calls>>
    BY <1>3 DEF Authorize, world
  <2>2. /\ authorizations' \in [Authorizations -> Arguments \cup {NoRow}] /\ authorizations'[a] \in Arguments
        /\ \A b \in Authorizations \ {a} : authorizations'[b] = authorizations[b]
    BY <1>1, <2>1 DEF ApprovalTypeOK
  <2>3. ApprovalTypeOK'
    BY <1>1, <2>1, <2>2 DEF ApprovalTypeOK
  <2>4. \A b \in Authorizations :
          /\ expiries[b] # NoRow => authorizations'[b] = authorizations[b]
          /\ Stream(b)' /\ (Approved(b) => Approved(b)')
    BY <2>1, <2>2 DEF ApprovalInv, Stream, Approved, ApprovalConstants
  <2> QED
    BY <2>1, <2>3, <2>4, StoreMoves
<1> QED
  BY <1>2, <1>3

LEMMA CreateScopedStep ==
  ASSUME ApprovalConstants, ApprovalInv, NEW a \in Authorizations, NEW args \in Approvable,
         NEW expires \in 1 .. MaxTime, CreateScoped(a, args, expires)
  PROVE  ApprovalInv' /\ (\A b \in Authorizations : DecisionFinal(b)) /\ UNCHANGED calls
<1> DEFINE E == [what : Kinds, at : Nat]
<1>1. /\ expiries[a] = NoRow /\ now < expires /\ authorizations[a] = args
      /\ expiries' = [expiries EXCEPT ![a] = expires]
      /\ events' = [events EXCEPT ![a] = Append(events[a], Event("created"))]
      /\ UNCHANGED <<now, rules, changes, backed, grants, authorizations, consumptions, calls>>
  BY DEF CreateScoped, Binds, Record, world
<1>2. ApprovalTypeOK /\ Approvable \subseteq Arguments /\ expires \in Nat /\ expires # NoRow /\ "created" \in Kinds
  BY DEF ApprovalInv, ApprovalConstants, Kinds
<1>3. Event("created") \in E /\ Event("created").what = "created"
  BY <1>2 DEF ApprovalTypeOK, Event
<1>4. events[a] = <<>> /\ events \in [Authorizations -> Seq(E)]
  BY <1>1, <1>2 DEF ApprovalInv, Stream, ApprovalTypeOK
<1>5. /\ Append(events[a], Event("created")) \in Seq(E)
      /\ \A k \in DOMAIN Append(events[a], Event("created")) : Append(events[a], Event("created"))[k] = Event("created")
  <2> HIDE DEF E
  <2> QED
    BY <1>3, <1>4
<1>6. /\ events' \in [Authorizations -> Seq(E)] /\ events'[a] = Append(events[a], Event("created"))
      /\ \A b \in Authorizations \ {a} : events'[b] = events[b]
  <2> HIDE DEF E
  <2> QED
    BY <1>1, <1>4, <1>5
<1>7. /\ expiries' \in [Authorizations -> Nat \cup {NoRow}] /\ expiries'[a] = expires
      /\ \A b \in Authorizations \ {a} : expiries'[b] = expiries[b]
  BY <1>1, <1>2 DEF ApprovalTypeOK
<1>8. ApprovalTypeOK'
  BY <1>1, <1>2, <1>6, <1>7 DEF ApprovalTypeOK
<1>9. ASSUME NEW b \in Authorizations PROVE Stream(b)' /\ (Approved(b) => Approved(b)')
  <2>1. CASE b # a
    BY <1>1, <1>6, <1>7, <2>1 DEF ApprovalInv, Stream, Approved
  <2>2. CASE b = a
    <3>1. Stream(a)'
      BY <1>1, <1>2, <1>3, <1>5, <1>6, <1>7 DEF Stream
    <3>2. ~Approved(a)
      BY <1>4 DEF Approved
    <3> QED
      BY <2>2, <3>1, <3>2
  <2> QED
    BY <2>1, <2>2
<1>10. \A b \in Authorizations : expiries[b] # NoRow => expiries'[b] = expiries[b]
  BY <1>1, <1>7
<1>11. ApprovalInv'
  BY <1>1, <1>8, <1>9, <1>10, StoreMoves
<1>12. ASSUME NEW b \in Authorizations PROVE DecisionFinal(b)
  BY <1>1, <1>2, <1>4, <1>6, <1>7 DEF DecisionFinal
<1> QED
  BY <1>1, <1>11, <1>12

\* A step of the owner, or of the clock, on a scoped approval that exists.
LEMMA OwnerSteps ==
  ASSUME ApprovalConstants, ApprovalInv, NEW a \in Authorizations,
         \/ Expire(a) \/ Withdraw(a)
         \/ \E what \in {"approved", "declined"}, shown \in BOOLEAN : Answer(a, what, shown)
  PROVE  ApprovalInv' /\ (\A b \in Authorizations : DecisionFinal(b)) /\ UNCHANGED calls
<1>1. ASSUME NEW what \in Kinds, Record(a, what), Open(a), expiries[a] # NoRow, UNCHANGED eventOnly,
             what \notin {"expired", "mismatch"} => ~Expired(a), what # "consumed"
      PROVE  ApprovalInv' /\ (\A b \in Authorizations : DecisionFinal(b)) /\ UNCHANGED calls
  <2>1. UNCHANGED <<now, rules, changes, backed, grants, authorizations, expiries, consumptions, calls>>
    BY <1>1 DEF eventOnly, world, scoped
  <2>2. what = "approved" => now < expiries[a]
    BY <1>1 DEF ApprovalInv, ApprovalTypeOK, Expired, ApprovalConstants
  <2>3. /\ events' \in [Authorizations -> Seq([what : Kinds, at : Nat])]
        /\ \A b \in Authorizations : Stream(b)' /\ (Approved(b) => Approved(b)')
    BY <1>1, <2>1, <2>2, EventRecorded
  <2>4. ApprovalTypeOK'
    BY <2>1, <2>3 DEF ApprovalInv, ApprovalTypeOK
  <2>5. ApprovalInv'
    BY <2>1, <2>3, <2>4, StoreMoves
  <2>6. \A b \in Authorizations : DecisionFinal(b)
    BY <1>1, <2>1, RecordIsFinal
  <2> QED
    BY <2>1, <2>5, <2>6
<1>2. {"expired", "withdrawn", "mismatch", "approved", "declined"} \subseteq Kinds
  BY DEF Kinds
<1>3. CASE Expire(a)
  BY <1>1, <1>2, <1>3 DEF Expire
<1>4. CASE Withdraw(a)
  BY <1>1, <1>2, <1>4 DEF Withdraw
<1>5. ASSUME NEW what \in {"approved", "declined"}, NEW shown \in BOOLEAN, Answer(a, what, shown)
      PROVE  ApprovalInv' /\ (\A b \in Authorizations : DecisionFinal(b)) /\ UNCHANGED calls
  BY <1>1, <1>2, <1>5 DEF Answer
<1> QED
  BY <1>3, <1>4, <1>5

-----------------------------------------------------------------------------
(* The theorem *)

LEMMA StartIsGood ==
  ASSUME ApprovalConstants, ApprovalInit
  PROVE  ApprovalInv
<1>1. ApprovalTypeOK
  <2>1. calls \in [Calls -> Call]
    BY NoCallIsCall DEF ApprovalInit
  <2>2. events \in [Authorizations -> Seq([what : Kinds, at : Nat])]
    <3> DEFINE E == [what : Kinds, at : Nat]
    <3> HIDE DEF E
    <3>1. events \in [Authorizations -> Seq(E)]
      BY DEF ApprovalInit
    <3> QED
      BY <3>1 DEF E
  <2> QED
    BY <2>1, <2>2 DEF ApprovalInit, ApprovalTypeOK, ApprovalConstants
<1>2. \A c \in Calls : calls[c] = NoCall
  BY DEF ApprovalInit
<1>3. \A c \in Calls : GoodCall(c, calls[c])
  BY <1>2, NoCallIsCall DEF GoodCall, SpentFor, Brought, Held
<1>4. GrantsApart
  BY <1>2, NoCallIsCall DEF GrantsApart
<1>5. \A a \in Authorizations : Stream(a)
  BY DEF ApprovalInit, Stream
<1> QED
  BY <1>1, <1>3, <1>4, <1>5 DEF ApprovalInv

LEMMA InvariantKept ==
  ASSUME ApprovalConstants, ApprovalInv, [ApprovalNext]_approvalVars
  PROVE  ApprovalInv' /\ StartsWithLeave /\ \A a \in Authorizations : DecisionFinal(a)
<1>1. CASE UNCHANGED approvalVars
  <2>1. UNCHANGED <<now, rules, changes, backed, grants, authorizations, expiries, events, consumptions, calls>>
    BY <1>1 DEF approvalVars, world, store, scoped
  <2>2. ApprovalTypeOK'
    BY <2>1 DEF ApprovalInv, ApprovalTypeOK
  <2>3. \A a \in Authorizations : Stream(a)' /\ (Approved(a) => Approved(a)')
    BY <2>1, EventsKept
  <2>4. ApprovalInv'
    BY <2>1, <2>2, <2>3, StoreMoves
  <2> QED
    BY <2>1, <2>4, NoDecision, NoCallNoStart
<1>2. ASSUME NEW c \in Calls, Step(c)
      PROVE  ApprovalInv' /\ StartsWithLeave /\ \A a \in Authorizations : DecisionFinal(a)
  <2>1. CASE Start(c)
    BY <2>1, StartStep, NoDecision
  <2>2. CASE ConsumeGrant(c)
    BY <2>2, ConsumeGrantStep, NoDecision
  <2>3. CASE DecideScoped(c)
    BY <2>3, DecideScopedStep
  <2>4. CASE DecidePlain(c)
    BY <2>4, DecidePlainStep, NoDecision
  <2>5. CASE \/ Judge(c) \/ UseStanding(c) \/ RefuseToken(c) \/ DecideNothing(c) \/ Fail(c)
             \/ \E q \in Requests[c] : Arrive(c, q)
    BY <2>5, CallSteps, NoDecision
  <2> QED
    BY <1>2, <2>1, <2>2, <2>3, <2>4, <2>5 DEF Step
<1>3. ASSUME NEW a \in Authorizations, Decide(a)
      PROVE  ApprovalInv' /\ StartsWithLeave /\ \A b \in Authorizations : DecisionFinal(b)
  <2>1. CASE \/ Expire(a) \/ Withdraw(a)
             \/ \E what \in {"approved", "declined"}, shown \in BOOLEAN : Answer(a, what, shown)
    BY <2>1, OwnerSteps, NoCallNoStart
  <2>2. CASE \E args \in Approvable : Authorize(a, args)
    BY <2>2, RowSteps, NoDecision, NoCallNoStart
  <2>3. CASE \E args \in Approvable, expires \in 1 .. MaxTime : CreateScoped(a, args, expires)
    BY <2>3, CreateScopedStep, NoCallNoStart
  <2> QED
    BY <1>3, <2>1, <2>2, <2>3 DEF Decide
<1>4. CASE \E g \in Grants, args \in Approvable, expires \in 1 .. MaxTime : CreateGrant(g, args, expires)
  BY <1>4, RowSteps, NoDecision, NoCallNoStart
<1>5. CASE TimePasses \/ ChangeRules \/ Withhold
  BY <1>5, OutsideSteps, NoDecision, NoCallNoStart
<1> QED
  BY <1>1, <1>2, <1>3, <1>4, <1>5 DEF ApprovalNext

LEMMA UsedOnceHolds == ASSUME ApprovalInv PROVE UsedOnce
<1> SUFFICES ASSUME NEW c \in Calls, NEW d \in Calls, c # d, calls[c].pc = "started", calls[d].pc = "started"
             PROVE  /\ calls[c].grant = NoRow \/ calls[c].grant # calls[d].grant
                    /\ calls[c].scoped /\ calls[d].scoped => calls[c].authorization # calls[d].authorization
  BY DEF UsedOnce
<1>1. calls[c].grant = NoRow \/ calls[c].grant # calls[d].grant
  BY DEF ApprovalInv, GrantsApart
<1>2. /\ calls[c].scoped => consumptions[calls[c].authorization].call = c
      /\ calls[d].scoped => consumptions[calls[d].authorization].call = d
  BY DEF ApprovalInv, GoodCall, Held, Hands
<1> QED
  BY <1>1, <1>2

\* The kinds of the variables, for any instance (state-store.js: the checks and
\* triggers of its tables).
THEOREM ApprovalTypes ==
  ASSUME ApprovalConstants
  PROVE  ApprovalSpec => []ApprovalTypeOK
<1>1. ApprovalInit => ApprovalInv
  BY StartIsGood
<1>2. ApprovalInv /\ [ApprovalNext]_approvalVars => ApprovalInv'
  BY InvariantKept
<1>3. ApprovalInv => ApprovalTypeOK
  BY DEF ApprovalInv
<1> QED
  BY <1>1, <1>2, <1>3, PTL DEF ApprovalSpec

\* Whatever the owner changes and the other calls spend while a call waits, a
\* handler starts only with leave, no approval starts two, and decisions stand
\* (tool-registry.js executeTool, state-store.js consume...).
THEOREM ApprovalsCorrect ==
  ASSUME ApprovalConstants
  PROVE  ApprovalSpec => ApprovalsHold
<1>1. ApprovalInit => ApprovalInv
  BY StartIsGood
<1>2. ApprovalInv /\ [ApprovalNext]_approvalVars =>
        ApprovalInv' /\ StartsWithLeave /\ \A a \in Authorizations : DecisionFinal(a)
  BY InvariantKept
<1>3. ApprovalInv => UsedOnce
  BY UsedOnceHolds
<1> QED
  BY <1>1, <1>2, <1>3, PTL DEF ApprovalSpec, ApprovalsHold

-----------------------------------------------------------------------------
(* ByteAuthority *)

\* The row says what the bytes of the content are at its place.
Says(r, c) == r.from <= r.to /\ r.to <= Len(c) /\ r.bytes = Slice(c, r.from, r.to)

ValidRows(rows) == rows \subseteq Reads /\ IsFiniteSet(rows) /\ \A r \in rows : r.from <= r.to

TrueOf(rows, c) == \A r \in rows : r.is = "current" => c \in Contents /\ Says(r, c)

\* A session has observed the byte at k as it is in the content.
Knows(rows, s, k, c) ==
  /\ c # Absent /\ k < Len(c)
  /\ \E r \in rows : /\ r.scope = s /\ r.from <= k /\ k < r.to /\ Len(r.bytes) = r.to - r.from
                     /\ r.bytes[k - r.from + 1] = c[k + 1]

\* After the operation no row ends past MaxLength.
Fits(rows, o) == \A q \in rows : q.to >= o.to => q.to + Len(o.with) <= MaxLength + (o.to - o.from)

PatchIs(o) ==
  /\ o.base \in Contents /\ o.from < o.to /\ o.to <= Len(o.base)
  /\ o.after = Spliced(o.base, o.from, o.to, o.with)

\* What is known of the operation that is not settled.
Underway ==
  /\ op.after \in Contents
  /\ op.based => record = op.base
  /\ op.at # "left" => op.based
  /\ op.kind = "patch" => PatchIs(op) /\ Fits(reads, op)
  /\ op.at \in {"prepared", "checked"} =>
       \A k \in op.from .. (op.to - 1) : Knows(reads, op.scope, k, op.base)
  /\ op.at = "checked" /\ ~op.raced /\ op.base # op.after => file.bytes = op.base

\* The kinds of the variables that change.
BytesKinds ==
  /\ file \in [bytes : Contents \cup {Absent}, staged : BOOLEAN]
  /\ record \in Contents \cup {Absent, NotEstablished}
  /\ reads \subseteq Reads
  /\ op \in Ops
  /\ ended \subseteq Scopes

BytesInv == BytesKinds /\ ValidRows(reads) /\ TrueOf(reads, record) /\ (Pending => Underway)

-----------------------------------------------------------------------------
(* Contents *)

LEMMA ContentsAre ==
  ASSUME BytesConstants
  PROVE  \A c : c \in Contents <=> c \in Seq(Bytes) /\ Len(c) <= MaxLength
<1> SUFFICES ASSUME NEW c PROVE c \in Contents <=> c \in Seq(Bytes) /\ Len(c) <= MaxLength
  OBVIOUS
<1> USE DEF BytesConstants
<1>1. ASSUME c \in Contents PROVE c \in Seq(Bytes) /\ Len(c) <= MaxLength
  <2>1. PICK n \in 0 .. MaxLength : c \in [1 .. n -> Bytes]
    BY <1>1 DEF Contents
  <2>2. n \in Nat /\ c \in Seq(Bytes)
    BY <2>1
  <2>3. Len(c) = n
    BY <2>1, <2>2
  <2> QED
    BY <2>1, <2>2, <2>3
<1>2. ASSUME c \in Seq(Bytes), Len(c) <= MaxLength PROVE c \in Contents
  <2>1. Len(c) \in Nat /\ c \in [1 .. Len(c) -> Bytes]
    BY <1>2, LenProperties
  <2>2. Len(c) \in 0 .. MaxLength
    BY <1>2, <2>1
  <2> QED
    BY <2>1, <2>2 DEF Contents
<1> QED
  BY <1>1, <1>2

IsSlice(d, c, i, j) ==
  d \in Seq(Bytes) /\ Len(d) = j - i /\ \A k \in 1 .. (j - i) : d[k] = c[i + k]

LEMMA SliceIs ==
  ASSUME NEW c \in Seq(Bytes), NEW i \in Nat, NEW j \in Nat, i <= j, j <= Len(c)
  PROVE  IsSlice(Slice(c, i, j), c, i, j)
<1>1. \A k \in (i + 1) .. j : c[k] \in Bytes
  <2> TAKE k \in (i + 1) .. j
  <2>1. k \in 1 .. Len(c)
    BY LenProperties
  <2> QED
    BY <2>1, ElementOfSeq
<1> DEFINE d == SubSeq(c, i + 1, j)
<1>2. /\ d \in Seq(Bytes)
      /\ Len(d) = IF i + 1 <= j THEN j - (i + 1) + 1 ELSE 0
      /\ \A k \in 1 .. (j - (i + 1) + 1) : d[k] = c[(i + 1) + k - 1]
  BY <1>1, SubSeqProperties, i + 1 \in Int, j \in Int
<1>3. Slice(c, i, j) = d
  BY DEF Slice
<1> HIDE DEF d
<1>4. Len(d) = j - i
  BY <1>2
<1>5. \A k \in 1 .. (j - i) : d[k] = c[i + k]
  <2> TAKE k \in 1 .. (j - i)
  <2>1. (i + 1) + k - 1 = i + k /\ k \in 1 .. (j - (i + 1) + 1)
    OBVIOUS
  <2> QED
    BY <1>2, <2>1
<1> QED
  BY <1>2, <1>3, <1>4, <1>5 DEF IsSlice

\* A part of a part is a part.
LEMMA SliceOfSlice ==
  ASSUME NEW c \in Seq(Bytes), NEW a \in Nat, NEW b \in Nat, NEW i \in Nat, NEW j \in Nat,
         a <= i, i <= j, j <= b, b <= Len(c)
  PROVE  Slice(Slice(c, a, b), i - a, j - a) = Slice(c, i, j)
<1> DEFINE d == Slice(c, a, b)
           e == Slice(d, i - a, j - a)
           f == Slice(c, i, j)
<1>0. Len(c) \in Nat /\ a <= b /\ j <= Len(c) /\ i - a \in Nat /\ j - a \in Nat /\ i - a <= j - a
  BY LenProperties
<1>1. d \in Seq(Bytes) /\ Len(d) = b - a /\ \A k \in 1 .. (b - a) : d[k] = c[a + k]
  BY <1>0, SliceIs DEF IsSlice
<1>2. f \in Seq(Bytes) /\ Len(f) = j - i /\ \A k \in 1 .. (j - i) : f[k] = c[i + k]
  BY <1>0, SliceIs DEF IsSlice
<1> HIDE DEF d, f
<1>3. e \in Seq(Bytes) /\ Len(e) = (j - a) - (i - a) /\ \A k \in 1 .. ((j - a) - (i - a)) : e[k] = d[(i - a) + k]
  <2>1. j - a <= Len(d)
    BY <1>1
  <2> QED
    BY <1>0, <1>1, <2>1, SliceIs DEF IsSlice
<1> HIDE DEF e
<1>4. (j - a) - (i - a) = j - i
  OBVIOUS
<1>5. \A k \in 1 .. Len(e) : e[k] = f[k]
  <2> TAKE k \in 1 .. Len(e)
  <2>1. k \in 1 .. (j - i) /\ (i - a) + k \in 1 .. (b - a) /\ a + ((i - a) + k) = i + k
    BY <1>3, <1>4
  <2> QED
    BY <2>1, <1>1, <1>2, <1>3, <1>4
<1>6. e = f
  BY <1>2, <1>3, <1>4, <1>5, SeqEqual
<1> QED
  BY <1>6 DEF d, e, f

\* What a patch leaves of the bytes.
IsSpliced(n, c, i, j, w) ==
  /\ n \in Seq(Bytes)
  /\ Len(w) \in Nat /\ Len(c) \in Nat
  /\ Len(n) = i + Len(w) + (Len(c) - j)
  /\ \A k \in 1 .. i : n[k] = c[k]
  /\ \A k \in 1 .. Len(w) : n[i + k] = w[k]
  /\ \A k \in (j + 1) .. Len(c) : n[(i + Len(w)) + (k - j)] = c[k]

\* Where a byte behind a patch of lw bytes stands in a file of lc bytes.
LEMMA SplicedPlace ==
  ASSUME NEW i \in Nat, NEW j \in Nat, NEW lc \in Nat, NEW lw \in Nat, j <= lc, NEW k \in (j + 1) .. lc
  PROVE  /\ (i + lw) + (k - j) \in 1 .. (i + lw) + (lc - j)
         /\ ~((i + lw) + (k - j) <= i + lw)
         /\ ((i + lw) + (k - j)) - (i + lw) = k - j
         /\ k - j \in 1 .. (lc - j) /\ j + (k - j) = k
  OBVIOUS

LEMMA SplicedIs ==
  ASSUME NEW c \in Seq(Bytes), NEW i \in Nat, NEW j \in Nat, i <= j, j <= Len(c), NEW w \in Seq(Bytes)
  PROVE  IsSpliced(Spliced(c, i, j, w), c, i, j, w)
<1> DEFINE p == Slice(c, 0, i)
           q == Slice(c, j, Len(c))
           pw == p \o w
           all == pw \o q
<1>0. Len(c) \in Nat /\ Len(w) \in Nat /\ 0 <= i /\ i <= Len(c) /\ Len(c) <= Len(c) /\ 0 \in Nat
  BY LenProperties
<1>1. p \in Seq(Bytes) /\ Len(p) = i - 0 /\ \A k \in 1 .. (i - 0) : p[k] = c[0 + k]
  BY <1>0, SliceIs DEF IsSlice
<1>2. q \in Seq(Bytes) /\ Len(q) = Len(c) - j /\ \A k \in 1 .. (Len(c) - j) : q[k] = c[j + k]
  BY <1>0, SliceIs DEF IsSlice
<1>3. Spliced(c, i, j, w) = all
  BY 0 + 1 = 1 DEF Spliced, Slice
<1> HIDE DEF p, q
<1>4. /\ pw \in Seq(Bytes) /\ Len(pw) = Len(p) + Len(w)
      /\ \A k \in 1 .. Len(p) + Len(w) : pw[k] = IF k <= Len(p) THEN p[k] ELSE w[k - Len(p)]
  BY <1>1, ConcatProperties
<1> HIDE DEF pw
<1>5. /\ all \in Seq(Bytes) /\ Len(all) = Len(pw) + Len(q)
      /\ \A k \in 1 .. Len(pw) + Len(q) : all[k] = IF k <= Len(pw) THEN pw[k] ELSE q[k - Len(pw)]
  <2>1. pw \in Seq(Bytes) /\ q \in Seq(Bytes)
    BY <1>2, <1>4
  <2> QED
    BY <2>1, ConcatProperties
<1> HIDE DEF all
<1>6. Len(p) = i /\ Len(pw) = i + Len(w) /\ Len(all) = i + Len(w) + (Len(c) - j)
  BY <1>0, <1>1, <1>2, <1>4, <1>5
<1>7. \A k \in 1 .. i : all[k] = c[k]
  <2> TAKE k \in 1 .. i
  <2>1. k \in 1 .. Len(pw) + Len(q) /\ k <= Len(pw) /\ k \in 1 .. Len(p) + Len(w) /\ k <= Len(p) /\ 0 + k = k
    BY <1>0, <1>2, <1>6
  <2> QED
    BY <2>1, <1>1, <1>4, <1>5
<1>8. \A k \in 1 .. Len(w) : all[i + k] = w[k]
  <2> TAKE k \in 1 .. Len(w)
  <2>1. /\ i + k \in 1 .. Len(pw) + Len(q) /\ i + k <= Len(pw) /\ i + k \in 1 .. Len(p) + Len(w)
        /\ ~(i + k <= Len(p)) /\ (i + k) - Len(p) = k
    BY <1>0, <1>2, <1>6, SMTT(30)
  <2> QED
    BY <2>1, <1>4, <1>5
<1>9. \A k \in (j + 1) .. Len(c) : all[(i + Len(w)) + (k - j)] = c[k]
  <2> TAKE k \in (j + 1) .. Len(c)
  <2> DEFINE m == (i + Len(w)) + (k - j)
  <2>1. /\ m \in 1 .. Len(pw) + Len(q) /\ ~(m <= Len(pw)) /\ m - Len(pw) = k - j
        /\ k - j \in 1 .. (Len(c) - j) /\ j + (k - j) = k
    <3>1. /\ m \in 1 .. (i + Len(w)) + (Len(c) - j) /\ ~(m <= i + Len(w)) /\ m - (i + Len(w)) = k - j
          /\ k - j \in 1 .. (Len(c) - j) /\ j + (k - j) = k
      BY <1>0, SplicedPlace
    <3>2. Len(pw) = i + Len(w) /\ Len(q) = Len(c) - j
      BY <1>2, <1>6
    <3> HIDE DEF m
    <3> QED
      BY <3>1, <3>2
  <2> HIDE DEF m
  <2>2. all[m] = q[k - j] /\ q[k - j] = c[k]
    BY <2>1, <1>2, <1>5
  <2> QED
    BY <2>2 DEF m
<1> QED
  BY <1>0, <1>3, <1>5, <1>6, <1>7, <1>8, <1>9 DEF IsSpliced
\* n has at its place from a2 to b2 what c has from a to b.
Shifted(n, c, a, b, a2, b2) == b2 <= Len(n) /\ Slice(n, a2, b2) = Slice(c, a, b)

\* Before a patch the bytes stay, at their place.
LEMMA SliceBefore ==
  ASSUME NEW c \in Seq(Bytes), NEW i \in Nat, NEW j \in Nat, i <= j, j <= Len(c), NEW w \in Seq(Bytes),
         NEW a \in Nat, NEW b \in Nat, a <= b, b <= i
  PROVE  Shifted(Spliced(c, i, j, w), c, a, b, a, b)
<1> DEFINE n == Spliced(c, i, j, w)
           d == Slice(n, a, b)
           e == Slice(c, a, b)
<1>1. /\ n \in Seq(Bytes) /\ Len(w) \in Nat /\ Len(c) \in Nat
      /\ Len(n) = i + Len(w) + (Len(c) - j)
      /\ \A k \in 1 .. i : n[k] = c[k]
  <2>1. IsSpliced(n, c, i, j, w)
    BY SplicedIs
  <2> HIDE DEF n
  <2> QED
    BY <2>1 DEF IsSpliced
<1> HIDE DEF n
<1>2. b <= Len(n) /\ b <= Len(c)
  BY <1>1
<1>3. d \in Seq(Bytes) /\ Len(d) = b - a /\ \A k \in 1 .. (b - a) : d[k] = n[a + k]
  BY <1>1, <1>2, SliceIs DEF IsSlice
<1>4. e \in Seq(Bytes) /\ Len(e) = b - a /\ \A k \in 1 .. (b - a) : e[k] = c[a + k]
  BY <1>1, <1>2, SliceIs DEF IsSlice
<1> HIDE DEF d, e
<1>5. \A k \in 1 .. Len(d) : d[k] = e[k]
  <2> TAKE k \in 1 .. Len(d)
  <2>1. k \in 1 .. (b - a) /\ a + k \in 1 .. i
    BY <1>3
  <2> QED
    BY <2>1, <1>1, <1>3, <1>4
<1>6. d = e
  BY <1>3, <1>4, <1>5, SeqEqual
<1> QED
  BY <1>2, <1>6 DEF d, e, n, Shifted

\* Behind a patch they stay, and have moved.
LEMMA SliceBehind ==
  ASSUME NEW c \in Seq(Bytes), NEW i \in Nat, NEW j \in Nat, i <= j, j <= Len(c), NEW w \in Seq(Bytes),
         NEW a \in Nat, NEW b \in Nat, j <= a, a <= b, b <= Len(c),
         NEW a2 \in Nat, NEW b2 \in Nat, a2 + j = a + (i + Len(w)), b2 + j = b + (i + Len(w))
  PROVE  Shifted(Spliced(c, i, j, w), c, a, b, a2, b2)
<1> DEFINE n == Spliced(c, i, j, w)
           d == Slice(n, a2, b2)
           e == Slice(c, a, b)
<1>1. /\ n \in Seq(Bytes) /\ Len(w) \in Nat /\ Len(c) \in Nat
      /\ Len(n) = i + Len(w) + (Len(c) - j)
      /\ \A k \in (j + 1) .. Len(c) : n[(i + Len(w)) + (k - j)] = c[k]
  <2>1. IsSpliced(n, c, i, j, w)
    BY SplicedIs
  <2> HIDE DEF n
  <2> QED
    BY <2>1 DEF IsSpliced
<1> HIDE DEF n
<1>2. a2 \in Nat /\ b2 \in Nat /\ a2 <= b2 /\ b2 <= Len(n) /\ b2 - a2 = b - a
  BY <1>1
<1>3. d \in Seq(Bytes) /\ Len(d) = b2 - a2 /\ \A k \in 1 .. (b2 - a2) : d[k] = n[a2 + k]
  <2>1. IsSlice(d, n, a2, b2)
    BY <1>1, <1>2, SliceIs
  <2> QED
    BY <2>1 DEF IsSlice
<1>4. e \in Seq(Bytes) /\ Len(e) = b - a /\ \A k \in 1 .. (b - a) : e[k] = c[a + k]
  BY <1>1, SliceIs, ZenonT(60) DEF IsSlice
<1> HIDE DEF d, e
<1>5. \A k \in 1 .. Len(d) : d[k] = e[k]
  <2> TAKE k \in 1 .. Len(d)
  <2>0. Len(d) = b - a /\ Len(w) \in Nat /\ Len(c) \in Nat
    BY <1>1, <1>2, <1>3
  <2>1. k \in 1 .. (b - a) /\ a + k \in (j + 1) .. Len(c) /\ (i + Len(w)) + ((a + k) - j) = a2 + k
    BY <2>0
  <2>2. n[a2 + k] = c[a + k]
    BY <2>1, <1>1
  <2> QED
    BY <2>1, <2>2, <1>2, <1>3, <1>4
<1>6. d = e
  BY <1>2, <1>3, <1>4, <1>5, SeqEqual
<1> QED
  BY <1>2, <1>6 DEF d, e, n, Shifted

\* And where it is, there is what was patched in.
Within(n, w, i) == i + Len(w) <= Len(n) /\ Slice(n, i, i + Len(w)) = w

LEMMA SliceThere ==
  ASSUME NEW c \in Seq(Bytes), NEW i \in Nat, NEW j \in Nat, i <= j, j <= Len(c), NEW w \in Seq(Bytes)
  PROVE  Within(Spliced(c, i, j, w), w, i)
<1> DEFINE n == Spliced(c, i, j, w)
           d == Slice(n, i, i + Len(w))
<1>1. /\ n \in Seq(Bytes) /\ Len(w) \in Nat /\ Len(c) \in Nat
      /\ Len(n) = i + Len(w) + (Len(c) - j)
      /\ \A k \in 1 .. Len(w) : n[i + k] = w[k]
  <2>1. IsSpliced(n, c, i, j, w)
    BY SplicedIs
  <2> HIDE DEF n
  <2> QED
    BY <2>1 DEF IsSpliced
<1> HIDE DEF n
<1>2. i + Len(w) \in Nat /\ i <= i + Len(w) /\ i + Len(w) <= Len(n) /\ (i + Len(w)) - i = Len(w)
  BY <1>1
<1>3. d \in Seq(Bytes) /\ Len(d) = (i + Len(w)) - i /\ \A k \in 1 .. ((i + Len(w)) - i) : d[k] = n[i + k]
  BY <1>1, <1>2, SliceIs DEF IsSlice
<1> HIDE DEF d
<1>4. d = w
  <2>1. Len(d) = Len(w) /\ \A k \in 1 .. Len(d) : d[k] = w[k]
    BY <1>1, <1>2, <1>3
  <2> QED
    BY <2>1, <1>3, SeqEqual
<1> QED
  BY <1>2, <1>4 DEF d, n, Within

-----------------------------------------------------------------------------
(* Observations *)

LEMMA FiniteImage ==
  ASSUME NEW S, IsFiniteSet(S), NEW f, f = [x \in S |-> f[x]]
  PROVE  /\ IsFiniteSet({f[x] : x \in S})
         /\ Cardinality({f[x] : x \in S}) <= Cardinality(S)
<1>1. f \in Surjection(S, {f[x] : x \in S})
  BY DEF Surjection
<1> QED
  BY <1>1, FS_Surjection

LEMMA LapsedRow ==
  ASSUME BytesConstants, NEW r \in Reads, NEW how \in {"lapsed", "replaced"}
  PROVE  /\ Lapse(r, how) \in Reads
         /\ Lapse(r, how).is = how
         /\ Lapse(r, how).from = r.from /\ Lapse(r, how).to = r.to /\ Lapse(r, how).scope = r.scope
<1>1. <<>> \in Contents
  <2>1. <<>> \in Seq(Bytes) /\ Len(<<>>) = 0
    BY EmptySeq
  <2>2. Len(<<>>) <= MaxLength
    BY <2>1 DEF BytesConstants
  <2> QED
    BY <2>1, <2>2, ContentsAre
<1> QED
  BY <1>1 DEF Reads, Lapse

\* The part of an observation that lies from i to j.
LEMMA PartOfRow ==
  ASSUME BytesConstants, NEW r \in Reads, NEW i \in 0 .. MaxLength, NEW j \in 0 .. MaxLength,
         r.from <= i, i <= j, j <= r.to,
         NEW c, r.is = "current" => c \in Contents /\ Says(r, c)
  PROVE  /\ Part(r, i, j) \in Reads
         /\ Part(r, i, j).from = i /\ Part(r, i, j).to = j
         /\ Part(r, i, j).scope = r.scope /\ Part(r, i, j).is = r.is
         /\ r.is = "current" => Says(Part(r, i, j), c)
<1>0. r.from \in Nat /\ r.to \in Nat /\ i \in Nat /\ j \in Nat /\ r.to <= MaxLength
  BY DEF Reads, BytesConstants
<1>1. CASE r.is = "current"
  <2>1. c \in Seq(Bytes) /\ Len(c) <= MaxLength /\ r.to <= Len(c)
    BY <1>1, ContentsAre DEF Says
  <2>2. Len(c) \in Nat /\ MaxLength \in Nat
    BY <2>1, LenProperties DEF BytesConstants
  <2>3. Slice(r.bytes, i - r.from, j - r.from) = Slice(c, i, j)
    BY <1>0, <1>1, <2>1, SliceOfSlice DEF Says
  <2>4. Slice(c, i, j) \in Contents
    <3>1. Slice(c, i, j) \in Seq(Bytes) /\ Len(Slice(c, i, j)) = j - i
      <4>1. j <= Len(c)
        BY <1>0, <2>1, <2>2
      <4> QED
        BY <1>0, <4>1, <2>1, SliceIs DEF IsSlice
    <3>2. j - i <= MaxLength
      BY <1>0, <2>2
    <3> QED
      BY <3>1, <3>2, ContentsAre
  <2>5. Part(r, i, j) = [r EXCEPT !.from = i, !.to = j, !.bytes = Slice(c, i, j)]
    BY <1>1, <2>3 DEF Part, Reads
  <2>6. j <= Len(c)
    BY <1>0, <2>1, <2>2
  <2> QED
    BY <1>1, <2>4, <2>5, <2>6 DEF Reads, Says
<1>2. CASE r.is # "current"
  BY <1>2 DEF Part, Reads
<1> QED
  BY <1>1, <1>2
\* A row behind the patched bytes, moved with them.
LEMMA MovedRow ==
  ASSUME BytesConstants, NEW r \in Reads, r.from <= r.to,
         NEW o, o.from \in 0 .. MaxLength, o.to \in 0 .. MaxLength, o.with \in Contents, PatchIs(o),
         o.to <= r.from, r.to + Len(o.with) <= MaxLength + (o.to - o.from),
         r.is = "current" => Says(r, o.base)
  PROVE  /\ Moved(r, o) \in Reads /\ Moved(r, o).from <= Moved(r, o).to
         /\ Moved(r, o).scope = r.scope /\ Moved(r, o).is = r.is
         /\ r.is = "current" => Says(Moved(r, o), o.after)
<1> DEFINE i == o.from
           j == o.to
           w == o.with
           a2 == (r.from + (i + Len(w))) - j
           b2 == (r.to + (i + Len(w))) - j
<1>0. /\ r.from \in Nat /\ r.to \in Nat /\ r.to <= MaxLength /\ i \in Nat /\ j \in Nat
      /\ MaxLength \in Nat /\ i < j /\ j <= Len(o.base) /\ o.after = Spliced(o.base, i, j, w)
      /\ j <= r.from /\ r.to + Len(w) <= MaxLength + (j - i)
  BY DEF Reads, BytesConstants, PatchIs
<1>1. w \in Seq(Bytes) /\ Len(w) \in Nat /\ o.base \in Seq(Bytes) /\ Len(o.base) \in Nat
  BY ContentsAre, LenProperties DEF PatchIs
<1>2. Moved(r, o) = [r EXCEPT !.from = a2, !.to = b2]
  BY DEF Moved, Reads
<1> HIDE DEF i, j, w
<1>3. a2 \in 0 .. MaxLength /\ b2 \in 0 .. MaxLength /\ a2 <= b2
  <2>1. \A a, b, l \in Nat : a <= b /\ j <= a /\ b + l <= MaxLength + (j - i) =>
          /\ (a + (i + l)) - j \in 0 .. MaxLength /\ (b + (i + l)) - j \in 0 .. MaxLength
          /\ (a + (i + l)) - j <= (b + (i + l)) - j
    <3>1. i \in Nat /\ j \in Nat /\ MaxLength \in Nat
      BY <1>0
    <3> QED
      BY <3>1
  <2> QED
    BY <1>0, <1>1, <2>1
<1>6. a2 + j = r.from + (i + Len(w)) /\ b2 + j = r.to + (i + Len(w))
  BY <1>0, <1>1, SMTT(30)
<1> HIDE DEF a2, b2
<1>4. ASSUME r.is = "current"
      PROVE  b2 <= Len(o.after) /\ Slice(o.after, a2, b2) = r.bytes
  <2>1. r.to <= Len(o.base) /\ r.bytes = Slice(o.base, r.from, r.to)
    BY <1>4 DEF Says
  <2>2. i <= j
    BY <1>0
  <2>3. Shifted(Spliced(o.base, i, j, w), o.base, r.from, r.to, a2, b2)
    <3>1. /\ i \in Nat /\ j \in Nat /\ j <= Len(o.base) /\ o.base \in Seq(Bytes) /\ w \in Seq(Bytes)
          /\ r.from \in Nat /\ r.to \in Nat /\ j <= r.from /\ r.to <= Len(o.base) /\ r.from <= r.to
      BY <1>0, <1>1, <2>1
    <3>2. a2 \in Nat /\ b2 \in Nat
      BY <1>3, <1>0
    <3> QED
      BY <3>1, <3>2, <2>2, <1>6, SliceBehind
  <2> QED
    BY <1>0, <2>1, <2>3 DEF Shifted
<1>5. /\ Moved(r, o) \in Reads /\ Moved(r, o).from = a2 /\ Moved(r, o).to = b2
      /\ Moved(r, o).scope = r.scope /\ Moved(r, o).is = r.is /\ Moved(r, o).bytes = r.bytes
  BY <1>2, <1>3 DEF Reads
<1> QED
  BY <1>3, <1>4, <1>5 DEF Says

\* The rows once the bytes of the file are established.
LEMMA EstablishedRows ==
  ASSUME BytesConstants, ValidRows(reads), TrueOf(reads, record), NEW content, content # NotEstablished
  PROVE  /\ ValidRows(Establish(content)) /\ TrueOf(Establish(content), content)
         /\ \A r \in Establish(content) : \E q \in reads : r.scope = q.scope /\ r.to = q.to
<1>1. CASE record \in {NotEstablished, content}
  <2>1. Establish(content) = reads
    BY <1>1 DEF Establish
  <2>2. TrueOf(reads, content)
    BY <1>1 DEF TrueOf, BytesConstants
  <2> QED
    BY <2>1, <2>2
<1>2. CASE record \notin {NotEstablished, content}
  <2>1. Establish(content) = {Lapse(r, "replaced") : r \in reads}
    BY <1>2 DEF Establish
  <2>2. IsFiniteSet({Lapse(r, "replaced") : r \in reads})
    <3> DEFINE f == [r \in reads |-> Lapse(r, "replaced")]
    <3>1. f = [r \in reads |-> f[r]]
      OBVIOUS
    <3>2. {Lapse(r, "replaced") : r \in reads} = {f[r] : r \in reads}
      OBVIOUS
    <3> HIDE DEF f
    <3> QED
      BY <3>1, <3>2, FiniteImage DEF ValidRows
  <2>3. \A r \in reads : /\ Lapse(r, "replaced") \in Reads /\ Lapse(r, "replaced").is = "replaced"
                         /\ Lapse(r, "replaced").from <= Lapse(r, "replaced").to
                         /\ Lapse(r, "replaced").scope = r.scope /\ Lapse(r, "replaced").to = r.to
    BY LapsedRow DEF ValidRows
  <2> QED
    BY <2>1, <2>2, <2>3 DEF ValidRows, TrueOf
<1> QED
  BY <1>1, <1>2

\* A row that is split where the session reads again.
LEMMA RestOfRow ==
  ASSUME BytesConstants, NEW r \in Reads, r.from <= r.to,
         NEW c \in Contents, r.is = "current" => Says(r, c),
         NEW i \in 0 .. Len(c), NEW j \in 0 .. Len(c), i <= j,
         Intersects(r.from, r.to, i, j) \/ Covers(i, j, r.from, r.to)
  PROVE  /\ r.from < i => /\ Part(r, r.from, i) \in Reads /\ Part(r, r.from, i).from <= Part(r, r.from, i).to
                          /\ r.is = "current" => Says(Part(r, r.from, i), c)
         /\ r.to > j => /\ Part(r, j, r.to) \in Reads /\ Part(r, j, r.to).from <= Part(r, j, r.to).to
                        /\ r.is = "current" => Says(Part(r, j, r.to), c)
<1>1. c \in Seq(Bytes) /\ Len(c) \in Nat /\ Len(c) <= MaxLength /\ MaxLength \in Nat
  BY ContentsAre, LenProperties DEF BytesConstants
<1>2. r.from \in 0 .. MaxLength /\ r.to \in 0 .. MaxLength
  BY DEF Reads
<1>3. i \in 0 .. MaxLength /\ j \in 0 .. MaxLength
  BY <1>1
<1>4. /\ r.from < i => i <= r.to
      /\ r.to > j => r.from <= j
  BY <1>1, <1>2 DEF Intersects, Covers
<1>5. ASSUME r.from < i
      PROVE  /\ Part(r, r.from, i) \in Reads /\ Part(r, r.from, i).from <= Part(r, r.from, i).to
             /\ r.is = "current" => Says(Part(r, r.from, i), c)
  <2>1. r.from <= r.from /\ r.from <= i /\ i <= r.to
    BY <1>1, <1>2, <1>4, <1>5
  <2> QED
    BY <1>2, <1>3, <2>1, PartOfRow
<1>6. ASSUME r.to > j
      PROVE  /\ Part(r, j, r.to) \in Reads /\ Part(r, j, r.to).from <= Part(r, j, r.to).to
             /\ r.is = "current" => Says(Part(r, j, r.to), c)
  <2>1. r.from <= j /\ j <= r.to /\ r.to <= r.to
    BY <1>1, <1>2, <1>4, <1>6
  <2> QED
    BY <1>2, <1>3, <2>1, PartOfRow
<1> QED
  BY <1>5, <1>6
LEMMA ObservedAgain ==
  ASSUME BytesConstants, NEW rows, ValidRows(rows), NEW c \in Contents, TrueOf(rows, c),
         NEW s \in Scopes, NEW i \in 0 .. Len(c), NEW j \in 0 .. Len(c), i <= j
  PROVE  /\ ValidRows(ReplaceObserved(rows, s, i, j, Len(c)))
         /\ TrueOf(ReplaceObserved(rows, s, i, j, Len(c)), c)
<1> DEFINE whole == i = 0 /\ j = Len(c)
           Gone(r) == /\ r.scope = s
                      /\ whole \/ ( /\ r.is # "replaced"
                                    /\ Intersects(r.from, r.to, i, j) \/ Covers(i, j, r.from, r.to) )
           Rest(r) == (IF r.from < i THEN {Part(r, r.from, i)} ELSE {})
                      \cup (IF r.to > j THEN {Part(r, j, r.to)} ELSE {})
           gone == {r \in rows : Gone(r)}
           f == [r \in gone |-> Rest(r)]
           new == (rows \ gone) \cup (IF whole THEN {} ELSE UNION {Rest(r) : r \in gone})
<1>1. ReplaceObserved(rows, s, i, j, Len(c)) = new
  BY DEF ReplaceObserved
<1>2. ASSUME ~whole, NEW r \in gone, NEW q \in Rest(r)
      PROVE  q \in Reads /\ q.from <= q.to /\ (q.is = "current" => Says(q, c))
  <2>1. r \in Reads /\ r.from <= r.to /\ (r.is = "current" => Says(r, c))
    BY DEF ValidRows, TrueOf
  <2>2. Intersects(r.from, r.to, i, j) \/ Covers(i, j, r.from, r.to)
    BY <1>2
  <2>3. \/ r.from < i /\ q = Part(r, r.from, i)
        \/ r.to > j /\ q = Part(r, j, r.to)
    OBVIOUS
  <2>4. Part(r, r.from, i).is = r.is /\ Part(r, j, r.to).is = r.is
    BY <2>1 DEF Part, Reads
  <2> QED
    BY <2>1, <2>2, <2>3, <2>4, RestOfRow
<1>3. IsFiniteSet(UNION {Rest(r) : r \in gone})
  <2>1. IsFiniteSet(gone)
    BY FS_Subset DEF ValidRows
  <2>2. \A r \in gone : IsFiniteSet(Rest(r))
    <3> TAKE r \in gone
    <3>1. /\ IsFiniteSet(IF r.from < i THEN {Part(r, r.from, i)} ELSE {})
          /\ IsFiniteSet(IF r.to > j THEN {Part(r, j, r.to)} ELSE {})
      BY FS_EmptySet, FS_Singleton
    <3> QED
      BY <3>1, FS_Union
  <2>3. f = [r \in gone |-> f[r]] /\ {Rest(r) : r \in gone} = {f[r] : r \in gone}
    OBVIOUS
  <2>4. IsFiniteSet({Rest(r) : r \in gone})
    <3> HIDE DEF f, gone
    <3>1. IsFiniteSet({f[r] : r \in gone})
      BY <2>1, <2>3, FiniteImage
    <3> QED
      BY <3>1, <2>3
  <2>5. \A T \in {Rest(r) : r \in gone} : IsFiniteSet(T)
    BY <2>2
  <2> QED
    BY <2>4, <2>5, FS_UNION
<1>4. IsFiniteSet(new)
  <2>1. IsFiniteSet(rows \ gone)
    BY FS_Subset DEF ValidRows
  <2>2. IsFiniteSet(IF whole THEN {} ELSE UNION {Rest(r) : r \in gone})
    BY <1>3, FS_EmptySet
  <2> QED
    BY <2>1, <2>2, FS_Union
<1>5. ASSUME NEW q \in new
      PROVE  q \in Reads /\ q.from <= q.to /\ (q.is = "current" => Says(q, c))
  <2>1. CASE q \in rows
    BY <2>1 DEF ValidRows, TrueOf
  <2>2. CASE q \notin rows
    <3>1. ~whole /\ q \in UNION {Rest(r) : r \in gone}
      BY <2>2
    <3>2. PICK r \in gone : q \in Rest(r)
      BY <3>1
    <3> HIDE DEF whole, gone, Rest, new
    <3> QED
      BY <3>1, <3>2, <1>2
  <2> QED
    BY <2>1, <2>2
<1> HIDE DEF new
<1> QED
  BY <1>1, <1>4, <1>5 DEF ValidRows, TrueOf

\* Where the rows of a patch end up: one row in at most three.
Rebased(r, o) ==
  LET end == o.from + Len(o.with)
      same == r.scope = o.scope
      overlap == Intersects(r.from, r.to, o.from, o.to) \/ (same /\ o.from = o.to /\ r.to = o.from)
  IN IF wholeFileName /\ ~same THEN {Lapse(r, "replaced")}
     ELSE IF ~overlap THEN {IF r.from >= o.to THEN Moved(r, o) ELSE r}
     ELSE {IF same /\ r.is = "current" THEN [r EXCEPT !.from = o.from, !.to = end, !.bytes = o.with]
           ELSE [Lapse(r, "lapsed") EXCEPT !.from = o.from, !.to = end]}
          \cup (IF r.from < o.from THEN {Part(r, r.from, o.from)} ELSE {})
          \cup (IF r.to > o.to THEN {Moved(Part(r, o.to, r.to), o)} ELSE {})

LEMMA RebaseIs == \A rows, o : Rebase(rows, o) = UNION {Rebased(r, o) : r \in rows}
BY DEF Rebase, Rebased
LEMMA RebasedRow ==
  ASSUME BytesConstants, NEW r \in Reads, r.from <= r.to,
         NEW o, o.from \in 0 .. MaxLength, o.to \in 0 .. MaxLength, o.with \in Contents, PatchIs(o),
         o.after \in Contents, o.scope \in Scopes,
         r.to >= o.to => r.to + Len(o.with) <= MaxLength + (o.to - o.from),
         r.is = "current" => Says(r, o.base),
         NEW q \in Rebased(r, o)
  PROVE  q \in Reads /\ q.from <= q.to /\ (q.is = "current" => Says(q, o.after))
<1> DEFINE i == o.from
           j == o.to
           w == o.with
           end == i + Len(w)
           same == r.scope = o.scope
           middle == IF same /\ r.is = "current" THEN [r EXCEPT !.from = i, !.to = end, !.bytes = w]
                     ELSE [Lapse(r, "lapsed") EXCEPT !.from = i, !.to = end]
           before == Part(r, i, j)
<1>0. /\ r.from \in 0 .. MaxLength /\ r.to \in 0 .. MaxLength /\ i \in Nat /\ j \in Nat /\ i < j
      /\ MaxLength \in Nat /\ w \in Seq(Bytes) /\ Len(w) \in Nat /\ o.base \in Seq(Bytes) /\ Len(o.base) \in Nat
      /\ j <= Len(o.base) /\ o.after = Spliced(o.base, i, j, w) /\ i <= j
      /\ o.after \in Seq(Bytes) /\ Len(o.after) <= MaxLength /\ Len(o.after) \in Nat
  BY ContentsAre, LenProperties DEF Reads, BytesConstants, PatchIs
<1>1. /\ end \in 0 .. MaxLength /\ i <= end /\ end <= Len(o.after) /\ Slice(o.after, i, end) = w
  <2>1. Within(o.after, w, i)
    BY <1>0, SliceThere
  <2> QED
    BY <1>0, <2>1 DEF Within
<1>2. \/ q = Lapse(r, "replaced")
      \/ ~Intersects(r.from, r.to, i, j) /\ r.from >= j /\ q = Moved(r, o)
      \/ ~Intersects(r.from, r.to, i, j) /\ ~(r.from >= j) /\ q = r
      \/ q = middle
      \/ Intersects(r.from, r.to, i, j) /\ r.from < i /\ q = Part(r, r.from, i)
      \/ Intersects(r.from, r.to, i, j) /\ r.to > j /\ q = Moved(Part(r, j, r.to), o)
  BY <1>0 DEF Rebased
<1>a. CASE q = Lapse(r, "replaced")
  BY <1>a, LapsedRow
<1>b. CASE r.from >= j /\ q = Moved(r, o)
  <2>1. j <= r.from /\ r.to >= j
    BY <1>b, <1>0
  <2> QED
    BY <1>b, <2>1, MovedRow
<1>c. CASE ~Intersects(r.from, r.to, i, j) /\ ~(r.from >= j) /\ q = r
  <2>1. r.to <= i
    <3> HIDE DEF i, j
    <3> QED
      BY <1>0, <1>c DEF Intersects
  <2>2. ASSUME r.is = "current" PROVE Says(r, o.after)
    <3>1. Shifted(o.after, o.base, r.from, r.to, r.from, r.to)
      BY <1>0, <2>1, SliceBefore
    <3> QED
      BY <2>2, <3>1 DEF Says, Shifted
  <2> QED
    BY <1>c, <2>2
<1>d. CASE q = middle
  <2>1. CASE same /\ r.is = "current"
    <3>1. q = [r EXCEPT !.from = i, !.to = end, !.bytes = w]
      BY <1>d, <2>1
    <3> HIDE DEF end
    <3> QED
      BY <3>1, <1>0, <1>1 DEF Reads, Says
  <2>2. CASE ~(same /\ r.is = "current")
    <3>1. q = [Lapse(r, "lapsed") EXCEPT !.from = i, !.to = end]
      BY <1>d, <2>2
    <3>2. Lapse(r, "lapsed") \in Reads /\ Lapse(r, "lapsed").is = "lapsed"
      BY LapsedRow
    <3> HIDE DEF end
    <3> QED
      BY <3>1, <3>2, <1>0, <1>1 DEF Reads
  <2> QED
    BY <2>1, <2>2
<1>e. CASE Intersects(r.from, r.to, i, j) /\ r.from < i /\ q = Part(r, r.from, i)
  <2>1. i <= r.to /\ r.from <= i /\ r.from <= r.from
    <3> HIDE DEF i, j
    <3> QED
      BY <1>0, <1>e DEF Intersects
  <2>2. /\ q \in Reads /\ q.from = r.from /\ q.to = i /\ q.is = r.is
        /\ r.is = "current" => Says(q, o.base)
    <3>1. r.is = "current" => o.base \in Contents /\ Says(r, o.base)
      BY DEF PatchIs
    <3> QED
      BY <1>e, <2>1, <3>1, <1>0, PartOfRow
  <2>3. ASSUME q.is = "current" PROVE Says(q, o.after)
    <3>1. Shifted(o.after, o.base, r.from, i, r.from, i)
      <4>1. r.from \in Nat /\ i <= i
        BY <1>0
      <4> QED
        BY <1>0, <2>1, <4>1, SliceBefore
    <3> QED
      BY <2>2, <2>3, <3>1 DEF Says, Shifted
  <2> QED
    BY <2>1, <2>2, <2>3
<1>f. CASE Intersects(r.from, r.to, i, j) /\ r.to > j /\ q = Moved(Part(r, j, r.to), o)
  <2>1. r.from <= j /\ j <= r.to /\ r.to <= r.to
    <3> HIDE DEF i, j
    <3> QED
      BY <1>0, <1>f DEF Intersects
  <2> DEFINE p == Part(r, j, r.to)
  <2>2. /\ p \in Reads /\ p.from = j /\ p.to = r.to /\ p.is = r.is
        /\ r.is = "current" => Says(p, o.base)
    <3>1. r.is = "current" => o.base \in Contents /\ Says(r, o.base)
      BY DEF PatchIs
    <3> QED
      BY <1>f, <2>1, <3>1, <1>0, PartOfRow
  <2> HIDE DEF p
  <2>3. p.from <= p.to /\ o.to <= p.from /\ p.to + Len(o.with) <= MaxLength + (o.to - o.from)
    BY <2>1, <2>2, <1>0
  <2>4. q = Moved(p, o)
    BY <1>f DEF p
  <2> QED
    BY <2>2, <2>3, <2>4, MovedRow
<1> QED
  BY <1>2, <1>a, <1>b, <1>c, <1>d, <1>e, <1>f

LEMMA RebasedRows ==
  ASSUME BytesConstants, NEW rows, ValidRows(rows),
         NEW o, o.from \in 0 .. MaxLength, o.to \in 0 .. MaxLength, o.with \in Contents, PatchIs(o),
         o.after \in Contents, o.scope \in Scopes, Fits(rows, o), TrueOf(rows, o.base)
  PROVE  ValidRows(Rebase(rows, o)) /\ TrueOf(Rebase(rows, o), o.after)
<1>1. ASSUME NEW r \in rows, NEW q \in Rebased(r, o)
      PROVE  q \in Reads /\ q.from <= q.to /\ (q.is = "current" => Says(q, o.after))
  <2>1. /\ r \in Reads /\ r.from <= r.to /\ (r.is = "current" => Says(r, o.base))
        /\ r.to >= o.to => r.to + Len(o.with) <= MaxLength + (o.to - o.from)
    BY DEF ValidRows, TrueOf, Fits
  <2> QED
    BY <2>1, RebasedRow
<1>2. IsFiniteSet(Rebase(rows, o))
  <2> DEFINE f == [r \in rows |-> Rebased(r, o)]
  <2>1. \A r \in rows : IsFiniteSet(Rebased(r, o))
    <3> TAKE r \in rows
    <3> DEFINE end == o.from + Len(o.with)
               same == r.scope = o.scope
               first == IF same /\ r.is = "current" THEN [r EXCEPT !.from = o.from, !.to = end, !.bytes = o.with]
                        ELSE [Lapse(r, "lapsed") EXCEPT !.from = o.from, !.to = end]
               a == {first}
               b == IF r.from < o.from THEN {Part(r, r.from, o.from)} ELSE {}
               c == IF r.to > o.to THEN {Moved(Part(r, o.to, r.to), o)} ELSE {}
               d == {IF r.from >= o.to THEN Moved(r, o) ELSE r}
               e == {Lapse(r, "replaced")}
    <3>1. Rebased(r, o) \in {(a \cup b) \cup c, d, e}
      BY DEF Rebased
    <3>2. IsFiniteSet(a) /\ IsFiniteSet(b) /\ IsFiniteSet(c) /\ IsFiniteSet(d) /\ IsFiniteSet(e)
      BY FS_EmptySet, FS_Singleton
    <3> HIDE DEF a, b, c, d, e
    <3>3. IsFiniteSet((a \cup b) \cup c)
      BY <3>2, FS_Union
    <3> QED
      BY <3>1, <3>2, <3>3
  <2>2. f = [r \in rows |-> f[r]] /\ {Rebased(r, o) : r \in rows} = {f[r] : r \in rows}
    OBVIOUS
  <2>3. IsFiniteSet({Rebased(r, o) : r \in rows})
    <3> HIDE DEF f
    <3>1. IsFiniteSet({f[r] : r \in rows})
      BY <2>2, FiniteImage DEF ValidRows
    <3> QED
      BY <3>1, <2>2
  <2>4. \A T \in {Rebased(r, o) : r \in rows} : IsFiniteSet(T)
    BY <2>1
  <2>5. IsFiniteSet(UNION {Rebased(r, o) : r \in rows})
    BY <2>3, <2>4, FS_UNION
  <2> QED
    BY <2>5, RebaseIs
<1>3. ASSUME NEW q \in Rebase(rows, o)
      PROVE  q \in Reads /\ q.from <= q.to /\ (q.is = "current" => Says(q, o.after))
  <2>1. PICK r \in rows : q \in Rebased(r, o)
    BY RebaseIs
  <2> QED
    BY <2>1, <1>1
<1> QED
  BY <1>2, <1>3 DEF ValidRows, TrueOf

\* There is a receipt that names no observation.
LEMMA FreshIs ==
  ASSUME NEW rows, IsFiniteSet(rows), NEW s
  PROVE  Fresh(rows, s) \in Nat \ {0}
<1> DEFINE n == Cardinality(rows)
           f == [r \in rows |-> r.receipt]
           taken == {f[r] : r \in rows}
<1>1. n \in Nat
  BY FS_CardinalityType
<1>2. IsFiniteSet(taken) /\ Cardinality(taken) <= n
  <2>1. f = [r \in rows |-> f[r]]
    OBVIOUS
  <2> HIDE DEF f
  <2> QED
    BY <2>1, FiniteImage
<1>3. Cardinality(taken) \in Nat
  BY <1>2, FS_CardinalityType
<1>4. \E k \in 1 .. (n + 1) : k \notin taken
  <2> SUFFICES ASSUME \A k \in 1 .. (n + 1) : k \in taken PROVE FALSE
    OBVIOUS
  <2>1. Cardinality(1 .. (n + 1)) = n + 1
    <3>1. 1 \in Int /\ n + 1 \in Int /\ ~(1 > n + 1) /\ (n + 1) - 1 + 1 = n + 1
      BY <1>1
    <3> HIDE DEF n
    <3> QED
      BY <3>1, FS_Interval
  <2>2. Cardinality(1 .. (n + 1)) <= Cardinality(taken)
    <3>1. 1 .. (n + 1) \in SUBSET taken
      OBVIOUS
    <3> HIDE DEF n, taken
    <3> QED
      BY <1>2, <3>1, FS_Subset
  <2> HIDE DEF n, taken
  <2> QED
    BY <1>1, <1>2, <1>3, <2>1, <2>2
<1>5. \E k \in 1 .. (n + 1) : \A r \in rows : r.scope = s => r.receipt # k
  BY <1>4
<1>6. Fresh(rows, s) \in 1 .. (n + 1)
  BY <1>5 DEF Fresh
<1> HIDE DEF n
<1> QED
  BY <1>1, <1>6
-----------------------------------------------------------------------------
(* The steps *)

LEMMA BytesStart ==
  ASSUME BytesConstants, BytesInit
  PROVE  BytesInv
<1>1. file \in [bytes : Contents \cup {Absent}, staged : BOOLEAN]
  BY DEF BytesInit, BytesConstants
<1>2. IsFiniteSet({})
  BY FS_EmptySet
<1> QED
  BY <1>1, <1>2 DEF BytesInit, BytesInv, BytesKinds, Ops, ValidRows, TrueOf, Pending

LEMMA FileIs ==
  ASSUME BytesKinds, file.bytes # Absent
  PROVE  file.bytes \in Contents
BY DEF BytesKinds

PreparedOps ==
  [kind : {"patch", "write"}, scope : Scopes, from : 0..MaxLength, to : 0..MaxLength,
   with : Contents, base : Contents \cup {Absent}, after : Contents,
   based : BOOLEAN, raced : BOOLEAN, at : {"prepared", "checked", "published", "left"}]

LEMMA OpIs ==
  ASSUME BytesKinds, Pending
  PROVE  op \in PreparedOps
BY DEF BytesKinds, Ops, Pending, PreparedOps

LEMMA OpsAre == Ops = {NoOp} \cup PreparedOps
BY DEF Ops, PreparedOps

\* The bytes of the file are established and no operation is there: what the
\* first half of every operation does.
LEMMA EstablishedNow ==
  ASSUME BytesConstants, BytesInv, ~Pending, NEW rows, ValidRows(rows), TrueOf(rows, record'),
         record' \in Contents \cup {Absent, NotEstablished},
         reads' = rows, UNCHANGED <<file, op, ended>>
  PROVE  BytesInv'
BY DEF BytesInv, BytesKinds, ValidRows, TrueOf, Pending

LEMMA ObserveReadKeeps ==
  ASSUME BytesConstants, BytesInv, NEW s \in Scopes, ObserveRead(s)
  PROVE  BytesInv'
<1> DEFINE c == file.bytes
<1>1. c \in Contents /\ c # NotEstablished /\ ~Pending /\ record' = c /\ UNCHANGED <<file, op, ended>>
  BY FileIs DEF ObserveRead, Admitted, BytesInv, BytesConstants
<1>2. c \in Seq(Bytes) /\ Len(c) \in Nat /\ Len(c) <= MaxLength
  BY <1>1, ContentsAre, LenProperties
<1>3. PICK r \in Ranges(c) :
        LET rest == ReplaceObserved(Establish(c), s, r[1], r[2], Len(c))
        IN reads' = rest \cup {[scope |-> s, receipt |-> Fresh(rest, s), from |-> r[1], to |-> r[2],
                                bytes |-> Slice(c, r[1], r[2]), is |-> "current"]}
  BY DEF ObserveRead
<1>4. PICK i \in 0 .. Len(c), j \in 0 .. Len(c) : i = r[1] /\ j = r[2] /\ i <= j
  BY DEF Ranges
<1>5. PICK rest : rest = ReplaceObserved(Establish(c), s, i, j, Len(c))
  OBVIOUS
<1>6. PICK row : row = [scope |-> s, receipt |-> Fresh(rest, s), from |-> i, to |-> j,
                        bytes |-> Slice(c, i, j), is |-> "current"]
  OBVIOUS
<1>7. reads' = rest \cup {row}
  BY <1>3, <1>4, <1>5, <1>6
<1> HIDE DEF c
<1>8. ValidRows(Establish(c)) /\ TrueOf(Establish(c), c)
  BY <1>1, EstablishedRows DEF BytesInv
<1>9. ValidRows(rest) /\ TrueOf(rest, c)
  BY <1>1, <1>4, <1>5, <1>8, ObservedAgain
<1>10. row \in Reads /\ row.from <= row.to /\ Says(row, c)
  <2>1. Fresh(rest, s) \in Nat \ {0}
    BY <1>9, FreshIs DEF ValidRows
  <2>2. IsSlice(Slice(c, i, j), c, i, j)
    <3>1. i \in Nat /\ j \in Nat /\ j <= Len(c)
      BY <1>2, <1>4
    <3> QED
      BY <1>2, <1>4, <3>1, SliceIs
  <2>3. Slice(c, i, j) \in Contents
    <3>1. j - i <= MaxLength
      BY <1>2, <1>4 DEF BytesConstants
    <3> QED
      BY <2>2, <3>1, ContentsAre DEF IsSlice
  <2>4. i \in 0 .. MaxLength /\ j \in 0 .. MaxLength /\ j <= Len(c)
    BY <1>2, <1>4 DEF BytesConstants
  <2> QED
    BY <1>4, <1>6, <2>1, <2>3, <2>4 DEF Reads, Says
<1>11. ValidRows(rest \cup {row}) /\ TrueOf(rest \cup {row}, c)
  <2>1. IsFiniteSet(rest \cup {row})
    BY <1>9, FS_Singleton, FS_Union DEF ValidRows
  <2> QED
    BY <1>1, <1>9, <1>10, <2>1 DEF ValidRows, TrueOf
<1> QED
  BY <1>1, <1>7, <1>11, EstablishedNow

LEMMA ObserveAbsenceKeeps ==
  ASSUME BytesConstants, BytesInv, NEW s \in Scopes, ObserveAbsence(s)
  PROVE  BytesInv'
<1>1. /\ ~Pending /\ UNCHANGED <<file, op, ended>>
      /\ reads' = {r \in Establish(record') : r.scope # s}
      /\ record' = IF record = NotEstablished THEN NotEstablished ELSE Absent
  BY DEF ObserveAbsence, Admitted
<1>2. ValidRows(Establish(record')) /\ TrueOf(Establish(record'), record')
  <2>1. CASE record = NotEstablished
    <3>1. record' = record /\ Establish(record') = reads
      BY <1>1, <2>1 DEF Establish
    <3> QED
      BY <3>1 DEF BytesInv
  <2>2. CASE record # NotEstablished
    <3>1. record' = Absent /\ record' # NotEstablished
      BY <1>1, <2>2 DEF BytesConstants
    <3> QED
      BY <3>1, EstablishedRows DEF BytesInv
  <2> QED
    BY <2>1, <2>2
<1>3. PICK rows : rows = {r \in Establish(record') : r.scope # s}
  OBVIOUS
<1>4. ValidRows(rows) /\ TrueOf(rows, record')
  <2>1. IsFiniteSet(rows)
    BY <1>2, <1>3, FS_Subset DEF ValidRows
  <2> QED
    BY <1>2, <1>3, <2>1 DEF ValidRows, TrueOf
<1> QED
  BY <1>1, <1>3, <1>4, EstablishedNow

LEMMA RecordExposureKeeps ==
  ASSUME BytesConstants, BytesInv, NEW s \in Scopes, RecordExposure(s)
  PROVE  BytesInv'
<1>1. /\ ~Locked /\ file.bytes \in Contents /\ file.bytes # NotEstablished
      /\ record' = file.bytes /\ reads' = Establish(file.bytes) /\ UNCHANGED <<file, ended>>
      /\ op' = IF Pending /\ record # file.bytes THEN [op EXCEPT !.based = FALSE] ELSE op
  BY FileIs DEF RecordExposure, BytesInv, BytesConstants
<1>2. /\ ValidRows(reads') /\ TrueOf(reads', record')
      /\ \A r \in reads' : \E q \in reads : r.scope = q.scope /\ r.to = q.to
  BY <1>1, EstablishedRows DEF BytesInv
<1>3. ASSUME Pending
      PROVE  /\ op' \in Ops
             /\ op'.at = "left" /\ op'.after = op.after /\ op'.kind = op.kind /\ op'.base = op.base
             /\ op'.from = op.from /\ op'.to = op.to /\ op'.with = op.with
             /\ op'.based => record' = op'.base
  <2>1. op.at = "left" /\ (op.based => record = op.base)
    BY <1>1, <1>3, OpIs DEF Locked, BytesInv, Underway, PreparedOps
  <2>2. CASE record # file.bytes
    <3>1. op' = [op EXCEPT !.based = FALSE]
      BY <1>1, <1>3, <2>2
    <3>2. op \in PreparedOps
      BY <1>3, OpIs DEF BytesInv
    <3>3. /\ op' \in PreparedOps
          /\ op'.at = op.at /\ op'.after = op.after /\ op'.kind = op.kind /\ op'.base = op.base
          /\ op'.from = op.from /\ op'.to = op.to /\ op'.with = op.with /\ op'.based = FALSE
      BY <3>1, <3>2 DEF PreparedOps
    <3> QED
      BY <2>1, <3>3, OpsAre
  <2>3. CASE record = file.bytes
    <3>1. op' = op /\ record' = record
      BY <1>1, <2>3
    <3>2. op \in Ops
      BY <1>3, OpIs, OpsAre DEF BytesInv
    <3> QED
      BY <2>1, <3>1, <3>2
  <2> QED
    BY <2>2, <2>3
<1>4. CASE ~Pending
  BY <1>1, <1>2, <1>4, EstablishedNow
<1>5. CASE Pending
  <2>1. Underway
    BY <1>5 DEF BytesInv
  <2>2. Underway'
    <3>1. op.kind = "patch" => Fits(reads, op)' /\ PatchIs(op)'
      BY <1>2, <1>3, <1>5, <2>1 DEF Underway, Fits, PatchIs
    <3>2. op'.at = "left" /\ op'.at \notin {"prepared", "checked"}
      BY <1>3, <1>5
    <3> QED
      BY <1>3, <1>5, <2>1, <3>1, <3>2 DEF Underway
  <2>3. BytesKinds'
    BY <1>1, <1>2, <1>3, <1>5 DEF BytesInv, BytesKinds, ValidRows
  <2> QED
    BY <1>2, <2>2, <2>3 DEF BytesInv
<1> QED
  BY <1>4, <1>5
\* The operation that ApplyPatch and ApplyWrite prepare.
LEMMA PreparedIs ==
  ASSUME BytesConstants, BytesInv, NEW s \in Scopes, NEW kind \in {"patch", "write"},
         NEW i \in 0 .. MaxLength, NEW j \in 0 .. MaxLength, NEW with \in Contents, NEW after \in Contents,
         Prepare(s, kind, i, j, with, after),
         NEW rows, ValidRows(rows), TrueOf(rows, record'), reads' = rows,
         record' = file.bytes, UNCHANGED <<file, ended>>,
         kind = "patch" => /\ file.bytes \in Contents /\ i < j /\ j <= Len(file.bytes)
                           /\ after = Spliced(file.bytes, i, j, with)
                           /\ \A q \in rows : q.to >= j => q.to + Len(with) <= MaxLength + (j - i),
         \A k \in i .. (j - 1) : Knows(rows, s, k, file.bytes)
  PROVE  BytesInv'
<1>1. op' = [kind |-> kind, scope |-> s, from |-> i, to |-> j, with |-> with,
             base |-> file.bytes, after |-> after, based |-> TRUE, raced |-> FALSE,
             at |-> "prepared"]
  BY DEF Prepare
<1>2. file.bytes \in Contents \cup {Absent}
  BY DEF BytesInv, BytesKinds
<1>3. /\ op'.kind = kind /\ op'.scope = s /\ op'.from = i /\ op'.to = j /\ op'.with = with
      /\ op'.base = file.bytes /\ op'.after = after /\ op'.based /\ op'.at = "prepared"
  BY <1>1
<1>4. op' \in Ops
  BY <1>1, <1>2 DEF Ops
<1>5. BytesKinds'
  BY <1>2, <1>4 DEF BytesInv, BytesKinds, ValidRows
<1>6. op'.kind = "patch" => PatchIs(op)' /\ Fits(reads, op)'
  BY <1>3 DEF PatchIs, Fits
<1>7. Underway'
  BY <1>3, <1>6 DEF Underway
<1> QED
  BY <1>5, <1>7 DEF BytesInv

\* What a session has observed under its receipts it knows.
LEMMA CoveredIsKnown ==
  ASSUME BytesConstants, NEW rows, ValidRows(rows), NEW c \in Contents, TrueOf(rows, c), NEW s,
         NEW some, some \subseteq {r \in rows : r.scope = s},
         NEW i \in 0 .. Len(c), NEW j \in 0 .. Len(c), CoveredBy(some, i, j)
  PROVE  \A k \in i .. (j - 1) : Knows(rows, s, k, c)
<1> SUFFICES ASSUME NEW k \in i .. (j - 1) PROVE Knows(rows, s, k, c)
  OBVIOUS
<1>1. c \in Seq(Bytes) /\ Len(c) \in Nat /\ c # Absent
  BY ContentsAre, LenProperties DEF BytesConstants
<1>2. i # j /\ k \in Nat /\ k < Len(c)
  BY <1>1
<1>3. PICK r \in some : r.is = "current" /\ r.from <= k /\ k < r.to
  BY <1>2 DEF CoveredBy
<1>4. r \in rows /\ r.scope = s /\ r \in Reads /\ Says(r, c)
  BY <1>3 DEF ValidRows, TrueOf
<1>5. r.from \in Nat /\ r.to \in Nat /\ r.to <= Len(c) /\ r.from <= r.to /\ r.bytes = Slice(c, r.from, r.to)
  BY <1>4 DEF Reads, Says
<1>6. IsSlice(r.bytes, c, r.from, r.to)
  BY <1>1, <1>5, SliceIs
<1>7. Len(r.bytes) = r.to - r.from /\ r.bytes[k - r.from + 1] = c[k + 1]
  <2>1. k - r.from + 1 \in 1 .. (r.to - r.from) /\ r.from + (k - r.from + 1) = k + 1
    BY <1>2, <1>3, <1>5
  <2>2. Len(r.bytes) = r.to - r.from /\ r.bytes[k - r.from + 1] = c[r.from + (k - r.from + 1)]
    BY <1>6, <2>1 DEF IsSlice
  <2> QED
    BY <2>1, <2>2
<1> QED
  BY <1>1, <1>2, <1>3, <1>4, <1>7 DEF Knows

LEMMA ApplyPatchKeeps ==
  ASSUME BytesConstants, BytesInv, NEW s \in Scopes, ApplyPatch(s)
  PROVE  BytesInv'
<1> DEFINE c == file.bytes
<1>1. c \in Contents /\ c # NotEstablished /\ ~Pending /\ record' = c /\ UNCHANGED <<file, ended>>
  BY FileIs DEF ApplyPatch, Admitted, BytesInv, BytesConstants
<1>2. PICK rows : rows = Establish(c)
  OBVIOUS
<1>3. reads' = rows /\ ValidRows(rows) /\ TrueOf(rows, c)
  <2> HIDE DEF c
  <2>1. reads' = Establish(c)
    BY DEF ApplyPatch, c
  <2> QED
    BY <1>1, <1>2, <2>1, EstablishedRows DEF BytesInv
<1>4. CASE UNCHANGED op
  <2>1. record' \in Contents \cup {Absent, NotEstablished} /\ UNCHANGED <<file, op, ended>>
    BY <1>1, <1>4
  <2> QED
    BY <1>1, <1>3, <2>1, EstablishedNow
<1>5. ASSUME NEW r \in Ranges(c), NEW with \in Patches, r[1] < r[2],
             NEW k, CoveredBy({q \in rows : q.scope = s /\ q.receipt = k}, r[1], r[2]),
             Len(Spliced(c, r[1], r[2], with)) <= MaxLength,
             \A q \in rows : q.to >= r[2] => q.to + Len(with) <= MaxLength + (r[2] - r[1]),
             Prepare(s, "patch", r[1], r[2], with, Spliced(c, r[1], r[2], with))
      PROVE  BytesInv'
  <2>1. PICK i \in 0 .. Len(c), j \in 0 .. Len(c) : i = r[1] /\ j = r[2] /\ i < j
    BY <1>5 DEF Ranges
  <2>2. c \in Seq(Bytes) /\ Len(c) \in Nat /\ Len(c) <= MaxLength /\ with \in Contents /\ with \in Seq(Bytes)
    BY <1>1, ContentsAre, LenProperties DEF BytesConstants
  <2>3. i \in 0 .. MaxLength /\ j \in 0 .. MaxLength /\ i <= j /\ i \in Nat /\ j \in Nat /\ j <= Len(c)
    BY <2>1, <2>2 DEF BytesConstants
  <2>4. PICK after : after = Spliced(c, i, j, with)
    OBVIOUS
  <2>5. after \in Contents
    <3>1. IsSpliced(after, c, i, j, with)
      BY <2>2, <2>3, <2>4, SplicedIs
    <3> QED
      BY <1>5, <2>1, <2>4, <3>1, ContentsAre DEF IsSpliced
  <2>6. PICK some : some = {q \in rows : q.scope = s /\ q.receipt = k}
    OBVIOUS
  <2>7. some \subseteq {q \in rows : q.scope = s} /\ CoveredBy(some, i, j)
    BY <1>5, <2>1, <2>6
  <2>8. \A b \in i .. (j - 1) : Knows(rows, s, b, c)
    BY <1>1, <1>3, <2>1, <2>7, CoveredIsKnown
  <2>9. Prepare(s, "patch", i, j, with, after)
    BY <1>5, <2>1, <2>4
  <2>10. \A q \in rows : q.to >= j => q.to + Len(with) <= MaxLength + (j - i)
    BY <1>5, <2>1
  <2>11. TrueOf(rows, record') /\ record' = file.bytes
    BY <1>1, <1>3
  <2> QED
    BY <1>1, <1>3, <2>1, <2>2, <2>3, <2>4, <2>5, <2>8, <2>9, <2>10, <2>11, PreparedIs
<1>6. \/ UNCHANGED op
      \/ \E r \in Ranges(c), with \in Patches :
           /\ r[1] < r[2]
           /\ \E k \in {q.receipt : q \in {u \in rows : u.scope = s} \cup Of(s)} :
                CoveredBy({q \in rows : q.scope = s /\ q.receipt = k}, r[1], r[2])
           /\ Len(Spliced(c, r[1], r[2], with)) <= MaxLength
           /\ \A q \in rows : q.to >= r[2] => q.to + Len(with) <= MaxLength + (r[2] - r[1])
           /\ Prepare(s, "patch", r[1], r[2], with, Spliced(c, r[1], r[2], with))
  BY <1>2 DEF ApplyPatch
<1> HIDE DEF c
<1> QED
  BY <1>4, <1>5, <1>6

LEMMA ApplyWriteKeeps ==
  ASSUME BytesConstants, BytesInv, NEW s \in Scopes, ApplyWrite(s)
  PROVE  BytesInv'
<1> DEFINE c == file.bytes
           length == IF c = Absent THEN 0 ELSE Len(c)
<1>1. /\ c \in Contents \cup {Absent} /\ c # NotEstablished /\ ~Pending /\ record' = c
      /\ UNCHANGED <<file, ended>>
  BY DEF ApplyWrite, Admitted, BytesInv, BytesKinds, BytesConstants
<1>2. PICK rows : rows = Establish(c)
  OBVIOUS
<1>3. reads' = rows /\ ValidRows(rows) /\ TrueOf(rows, c)
  <2> HIDE DEF c
  <2>1. reads' = Establish(c)
    BY DEF ApplyWrite, c
  <2> QED
    BY <1>1, <1>2, <2>1, EstablishedRows DEF BytesInv
<1>4. CASE UNCHANGED op
  <2>1. record' \in Contents \cup {Absent, NotEstablished} /\ UNCHANGED <<file, op, ended>>
    BY <1>1, <1>4
  <2> QED
    BY <1>1, <1>3, <2>1, EstablishedNow
<1>5. ASSUME NEW after \in Files, Prepare(s, "write", 0, length, after, after),
             c # Absent => CoveredBy({r \in rows : r.scope = s}, 0, length)
      PROVE  BytesInv'
  <2>1. after \in Contents
    BY <1>5 DEF BytesConstants
  <2>2. length \in 0 .. MaxLength /\ 0 \in 0 .. MaxLength /\ (c # Absent => length = Len(c) /\ Len(c) \in Nat)
    <3>1. c # Absent => c \in Seq(Bytes) /\ Len(c) \in Nat /\ Len(c) <= MaxLength
      BY <1>1, ContentsAre, LenProperties
    <3> QED
      BY <3>1 DEF BytesConstants
  <2>3. \A k \in 0 .. (length - 1) : Knows(rows, s, k, c)
    <3>1. CASE c = Absent
      BY <3>1
    <3>2. CASE c # Absent
      <4>1. c \in Contents /\ length \in 0 .. Len(c) /\ 0 \in 0 .. Len(c)
        BY <1>1, <2>2, <3>2
      <4>2. CoveredBy({r \in rows : r.scope = s}, 0, length)
        BY <1>5, <3>2
      <4> HIDE DEF length, c
      <4> QED
        BY <1>3, <4>1, <4>2, CoveredIsKnown
    <3> QED
      BY <3>1, <3>2
  <2>4. TrueOf(rows, record') /\ record' = file.bytes
    BY <1>1, <1>3
  <2> HIDE DEF length
  <2> QED
    BY <1>1, <1>3, <1>5, <2>1, <2>2, <2>3, <2>4, PreparedIs
<1>6. \/ UNCHANGED op
      \/ \E after \in Files :
           /\ Prepare(s, "write", 0, length, after, after)
           /\ c # Absent => CoveredBy({r \in rows : r.scope = s}, 0, length)
  BY <1>2 DEF ApplyWrite
<1> HIDE DEF c, length
<1> QED
  BY <1>4, <1>5, <1>6
\* The operation moves on, or the file changes, and nothing else does.
LEMMA MovesOn ==
  ASSUME BytesConstants, BytesInv, Pending,
         NEW place \in {"prepared", "checked", "published", "left"}, NEW raced \in BOOLEAN,
         op' = [op EXCEPT !.at = place, !.raced = raced],
         place # "left" => op.at # "left",
         place \in {"prepared", "checked"} => op.at \in {"prepared", "checked"},
         place = "checked" /\ ~raced /\ op.base # op.after => file'.bytes = op.base,
         file' \in [bytes : Contents \cup {Absent}, staged : BOOLEAN],
         UNCHANGED <<record, reads, ended>>
  PROVE  BytesInv'
<1>1. op \in PreparedOps
  BY OpIs DEF BytesInv
<1>2. /\ op' \in PreparedOps /\ op'.at = place /\ op'.raced = raced
      /\ op'.after = op.after /\ op'.kind = op.kind /\ op'.base = op.base /\ op'.scope = op.scope
      /\ op'.from = op.from /\ op'.to = op.to /\ op'.with = op.with /\ op'.based = op.based
  BY <1>1 DEF PreparedOps
<1>3. Underway
  BY DEF BytesInv
<1>4. op'.kind = "patch" => PatchIs(op)' /\ Fits(reads, op)'
  BY <1>2, <1>3 DEF Underway, PatchIs, Fits
<1>5. op'.at \in {"prepared", "checked"} =>
        \A k \in op'.from .. (op'.to - 1) : Knows(reads', op'.scope, k, op'.base)
  BY <1>2, <1>3 DEF Underway, Knows
<1>6. op'.at = "checked" /\ ~op'.raced /\ op'.base # op'.after => file'.bytes = op'.base
  BY <1>2
<1>7. Underway'
  <2>1. op'.at # "left" => op.at # "left"
    BY <1>2
  <2> QED
    BY <1>2, <1>3, <1>4, <1>5, <1>6, <2>1 DEF Underway
<1>8. BytesKinds'
  BY <1>2, OpsAre DEF BytesInv, BytesKinds
<1>9. ValidRows(reads)' /\ TrueOf(reads, record)'
  BY DEF BytesInv, ValidRows, TrueOf
<1> QED
  BY <1>7, <1>8, <1>9 DEF BytesInv

\* The history stays what it is.
LEMMA SameHistory ==
  ASSUME BytesInv, Pending, NEW place, op' = [op EXCEPT !.at = place]
  PROVE  op.raced \in BOOLEAN /\ op' = [op EXCEPT !.at = place, !.raced = op.raced]
BY OpIs DEF BytesInv, PreparedOps

LEMMA CheckKeeps ==
  ASSUME BytesConstants, BytesInv, Check
  PROVE  BytesInv'
<1>1. /\ Pending /\ op.at = "prepared" /\ UNCHANGED <<file, record, reads, ended>>
      /\ op' = [op EXCEPT !.at = "checked"]
      /\ op.base # op.after => file'.bytes = op.base
  BY DEF Check
<1>2. file' \in [bytes : Contents \cup {Absent}, staged : BOOLEAN]
  BY <1>1 DEF BytesInv, BytesKinds
<1> QED
  BY <1>1, <1>2, SameHistory, MovesOn

LEMMA PublishKeeps ==
  ASSUME BytesConstants, BytesInv, Publish
  PROVE  BytesInv'
<1>1. /\ Pending /\ op.at = "checked" /\ UNCHANGED <<record, reads, ended>>
      /\ op' = [op EXCEPT !.at = "published"]
      /\ file' = IF op.base = op.after THEN file ELSE [bytes |-> op.after, staged |-> op.base = Absent]
  BY DEF Publish
<1>2. op \in PreparedOps
  BY <1>1, OpIs DEF BytesInv
<1>3. file' \in [bytes : Contents \cup {Absent}, staged : BOOLEAN]
  BY <1>1, <1>2 DEF PreparedOps, BytesInv, BytesKinds
<1> QED
  BY <1>1, <1>3, SameHistory, MovesOn

LEMMA LeftPreparedKeeps ==
  ASSUME BytesConstants, BytesInv, LeftPrepared
  PROVE  BytesInv'
<1>1. Pending /\ op' = [op EXCEPT !.at = "left"] /\ UNCHANGED <<file, record, reads, ended>>
  BY DEF LeftPrepared, Locked
<1>2. file' \in [bytes : Contents \cup {Absent}, staged : BOOLEAN]
  BY <1>1 DEF BytesInv, BytesKinds
<1> QED
  BY <1>1, <1>2, SameHistory, MovesOn

LEMMA EditKeeps ==
  ASSUME BytesConstants, BytesInv, Edit
  PROVE  BytesInv'
<1>1. /\ UNCHANGED <<record, reads, ended>> /\ file' \in [bytes : Contents \cup {Absent}, staged : BOOLEAN]
      /\ op' = IF Pending /\ op.at = "checked" THEN [op EXCEPT !.raced = TRUE] ELSE op
  <2>1. PICK content \in Files \cup {Absent} :
          \E staged \in {FALSE, file.staged /\ content # Absent} :
            file' = [bytes |-> content, staged |-> staged]
    BY DEF Edit
  <2>2. (file.staged /\ content # Absent) \in BOOLEAN
    OBVIOUS
  <2>3. PICK b \in BOOLEAN : file' = [bytes |-> content, staged |-> b]
    BY <2>1, <2>2, Zenon
  <2>4. file' \in [bytes : Contents \cup {Absent}, staged : BOOLEAN]
    BY <2>3 DEF BytesConstants
  <2> QED
    BY <2>4 DEF Edit
<1>2. CASE Pending
  <2> DEFINE raced == IF op.at = "checked" THEN TRUE ELSE op.raced
             place == op.at
  <2>1. /\ place \in {"prepared", "checked", "published", "left"} /\ raced \in BOOLEAN
        /\ op' = [op EXCEPT !.at = place, !.raced = raced]
    <3>1. op \in PreparedOps
      BY <1>2, OpIs DEF BytesInv
    <3> QED
      BY <1>1, <1>2, <3>1 DEF PreparedOps
  <2>2. place = "checked" => raced
    OBVIOUS
  <2>3. place = op.at
    OBVIOUS
  <2> HIDE DEF raced, place
  <2> QED
    BY <1>1, <1>2, <2>1, <2>2, <2>3, MovesOn
<1>3. CASE ~Pending
  BY <1>1, <1>3 DEF BytesInv, BytesKinds, ValidRows, TrueOf, Pending
<1> QED
  BY <1>2, <1>3

\* No operation is there any more.
LEMMA NoOpLeft ==
  ASSUME BytesConstants, BytesInv, op' = NoOp, UNCHANGED ended,
         file' \in [bytes : Contents \cup {Absent}, staged : BOOLEAN],
         record' \in Contents \cup {Absent, NotEstablished},
         ValidRows(reads'), TrueOf(reads', record')
  PROVE  BytesInv'
<1>1. op' \in Ops /\ ~Pending'
  BY OpsAre DEF Pending
<1>2. BytesKinds'
  BY <1>1 DEF BytesInv, BytesKinds, ValidRows
<1> QED
  BY <1>1, <1>2 DEF BytesInv

LEMMA CreateConflictKeeps ==
  ASSUME BytesConstants, BytesInv, CreateConflict
  PROVE  BytesInv'
<1>1. op' = NoOp /\ UNCHANGED <<file, record, reads, ended>>
  BY DEF CreateConflict
<1>2. /\ file' \in [bytes : Contents \cup {Absent}, staged : BOOLEAN]
      /\ record' \in Contents \cup {Absent, NotEstablished}
      /\ ValidRows(reads') /\ TrueOf(reads', record')
  BY <1>1 DEF BytesInv, BytesKinds
<1> QED
  BY <1>1, <1>2, NoOpLeft

\* What the observations are once the operation is committed.
LEMMA CommittedRows ==
  ASSUME BytesConstants, BytesInv, Pending, op.based
  PROVE  ValidRows(Committed(reads)) /\ TrueOf(Committed(reads), op.after)
<1>1. /\ op \in PreparedOps /\ Underway /\ ValidRows(reads) /\ TrueOf(reads, record) /\ record = op.base
  BY OpIs DEF BytesInv, Underway
<1>2. CASE op.base = op.after
  BY <1>1, <1>2 DEF Committed
<1>3. CASE op.base # op.after /\ op.kind = "write"
  <2>1. Committed(reads) = {Lapse(r, "replaced") : r \in reads}
    BY <1>3 DEF Committed
  <2>2. IsFiniteSet({Lapse(r, "replaced") : r \in reads})
    <3> DEFINE f == [r \in reads |-> Lapse(r, "replaced")]
    <3>1. f = [r \in reads |-> f[r]] /\ {Lapse(r, "replaced") : r \in reads} = {f[r] : r \in reads}
      OBVIOUS
    <3> HIDE DEF f
    <3>2. IsFiniteSet({f[r] : r \in reads})
      BY <1>1, <3>1, FiniteImage DEF ValidRows
    <3> QED
      BY <3>1, <3>2
  <2>3. \A r \in reads : /\ Lapse(r, "replaced") \in Reads /\ Lapse(r, "replaced").is = "replaced"
                         /\ Lapse(r, "replaced").from <= Lapse(r, "replaced").to
    BY <1>1, LapsedRow DEF ValidRows
  <2> QED
    BY <2>1, <2>2, <2>3 DEF ValidRows, TrueOf
<1>4. CASE op.base # op.after /\ op.kind = "patch"
  <2>1. Committed(reads) = Rebase(reads, op)
    BY <1>4 DEF Committed
  <2>2. /\ op.from \in 0 .. MaxLength /\ op.to \in 0 .. MaxLength /\ op.with \in Contents
        /\ op.after \in Contents /\ op.scope \in Scopes /\ PatchIs(op) /\ Fits(reads, op)
    BY <1>1, <1>4 DEF Underway, PreparedOps
  <2> QED
    BY <1>1, <2>1, <2>2, RebasedRows
<1> QED
  BY <1>1, <1>2, <1>3, <1>4 DEF PreparedOps

LEMMA CommitKeeps ==
  ASSUME BytesConstants, BytesInv, Pending, NEW rows, CommitOperation(rows),
         ValidRows(rows), TrueOf(rows, op.after)
  PROVE  BytesInv'
<1>1. /\ record' = op.after /\ reads' = rows /\ op' = NoOp /\ UNCHANGED ended
      /\ file' = [file EXCEPT !.staged = FALSE]
  BY DEF CommitOperation
<1>2. /\ file' \in [bytes : Contents \cup {Absent}, staged : BOOLEAN]
      /\ record' \in Contents \cup {Absent, NotEstablished}
  BY <1>1 DEF BytesInv, BytesKinds, Underway
<1> QED
  BY <1>1, <1>2, NoOpLeft

LEMMA ConfirmKeeps ==
  ASSUME BytesConstants, BytesInv, Confirm
  PROVE  BytesInv'
<1> DEFINE s == op.scope
           others == {r \in Committed(reads) : r.scope # s}
           own == [scope |-> s, receipt |-> 1, from |-> 0, to |-> Len(op.after), bytes |-> op.after,
                   is |-> "current"]
<1>1. /\ Pending /\ op.at = "published"
      /\ CommitOperation(Committed(reads)) \/ CommitOperation(others \cup {own})
  BY DEF Confirm
<1>2. op.based /\ op \in PreparedOps /\ op.after \in Contents
  BY <1>1, OpIs DEF BytesInv, Underway
<1>3. ValidRows(Committed(reads)) /\ TrueOf(Committed(reads), op.after)
  BY <1>1, <1>2, CommittedRows
<1>4. CASE CommitOperation(Committed(reads))
  BY <1>1, <1>3, <1>4, CommitKeeps
<1>5. CASE CommitOperation(others \cup {own})
  <2>1. IsFiniteSet(others \cup {own})
    <3>1. IsFiniteSet(others)
      BY <1>3, FS_Subset DEF ValidRows
    <3> HIDE DEF others, own
    <3> QED
      BY <3>1, FS_Singleton, FS_Union
  <2>2. op.after \in Seq(Bytes) /\ Len(op.after) \in 0 .. MaxLength /\ Len(op.after) \in Nat
    <3>1. op.after \in Seq(Bytes) /\ Len(op.after) <= MaxLength /\ Len(op.after) \in Nat
      BY <1>2, ContentsAre, LenProperties
    <3> QED
      BY <3>1 DEF BytesConstants
  <2>3. own \in Reads /\ own.from <= own.to
    BY <1>2, <2>2 DEF Reads, PreparedOps, BytesConstants
  <2>4. Slice(op.after, 0, Len(op.after)) = op.after
    <3>1. IsSlice(Slice(op.after, 0, Len(op.after)), op.after, 0, Len(op.after))
      BY <2>2, SliceIs
    <3>2. \A k \in 1 .. Len(op.after) : 0 + k = k
      OBVIOUS
    <3>3. /\ Slice(op.after, 0, Len(op.after)) \in Seq(Bytes)
          /\ Len(Slice(op.after, 0, Len(op.after))) = Len(op.after)
          /\ \A k \in 1 .. Len(op.after) : Slice(op.after, 0, Len(op.after))[k] = op.after[k]
      BY <2>2, <3>1, <3>2 DEF IsSlice
    <3> QED
      BY <2>2, <3>3, SeqEqual
  <2>5. Says(own, op.after)
    BY <2>2, <2>4 DEF Says
  <2>6. ValidRows(others \cup {own}) /\ TrueOf(others \cup {own}, op.after)
    <3>1. \A r \in others : r \in Committed(reads)
      OBVIOUS
    <3> HIDE DEF others, own
    <3> QED
      BY <1>2, <1>3, <2>1, <2>3, <2>5, <3>1 DEF ValidRows, TrueOf
  <2> HIDE DEF others, own
  <2> QED
    BY <1>1, <1>5, <2>6, CommitKeeps
<1> QED
  BY <1>1, <1>4, <1>5

LEMMA RecoverKeeps ==
  ASSUME BytesConstants, BytesInv, Recover
  PROVE  BytesInv'
<1>1. Pending /\ op.based
  BY DEF Recover
<1>2. ValidRows(Committed(reads)) /\ TrueOf(Committed(reads), op.after)
  BY <1>1, CommittedRows
<1>3. CASE CommitOperation(Committed(reads))
  BY <1>1, <1>2, <1>3, CommitKeeps
<1>4. CASE op' = NoOp /\ UNCHANGED <<file, record, reads, ended>>
  <2>1. /\ file' \in [bytes : Contents \cup {Absent}, staged : BOOLEAN]
        /\ record' \in Contents \cup {Absent, NotEstablished}
        /\ ValidRows(reads') /\ TrueOf(reads', record')
    BY <1>4 DEF BytesInv, BytesKinds
  <2> QED
    BY <1>4, <2>1, NoOpLeft
<1> QED
  BY <1>3, <1>4 DEF Recover

\* Observations disappear or lapse, while nobody holds the lock.
LEMMA FewerRows ==
  ASSUME BytesConstants, BytesInv, ~Locked, UNCHANGED <<file, record, op>>, ended' \subseteq Scopes,
         ValidRows(reads'), TrueOf(reads', record),
         \A r \in reads' : \E q \in reads : q.to = r.to
  PROVE  BytesInv'
<1>1. BytesKinds'
  BY DEF BytesInv, BytesKinds, ValidRows
<1>2. ASSUME Pending
      PROVE  Underway'
  <2>1. op.at = "left" /\ Underway
    <3>1. op \in PreparedOps
      BY <1>2, OpIs DEF BytesInv
    <3> QED
      BY <1>2, <3>1 DEF BytesInv, Locked, PreparedOps
  <2>2. op.kind = "patch" => Fits(reads, op)' /\ PatchIs(op)'
    BY <2>1 DEF Underway, Fits, PatchIs
  <2> QED
    BY <2>1, <2>2 DEF Underway
<1>3. Pending' <=> Pending
  BY DEF Pending
<1> QED
  BY <1>1, <1>2, <1>3 DEF BytesInv

LEMMA CloseLaunchKeeps ==
  ASSUME BytesConstants, BytesInv, NEW s \in Scopes, CloseLaunch(s)
  PROVE  BytesInv'
<1>1. /\ ~Locked /\ ended' = ended \cup {s} /\ UNCHANGED <<file, record, op>>
      /\ reads' = {r \in reads : r.scope # s}
  BY DEF CloseLaunch
<1>2. ValidRows(reads') /\ TrueOf(reads', record)
  <2>1. IsFiniteSet(reads')
    BY <1>1, FS_Subset DEF BytesInv, ValidRows
  <2> QED
    BY <1>1, <2>1 DEF BytesInv, ValidRows, TrueOf
<1>3. ended' \subseteq Scopes
  BY <1>1 DEF BytesInv, BytesKinds
<1> QED
  BY <1>1, <1>2, <1>3, FewerRows

LEMMA ObservationExpiresKeeps ==
  ASSUME BytesConstants, BytesInv, ObservationExpires
  PROVE  BytesInv'
<1>1. ~Locked /\ UNCHANGED <<file, record, op, ended>>
  BY DEF ObservationExpires
<1>2. PICK r \in reads : reads' = (reads \ {r}) \cup {Lapse(r, "lapsed")}
  BY DEF ObservationExpires
<1>3. /\ r \in Reads /\ r.from <= r.to
      /\ Lapse(r, "lapsed") \in Reads /\ Lapse(r, "lapsed").is = "lapsed"
      /\ Lapse(r, "lapsed").from = r.from /\ Lapse(r, "lapsed").to = r.to
  BY LapsedRow DEF BytesInv, ValidRows
<1>4. IsFiniteSet(reads')
  <2>1. IsFiniteSet(reads \ {r})
    BY FS_Subset DEF BytesInv, ValidRows
  <2> QED
    BY <1>2, <2>1, FS_Singleton, FS_Union
<1>5. ValidRows(reads') /\ TrueOf(reads', record)
  BY <1>2, <1>3, <1>4 DEF BytesInv, ValidRows, TrueOf
<1>6. ended' \subseteq Scopes
  BY <1>1 DEF BytesInv, BytesKinds
<1>7. \A p \in reads' : \E q \in reads : q.to = p.to
  BY <1>2, <1>3
<1> QED
  BY <1>1, <1>5, <1>6, <1>7, FewerRows

LEMMA BytesStep ==
  ASSUME BytesConstants, BytesInv, [BytesNext]_bytesVars
  PROVE  BytesInv'
<1>1. CASE UNCHANGED bytesVars
  BY <1>1 DEF bytesVars, BytesInv, BytesKinds, ValidRows, TrueOf, Pending, Underway, PatchIs, Fits, Knows
<1>2. ASSUME NEW s \in Scopes, ObserveRead(s) \/ ObserveAbsence(s) \/ RecordExposure(s)
      PROVE  BytesInv'
  BY <1>2, ObserveReadKeeps, ObserveAbsenceKeeps, RecordExposureKeeps
<1>3. ASSUME NEW s \in Scopes, ApplyPatch(s) \/ ApplyWrite(s) \/ CloseLaunch(s)
      PROVE  BytesInv'
  BY <1>3, ApplyPatchKeeps, ApplyWriteKeeps, CloseLaunchKeeps
<1>4. CASE Check \/ Publish \/ LeftPrepared \/ CreateConflict
  BY <1>4, CheckKeeps, PublishKeeps, LeftPreparedKeeps, CreateConflictKeeps
<1>5. CASE Confirm \/ Recover
  BY <1>5, ConfirmKeeps, RecoverKeeps
<1>6. CASE ObservationExpires \/ Edit
  BY <1>6, ObservationExpiresKeeps, EditKeeps
<1> QED
  BY <1>1, <1>2, <1>3, <1>4, <1>5, <1>6 DEF BytesNext

\* What every operation of the authority keeps, and every edit that goes round it.
THEOREM BytesInvariant == ASSUME BytesConstants PROVE BytesSpec => []BytesInv
<1>1. BytesInit => BytesInv
  BY BytesStart
<1>2. BytesInv /\ [BytesNext]_bytesVars => BytesInv'
  BY BytesStep
<1> QED
  BY <1>1, <1>2, PTL DEF BytesSpec

\* Every variable of the authority has its type.
THEOREM BytesTyped == ASSUME BytesConstants PROVE BytesSpec => []BytesTypeOK
<1>1. BytesInit => wholeFileName \in BOOLEAN
  BY DEF BytesInit
<1>2. wholeFileName \in BOOLEAN /\ [BytesNext]_bytesVars => (wholeFileName \in BOOLEAN)'
  BY DEF BytesNext, bytesVars
<1>3. BytesInv /\ wholeFileName \in BOOLEAN => BytesTypeOK
  BY DEF BytesInv, BytesKinds, BytesTypeOK
<1> QED
  BY <1>1, <1>2, <1>3, BytesInvariant, PTL DEF BytesSpec

\* Only what the session that replaces it has seen is replaced, unless it was
\* edited after the last look at it.
LEMMA SeenIsReplaced ==
  ASSUME BytesConstants, BytesInv, [BytesNext]_bytesVars
  PROVE  OnlySeenIsReplaced
<1> SUFFICES ASSUME Pending, op.at \in {"prepared", "checked"}, file' # file, op'.at = "published"
             PROVE  /\ op.base = Absent => file.bytes = Absent
                    /\ ~op.raced =>
                         /\ \A k \in op.from .. (op.to - 1) : Seen(op.scope, k)
                         /\ op.kind = "patch" => file'.bytes = Spliced(file.bytes, op.from, op.to, op.with)
  BY OpIs DEF OnlySeenIsReplaced, BytesInv, PreparedOps
<1>1. Publish
  <2>1. op' # op
    OBVIOUS
  <2>2. ~(\E s \in Scopes : \/ ObserveRead(s) \/ ObserveAbsence(s) \/ RecordExposure(s)
                            \/ ApplyPatch(s) \/ ApplyWrite(s) \/ CloseLaunch(s))
    BY DEF ObserveRead, ObserveAbsence, RecordExposure, ApplyPatch, ApplyWrite, CloseLaunch
  <2>3. ~Check /\ ~LeftPrepared /\ ~CreateConflict /\ ~ObservationExpires
    BY DEF Check, LeftPrepared, CreateConflict, ObservationExpires
  <2>4. ~Confirm /\ ~Recover
    BY <2>1 DEF Confirm, Recover
  <2>5. ~Edit
    <3>1. SUFFICES ASSUME Edit PROVE FALSE
      OBVIOUS
    <3>2. op' = op \/ op' = [op EXCEPT !.raced = TRUE]
      BY <3>1 DEF Edit
    <3>3. op'.at = op.at
      BY <3>2, OpIs DEF BytesInv, PreparedOps
    <3> QED
      BY <3>3
  <2> QED
    BY <2>1, <2>2, <2>3, <2>4, <2>5 DEF BytesNext, bytesVars
<1>2. /\ op.at = "checked" /\ op.base # op.after /\ file'.bytes = op.after
      /\ op.base = Absent => file.bytes = Absent
  BY <1>1 DEF Publish
<1>3. ASSUME ~op.raced
      PROVE  /\ \A k \in op.from .. (op.to - 1) : Seen(op.scope, k)
             /\ op.kind = "patch" => file'.bytes = Spliced(file.bytes, op.from, op.to, op.with)
  <2>1. file.bytes = op.base
    BY <1>2, <1>3 DEF BytesInv, Underway
  <2>2. \A k \in op.from .. (op.to - 1) : Knows(reads, op.scope, k, op.base)
    BY <1>2 DEF BytesInv, Underway
  <2>3. op.kind = "patch" => op.after = Spliced(op.base, op.from, op.to, op.with)
    BY DEF BytesInv, Underway, PatchIs
  <2>4. \A k \in op.from .. (op.to - 1) : Seen(op.scope, k)
    BY <2>1, <2>2 DEF Knows, Seen, Of
  <2> QED
    BY <1>2, <2>1, <2>3, <2>4
<1> QED
  BY <1>2, <1>3

\* Wherever patches have moved it and whoever died in the middle of one, an
\* observation says what the bytes are, and nothing is replaced that its writer
\* has not seen but what was edited between its last look at the file and the
\* rename (_rebaseReads, _validateReadSet, publishHost, _recoverPendingLocked).
THEOREM KeepsObservations == ASSUME BytesConstants PROVE BytesSpec => ObservationsKept
<1>1. BytesInv /\ BytesInv' /\ [BytesNext]_bytesVars => [ObservationsTrue' /\ OnlySeenIsReplaced]_bytesVars
  <2>1. BytesInv' => ObservationsTrue'
    BY DEF BytesInv, TrueOf, ObservationsTrue, Says
  <2> QED
    BY <2>1, SeenIsReplaced
<1> QED
  BY <1>1, BytesInvariant, PTL DEF BytesSpec, ObservationsKept

-----------------------------------------------------------------------------
(* The five together *)

\* What the proofs above find of every state, of the five at once.
AllInv ==
  /\ ContinuationInv /\ TurnTypes
  /\ BackpressureInv
  /\ SpoolTypeOK /\ Holding
  /\ ApprovalInv
  /\ BytesInv /\ wholeFileName \in BOOLEAN

\* A protocol that does not move stutters.
LEMMA EachStep ==
  ASSUME [Next]_vars
  PROVE  /\ [ContinuationNext]_continuationVars
         /\ [BackpressureNext]_backpressureVars
         /\ [SpoolNext]_spoolVars
         /\ [ApprovalNext]_approvalVars
         /\ [BytesNext]_bytesVars
BY DEF Next, vars

LEMMA EachStart ==
  ASSUME Init
  PROVE  ContinuationInit /\ BackpressureInit /\ SpoolInit /\ ApprovalInit /\ BytesInit
BY DEF Init

LEMMA AllStart == Init => AllInv
<1> SUFFICES ASSUME Init PROVE AllInv
  OBVIOUS
<1>1. ContinuationInv /\ TurnTypes
  BY EachStart, ContinuationInitInvariant, ProtocolConstants DEF ContinuationInit, TurnTypes
<1>2. BackpressureInv
  BY EachStart, BackpressureInitInvariant, ProtocolConstants
<1>3. SpoolTypeOK /\ Holding
  BY EachStart, SpoolInitInvariant, ProtocolConstants DEF SpoolInv, SpoolInit, Holding
<1>4. ApprovalInv
  BY EachStart, StartIsGood, ProtocolConstants
<1>5. BytesInv /\ wholeFileName \in BOOLEAN
  BY EachStart, BytesStart, ProtocolConstants DEF BytesInit
<1> QED
  BY <1>1, <1>2, <1>3, <1>4, <1>5 DEF AllInv

LEMMA AllStep == AllInv /\ [Next]_vars => AllInv'
<1> SUFFICES ASSUME AllInv, [Next]_vars PROVE AllInv'
  OBVIOUS
<1>1. ContinuationInv' /\ TurnTypes'
  BY EachStep, ContinuationNextInvariant, TurnTypesStep, ProtocolConstants DEF AllInv
<1>2. BackpressureInv'
  BY EachStep, BackpressureNextInvariant, ProtocolConstants DEF AllInv
<1>3. SpoolTypeOK' /\ Holding'
  BY EachStep, TypeStep, HoldingStep, ProtocolConstants DEF AllInv
<1>4. ApprovalInv'
  BY EachStep, InvariantKept, ProtocolConstants DEF AllInv
<1>5. BytesInv' /\ (wholeFileName \in BOOLEAN)'
  BY EachStep, BytesStep, ProtocolConstants DEF AllInv, BytesNext, bytesVars
<1> QED
  BY <1>1, <1>2, <1>3, <1>4, <1>5 DEF AllInv

\* The variables of the five protocols keep their kinds, whichever of them moves.
THEOREM Typing == Spec => []TypeOK
<1>1. AllInv => TypeOK
  <2>1. AllInv => ContinuationTypeOK
    BY DEF AllInv, ContinuationInv, RunTypes, TurnTypes, ContinuationTypeOK
  <2>2. AllInv => BackpressureTypeOK /\ SpoolTypeOK /\ ApprovalTypeOK /\ BytesTypeOK
    BY DEF AllInv, BackpressureInv, ApprovalInv, BytesInv, BytesKinds, BytesTypeOK
  <2> QED
    BY <2>1, <2>2 DEF TypeOK
<1> QED
  BY <1>1, AllStart, AllStep, PTL DEF Spec
=============================================================================
