------------------------- MODULE LedgerContinuation -------------------------
(***************************************************************************)
(* The ledger continuation controller                                       *)
(* (src/src/lib/ledger-continuation-controller.js) and its host              *)
(* (openshell-agent-host.js): a worker that is enrolled for some tasks of    *)
(* the owner's ledger is sent one turn after another on the first of them    *)
(* that is eligible.  The receipt of a turn is saved before the turn is      *)
(* sent; the process may die, and the save or the send may fail, between     *)
(* any two of these.                                                         *)
(*                                                                          *)
(* A task is its owner, its status and a stamp, which stands for the         *)
(* fingerprint of its record and changes with every change of the record.    *)
(***************************************************************************)
EXTENDS Naturals, Sequences, FiniteSets

CONSTANTS
  Nodes, Tasks,
  Assignments,     \* the sequences of tasks a manager may enroll a worker for
  Budgets,         \* the turn budgets (maxTurns) he may give
  NoBudget, None,
  MaxStamp, MaxFailures   \* bounds: changes of a task, failed saves and restarts

\* What is assumed of the constants.
ContinuationConstants ==
  /\ Assignments \subseteq Seq(Tasks)
  /\ Budgets \subseteq (Nat \ {0}) \cup {NoBudget}
  /\ MaxStamp \in Nat /\ MaxFailures \in Nat
  /\ None \notin [task : Tasks, stamp : 0..MaxStamp]

VARIABLES
  ledger,       \* the task records
  run,          \* node.continuation in memory
  disk,         \* the same in the saved document
  turn,         \* what the worker's session is doing
  unresolved,   \* turns sent whose completion no record shows
  failures      \* saves that failed and restarts so far

continuationVars == <<ledger, run, disk, turn, unresolved, failures>>

Statuses == {"open", "blocked", "done"}
Attempts == [task : Tasks, stamp : 0..MaxStamp]

\* A run; withdrawn is a history: its manager has asked to disable it.
NoRun == [state |-> "none", tasks |-> <<>>, budget |-> NoBudget, turns |-> 0, withdrawn |-> FALSE,
          progress |-> [t \in Tasks |-> [stamp |-> None, noProgress |-> 0]], active |-> None]

Over(r) == r.state \in {"none", "done", "disabled"}
Paused(r) == IF Over(r) THEN r ELSE [r EXCEPT !.state = "paused"]
Has(tasks, t) == \E k \in DOMAIN tasks : tasks[k] = t

\* The owner of a record decides who it is assigned to.
Assigned(t, n) == ledger[t].owner = n

NoProgressLimit == 3

\* Mutation: without progress a task is tried once more than the limit.
EligibleOnceMore(n, r, t) ==
  /\ Assigned(t, n)
  /\ ledger[t].status = "open"
  /\ r.progress[t].stamp = ledger[t].stamp => r.progress[t].noProgress <= NoProgressLimit

Eligible(n, r, t) ==
  /\ Assigned(t, n)
  /\ ledger[t].status = "open"
  /\ r.progress[t].stamp = ledger[t].stamp => r.progress[t].noProgress < NoProgressLimit

Settled(n, t) == Assigned(t, n) /\ ledger[t].status = "done"

-----------------------------------------------------------------------------
ContinuationInit ==
  /\ ledger \in [Tasks -> [owner : Nodes, status : {"open"}, stamp : {0}]]
  /\ run = [n \in Nodes |-> NoRun]
  /\ disk = run
  /\ turn = [n \in Nodes |-> "idle"]
  /\ unresolved = [n \in Nodes |-> {}]
  /\ failures = 0

\* save: the whole document is written.  When that fails the run pauses in
\* memory, and the disk keeps what it had.
Save(n, r, had) ==
  \/ /\ run' = [run EXCEPT ![n] = r]
     /\ disk' = run'
     /\ UNCHANGED failures
  \/ /\ failures < MaxFailures
     /\ failures' = failures + 1
     /\ run' = [run EXCEPT ![n] = [r EXCEPT !.state = "paused"]]
     /\ disk' = had

\* tick: send one turn, or note why there is none to send.  c is what the
\* handler has done when it calls tick: the run it has in memory, what it has
\* written, and the attempts of the run that are open.
MayTick(n, c) == c.run.state \in {"ready", "waiting"} /\ c.run.active = None /\ turn[n] = "idle"

TickNothing(n, c) ==
  /\ ~MayTick(n, c)
  /\ run' = [run EXCEPT ![n] = c.run]
  /\ disk' = c.had
  /\ unresolved' = [unresolved EXCEPT ![n] = c.open]
  /\ UNCHANGED <<turn, failures>>

\* The kill switch, the setting or an unreadable ledger stops the run.
TickStops(n, c) ==
  /\ MayTick(n, c)
  /\ Save(n, Paused(c.run), c.had)
  /\ unresolved' = [unresolved EXCEPT ![n] = c.open]
  /\ UNCHANGED turn

TickFindsNone(n, c) ==
  LET r == c.run
      over == \A k \in DOMAIN r.tasks : Settled(n, r.tasks[k])
      next == [r EXCEPT !.state = IF over THEN "done" ELSE "waiting"]
  IN /\ MayTick(n, c)
     /\ \A k \in DOMAIN r.tasks : ~Eligible(n, r, r.tasks[k])
     /\ IF next # r THEN Save(n, next, c.had)
        ELSE run' = [run EXCEPT ![n] = r] /\ disk' = c.had /\ UNCHANGED failures
     /\ unresolved' = [unresolved EXCEPT ![n] = c.open]
     /\ UNCHANGED turn

First(n, r, k) == Eligible(n, r, r.tasks[k]) /\ \A j \in 1..(k - 1) : ~Eligible(n, r, r.tasks[j])
Spent(r) == r.budget # NoBudget /\ r.turns >= r.budget

\* The receipt is saved, then the turn is sent; a save that fails throws.  The
\* turns are counted where a budget reads the count.
TickSends(n, c) ==
  LET r == c.run
      Attempt(t) == [task |-> t, stamp |-> ledger[t].stamp]
      turns == IF r.budget = NoBudget THEN r.turns ELSE r.turns + 1
  IN /\ MayTick(n, c)
     /\ ~Spent(r)
     /\ \E k \in DOMAIN r.tasks :
          LET attempt == Attempt(r.tasks[k])
          IN /\ First(n, r, k)
             /\ Save(n, [r EXCEPT !.active = attempt, !.turns = turns, !.state = "running"], c.had)
             /\ IF failures' = failures
                THEN /\ turn' = [turn EXCEPT ![n] = "sending"]
                     /\ unresolved' = [unresolved EXCEPT ![n] = c.open \cup {attempt}]
                ELSE /\ unresolved' = [unresolved EXCEPT ![n] = c.open]
                     /\ UNCHANGED turn

TickSpent(n, c) ==
  /\ MayTick(n, c)
  /\ \E k \in DOMAIN c.run.tasks : Eligible(n, c.run, c.run.tasks[k])
  /\ Spent(c.run)
  /\ Save(n, Paused(c.run), c.had)
  /\ unresolved' = [unresolved EXCEPT ![n] = c.open]
  /\ UNCHANGED turn

Ticks(n, c) ==
  /\ TickNothing(n, c) \/ TickStops(n, c) \/ TickFindsNone(n, c) \/ TickSends(n, c) \/ TickSpent(n, c)
  /\ UNCHANGED ledger

\* The tick of a turn boundary, and of the watch.
Tick(n) ==
  LET c == [run |-> run[n], had |-> disk, open |-> unresolved[n]]
  IN MayTick(n, c) /\ Ticks(n, c)

\* Mutation: a run that is paused no longer keeps its tasks from other workers.
OthersLive(n, tasks) ==
  \A k \in DOMAIN tasks : \A other \in Nodes \ {n} :
    Has(run[other].tasks, tasks[k]) => run[other].state \notin {"ready", "waiting", "running"}

Others(n, tasks) ==
  \A k \in DOMAIN tasks : \A other \in Nodes \ {n} : Has(run[other].tasks, tasks[k]) => Over(run[other])

\* An attempt that was interrupted has to show in the ledger first, which
\* settles it; a task is enrolled by one worker at a time.
MayEnroll(n, tasks) ==
  /\ ~(run[n].active # None /\ run[n].state = "running")
  /\ run[n].active # None => ledger[run[n].active.task].stamp # run[n].active.stamp
  /\ \A k \in DOMAIN tasks : Assigned(tasks[k], n)
  /\ Others(n, tasks)

\* enroll, and the tick that follows it.
Enroll(n, tasks, budget) ==
  LET new == [NoRun EXCEPT !.state = "ready", !.tasks = tasks, !.budget = budget]
      open == {a \in unresolved[n] : ledger[a.task].stamp = a.stamp}
  IN /\ MayEnroll(n, tasks)
     /\ \/ Ticks(n, [run |-> new, had |-> [run EXCEPT ![n] = new], open |-> open])
        \/ /\ failures < MaxFailures
           /\ failures' = failures + 1
           /\ run' = [run EXCEPT ![n] = [new EXCEPT !.state = "paused"]]
           /\ unresolved' = [unresolved EXCEPT ![n] = open]
           /\ UNCHANGED <<ledger, disk, turn>>

\* enroll with enabled: false.  A turn that was sent goes on.
Disable(n) ==
  /\ run[n].state # "none"
  /\ Save(n, [run[n] EXCEPT !.state = "disabled", !.withdrawn = TRUE], disk)
  /\ UNCHANGED <<ledger, turn, unresolved>>

-----------------------------------------------------------------------------
(* The session *)

\* The session took the turn, or the send failed and nobody knows whether it
\* did.
Accepted(n) ==
  /\ turn[n] = "sending"
  /\ turn' = [turn EXCEPT ![n] = "running"]
  /\ UNCHANGED <<ledger, run, disk, unresolved, failures>>

Pauses(n) ==
  IF Over(run[n]) THEN UNCHANGED <<run, disk, failures>> ELSE Save(n, Paused(run[n]), disk)

SendFails(n) ==
  /\ turn[n] = "sending"
  /\ turn' = [turn EXCEPT ![n] = "idle"]
  /\ Pauses(n)
  /\ UNCHANGED <<ledger, unresolved>>

\* A message for the worker starts a turn that is not the controller's.
MessageTurn(n) ==
  /\ turn[n] = "idle"
  /\ turn' = [turn EXCEPT ![n] = "message"]
  /\ UNCHANGED <<ledger, run, disk, unresolved, failures>>

\* The turns without progress on the record as it is.
NoProgress(r, t) ==
  IF ledger[t].stamp # r.active.stamp THEN 0
  ELSE IF r.progress[t].stamp = ledger[t].stamp THEN r.progress[t].noProgress + 1 ELSE 1

\* completed, for a turn that went well
TurnSucceeds(n) ==
  LET r == run[n]
      t == r.active.task
  IN /\ turn[n] \in {"running", "message"}
     /\ turn' = [turn EXCEPT ![n] = "idle"]
     /\ IF r.active = None \/ r.state \in {"paused", "disabled"}
        THEN UNCHANGED <<run, disk, unresolved, failures>>
        ELSE /\ Save(n, [r EXCEPT !.progress[t] = [stamp |-> ledger[t].stamp, noProgress |-> NoProgress(r, t)],
                                  !.active = None, !.state = "ready"], disk)
             /\ unresolved' = [unresolved EXCEPT ![n] = {}]
     /\ UNCHANGED ledger

\* completed, for a turn that did not, or when the ledger cannot be read
TurnFails(n) ==
  /\ turn[n] \in {"running", "message"}
  /\ turn' = [turn EXCEPT ![n] = "idle"]
  /\ Pauses(n)
  /\ UNCHANGED <<ledger, unresolved>>

\* A person is asked, or the host is closing: the run pauses, the turn goes on.
Pause(n) ==
  /\ Pauses(n)
  /\ UNCHANGED <<ledger, turn, unresolved>>

\* The worker is stopped, restarted or exits by itself.
WorkerEnds(n) ==
  /\ Pauses(n)
  /\ turn' = [turn EXCEPT ![n] = "idle"]
  /\ UNCHANGED <<ledger, unresolved>>

\* The host dies and starts again: recover pauses every run it finds.
Restart ==
  /\ failures < MaxFailures
  /\ failures' = failures + 1
  /\ run' = [n \in Nodes |-> Paused(disk[n])]
  /\ disk' = run'
  /\ turn' = [n \in Nodes |-> "idle"]
  /\ UNCHANGED <<ledger, unresolved>>

\* Somebody, the worker's turn among them, changes a record.
LedgerChanges(t) ==
  /\ ledger[t].stamp < MaxStamp
  /\ \E owner \in Nodes, status \in Statuses :
       ledger' = [ledger EXCEPT ![t] = [owner |-> owner, status |-> status, stamp |-> @.stamp + 1]]
  /\ UNCHANGED <<run, disk, turn, unresolved, failures>>

ContinuationNext ==
  \/ \E n \in Nodes :
       \/ Tick(n) \/ Disable(n) \/ Pause(n)
       \/ \E tasks \in Assignments, budget \in Budgets : Enroll(n, tasks, budget)
       \/ Accepted(n) \/ SendFails(n) \/ MessageTurn(n)
       \/ TurnSucceeds(n) \/ TurnFails(n) \/ WorkerEnds(n)
  \/ \E t \in Tasks : LedgerChanges(t)
  \/ Restart

\* The watch ticks idle workers; an accepted turn ends.
ContinuationFairness == \A n \in Nodes : WF_continuationVars(Tick(n)) /\ WF_continuationVars(Accepted(n) \/ SendFails(n))
                             /\ WF_continuationVars(TurnSucceeds(n) \/ TurnFails(n))

ContinuationSpec == ContinuationInit /\ [][ContinuationNext]_continuationVars /\ ContinuationFairness

-----------------------------------------------------------------------------
(* Properties *)

Runs == [state : {"none", "ready", "waiting", "running", "paused", "done", "disabled"},
         tasks : Assignments \cup {<<>>},
         budget : Budgets \cup {NoBudget},
         turns : Nat,
         withdrawn : BOOLEAN,
         progress : [Tasks -> [stamp : 0..MaxStamp \cup {None}, noProgress : 0..NoProgressLimit]],
         active : Attempts \cup {None}]

\* The kinds of the variables; no task is tried more than NoProgressLimit
\* times on one record.
ContinuationTypeOK ==
  /\ ledger \in [Tasks -> [owner : Nodes, status : Statuses, stamp : 0..MaxStamp]]
  /\ run \in [Nodes -> Runs]
  /\ disk \in [Nodes -> Runs]
  /\ turn \in [Nodes -> {"idle", "sending", "running", "message"}]
  /\ unresolved \in [Nodes -> SUBSET Attempts]
  /\ failures \in 0..MaxFailures

\* A turn that was sent and whose end no record shows is the one the run names
\* as its attempt, in memory and on the disk: whichever side of the send the
\* process dies on, or the save fails, the attempt is found again and no
\* second one is sent before it is settled.
SentIsOnRecord ==
  \A n \in Nodes : \A a \in unresolved[n] : a = run[n].active /\ a = disk[n].active

\* Two workers never have live runs that share a task, though the record may
\* change hands while one is enrolled.  (A run that is disabled once more and
\* cannot be saved is left paused, and may share one; it sends nothing.)
OneWorkerPerTask ==
  \A n, other \in Nodes : \A t \in Tasks :
    n # other /\ {run[n].state, run[other].state} \subseteq {"ready", "waiting", "running"}
      => ~(Has(run[n].tasks, t) /\ Has(run[other].tasks, t))

\* Two turns whose end no record shows are never on one task, unless the
\* manager has withdrawn one of the two workers: disabling a run does not end
\* its turn, and a task whose record has been handed on may then be enrolled,
\* and a turn on it sent, while that turn is still at work.
TurnsAlone ==
  \A n, other \in Nodes : \A a \in unresolved[n], b \in unresolved[other] :
    n # other /\ a.task = b.task => run[n].withdrawn \/ run[other].withdrawn

\* Through lost saves, failed sends and restarts: no second turn is sent to a
\* worker before its first is settled (which a change of the task's record
\* counts as), and none to another worker on the same task, except after a
\* manager has disabled the run of the first.
TurnsOnRecord == SentIsOnRecord /\ OneWorkerPerTask /\ TurnsAlone

\* While the ledger stays as it is and nobody enrolls the worker again, turns
\* stop being sent: a run never goes on for ever without progress.
LeftAlone == ledger' = ledger
             /\ \A n \in Nodes, tasks \in Assignments, budget \in Budgets : ~Enroll(n, tasks, budget)
RunsStop ==
  <>[][LeftAlone]_continuationVars => \A n \in Nodes : <>[](turn[n] \notin {"sending", "running"})
=============================================================================
