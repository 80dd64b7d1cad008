------------------------------ MODULE AgentHost ------------------------------
(***************************************************************************)
(* src/src/lib/openshell-agent-host.js and control-delivery.js: one worker *)
(* (a "node") of the agent tree, the courier that hands it its messages,   *)
(* the boundaries of its tool calls and the drain hold above it.           *)
(*                                                                         *)
(* A message reaches the worker's model in one of two ways.  The courier   *)
(* (flushQueue) hands over the head of the queue as a new turn when the    *)
(* worker is idle; the end of a tool call (endBoundary) steers it into the *)
(* turn that is running.  Operations on the node run one after another on  *)
(* a promise chain, but everything else (boundaries, provider events,      *)
(* deliveries, holds) happens while the operation at the head awaits.      *)
(*                                                                         *)
(* The adapter of an event driver answers with the whole turn (stream-json *)
(* and ACP agents); any other sendTurn answers as soon as the provider has *)
(* taken the turn (the Codex app-server, the only one that steers).        *)
(***************************************************************************)
EXTENDS Naturals, Sequences, FiniteSets, Subsequences

\* What the environment may do to the worker.
Inputs == {"stop", "restart", "resume", "assign", "hold", "refuse",
           "unbound", "uncertain", "exit", "crash", "ask", "save", "calls"}

CONSTANTS
  Messages,     \* messages of other circles: refused when the queue is full
  Notices,      \* reports and notices of the tree itself: never refused
  Requests,     \* request ids of the worker's tool calls
  EventDrivers, \* whether the worker's adapter may be an event driver
  MaxHeld,      \* MAX_HELD
  BatchSize,    \* COURIER_BATCH.maxMessages and LIMITS.messages
  Attempts,     \* HANDOFF_ATTEMPTS
  MaxTurn,      \* every submission of a behaviour has a number up to MaxTurn
  Limit         \* bound, per kind of driver: how often the environment does each thing,
                \* and how many tool calls are open at once

ASSUME ConstantsAssumption ==
  /\ Messages \cap Notices = {}
  /\ EventDrivers \subseteq BOOLEAN
  /\ MaxHeld \in Nat \ {0} /\ BatchSize \in Nat \ {0}
  /\ Attempts \in Nat \ {0} /\ MaxTurn \in Nat \ {0}
  /\ \A event \in EventDrivers : Limit[event] \in [Inputs -> Nat]

Items == Messages \cup Notices
Turns == 1 .. MaxTurn

Commands == {"stop", "restart", "resume", "assign"}
Kinds    == Commands \cup {"flush", "launch", "exit", "fail"}

\* What the operation at the head of the chain is awaiting, if it has begun.
Stages == {"free", "launching", "opening", "first", "sending", "stopping", "failing"}

NoBoundary == [gen |-> 0, turn |-> 0, protected |-> FALSE]

VARIABLES
  node,     \* the worker's record: state, turn, waitingForApproval, whether
            \* threadId and sessionId are set
  queue,    \* node.queue
  live,     \* its live session: session, generation, submission and
            \* activeTurnId (0 for null), a buffered completion, attempts
  chain,    \* state.chain: the operations queued on the node
  stage,    \* where the first of them is
  batch,    \* the batch flushQueue is handing over
  ops,      \* operations: the open boundary of each request id; protected is a
            \* history: it was begun as protected work
  journal,  \* journal.attempts and journal.history
  hold,     \* journal.holds: the session the hold was asked on, 0 for none
  disk,     \* the saved document
  provider, \* the CLI: whether it lives, its session, the turn it works on
  taken,    \* the submissions a CLI has taken
  cargo,    \* the items each submission carried, none once it was refused
  steering, \* steerTurn requests without an answer
  promises, \* sendTurn promises of an event driver that have not settled
  events,   \* turn_completed events on their way to onEvent
  reports,  \* reports delivered to the parent, by submission
  sent,     \* history: items ever queued
  gone,     \* history: items whose removal was announced to someone
  disowned, \* history: submissions a CLI had taken when the host gave them up as
            \* refused, or was lost before it knew
  steered,  \* history: items given to steerTurn
  spent     \* how much of Limit is used

vars == <<node, queue, live, chain, stage, batch, ops, journal, hold, disk, provider,
          taken, cargo, steering, promises, events, reports, sent, gone, disowned, steered, spent>>

work    == <<chain, stage, batch>>
control == <<ops, journal, hold, steering, steered>>
outside == <<provider, taken, cargo, promises, events>>
history == <<reports, sent, gone, disowned>>

-----------------------------------------------------------------------------

Elements(q) == {q[i] : i \in DOMAIN q}
AtMost(n, q) == SubSeq(q, 1, IF Len(q) < n THEN Len(q) ELSE n)

\* What is left of the queue without the items of a set.
Without(q, items) == Subsequence(q, {k \in DOMAIN q : q[k] \notin items})

\* queue.splice(0, n)
Drop(n, q) == SubSeq(q, n + 1, Len(q))

Op(kind, gen) == [kind |-> kind, gen |-> gen]
Flush == Op("flush", 0)

Running    == live.session /\ node.state = "running"
Unresolved == \E a \in journal : a.status \in {"submitting", "unknown"}

\* retireAccepted: what is left of a queue once accepted messages are removed.
AcceptedIds == UNION {a.ids : a \in {x \in journal : x.status = "accepted"}}
Retired(q)  == Without(q, AcceptedIds)

SameTurn(gen, turn) == live.session /\ live.gen = gen /\ live.active = turn

\* Mutation: a session that was starting when the hold came sends its first turn.
AdmittedAnyway == hold = 0 \/ stage = "opening"

\* admitWork and submissionSafe.
Admitted == hold = 0

\* available()
Available == ~Unresolved

Document == [queue |-> queue, journal |-> journal, hold |-> hold,
             thread |-> node.thread, named |-> node.named]

\* Nothing comes between an event driver's sendTurn and what follows it.

Settled == provider.event => stage \notin {"first", "sending"}

Spend(what) == /\ spent[what] < Limit[provider.event][what]
               /\ spent' = [spent EXCEPT ![what] = @ + 1]

\* save(): best effort.  A strict save that fails throws, so its callers
\* treat the two outcomes apart.
Save     == disk' = Document' /\ UNCHANGED spent
SaveLost == UNCHANGED disk /\ Spend("save")

-----------------------------------------------------------------------------
\* Init: the node addWorker has just added, with its first start queued.

Init ==
  /\ node = [state |-> "starting", turn |-> "none", waiting |-> FALSE,
             thread |-> FALSE, named |-> FALSE]
  /\ queue = << >>
  /\ live = [session |-> FALSE, gen |-> 0, sub |-> 0, active |-> 0,
             early |-> FALSE, tries |-> 0]
  /\ chain = <<Op("launch", 0)>> /\ stage = "free" /\ batch = << >>
  /\ ops = [r \in Requests |-> NoBoundary]
  /\ journal = {} /\ hold = 0 /\ steering = {} /\ steered = {}
  /\ disk = [queue |-> << >>, journal |-> {}, hold |-> 0,
             thread |-> FALSE, named |-> FALSE]
  /\ \E e \in EventDrivers :
       provider = [alive |-> FALSE, event |-> e, gen |-> 0, turn |-> 0, next |-> 1]
  /\ taken = {} /\ cargo = [n \in Turns |-> {}] /\ promises = {} /\ events = {}
  /\ reports = [n \in Turns |-> 0] /\ sent = {} /\ gone = {} /\ disowned = {}
  /\ spent = [w \in Inputs |-> 0]

-----------------------------------------------------------------------------
\* deliver(): to the queue of the node, the oldest item going when it is full.

Deliver(m) ==
  /\ Settled
  /\ m \notin sent
  /\ m \in Messages => Len(queue) < MaxHeld
  /\ sent' = sent \cup {m}
  /\ LET full == Append(queue, m) IN
     IF Len(full) > MaxHeld
     THEN queue' = Tail(full) /\ gone' = gone \cup {Head(full)}
     ELSE queue' = full /\ UNCHANGED gone
  /\ chain' = IF Running THEN Append(chain, Flush) ELSE chain
  /\ UNCHANGED <<node, live, stage, batch, control, outside, reports, disowned>>
  /\ Save

\* command(): the manager queues an operation on the node.
Command(kind) ==
  /\ Settled
  /\ chain' = Append(chain, Op(kind, 0))
  /\ Spend(kind)
  /\ UNCHANGED <<node, queue, live, stage, batch, control, disk, outside, history>>

-----------------------------------------------------------------------------
\* The operation at the head of the chain.

AtHead(kind) == chain # << >> /\ Head(chain).kind = kind /\ stage = "free"

Done == chain' = Tail(chain) /\ stage' = "free" /\ UNCHANGED batch

\* submitTurn() up to the call of sendTurn, the batch carried along.
Submit(items, next) ==
  LET n == provider.next IN
  /\ n \in Turns
  /\ node' = [node EXCEPT !.turn = "running", !.waiting = FALSE]
  /\ live' = [live EXCEPT !.sub = n, !.active = 0, !.early = FALSE]
  /\ provider' = [provider EXCEPT !.next = n + 1]
  /\ cargo' = [cargo EXCEPT ![n] = Elements(items)]
  /\ batch' = items
  /\ stage' = next

\* flushQueue(): available() retires accepted items even when it says no.
FlushQueue ==
  /\ AtHead("flush")
  /\ IF Running /\ node.turn = "idle" /\ queue # << >>
     THEN /\ queue' = Retired(queue)
          /\ IF Available /\ Admitted
             THEN Submit(AtMost(BatchSize, queue'), "sending") /\ UNCHANGED chain
             ELSE Done /\ UNCHANGED <<node, live, provider, cargo>>
     ELSE Done /\ UNCHANGED <<node, live, provider, cargo, queue>>
  /\ UNCHANGED <<control, disk, taken, promises, events, history, spent>>

\* The end of a turn queues the hand-over of what waited for it.
ThenFlush(q) == Append(q, Flush)

\* completeTurn() of submission n: the report goes up, a flush is queued.
CompleteTurn(n) ==
  /\ node' = [node EXCEPT !.turn = "idle", !.waiting = FALSE]
  /\ live' = [live EXCEPT !.sub = 0, !.active = 0, !.early = FALSE]
  /\ reports' = [reports EXCEPT ![n] = @ + 1]

\* Mutation: the batch leaves the queue only once its turn is over.
HandedOverLater == UNCHANGED queue

\* The messages of a batch leave the queue by position.
HandedOver ==
  queue' = IF stage = "sending" THEN Drop(Len(batch), queue) ELSE queue

\* sendTurn of an app-server answers: bindSubmittedTurn() names the turn and
\* replays the events that came before the answer.
TurnAccepted ==
  /\ stage \in {"first", "sending"} /\ ~provider.event
  /\ live.sub \in taken
  /\ HandedOver
  /\ IF live.early
     THEN /\ CompleteTurn(live.sub)
          /\ chain' = ThenFlush(Tail(chain))
     ELSE /\ live' = [live EXCEPT !.active = live.sub,
                                  !.tries = IF stage = "sending" THEN 0 ELSE @]
          /\ chain' = Tail(chain)
          /\ UNCHANGED <<node, reports>>
  /\ stage' = "free" /\ UNCHANGED batch
  /\ UNCHANGED <<control, outside, sent, gone, disowned>>
  /\ Save

\* sendTurn of an event driver returns; the adapter may name its turn at once.
TurnStarted(named) ==
  /\ stage \in {"first", "sending"} /\ provider.event
  /\ HandedOver
  /\ live' = [live EXCEPT !.active = IF named THEN live.sub ELSE 0,
                          !.tries = IF stage = "sending" THEN 0 ELSE @]
  /\ promises' = promises \cup {[gen |-> live.gen, turn |-> live.sub]}
  /\ Done
  /\ UNCHANGED <<node, control, provider, taken, cargo, events, history>>
  /\ Save

\* endSession() up to its first await: the generation moves on, the open
\* boundaries of the session are retired.
EndSession(from, next) ==
  /\ live' = [from EXCEPT !.gen = @ + 1, !.session = FALSE]
  /\ ops' = [r \in Requests |-> NoBoundary]
  /\ stage' = next
  /\ UNCHANGED <<chain, batch>>

\* Mutation: one refusal more than the bound.
SetAsideLate == live.tries >= Attempts

SetAside == live.tries + 1 >= Attempts

\* What the host was handing over when it stopped following it, if a program
\* had taken it.
Disown == disowned' = disowned \cup (IF stage \in {"first", "sending"} THEN {live.sub} \cap taken ELSE {})

\* sendTurn fails: the provider refuses the turn, or its process is gone.  Or
\* an app-server has taken the turn and works on it, but its answer cannot be
\* used: bindSubmittedTurn() throws when too many events came before it or it
\* names no turn.  The third refusal sets the batch aside; a refused first turn
\* ends the session.
TurnRefused(ended) ==
  /\ stage \in {"first", "sending"}
  /\ provider.alive /\ provider.event => live.sub \notin taken
  /\ ~provider.alive => ended
  /\ IF provider.alive THEN Spend(IF live.sub \in taken THEN "unbound" ELSE "refuse")
                       ELSE UNCHANGED spent
  /\ node' = [node EXCEPT !.turn = "idle", !.waiting = FALSE]
  /\ LET aside == stage = "sending" /\ SetAside
         idle  == [live EXCEPT !.sub = 0, !.active = 0, !.early = FALSE,
                               !.tries = IF stage = "first" THEN @
                                         ELSE IF aside THEN 0 ELSE @ + 1]
     IN
     /\ queue' = IF aside THEN Drop(Len(batch), queue) ELSE queue
     /\ gone'  = IF aside THEN gone \cup Elements(batch) ELSE gone
     /\ reports' = IF stage = "first" THEN [reports EXCEPT ![live.sub] = @ + 1] ELSE reports
     /\ IF ended \/ stage = "first"
        THEN EndSession(idle, "failing")
        ELSE live' = idle /\ Done /\ UNCHANGED ops
     /\ cargo' = IF live.sub \in taken THEN cargo ELSE [cargo EXCEPT ![live.sub] = {}]
     /\ Disown
     /\ UNCHANGED <<journal, hold, steering, steered, provider, taken, promises, events, sent>>
     /\ disk' = IF aside \/ stage = "first" THEN Document' ELSE disk

\* The adapter still follows a turn the host has given up: it sends nothing, and
\* flushQueue() counts no attempt.
TurnActive ==
  /\ stage = "sending" /\ ~provider.event
  /\ provider.turn \notin {0, live.sub} /\ live.sub \notin taken
  /\ node' = [node EXCEPT !.turn = "idle", !.waiting = FALSE]
  /\ live' = [live EXCEPT !.sub = 0, !.active = 0, !.early = FALSE]
  /\ cargo' = [cargo EXCEPT ![live.sub] = {}]
  /\ Done
  /\ UNCHANGED <<queue, control, disk, provider, taken, promises, events, history, spent>>

\* startSession() up to the launch.  It is refused while a hold is on.
Launch(resume) ==
  IF ~Admitted
  THEN Done /\ UNCHANGED <<node, live, ops>>
  ELSE /\ node' = [state |-> "starting", turn |-> "none", waiting |-> FALSE,
                   thread |-> resume /\ node.thread, named |-> TRUE]
       /\ live' = [session |-> FALSE, gen |-> live.gen + 1, sub |-> 0, active |-> 0,
                   early |-> FALSE, tries |-> 0]
       /\ ops' = [r \in Requests |-> NoBoundary]
       /\ stage' = "launching"
       /\ UNCHANGED <<chain, batch>>

\* A start, fresh or on the saved thread; resumeNode() refuses a node that
\* runs or has no thread.
StartSession ==
  /\ \/ AtHead("launch") /\ Launch(FALSE)
     \/ \E kind \in {"resume", "assign"} :
          /\ AtHead(kind)
          /\ IF live.session \/ node.state = "starting" \/ ~node.thread
             THEN Done /\ UNCHANGED <<node, live, ops>>
             ELSE Launch(TRUE)
  /\ UNCHANGED <<queue, journal, hold, steering, steered, outside, history, spent>>
  /\ disk' = IF stage' = "launching" THEN Document' ELSE disk

\* The launcher answers.  A resume without an assignment flushes the queue.
Launched(ok) ==
  /\ stage = "launching"
  /\ IF ok
     THEN /\ node' = [node EXCEPT !.state = "running", !.turn = "idle", !.thread = TRUE]
          /\ live' = [live EXCEPT !.session = TRUE]
          /\ provider' = [provider EXCEPT !.alive = TRUE, !.gen = live.gen, !.turn = 0]
          /\ IF Head(chain).kind = "resume"
             THEN chain' = <<Flush>> \o Tail(chain) /\ stage' = "free"
             ELSE stage' = "opening" /\ UNCHANGED chain
     ELSE /\ Spend("refuse")
          /\ node' = [node EXCEPT !.state = "failed", !.turn = "none"]
          /\ live' = [live EXCEPT !.gen = @ + 1]
          /\ chain' = Tail(chain) /\ stage' = "free"
          /\ UNCHANGED provider
  /\ ok => UNCHANGED spent
  /\ UNCHANGED <<queue, batch, control, taken, cargo, promises, events, history>>
  /\ disk' = Document'

\* The first turn: the brief, or the assignment of a resume.  A hold asked for
\* during the launch refuses it, which ends the session like a refused turn.
FirstTurn ==
  /\ stage = "opening"
  /\ IF Admitted
     THEN Submit(<< >>, "first") /\ UNCHANGED <<chain, ops>>
     ELSE EndSession(live, "failing") /\ UNCHANGED <<node, provider, cargo>>
  /\ UNCHANGED <<queue, journal, hold, steering, steered, disk, taken, promises, events,
                 history, spent>>

\* Mutation: the queue of a stopped worker is dropped when it has stopped.
StopKeepsQueue ==
  /\ AtHead("stop")
  /\ IF live.session THEN EndSession(live, "stopping") /\ queue' = << >>
                     ELSE Done /\ UNCHANGED <<live, ops, queue>>
  /\ UNCHANGED <<node, journal, hold, steering, steered, disk, outside, history, spent>>

\* stopNode(): what was queued is dropped and counted in the answer.
Stop ==
  /\ AtHead("stop")
  /\ IF live.session
     THEN /\ queue' = << >>
          /\ gone' = gone \cup Elements(queue)
          /\ EndSession(live, "stopping")
     ELSE Done /\ UNCHANGED <<queue, gone, live, ops>>
  /\ UNCHANGED <<node, journal, hold, steering, steered, disk, outside, reports, sent, disowned,
                 spent>>

\* restartNode(): a live session is ended first.
Restart ==
  /\ AtHead("restart")
  /\ IF live.session
     THEN EndSession(live, "stopping")
     ELSE /\ chain' = <<Op("launch", 0)>> \o Tail(chain)
          /\ UNCHANGED <<live, ops, stage, batch>>
  /\ UNCHANGED <<node, queue, journal, hold, steering, steered, disk, outside, history, spent>>

\* A worker whose program exited by itself, and a session turnFailed() gave up.
EndDeadSession ==
  /\ \/ AtHead("exit") /\ (IF Running /\ ~provider.alive
                           THEN EndSession(live, "failing")
                           ELSE Done /\ UNCHANGED <<live, ops>>)
     \/ AtHead("fail") /\ (IF live.gen = Head(chain).gen
                           THEN EndSession(live, "failing")
                           ELSE Done /\ UNCHANGED <<live, ops>>)
  /\ UNCHANGED <<node, queue, journal, hold, steering, steered, disk, outside, history, spent>>

\* Mutation: endSession() waits for the program to exit by itself.
SessionExited == stage \in {"stopping", "failing"} /\ ~provider.alive

\* closeSession() has ended the program and everything it started.
SessionClosed == stage \in {"stopping", "failing"}

\* endSession() from closeSession() on: the processes are gone.
SessionEnded ==
  /\ SessionClosed
  /\ node' = [node EXCEPT !.turn = "none", !.waiting = FALSE,
                          !.state = IF stage = "failing" THEN "failed" ELSE "stopped"]
  /\ live' = [live EXCEPT !.sub = 0, !.active = 0, !.early = FALSE]
  /\ provider' = [provider EXCEPT !.alive = FALSE, !.turn = 0]
  /\ chain' = IF stage = "stopping" /\ Head(chain).kind = "restart"
              THEN <<Op("launch", 0)>> \o Tail(chain) ELSE Tail(chain)
  /\ stage' = "free"
  /\ UNCHANGED <<queue, batch, control, taken, cargo, promises, events, history>>
  /\ Save

-----------------------------------------------------------------------------
\* The worker's program (external) and the events it sends.

\* The turns sendTurn has written to the program that runs.
Submissions == {p.turn : p \in {q \in promises : q.gen = provider.gen}}
                 \cup (IF stage \in {"first", "sending"} THEN {live.sub} ELSE {})

ProviderTakes(n) ==
  /\ Settled
  /\ provider.alive /\ provider.turn = 0
  /\ n \in Submissions \ taken
  /\ provider' = [provider EXCEPT !.turn = n]
  /\ taken' = taken \cup {n}
  /\ UNCHANGED <<node, queue, live, work, control, disk, cargo, promises, events,
                 history, spent>>

ProviderCompletes ==
  /\ Settled
  /\ provider.turn # 0
  /\ provider' = [provider EXCEPT !.turn = 0]
  /\ events' = events \cup {[gen |-> provider.gen, turn |-> provider.turn]}
  /\ UNCHANGED <<node, queue, live, work, control, disk, taken, cargo, promises,
                 history, spent>>

ProviderExits ==
  /\ Settled
  /\ provider.alive
  /\ provider' = [provider EXCEPT !.alive = FALSE, !.turn = 0]
  /\ Spend("exit")
  /\ UNCHANGED <<node, queue, live, work, control, disk, taken, cargo, promises,
                 events, history>>

NamesTurn(e) == e.turn = live.active

KeptEarly(e) == e.turn = live.sub

\* onEvent(): a completion of another generation or turn is dropped, one that
\* comes before the turn has a name is kept for bindSubmittedTurn().
OnCompletion(e) ==
  /\ Settled
  /\ e \in events
  /\ events' = events \ {e}
  /\ IF e.gen # live.gen \/ ~live.session \/ node.turn # "running"
     THEN UNCHANGED <<node, live, chain, reports, disk, spent>>
     ELSE IF live.active = 0
     THEN /\ live' = [live EXCEPT !.early = @ \/ KeptEarly(e)]
          /\ UNCHANGED <<node, chain, reports, disk, spent>>
     ELSE IF NamesTurn(e)
     THEN /\ CompleteTurn(e.turn)
          /\ chain' = ThenFlush(chain)
          /\ UNCHANGED <<queue, journal, hold>>
          /\ Save
     ELSE UNCHANGED <<node, live, chain, reports, disk, spent>>
  /\ UNCHANGED <<queue, stage, batch, control, provider, taken, cargo, promises, sent, gone,
                 disowned>>

\* approval_request and tool_result of the running turn.
OnInteraction ==
  /\ Settled
  /\ node.turn = "running" /\ live.active # 0 /\ live.active = provider.turn
  /\ IF node.waiting THEN UNCHANGED spent ELSE Spend("ask")
  /\ node' = [node EXCEPT !.waiting = ~ @]
  /\ UNCHANGED <<queue, live, work, control, outside, history>>
  /\ disk' = Document'

\* Mutation: a rejected send is laid on the turn that runs now.
LatestOfSession(p) == live.gen = p.gen /\ node.turn = "running"

LatestSubmission(p) == live.gen = p.gen /\ live.sub = p.turn /\ node.turn = "running"

\* The promise of an event driver's sendTurn settles.
PromiseKept(p) ==
  /\ Settled
  /\ p \in promises /\ p.turn \in taken
  /\ promises' = promises \ {p}
  /\ IF ~LatestSubmission(p) \/ live.active # 0
     THEN UNCHANGED <<node, live, chain, reports>>
     ELSE IF live.early
     THEN CompleteTurn(p.turn) /\ chain' = ThenFlush(chain)
     ELSE live' = [live EXCEPT !.active = p.turn] /\ UNCHANGED <<node, chain, reports>>
  /\ UNCHANGED <<queue, stage, batch, control, provider, taken, cargo, events, sent, gone,
                 disowned, spent>>
  /\ disk' = IF reports' # reports THEN Document' ELSE disk

\* turnFailed(): a turn that was named ends as failed; one that was not is
\* reported as failed, and if the agent may have taken it the session ends.
TurnFailed(p, uncertain, ended) ==
  /\ Settled
  /\ p \in promises
  /\ promises' = promises \ {p}
  /\ uncertain => p.turn \in taken /\ live.active = 0
  /\ ~provider.alive => ended
  /\ IF ~provider.alive THEN UNCHANGED spent
     ELSE Spend(IF uncertain THEN "uncertain" ELSE "refuse")
  /\ LET latest == LatestSubmission(p)
         flush  == IF latest /\ live.active = p.turn THEN <<Flush>> ELSE << >>
         fail   == IF live.gen = p.gen /\ (ended \/ (latest /\ uncertain))
                   THEN <<Op("fail", p.gen)>> ELSE << >>
     IN
     /\ IF latest THEN CompleteTurn(p.turn) ELSE UNCHANGED <<node, live, reports>>
     /\ chain' = chain \o flush \o fail
     /\ gone' = IF latest /\ p.turn \notin taken THEN gone \cup cargo[p.turn] ELSE gone
  /\ provider' = IF provider.turn = p.turn /\ ~uncertain
                 THEN [provider EXCEPT !.turn = 0] ELSE provider
  /\ UNCHANGED <<queue, stage, batch, control, taken, cargo, events, sent, disowned>>
  /\ disk' = IF reports' # reports THEN Document' ELSE disk

\* checkWorkers(): a running worker whose program is gone.
CheckWorkers ==
  /\ Settled
  /\ Running /\ ~provider.alive
  /\ \A i \in DOMAIN chain : chain[i].kind # "exit"
  /\ chain' = Append(chain, Op("exit", 0))
  /\ UNCHANGED <<node, queue, live, stage, batch, control, disk, outside, history, spent>>

-----------------------------------------------------------------------------
\* beginBoundary(): a tool call of the worker begins.  Only a turn that has a
\* name can receive a delivery at its end.
BeginBoundary(r, protected) ==
  /\ Settled
  /\ Running /\ provider.alive
  /\ ops[r] = NoBoundary
  /\ Cardinality({other \in Requests : ops[other] # NoBoundary}) < Limit[provider.event]["calls"]
  /\ protected => Admitted /\ ~Unresolved
  /\ ops' = [ops EXCEPT ![r] =
       [gen |-> live.gen, turn |-> IF node.turn = "running" THEN live.active ELSE 0,
        protected |-> protected]]
  /\ UNCHANGED <<node, queue, live, work, journal, hold, steering, steered, disk, outside,
                 history, spent>>

Attempt(items, boundary) ==
  [ids |-> Elements(items), gen |-> boundary.gen, turn |-> boundary.turn,
   status |-> "submitting"]

\* operationSafe(): no other operation is open and no person is asked.
Alone(r) == /\ \A other \in Requests \ {r} : ops[other] = NoBoundary
            /\ ~node.waiting

\* What endBoundary() may hand over: nothing after an unresolved delivery,
\* nothing to a turn that is not the boundary's.
Receiving(r) ==
  /\ Alone(r)
  /\ Available
  /\ ops[r].turn # 0 /\ SameTurn(ops[r].gen, ops[r].turn)
  /\ ~provider.event

\* endBoundary() with nothing to hand over, or cancelled.
EndBoundary(r) ==
  /\ Settled
  /\ Running /\ provider.alive
  /\ ops[r] # NoBoundary
  /\ ops' = [ops EXCEPT ![r] = NoBoundary]
  /\ \/ UNCHANGED queue
     \/ /\ Alone(r)
        /\ queue' = Retired(queue)
        /\ Receiving(r) => queue' = << >>
  /\ UNCHANGED <<node, live, work, journal, hold, steering, steered, disk, outside, history,
                 spent>>

\* Mutation: the request is made before its intent is saved.
SteerFirst(r) ==
  /\ Running /\ provider.alive
  /\ ops[r] # NoBoundary
  /\ Receiving(r)
  /\ Retired(queue) # << >>
  /\ ops' = [ops EXCEPT ![r] = NoBoundary]
  /\ queue' = Retired(queue)
  /\ LET a == Attempt(AtMost(BatchSize, queue'), ops[r]) IN
     /\ journal' = journal \cup {a}
     /\ steering' = steering \cup {a}
     /\ steered' = IF provider.turn = a.turn THEN steered \cup a.ids ELSE steered
  /\ UNCHANGED <<node, live, work, hold, outside, history, disk, spent>>

\* endBoundary() that steers: the intent is saved before the request is made,
\* and dropped again when the adapter refuses before sending.  The program may
\* have ended the turn when the request reaches it.
Steer(r) ==
  /\ Running /\ provider.alive
  /\ ops[r] # NoBoundary
  /\ Receiving(r)
  /\ Retired(queue) # << >>
  /\ ops' = [ops EXCEPT ![r] = NoBoundary]
  /\ queue' = Retired(queue)
  /\ UNCHANGED <<node, live, work, hold, outside, history>>
  /\ LET a == Attempt(AtMost(BatchSize, queue'), ops[r]) IN
     \/ \* save() throws: no delivery
        UNCHANGED <<journal, steering, steered>> /\ SaveLost
     \/ \* the adapter knows the turn is over, or the deadline has passed
        /\ UNCHANGED <<journal, steering, steered>>
        /\ Save \/ (disk' = [Document' EXCEPT !.journal = @ \cup {a}] /\ Spend("save"))
     \/ /\ journal' = journal \cup {a}
        /\ steering' = steering \cup {a}
        /\ steered' = IF provider.turn = a.turn THEN steered \cup a.ids ELSE steered
        /\ Save

With(a, status) == (journal \ {a}) \cup {[a EXCEPT !.status = status]}

\* The steered turn acknowledges what it was given, and is still the one that runs: the attempt
\* is saved as accepted, the messages are removed, and that is saved too.
SteerAccepted(a) ==
  /\ a \in steering /\ SameTurn(a.gen, a.turn) /\ a.ids \subseteq steered
  /\ steering' = steering \ {a}
  /\ UNCHANGED <<node, live, work, ops, hold, steered, outside, history>>
  /\ LET rest == Without(queue, a.ids) IN
     \/ \* both saves succeed
        /\ journal' = With(a, "accepted")
        /\ queue' = rest
        /\ Save
     \/ \* the second fails (or the process is lost before it)
        /\ journal' = With(a, "unknown")
        /\ queue' = rest
        /\ disk' = [Document EXCEPT !.journal = With(a, "accepted")]
        /\ Spend("save")

\* No usable answer: a lost or wrong one, the deadline, a cancelled request, a
\* turn that is over.  It is never known whether the messages arrived.
SteerUnknown(a) ==
  /\ a \in steering
  /\ steering' = steering \ {a}
  /\ journal' = With(a, "unknown")
  /\ UNCHANGED <<node, queue, live, work, ops, hold, steered, outside, history>>
  /\ Save \/ SaveLost

\* checkpoint(): new work is held from now on.
Checkpoint ==
  /\ Settled
  /\ node.named
  /\ hold' = IF hold = 0 THEN live.gen ELSE hold
  /\ Spend("hold")
  /\ UNCHANGED <<node, queue, live, work, ops, journal, steering, steered, outside, history>>
  /\ disk' = Document'

\* release(): by the session the hold was asked on, while it runs.
Release ==
  /\ Settled
  /\ hold # 0 /\ hold = live.gen /\ node.state = "running"
  /\ hold' = 0
  /\ UNCHANGED <<node, queue, live, work, ops, journal, steering, steered, outside, history>>
  /\ Save

\* status(): what drain() waits for.
Drained ==
  /\ hold # 0 /\ hold = live.gen
  /\ node.state = "running" /\ node.turn = "idle" /\ ~node.waiting
  /\ \A r \in Requests : ops[r] = NoBoundary
  /\ ~Unresolved

\* The host process is lost; a new one takes the saved tree back with the
\* worker stopped and its processes ended (settleLoadedTree).
Crash ==
  /\ Spend("crash")
  /\ queue' = disk.queue /\ hold' = disk.hold
  /\ journal' = {[a EXCEPT !.status = IF @ = "submitting" THEN "unknown" ELSE @] :
                 a \in disk.journal}
  /\ node' = [state |-> IF node.state = "failed" THEN "failed" ELSE "stopped",
              turn |-> "none", waiting |-> FALSE, thread |-> disk.thread,
              named |-> disk.named /\ node.state \notin {"running", "starting"}]
  /\ live' = [session |-> FALSE, gen |-> live.gen + 1, sub |-> 0, active |-> 0,
              early |-> FALSE, tries |-> 0]
  /\ chain' = << >> /\ stage' = "free" /\ batch' = << >>
  /\ ops' = [r \in Requests |-> NoBoundary]
  /\ steering' = {} /\ promises' = {} /\ events' = {}
  /\ provider' = [provider EXCEPT !.alive = FALSE, !.turn = 0]
  /\ Disown
  /\ UNCHANGED <<disk, taken, cargo, reports, sent, gone, steered>>

-----------------------------------------------------------------------------
Operate ==
  \/ FlushQueue \/ StartSession \/ FirstTurn \/ Stop \/ Restart \/ EndDeadSession
  \/ SessionEnded \/ TurnAccepted \/ TurnActive
  \/ \E b \in BOOLEAN : TurnStarted(b) \/ TurnRefused(b)
  \/ \E b \in BOOLEAN : Launched(b)

Worker ==
  \/ \E n \in Turns : ProviderTakes(n)
  \/ ProviderCompletes \/ ProviderExits \/ OnInteraction \/ CheckWorkers
  \/ \E e \in events : OnCompletion(e)
  \/ \E p \in promises : PromiseKept(p)
  \/ \E p \in promises, u, e \in BOOLEAN : TurnFailed(p, u, e)

Boundaries ==
  \/ \E r \in Requests : EndBoundary(r) \/ Steer(r)
  \/ \E r \in Requests, protected \in BOOLEAN : BeginBoundary(r, protected)
  \/ \E a \in steering : SteerAccepted(a) \/ SteerUnknown(a)
  \/ Checkpoint \/ Release

Outside ==
  \/ \E m \in Items : Deliver(m)
  \/ \E kind \in Commands : Command(kind)

Next == Operate \/ Worker \/ Boundaries \/ Outside \/ Crash

Spec == Init /\ [][Next]_vars

\* What the host does by itself, and what it may expect of a worker's program:
\* that it answers, finishes its turns, and that its events arrive.
Fairness ==
  /\ WF_vars(FlushQueue \/ StartSession \/ FirstTurn \/ Stop \/ Restart \/ EndDeadSession)
  /\ WF_vars(SessionEnded) /\ WF_vars(TurnAccepted) /\ WF_vars(TurnStarted(TRUE))
  /\ WF_vars(TurnRefused(TRUE) /\ ~provider.alive) /\ WF_vars(Launched(TRUE))
  /\ WF_vars(\E n \in Turns : ProviderTakes(n)) /\ WF_vars(ProviderCompletes)
  /\ WF_vars(\E e \in events : OnCompletion(e))
  /\ WF_vars(\E p \in promises : PromiseKept(p) \/ (~provider.alive /\ TurnFailed(p, FALSE, TRUE)))
  /\ WF_vars(CheckWorkers)
  /\ WF_vars(\E a \in steering : SteerUnknown(a))

FairSpec == Spec /\ Fairness

-----------------------------------------------------------------------------
(* Properties *)

Boundary == [gen : Nat, turn : 0 .. MaxTurn, protected : BOOLEAN]
Journaled == [ids : SUBSET Items, gen : Nat, turn : Turns,
              status : {"submitting", "unknown", "accepted"}]

TypeOK ==
  /\ node \in [state : {"starting", "running", "stopped", "failed"},
               turn : {"none", "idle", "running"},
               waiting : BOOLEAN, thread : BOOLEAN, named : BOOLEAN]
  /\ queue \in Seq(Items) /\ Len(queue) <= MaxHeld
  /\ live \in [session : BOOLEAN, gen : Nat, sub : 0 .. MaxTurn, active : 0 .. MaxTurn,
               early : BOOLEAN, tries : 0 .. Attempts - 1]
  /\ chain \in Seq([kind : Kinds, gen : Nat])
  /\ stage \in Stages /\ (stage # "free" => chain # << >>)
  /\ batch \in Seq(Items) /\ Len(batch) <= BatchSize
  /\ ops \in [Requests -> Boundary]
  /\ journal \subseteq Journaled /\ hold \in Nat
  /\ provider \in [alive : BOOLEAN, event : EventDrivers, gen : Nat, turn : 0 .. MaxTurn,
                  next : 1 .. MaxTurn + 1]
  /\ taken \subseteq Turns /\ cargo \in [Turns -> SUBSET Items]
  /\ steering \subseteq journal
  /\ promises \subseteq [gen : Nat, turn : Turns] /\ events \subseteq [gen : Nat, turn : Turns]
  /\ reports \in [Turns -> Nat]
  /\ sent \subseteq Items /\ gone \subseteq sent /\ steered \subseteq sent
  /\ disowned \subseteq taken
  /\ spent \in [Inputs -> Nat]

\* How often an item may have reached the model, in the turns of some
\* submissions and by steering.
CopiesIn(turns, m) == Cardinality({n \in turns : m \in cargo[n]}) + (IF m \in steered THEN 1 ELSE 0)
Copies(m) == CopiesIn(taken, m)

\* No item reaches the model twice, by the courier and by steering together,
\* except again after a hand-over that a program had taken and the host was
\* told had failed, or did not live to hear of: then the item stays queued.
HandedOnce == \A m \in sent : CopiesIn(taken \ disowned, m) <= 1

\* The host no longer follows submission n of an event driver, and its turn was
\* never reported: the session ended, and turnFailed() returns at the stale
\* generation.
LostWithItsSession(n) ==
  provider.event /\ reports[n] = 0 /\ ~(live.session /\ live.sub = n)

\* An item that left the queue reached the model, still may, or somebody was told
\* that it did not: dropped by a stop, by a full queue, set aside, a failed turn.
\* The one exception is an event driver's prompt that was written and not read
\* when its session ended.
NothingLostSilently ==
  \A m \in sent :
    \/ m \in Elements(queue) \/ Copies(m) > 0 \/ m \in gone
    \/ \E n \in Turns : m \in cargo[n] /\ (n \in Submissions \/ LostWithItsSession(n))

\* The host knows of the turn its worker works on: an idle worker is idle, and
\* no event of an older turn or session ended a newer turn.  The exceptions are
\* a turn whose submission ended as refused, though the program had taken it,
\* and a session that is about to be ended, because its agent may have taken a
\* turn without naming it.
HostKnowsTheTurn ==
  provider.turn # 0 /\ Running /\ Op("fail", live.gen) \notin Elements(chain) =>
    \/ node.turn = "running" /\ live.sub = provider.turn
    \/ provider.turn \in disowned

\* A turn is reported to the parent at most once, however it ends.
ReportedOnce == \A n \in Turns : reports[n] <= 1

\* A queued item of a running worker is handed over, unless a hold or an
\* unresolved delivery is in the way.  Once a turn was refused or could
\* not be named the rest of the queue waits for the next message: flushQueue()
\* queues no retry, and the end of a turn without a name is dropped.
QueuedIsCarried ==
  \A m \in Items :
    (Running /\ m \in Elements(queue)) ~>
      (m \notin Elements(queue) \/ ~Running \/ hold # 0 \/ Unresolved
        \/ spent["refuse"] + spent["unbound"] > 0)

\* A turn the host has named is reported, unless its session ends first.
TurnsReported ==
  \A n \in Turns : (Running /\ live.active = n) ~> (reports[n] = 1 \/ ~Running)

\* The operations queued on a node are all carried out.
OperationsEnd == chain # << >> ~> chain = << >>

\* The courier keeps going: operations end, queued messages are carried and
\* turns that were named are reported.
CourierProgress == QueuedIsCarried /\ TurnsReported /\ OperationsEnd

\* Steering, across a lost save and a restart of the host: what was given to
\* the worker is named by the saved journal, and is final: it is never handed
\* over again, whatever became of the answer.
SteeringKept ==
  /\ [](\A m \in steered : \E a \in disk.journal : m \in a.ids)
  /\ [][\A m \in steered : Copies(m)' = Copies(m) /\ \A a \in steering' \ steering : m \notin a.ids]_vars

\* The session of an agent that may have taken a turn without naming it is
\* ended; until that is done the host calls the worker idle.
GivenUp == provider.event /\ (~live.session \/ Op("fail", live.gen) \in Elements(chain))

\* What a hold keeps from beginning while it is on: a turn, a session, a tool
\* call that is protected work.
NothingBegins ==
  /\ node'.turn = "running" => node.turn = "running"
  /\ node'.state = "starting" => node.state = "starting"
  /\ \A r \in Requests : ops'[r].protected => ops'[r] = ops[r]

\* A worker that is drained stays so until the hold is released or its session
\* moves on or ends, but while a call that is not protected work is open.
StaysDrained ==
  Drained => \/ Drained'
             \/ hold' # hold \/ live'.gen # live.gen \/ node'.state # "running"
             \/ \E r \in Requests : ops'[r] # NoBoundary /\ ~ops'[r].protected

\* Nothing begins under a hold, and a worker that drain() reports as drained
\* does nothing and goes on doing nothing: no delivery is under way and its
\* program works on no turn, unless its session is given up or the host was
\* told that the turn was refused.
HoldsKept ==
  /\ [](Drained => steering = {} /\ (provider.turn \in {0} \cup disowned \/ GivenUp))
  /\ [][(hold # 0 => NothingBegins) /\ StaysDrained]_vars

\* Whichever way turns end, and however late their events and answers come:
\* each is reported at most once, and the host knows which one runs.
TurnsKnown == ReportedOnce /\ HostKnowsTheTurn
=============================================================================
