-------------------------- MODULE EventBackpressure --------------------------
(***************************************************************************)
(* The boundary between a provider's stream and the host's listeners         *)
(* (src/src/lib/agent-engine/event-backpressure.js).  Events are accepted in *)
(* the order of the stream and handed to the listeners one at a time; while   *)
(* a listener's promise is open, the source is paused.                        *)
(*                                                                          *)
(* The code runs on one thread, but its callers re-enter it: a listener, and  *)
(* the hook that resumes the source, may emit events, hold or release the     *)
(* source and close the boundary before they return.  "pump" is the place     *)
(* where the pump stands while the others act.                                *)
(***************************************************************************)
EXTENDS Naturals, Sequences

CONSTANTS
  MaxEvents, MaxHolds     \* bounds: the events of the stream, the holds at a time

\* What is assumed of the constants.
BackpressureConstants == MaxEvents \in Nat /\ MaxHolds \in Nat

VARIABLES
  accepted,   \* the number of events accepted; they are named 1, 2, ...
  queue,      \* accepted events that no listener has seen
  active,     \* the event the listeners are at, or 0
  handled,    \* events the listeners are done with
  pump,       \* "off", "dispatch", "wait", "resume" (in the loop), "resumeLast"
  paused, holds,
  closing, closed, failure

backpressureVars == <<accepted, queue, active, handled, pump, paused, holds, closing, closed, failure>>

BackpressureInit ==
  /\ accepted = 0 /\ queue = <<>> /\ active = 0 /\ handled = <<>>
  /\ pump = "off"
  /\ paused = FALSE /\ holds = 0
  /\ closing = FALSE /\ closed = FALSE /\ failure = FALSE

Pumping == pump \in {"dispatch", "wait", "resume"}

-----------------------------------------------------------------------------
(* The pump *)

Dispatch(q) == pump' = "dispatch" /\ active' = Head(q) /\ queue' = Tail(q)

\* The end of the pump: what was closing is closed, and the source resumes,
\* whose hook runs when the pump is off already.
Finish ==
  /\ closing' = FALSE
  /\ closed' = closing
  /\ IF paused /\ holds = 0 THEN paused' = FALSE /\ pump' = "resumeLast"
                            ELSE pump' = "off" /\ UNCHANGED paused
  /\ active' = 0
  /\ UNCHANGED <<queue, failure>>

\* The head of the loop, after an event is done with.
Continue ==
  IF queue # <<>> THEN Dispatch(queue) /\ UNCHANGED <<paused, closing, closed, failure>>
  ELSE IF paused /\ holds = 0
  THEN /\ paused' = FALSE /\ pump' = "resume" /\ active' = 0
       /\ UNCHANGED <<queue, closing, closed, failure>>
  ELSE Finish

\* Every listener returned; none gave a promise.
ListenersReturn ==
  /\ pump = "dispatch"
  /\ handled' = Append(handled, active)
  /\ Continue
  /\ UNCHANGED <<accepted, holds>>

\* A listener gave a promise: the source pauses until it settles.
ListenerPromises ==
  /\ pump = "dispatch"
  /\ pump' = "wait"
  /\ paused' = TRUE
  /\ UNCHANGED <<accepted, queue, active, handled, holds, closing, closed, failure>>

PromiseResolves ==
  /\ pump = "wait"
  /\ handled' = Append(handled, active)
  /\ Continue
  /\ UNCHANGED <<accepted, holds>>

\* The pump stops for good, with the source paused and the queue retained.
PromiseRejects ==
  /\ pump = "wait"
  /\ failure' = TRUE
  /\ pump' = "off"
  /\ UNCHANGED <<accepted, queue, active, handled, paused, holds, closing, closed>>

\* Mutation: the pump ends after the hook, whatever came in meanwhile.
ResumeEnds ==
  /\ pump = "resume"
  /\ Finish
  /\ UNCHANGED <<accepted, handled, holds>>

\* The resume hook of the loop returns; it may have left events in the queue.
ResumeReturns ==
  /\ pump = "resume"
  /\ IF queue # <<>> THEN Dispatch(queue) /\ UNCHANGED <<paused, closing, closed, failure>> ELSE Finish
  /\ UNCHANGED <<accepted, handled, holds>>

LastResumeReturns ==
  /\ pump = "resumeLast"
  /\ pump' = "off"
  /\ UNCHANGED <<accepted, queue, active, handled, paused, holds, closing, closed, failure>>

-----------------------------------------------------------------------------
(* The callers *)

\* emit; an event emitted after a failure, or after the close, is not accepted.
Emit ==
  /\ ~failure /\ ~closed
  /\ accepted < MaxEvents
  /\ accepted' = accepted + 1
  /\ IF Pumping THEN queue' = Append(queue, accepted') /\ UNCHANGED <<active, pump>>
                ELSE Dispatch(Append(queue, accepted'))
  /\ UNCHANGED <<handled, paused, holds, closing, closed, failure>>

\* hold
HoldSource ==
  /\ ~closed
  /\ holds < MaxHolds
  /\ holds' = holds + 1
  /\ paused' = TRUE
  /\ UNCHANGED <<accepted, queue, active, handled, pump, closing, closed, failure>>

\* Mutation: a release resumes the source whatever the pump does.
ReleaseAtOnce ==
  /\ holds > 0
  /\ holds' = holds - 1
  /\ paused' = (paused /\ holds' # 0)
  /\ UNCHANGED <<accepted, queue, active, handled, pump, closing, closed, failure>>

\* what hold returned, called for the first time
ReleaseSource ==
  /\ holds > 0
  /\ holds' = holds - 1
  /\ paused' = (paused /\ ~(holds' = 0 /\ ~Pumping /\ queue = <<>> /\ ~failure /\ ~closed))
  /\ UNCHANGED <<accepted, queue, active, handled, pump, closing, closed, failure>>

\* close
Close ==
  /\ ~closed
  /\ IF failure THEN closed' = TRUE /\ closing' = FALSE /\ UNCHANGED paused
     ELSE IF ~Pumping
     THEN closed' = TRUE /\ closing' = FALSE /\ paused' = (paused /\ holds > 0)
     ELSE closing' = TRUE /\ UNCHANGED <<closed, paused>>
  /\ UNCHANGED <<accepted, queue, active, handled, pump, holds, failure>>

Settle == ListenersReturn \/ ListenerPromises \/ PromiseResolves \/ PromiseRejects

BackpressureNext ==
  \/ Settle \/ ResumeReturns \/ LastResumeReturns
  \/ Emit \/ HoldSource \/ ReleaseSource \/ Close

\* Listeners and hooks return, and their promises settle.
BackpressureFairness == WF_backpressureVars(ListenersReturn \/ ListenerPromises) /\ WF_backpressureVars(PromiseResolves \/ PromiseRejects)
            /\ WF_backpressureVars(ResumeReturns \/ LastResumeReturns)

BackpressureSpec == BackpressureInit /\ [][BackpressureNext]_backpressureVars /\ BackpressureFairness

-----------------------------------------------------------------------------
(* Properties *)

BackpressureTypeOK ==
  /\ accepted \in 0..MaxEvents
  /\ queue \in Seq(1..MaxEvents)
  /\ active \in 0..MaxEvents
  /\ handled \in Seq(1..MaxEvents)
  /\ pump \in {"off", "dispatch", "wait", "resume", "resumeLast"}
  /\ paused \in BOOLEAN
  /\ holds \in 0..MaxHolds
  /\ closing \in BOOLEAN /\ closed \in BOOLEAN /\ failure \in BOOLEAN

\* The events the listeners had, have and will have are the accepted ones, in
\* the order of the stream: re-entrant calls lose none and let none overtake
\* another.
InOrder ==
  LET here == IF active = 0 THEN <<>> ELSE <<active>>
  IN handled \o here \o queue = [i \in 1..accepted |-> i]

\* The source is paused while a promise is open and after a failure, which
\* keeps the events behind it; and nobody is left to resume a source that is
\* paused although no event waits, nothing holds it and the boundary is open.
SourceControlled ==
  /\ pump = "wait" \/ failure => paused
  /\ failure => active # 0 /\ ~Pumping
  /\ paused => Pumping \/ holds > 0 \/ failure \/ closed
  /\ ~Pumping /\ ~failure => queue = <<>> /\ active = 0

\* Whatever its callers do while it waits, the boundary hands on every event
\* once and in order, and never leaves the source paused for nothing.
EventsInOrder == InOrder /\ SourceControlled

\* Unless a listener rejects, what was accepted is handled.
EventsHandled == <>[](failure \/ Len(handled) = accepted)
=============================================================================
