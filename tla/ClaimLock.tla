------------------------------ MODULE ClaimLock ------------------------------
(***************************************************************************)
(* src/src/lib/process-claim-lock.js: the lock file that keeps two         *)
(* processes of one installation from writing the same state.              *)
(*                                                                         *)
(* An attempt to acquire (acquireLock) goes through two layers.  The claim *)
(* layer is a bakery: the attempt publishes a "choosing" file, takes a     *)
(* ticket above those it lists, publishes a "ticket" file and waits for    *)
(* the tickets before its own.  The status layer then publishes the fixed  *)
(* JSON file with link(2), after moving a dead holder's record aside.      *)
(*                                                                         *)
(* An attempt is named by its nonce.  One attempt per process: a process   *)
(* identity (PID and start time) is as unique as the nonce, so "the        *)
(* recorded process is alive" is pc # "crashed".  Every system call is a   *)
(* step of its own.  Waiting is a return to the scan; time is the action   *)
(* Tick.                                                                   *)
(***************************************************************************)
EXTENDS Naturals, FiniteSets

CONSTANTS
  Attempts,     \* nonces, numbers: localeCompare orders them
  Ghosts,       \* attempts of processes that died before the behaviour starts
  NoRecord,     \* stands for an absent file
  MaxTicket,    \* stands for Number.MAX_SAFE_INTEGER
  MayCrash,     \* the attempts whose process may die
  ProbeMayFail  \* the OS may refuse to identify a process

ASSUME ConstantsAssumption ==
  /\ Attempts \subseteq Nat
  /\ IsFiniteSet(Attempts)
  /\ Ghosts \subseteq Attempts
  /\ MayCrash \subseteq Attempts
  /\ NoRecord \notin Attempts
  /\ MaxTicket \in Nat \ {0}
  /\ ProbeMayFail \in BOOLEAN

VARIABLES
  dir,      \* the claim directory exists
  choosing, \* attempts with a choosing.* file
  tickets,  \* attempts with a ticket.* file
  num,      \* the ticket each attempt took, 0 before
  status,   \* the attempt the fixed JSON names, or NoRecord
  pc,       \* where each attempt is
  retried,  \* createClaim found the directory gone once
  names,    \* file names of the last readdir not looked up yet
  seen,     \* claims of the scan still to be judged
  top,      \* maxTicket, while a ticket is chosen
  patience, \* which of createClaim's deadlines is still running
  observed, \* the record publishCompatibilityStatus last read
  aside     \* the record in the attempt's own quarantine file, or NoRecord

files   == <<dir, choosing, tickets, status, aside>>
private == <<num, retried, names, seen, top, patience, observed>>
vars    == <<files, private, pc>>

Names == [phase : {"choosing", "ticket"}, of : Attempts]

Claimed == {"claimed", "classify", "confirm", "move", "moved", "restore",
            "publish", "verify"}
Places ==
  {"idle", "mkdir", "choosing", "counting", "ticketed", "list", "reading",
   "removed", "holding", "unverified", "withdraw", "withdrawn", "unlink",
   "rmdir", "done", "crashed"} \cup Claimed

-----------------------------------------------------------------------------

Goto(p, place) == pc' = [pc EXCEPT ![p] = place]

\* Mutation: an unknown process counts as a dead one.
UnknownIsDead(c) ==
  {IF pc[c] = "crashed" THEN "stale" ELSE "live"}
    \cup (IF ProbeMayFail THEN {"stale"} ELSE {})

\* probeClaim, classifyFixedHolder: what asking the OS about the process of
\* attempt c can answer.
Verdicts(c) ==
  {IF pc[c] = "crashed" THEN "stale" ELSE "live"}
    \cup (IF ProbeMayFail THEN {"uncertain"} ELSE {})

\* The claim files there are.
Listing == {n \in Names : IF n.phase = "choosing" THEN n.of \in choosing
                                                  ELSE n.of \in tickets}

\* compareTicket
Earlier(c, p) == num[c] < num[p] \/ (num[c] = num[p] /\ c < p)

\* unlink of a stale claim (removeStaleUniqueClaim)
RemoveClaim(n) ==
  IF n.phase = "choosing"
  THEN choosing' = choosing \ {n.of} /\ UNCHANGED tickets
  ELSE tickets' = tickets \ {n.of} /\ UNCHANGED choosing

-----------------------------------------------------------------------------
(* createClaim: the ticket *)

Begin(p) ==
  /\ pc[p] = "idle"
  /\ Goto(p, "mkdir")
  /\ dir' = TRUE
  /\ UNCHANGED <<choosing, tickets, status, aside, private>>

\* The directory may have been removed since it was made: once more, then
\* the attempt gives up.
PublishChoosing(p) ==
  /\ pc[p] = "mkdir"
  /\ \/ /\ dir
        /\ choosing' = choosing \cup {p}
        /\ Goto(p, "choosing")
        /\ UNCHANGED <<dir, retried>>
     \/ /\ ~dir
        /\ retried' = [retried EXCEPT ![p] = TRUE]
        /\ dir' = ~retried[p]
        /\ Goto(p, IF retried[p] THEN "done" ELSE "mkdir")
        /\ UNCHANGED choosing
  /\ UNCHANGED <<tickets, num, status, names, seen, top, patience, observed, aside>>

\* scanClaims' readdir; only the tickets matter here.
ListForTicket(p) ==
  /\ pc[p] = "choosing"
  /\ names' = [names EXCEPT ![p] = {n \in Listing : n.phase = "ticket"}]
  /\ seen' = [seen EXCEPT ![p] = {}]
  /\ top' = [top EXCEPT ![p] = 0]
  /\ Goto(p, "counting")
  /\ UNCHANGED <<files, num, retried, patience, observed>>

\* readClaim: a ticket that is gone by now is not counted.
CountTicket(p) ==
  /\ pc[p] = "counting"
  /\ \E n \in names[p] :
       /\ names' = [names EXCEPT ![p] = @ \ {n}]
       /\ top' = [top EXCEPT ![p] =
                    IF n \in Listing /\ num[n.of] > @ THEN num[n.of] ELSE @]
       /\ seen' = [seen EXCEPT ![p] = IF n \in Listing THEN @ \cup {n} ELSE @]
  /\ UNCHANGED <<files, num, retried, patience, observed, pc>>

\* Mutation: the ticket is taken without Number.isSafeInteger(maxTicket + 1).
TakeAnyTicket(p) ==
  /\ pc[p] = "counting"
  /\ names[p] = {}
  /\ num' = [num EXCEPT ![p] = top[p] + 1]
  /\ tickets' = tickets \cup {p}
  /\ seen' = [seen EXCEPT ![p] = {}]
  /\ Goto(p, "ticketed")
  /\ UNCHANGED <<dir, choosing, status, aside, retried, names, top, patience, observed>>

\* The ticket above all that were read, with its file.
TakeTicket(p) ==
  /\ pc[p] = "counting"
  /\ names[p] = {}
  /\ top[p] < MaxTicket
  /\ num' = [num EXCEPT ![p] = top[p] + 1]
  /\ tickets' = tickets \cup {p}
  /\ seen' = [seen EXCEPT ![p] = {}]
  /\ Goto(p, "ticketed")
  /\ UNCHANGED <<dir, choosing, status, aside, retried, names, top, patience, observed>>

\* No ticket is left above the maximum: a live owner of it is an answer, a
\* dead one is removed and the tickets are counted again.
Overflow(p) ==
  /\ pc[p] = "counting"
  /\ names[p] = {}
  /\ top[p] = MaxTicket
  /\ \E n \in seen[p] :
       /\ num[n.of] = MaxTicket
       /\ \E verdict \in Verdicts(n.of) :
            \/ /\ verdict = "stale"
               /\ RemoveClaim(n)
               /\ seen' = [seen EXCEPT ![p] = @ \ {n}]
               /\ Goto(p, IF \E m \in seen[p] \ {n} : num[m.of] = MaxTicket
                          THEN "counting" ELSE "choosing")
            \/ /\ verdict # "stale"
               /\ choosing' = choosing \ {p}
               /\ Goto(p, "rmdir")
               /\ UNCHANGED <<tickets, seen>>
  /\ UNCHANGED <<dir, status, aside, num, retried, names, top, patience, observed>>

DropChoosing(p) ==
  /\ pc[p] = "ticketed"
  /\ choosing' = choosing \ {p}
  /\ Goto(p, "list")
  /\ UNCHANGED <<dir, tickets, status, aside, private>>

-----------------------------------------------------------------------------
(* createClaim: the wait for the claims before one's own *)

List(p) ==
  /\ pc[p] = "list"
  /\ names' = [names EXCEPT ![p] = {n \in Listing : n.of # p}]
  /\ seen' = [seen EXCEPT ![p] = {}]
  /\ Goto(p, "reading")
  /\ UNCHANGED <<files, num, retried, top, patience, observed>>

\* readClaim: a claim that is gone by now is left out of the scan.  Of the
\* tickets only those before one's own are used.
ReadClaim(p) ==
  /\ pc[p] = "reading"
  /\ \E n \in names[p] :
       /\ names' = [names EXCEPT ![p] = @ \ {n}]
       /\ seen' = [seen EXCEPT ![p] =
                     IF n \in Listing /\ (n.phase = "ticket" => Earlier(n.of, p))
                     THEN @ \cup {n} ELSE @]
  /\ UNCHANGED <<files, num, retried, top, patience, observed, pc>>

Scanned(p) == pc[p] \in {"reading", "removed"} /\ names[p] = {}

ChoosingSeen(p) == {n \in seen[p] : n.phase = "choosing"}

\* A claim that was seen and is gone on the second look is passed over.
PassOver(p) ==
  /\ Scanned(p)
  /\ \E n \in seen[p] :
       /\ n.phase = "choosing" => patience[p] # "choosing"
       /\ n.phase = "ticket" => ChoosingSeen(p) = {}
       /\ n \notin Listing
       /\ seen' = [seen EXCEPT ![p] = @ \ {n}]
  /\ UNCHANGED <<files, num, retried, names, top, patience, observed, pc>>

\* Another attempt is choosing, or holds a ticket before one's own, and the
\* deadline for it has not passed: sleep and scan again.
WaitAndRescan(p) ==
  /\ pc[p] = "reading"
  /\ names[p] = {}
  /\ \/ patience[p] = "choosing" /\ ChoosingSeen(p) # {}
     \/ patience[p] # "none" /\ ChoosingSeen(p) = {} /\ seen[p] \cap Listing # {}
  /\ Goto(p, "list")
  /\ UNCHANGED <<files, private>>

\* liveOrStaleClaim once the deadline has passed.
Judge(p) ==
  /\ Scanned(p)
  /\ \E n \in seen[p] \cap Listing :
       /\ \/ n.phase = "choosing" /\ patience[p] # "choosing"
          \/ n.phase = "ticket" /\ patience[p] = "none" /\ ChoosingSeen(p) = {}
       /\ \E verdict \in Verdicts(n.of) :
            \/ /\ verdict = "stale"
               /\ RemoveClaim(n)
               /\ seen' = [seen EXCEPT ![p] = @ \ {n}]
               /\ Goto(p, IF n.phase = "ticket" THEN "removed" ELSE pc[p])
            \/ /\ verdict # "stale"
               /\ Goto(p, "unlink")
               /\ UNCHANGED <<choosing, tickets, seen>>
  /\ UNCHANGED <<dir, status, aside, num, retried, names, top, patience, observed>>

\* Every claim of the scan is judged: after a removal the scan is repeated,
\* otherwise the claim is acquired.
Claim(p) ==
  /\ Scanned(p)
  /\ seen[p] = {}
  /\ Goto(p, IF pc[p] = "removed" THEN "list" ELSE "claimed")
  /\ UNCHANGED <<files, private>>

\* Time passes: first the deadline for choosing claims, later the one for
\* earlier tickets.
Tick(p) ==
  /\ pc[p] \in {"list", "reading", "removed"}
  /\ patience[p] # "none"
  /\ patience' = [patience EXCEPT ![p] = IF @ = "choosing" THEN "tickets" ELSE "none"]
  /\ UNCHANGED <<files, num, retried, names, seen, top, observed, pc>>

-----------------------------------------------------------------------------
(* publishCompatibilityStatus *)

\* inspectCompatibilityPath reads the fixed file.
Observe(p) ==
  /\ pc[p] = "claimed"
  /\ observed' = [observed EXCEPT ![p] = status]
  /\ Goto(p, IF status = NoRecord THEN "publish" ELSE "classify")
  /\ UNCHANGED <<files, num, retried, names, seen, top, patience>>

\* Mutation: a lock file that exists is a lock that is held.
ClassifyByExistence(p) ==
  /\ pc[p] = "classify"
  /\ Goto(p, "unlink")
  /\ UNCHANGED <<files, private>>

\* A live or unknown holder is an answer.
Classify(p) ==
  /\ pc[p] = "classify"
  /\ \E verdict \in Verdicts(observed[p]) :
       Goto(p, IF verdict = "stale" THEN "confirm" ELSE "unlink")
  /\ UNCHANGED <<files, private>>

\* quarantineStaleGeneration reads the file again ...
Confirm(p) ==
  /\ pc[p] = "confirm"
  /\ Goto(p, IF status = observed[p] THEN "move" ELSE "claimed")
  /\ UNCHANGED <<files, private>>

\* ... and renames whatever is there by then to its quarantine name.
Move(p) ==
  /\ pc[p] = "move"
  /\ aside' = [aside EXCEPT ![p] = status]
  /\ status' = NoRecord
  /\ Goto(p, IF status = NoRecord THEN "claimed" ELSE "moved")
  /\ UNCHANGED <<dir, choosing, tickets, private>>

\* Mutation: the moved record is not compared with the one observed.
CheckMovedBlindly(p) ==
  /\ pc[p] = "moved"
  /\ aside' = [aside EXCEPT ![p] = NoRecord]
  /\ Goto(p, "publish")
  /\ UNCHANGED <<dir, choosing, tickets, status, private>>

\* The moved record is compared and classified again.
CheckMoved(p) ==
  /\ pc[p] = "moved"
  /\ \E verdict \in Verdicts(aside[p]) :
       IF aside[p] = observed[p] /\ verdict = "stale"
       THEN /\ aside' = [aside EXCEPT ![p] = NoRecord]
            /\ Goto(p, "publish")
       ELSE /\ Goto(p, "restore")
            /\ UNCHANGED aside
  /\ UNCHANGED <<dir, choosing, tickets, status, private>>

\* restoreQuarantine: rename(2) replaces what is at the fixed name.
Restore(p) ==
  /\ pc[p] = "restore"
  /\ status' = aside[p]
  /\ aside' = [aside EXCEPT ![p] = NoRecord]
  /\ Goto(p, "unlink")
  /\ UNCHANGED <<dir, choosing, tickets, private>>

\* Mutation: writeFile or rename instead of link(2).
PublishOver(p) ==
  /\ pc[p] = "publish"
  /\ status' = p
  /\ Goto(p, "verify")
  /\ UNCHANGED <<dir, choosing, tickets, aside, private>>

\* publishCompleteStatusExclusive: link(2) fails when the name exists.
Publish(p) ==
  /\ pc[p] = "publish"
  /\ \/ status = NoRecord /\ status' = p /\ Goto(p, "verify")
     \/ status # NoRecord /\ UNCHANGED status /\ Goto(p, "claimed")
  /\ UNCHANGED <<dir, choosing, tickets, aside, private>>

Verify(p) ==
  /\ pc[p] = "verify"
  /\ Goto(p, IF status = p THEN "holding" ELSE "unverified")
  /\ UNCHANGED <<files, private>>

\* After a failed verification a record of one's own is still withdrawn.
\* releaseLock starts with the same read.
ReadOwnStatus(p) ==
  /\ pc[p] \in {"unverified", "holding"}
  /\ Goto(p, IF status = p THEN "withdraw" ELSE "unlink")
  /\ UNCHANGED <<files, private>>

\* removeOwnedStatus: rename, compare, unlink or rename back.
Withdraw(p) ==
  /\ pc[p] = "withdraw"
  /\ aside' = [aside EXCEPT ![p] = status]
  /\ status' = NoRecord
  /\ Goto(p, IF status = NoRecord THEN "unlink" ELSE "withdrawn")
  /\ UNCHANGED <<dir, choosing, tickets, private>>

CheckWithdrawn(p) ==
  /\ pc[p] = "withdrawn"
  /\ \/ /\ aside[p] = p
        /\ aside' = [aside EXCEPT ![p] = NoRecord]
        /\ Goto(p, "unlink")
     \/ /\ aside[p] # p
        /\ Goto(p, "restore")
        /\ UNCHANGED aside
  /\ UNCHANGED <<dir, choosing, tickets, status, private>>

\* Release and every failure end with the ticket unlinked and the directory
\* removed if that left it empty.
Unlink(p) ==
  /\ pc[p] = "unlink"
  /\ tickets' = tickets \ {p}
  /\ Goto(p, "rmdir")
  /\ UNCHANGED <<dir, choosing, status, aside, private>>

RemoveDirectory(p) ==
  /\ pc[p] = "rmdir"
  /\ dir' = (Listing # {})
  /\ Goto(p, "done")
  /\ UNCHANGED <<choosing, tickets, status, aside, private>>

-----------------------------------------------------------------------------

\* The process of an attempt dies; its files stay.
Crash(p) ==
  /\ p \in MayCrash
  /\ pc[p] \notin {"idle", "done", "crashed"}
  /\ Goto(p, "crashed")
  /\ UNCHANGED <<files, private>>

\* What ghosts left behind: choosing claims, tickets, and the record of one of
\* them (its ticket may have been removed as stale by another ghost).
Init ==
  /\ choosing \in SUBSET Ghosts
  /\ tickets \in SUBSET Ghosts
  /\ num = [p \in Attempts |-> IF p \in tickets THEN 1 ELSE 0]
  /\ status \in Ghosts \cup {NoRecord}
  /\ dir = (choosing \cup tickets # {})
  /\ pc = [p \in Attempts |-> IF p \in Ghosts THEN "crashed" ELSE "idle"]
  /\ retried  = [p \in Attempts |-> FALSE]
  /\ names    = [p \in Attempts |-> {}]
  /\ seen     = [p \in Attempts |-> {}]
  /\ top      = [p \in Attempts |-> 0]
  /\ patience = [p \in Attempts |-> "choosing"]
  /\ observed = [p \in Attempts |-> NoRecord]
  /\ aside    = [p \in Attempts |-> NoRecord]

\* What the code of an attempt does next, the release of a held lock apart.
Proceed(p) ==
  \/ PublishChoosing(p) \/ ListForTicket(p) \/ CountTicket(p) \/ TakeTicket(p)
  \/ Overflow(p) \/ DropChoosing(p) \/ List(p) \/ ReadClaim(p) \/ PassOver(p)
  \/ WaitAndRescan(p) \/ Judge(p) \/ Claim(p)
  \/ Observe(p) \/ Classify(p) \/ Confirm(p) \/ Move(p) \/ CheckMoved(p)
  \/ Restore(p) \/ Publish(p) \/ Verify(p)
  \/ (pc[p] = "unverified" /\ ReadOwnStatus(p))
  \/ Withdraw(p) \/ CheckWithdrawn(p) \/ Unlink(p) \/ RemoveDirectory(p)

Release(p) == pc[p] = "holding" /\ ReadOwnStatus(p)

Next == \E p \in Attempts :
  Begin(p) \/ Proceed(p) \/ Release(p) \/ Tick(p) \/ Crash(p)

Spec == Init /\ [][Next]_vars

-----------------------------------------------------------------------------
(* Properties *)

\* Every variable has its type.
TypeOK ==
  /\ dir \in BOOLEAN
  /\ choosing \subseteq Attempts /\ tickets \subseteq Attempts
  /\ num \in [Attempts -> 0 .. MaxTicket]
  /\ status \in Attempts \cup {NoRecord}
  /\ pc \in [Attempts -> Places]
  /\ retried \in [Attempts -> BOOLEAN]
  /\ names \in [Attempts -> SUBSET Names]
  /\ seen \in [Attempts -> SUBSET Names]
  /\ top \in [Attempts -> 0 .. MaxTicket]
  /\ patience \in [Attempts -> {"choosing", "tickets", "none"}]
  /\ observed \in [Attempts -> Attempts \cup {NoRecord}]
  /\ aside \in [Attempts -> Attempts \cup {NoRecord}]

\* acquireLock's promise: no two live processes hold the lock.
MutualExclusion ==
  \A p, q \in Attempts : pc[p] = "holding" /\ pc[q] = "holding" => p = q

\* "Stale cleanup cannot delete a replacement generation": while a process
\* lives, only its own steps remove its claims.
LiveClaimsKept ==
  [][\A p \in Attempts :
       p \in (choosing \ choosing') \cup (tickets \ tickets')
       => pc[p] = "crashed" \/ pc'[p] # pc[p]]_vars

\* The holder's record is never lost: it is at the fixed name, or on its way
\* back from the quarantine of an attempt that mistook it for a dead one's.
HolderRecordKept ==
  \A p \in Attempts : pc[p] = "holding" =>
    status = p \/ \E q \in Attempts : aside[q] = p

\* Every attempt ends, with the lock or with an error, and one that starts when
\* every other process is dead gets the lock, whatever the dead left behind.
AttemptsEnd ==
  \A p \in Attempts \ Ghosts :
    /\ (pc[p] = "mkdir") ~> (pc[p] \in {"holding", "done", "crashed"})
    /\ (pc[p] = "mkdir" /\ \A q \in Attempts \ {p} : pc[q] \in {"crashed", "idle"})
         ~> (pc[p] \in {"holding", "crashed"} \/ \E q \in Attempts \ {p} : pc[q] \notin {"crashed", "idle"})
=============================================================================
