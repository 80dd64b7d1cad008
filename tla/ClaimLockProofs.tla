--------------------------- MODULE ClaimLockProofs ---------------------------
(***************************************************************************)
(* Proofs about ClaimLock, for any tickets, dead leftovers and deaths.     *)
(*                                                                         *)
(* TypeOK and LiveClaimsKept hold for any number of attempts.              *)
(*                                                                         *)
(* The tickets do not exclude (claim_three), so mutual exclusion is what   *)
(* the fixed file gives: for two processes that live, whatever the dead    *)
(* left behind (TwoExclude), and for any number of them while nobody has   *)
(* died (NobodyDead).  TwoInv says what the other attempt is at while one  *)
(* holds: it gave up, or it finds the holder's record, or it has it in its *)
(* hands and is about to compare it.                                       *)
(*                                                                         *)
(* RecordInv says in addition where the holder's record is, while the OS   *)
(* identifies every process: only one dead record was ever there, so what  *)
(* an attempt moves aside is the record it observed or a live attempt's.   *)
(***************************************************************************)
EXTENDS MCClaimLock, FiniteSetTheorems, TLAPS

Live == Attempts \ Ghosts

AtMostTwo == \A p, q, r \in Live : p = q \/ p = r \/ q = r

\* The places of the claim layer.
Early == {"idle", "mkdir", "choosing", "counting", "ticketed", "list", "reading", "removed"}

\* The places from which the lock is not reached any more.
Over ==
  {"unverified", "withdraw", "withdrawn", "restore", "unlink", "rmdir", "done", "crashed"}

-----------------------------------------------------------------------------
(* Types *)

LEMMA InitTyped == Init => TypeOK
BY ConstantsAssumption DEF Init, TypeOK, Places, Claimed, Names

LEMMA ListingTyped == Listing \subseteq Names
BY DEF Listing

\* What a step of an attempt does to the types, claim layer first.
LEMMA ClaimLayerTyped ==
  ASSUME TypeOK, NEW p \in Attempts,
         \/ Begin(p) \/ PublishChoosing(p) \/ ListForTicket(p) \/ CountTicket(p) \/ TakeTicket(p)
         \/ Overflow(p) \/ DropChoosing(p)
  PROVE  TypeOK'
<1> USE ConstantsAssumption, ListingTyped DEF TypeOK, files, private, Goto
<1>1. CASE Begin(p)
  BY <1>1 DEF Begin, Places
<1>2. CASE PublishChoosing(p)
  BY <1>2 DEF PublishChoosing, Places
<1>3. CASE ListForTicket(p)
  BY <1>3 DEF ListForTicket, Places
<1>4. CASE CountTicket(p)
  <2>1. PICK n \in names[p] :
          /\ names' = [names EXCEPT ![p] = @ \ {n}]
          /\ top' = [top EXCEPT ![p] = IF n \in Listing /\ num[n.of] > @ THEN num[n.of] ELSE @]
          /\ seen' = [seen EXCEPT ![p] = IF n \in Listing THEN @ \cup {n} ELSE @]
    BY <1>4 DEF CountTicket
  <2>2. n \in Names /\ n.of \in Attempts
    BY <2>1 DEF Names
  <2>3. num[n.of] \in 0 .. MaxTicket
    BY <2>2
  <2>4. UNCHANGED <<dir, choosing, tickets, status, aside, num, retried, patience, observed, pc>>
    BY <1>4 DEF CountTicket
  <2> QED
    BY <2>1, <2>2, <2>3, <2>4
<1>5. CASE TakeTicket(p)
  BY <1>5 DEF TakeTicket, Places
<1>6. CASE Overflow(p)
  <2>1. UNCHANGED <<dir, status, aside, num, retried, names, top, patience, observed>>
    BY <1>6 DEF Overflow
  <2>2. choosing' \subseteq choosing /\ tickets' \subseteq tickets
    BY <1>6 DEF Overflow, RemoveClaim
  <2>3. pc' \in [Attempts -> Places]
    BY <1>6 DEF Overflow, Places
  <2>4. seen' \in [Attempts -> SUBSET Names]
    BY <1>6 DEF Overflow
  <2> QED
    BY <2>1, <2>2, <2>3, <2>4
<1>7. CASE DropChoosing(p)
  BY <1>7 DEF DropChoosing, Places
<1> QED
  BY <1>1, <1>2, <1>3, <1>4, <1>5, <1>6, <1>7

LEMMA WaitTyped ==
  ASSUME TypeOK, NEW p \in Attempts,
         \/ List(p) \/ ReadClaim(p) \/ PassOver(p) \/ WaitAndRescan(p) \/ Judge(p) \/ Claim(p)
         \/ Tick(p)
  PROVE  TypeOK'
<1> USE ConstantsAssumption, ListingTyped DEF TypeOK, files, private, Goto
<1>1. CASE List(p)
  BY <1>1 DEF List, Places
<1>2. CASE ReadClaim(p)
  BY <1>2 DEF ReadClaim, Names
<1>3. CASE PassOver(p)
  BY <1>3 DEF PassOver
<1>4. CASE WaitAndRescan(p)
  BY <1>4 DEF WaitAndRescan, Places
<1>5. CASE Judge(p)
  <2>1. UNCHANGED <<dir, status, aside, num, retried, names, top, patience, observed>>
    BY <1>5 DEF Judge
  <2>2. choosing' \subseteq choosing /\ tickets' \subseteq tickets
    BY <1>5, ZenonT(60) DEF Judge, RemoveClaim
  <2>3. pc' \in [Attempts -> Places]
    BY <1>5 DEF Judge, Places
  <2>4. seen' \in [Attempts -> SUBSET Names]
    BY <1>5 DEF Judge
  <2> QED
    BY <2>1, <2>2, <2>3, <2>4
<1>6. CASE Claim(p)
  BY <1>6 DEF Claim, Places, Claimed
<1>7. CASE Tick(p)
  BY <1>7 DEF Tick
<1> QED
  BY <1>1, <1>2, <1>3, <1>4, <1>5, <1>6, <1>7

LEMMA StatusLayerTyped ==
  ASSUME TypeOK, NEW p \in Attempts,
         \/ Observe(p) \/ Classify(p) \/ Confirm(p) \/ Move(p) \/ CheckMoved(p) \/ Restore(p)
         \/ Publish(p) \/ Verify(p) \/ ReadOwnStatus(p) \/ Withdraw(p) \/ CheckWithdrawn(p)
         \/ Unlink(p) \/ RemoveDirectory(p) \/ Crash(p)
  PROVE  TypeOK'
<1> USE ConstantsAssumption DEF TypeOK, files, private, Goto, Places, Claimed
<1>1. CASE Observe(p)
  BY <1>1 DEF Observe
<1>2. CASE Classify(p)
  BY <1>2 DEF Classify
<1>3. CASE Confirm(p)
  BY <1>3 DEF Confirm
<1>4. CASE Move(p)
  BY <1>4 DEF Move
<1>5. CASE CheckMoved(p)
  BY <1>5 DEF CheckMoved
<1>6. CASE Restore(p)
  BY <1>6 DEF Restore
<1>7. CASE Publish(p)
  BY <1>7 DEF Publish
<1>8. CASE Verify(p)
  BY <1>8 DEF Verify
<1>9. CASE ReadOwnStatus(p)
  BY <1>9 DEF ReadOwnStatus
<1>10. CASE Withdraw(p)
  BY <1>10 DEF Withdraw
<1>11. CASE CheckWithdrawn(p)
  BY <1>11 DEF CheckWithdrawn
<1>12. CASE Unlink(p)
  BY <1>12 DEF Unlink
<1>13. CASE RemoveDirectory(p)
  BY <1>13 DEF RemoveDirectory
<1>14. CASE Crash(p)
  BY <1>14 DEF Crash
<1> QED
  BY <1>1, <1>2, <1>3, <1>4, <1>5, <1>6, <1>7, <1>8, <1>9, <1>10, <1>11, <1>12, <1>13, <1>14

\* A step is one attempt's, in the claim layer or in the status layer.
LEMMA StepOf ==
  ASSUME Next
  PROVE  \E p \in Attempts :
           \/ Begin(p) \/ PublishChoosing(p) \/ ListForTicket(p) \/ CountTicket(p) \/ TakeTicket(p)
           \/ Overflow(p) \/ DropChoosing(p)
           \/ List(p) \/ ReadClaim(p) \/ PassOver(p) \/ WaitAndRescan(p) \/ Judge(p) \/ Claim(p)
           \/ Tick(p)
           \/ Observe(p) \/ Classify(p) \/ Confirm(p) \/ Move(p) \/ CheckMoved(p) \/ Restore(p)
           \/ Publish(p) \/ Verify(p) \/ ReadOwnStatus(p) \/ Withdraw(p) \/ CheckWithdrawn(p)
           \/ Unlink(p) \/ RemoveDirectory(p) \/ Crash(p)
BY Zenon DEF Next, Proceed, Release

LEMMA TypesStep == TypeOK /\ [Next]_vars => TypeOK'
<1> SUFFICES ASSUME TypeOK, [Next]_vars PROVE TypeOK'
  OBVIOUS
<1>1. CASE UNCHANGED vars
  BY <1>1 DEF vars, files, private, TypeOK
<1>2. CASE Next
  BY <1>2, StepOf, ClaimLayerTyped, WaitTyped, StatusLayerTyped
<1> QED
  BY <1>1, <1>2

\* Every variable has its type.
THEOREM Types == Spec => []TypeOK
<1> QED
  BY InitTyped, TypesStep, PTL DEF Spec
-----------------------------------------------------------------------------
(* Claims *)

LEMMA StaleIsDead ==
  ASSUME NEW c, "stale" \in Verdicts(c)
  PROVE  pc[c] = "crashed"
BY DEF Verdicts

LEMMA RemovedOne ==
  ASSUME NEW n \in Names, RemoveClaim(n), NEW q \in (choosing \ choosing') \cup (tickets \ tickets')
  PROVE  q = n.of
BY DEF RemoveClaim

\* What leaves the claims is a dead attempt's, or that of the attempt that steps.
LEMMA ClaimsLeave ==
  ASSUME TypeOK, Next, NEW q \in (choosing \ choosing') \cup (tickets \ tickets')
  PROVE  pc[q] = "crashed" \/ pc'[q] # pc[q]
<1> USE DEF files, private
<1>0. PICK p \in Attempts :
        \/ Begin(p) \/ PublishChoosing(p) \/ ListForTicket(p) \/ CountTicket(p) \/ TakeTicket(p)
        \/ Overflow(p) \/ DropChoosing(p)
        \/ List(p) \/ ReadClaim(p) \/ PassOver(p) \/ WaitAndRescan(p) \/ Judge(p) \/ Claim(p)
        \/ Tick(p)
        \/ Observe(p) \/ Classify(p) \/ Confirm(p) \/ Move(p) \/ CheckMoved(p) \/ Restore(p)
        \/ Publish(p) \/ Verify(p) \/ ReadOwnStatus(p) \/ Withdraw(p) \/ CheckWithdrawn(p)
        \/ Unlink(p) \/ RemoveDirectory(p) \/ Crash(p)
  BY StepOf
<1>1. ASSUME NEW n \in seen[p], "stale" \in Verdicts(n.of), RemoveClaim(n)
      PROVE  pc[q] = "crashed"
  BY <1>1, RemovedOne, StaleIsDead DEF TypeOK
<1>2. CASE Overflow(p)
  <2>1. PICK n \in seen[p] :
          \E verdict \in Verdicts(n.of) :
            \/ verdict = "stale" /\ RemoveClaim(n)
            \/ choosing' = choosing \ {p} /\ Goto(p, "rmdir") /\ UNCHANGED tickets
    BY <1>2, Zenon DEF Overflow
  <2>2. CASE choosing' = choosing \ {p} /\ Goto(p, "rmdir") /\ UNCHANGED tickets
    BY <1>2, <2>2 DEF Overflow, Goto, TypeOK
  <2> QED
    BY <1>1, <2>1, <2>2
<1>3. CASE Judge(p)
  <2>1. PICK n \in seen[p] \cap Listing :
          \E verdict \in Verdicts(n.of) :
            (verdict = "stale" /\ RemoveClaim(n)) \/ UNCHANGED <<choosing, tickets>>
    BY <1>3, Zenon DEF Judge
  <2> QED
    BY <1>1, <2>1
<1>4. CASE DropChoosing(p)
  BY <1>4 DEF DropChoosing, Goto, TypeOK
<1>5. CASE Unlink(p)
  BY <1>5 DEF Unlink, Goto, TypeOK
<1>6. CASE PublishChoosing(p) \/ TakeTicket(p)
  BY <1>6 DEF PublishChoosing, TakeTicket
<1>7. CASE \/ Begin(p) \/ ListForTicket(p) \/ CountTicket(p) \/ List(p) \/ ReadClaim(p)
           \/ PassOver(p) \/ WaitAndRescan(p) \/ Claim(p) \/ Tick(p)
  BY <1>7 DEF Begin, ListForTicket, CountTicket, List, ReadClaim, PassOver, WaitAndRescan,
              Claim, Tick
<1>8. CASE \/ Observe(p) \/ Classify(p) \/ Confirm(p) \/ Move(p) \/ CheckMoved(p) \/ Restore(p)
           \/ Publish(p) \/ Verify(p) \/ ReadOwnStatus(p) \/ Withdraw(p) \/ CheckWithdrawn(p)
           \/ RemoveDirectory(p) \/ Crash(p)
  BY <1>8 DEF Observe, Classify, Confirm, Move, CheckMoved, Restore, Publish, Verify,
              ReadOwnStatus, Withdraw, CheckWithdrawn, RemoveDirectory, Crash
<1> QED
  BY <1>0, <1>2, <1>3, <1>4, <1>5, <1>6, <1>7, <1>8

\* While a process lives, only its own steps remove its claims, whatever the
\* others list, judge and unlink.
THEOREM KeepsLiveClaims == Spec => LiveClaimsKept
<1>1. ASSUME TypeOK, [Next]_vars
      PROVE  [\A p \in Attempts :
                p \in (choosing \ choosing') \cup (tickets \ tickets')
                => pc[p] = "crashed" \/ pc'[p] # pc[p]]_vars
  BY <1>1, ClaimsLeave, Zenon
<1> QED
  BY <1>1, Types, PTL DEF Spec, LiveClaimsKept
-----------------------------------------------------------------------------
(* The two layers of a step *)

\* A step of the claim layer leaves the fixed file alone.
ClaimStep(s) ==
  /\ UNCHANGED <<status, aside, observed>>
  /\ pc[s] \in Early
  /\ pc'[s] \in Early \cup {"claimed", "unlink", "rmdir", "done"}

\* So do a death, and the steps after the lock file.
LastStep(s) ==
  /\ UNCHANGED <<status, aside, observed>>
  /\ pc[s] # "crashed"
  /\ \/ pc[s] = "unlink" /\ pc'[s] = "rmdir"
     \/ pc[s] = "rmdir" /\ pc'[s] = "done"
     \/ pc'[s] = "crashed"

StatusStep(s) ==
  \/ Observe(s) \/ Classify(s) \/ Confirm(s) \/ Move(s) \/ CheckMoved(s) \/ Restore(s)
  \/ Publish(s) \/ Verify(s) \/ ReadOwnStatus(s) \/ Withdraw(s) \/ CheckWithdrawn(s)

LEMMA ClaimLayer ==
  ASSUME TypeOK, NEW s \in Attempts,
         \/ Begin(s) \/ PublishChoosing(s) \/ ListForTicket(s) \/ CountTicket(s) \/ TakeTicket(s)
         \/ Overflow(s) \/ DropChoosing(s)
         \/ List(s) \/ ReadClaim(s) \/ PassOver(s) \/ WaitAndRescan(s) \/ Judge(s) \/ Claim(s)
         \/ Tick(s)
  PROVE  ClaimStep(s) /\ pc' = [pc EXCEPT ![s] = pc'[s]]
<1> USE DEF TypeOK, ClaimStep, Early, Goto, files, private
<1>1. CASE Begin(s) \/ PublishChoosing(s) \/ ListForTicket(s) \/ CountTicket(s) \/ TakeTicket(s)
  BY <1>1 DEF Begin, PublishChoosing, ListForTicket, CountTicket, TakeTicket
<1>2. CASE Overflow(s)
  BY <1>2 DEF Overflow
<1>3. CASE Judge(s)
  BY <1>3 DEF Judge, Scanned
<1>4. CASE DropChoosing(s) \/ List(s) \/ ReadClaim(s) \/ WaitAndRescan(s) \/ Tick(s)
  BY <1>4 DEF DropChoosing, List, ReadClaim, WaitAndRescan, Tick
<1>5. CASE PassOver(s) \/ Claim(s)
  BY <1>5 DEF PassOver, Claim, Scanned
<1> QED
  BY <1>1, <1>2, <1>3, <1>4, <1>5

LEMMA StatusMoves ==
  ASSUME TypeOK, NEW s \in Attempts, StatusStep(s)
  PROVE  pc' = [pc EXCEPT ![s] = pc'[s]] /\ pc[s] # "crashed" /\ pc[s] \notin Early
BY DEF StatusStep, TypeOK, Early, Goto, files, private,
       Observe, Classify, Confirm, Move, CheckMoved, Restore, Publish, Verify, ReadOwnStatus,
       Withdraw, CheckWithdrawn

LEMMA Layers ==
  ASSUME TypeOK, Next
  PROVE  \E s \in Attempts :
           /\ pc' = [pc EXCEPT ![s] = pc'[s]] /\ pc[s] # "crashed"
           /\ ClaimStep(s) \/ LastStep(s) \/ StatusStep(s)
<1>0. PICK s \in Attempts :
        \/ Begin(s) \/ PublishChoosing(s) \/ ListForTicket(s) \/ CountTicket(s) \/ TakeTicket(s)
        \/ Overflow(s) \/ DropChoosing(s)
        \/ List(s) \/ ReadClaim(s) \/ PassOver(s) \/ WaitAndRescan(s) \/ Judge(s) \/ Claim(s)
        \/ Tick(s)
        \/ Observe(s) \/ Classify(s) \/ Confirm(s) \/ Move(s) \/ CheckMoved(s) \/ Restore(s)
        \/ Publish(s) \/ Verify(s) \/ ReadOwnStatus(s) \/ Withdraw(s) \/ CheckWithdrawn(s)
        \/ Unlink(s) \/ RemoveDirectory(s) \/ Crash(s)
  BY StepOf
<1>1. CASE Unlink(s) \/ RemoveDirectory(s) \/ Crash(s)
  BY <1>1 DEF LastStep, Unlink, RemoveDirectory, Crash, Goto, TypeOK, files, private
<1>2. ClaimStep(s) => pc[s] # "crashed"
  BY DEF ClaimStep, Early
<1>3. CASE StatusStep(s)
  BY <1>3, StatusMoves
<1> QED
  BY <1>0, <1>1, <1>2, <1>3, ClaimLayer, Zenon DEF StatusStep

-----------------------------------------------------------------------------
(* Mutual exclusion *)

\* While p holds, q gave up, or finds the record of p, or has it in its hands.
Shut(p, q) ==
  pc[p] = "holding" =>
    \/ pc[q] \in Over
    \/ status = p /\ pc[q] # "holding"
    \/ pc[q] = "moved" /\ aside[q] = p

GhostsDead == \A g \in Ghosts : pc[g] = "crashed"

TwoInv == GhostsDead /\ \A p, q \in Live : p # q => Shut(p, q)

LEMMA TwoInit == Init => TwoInv
BY ConstantsAssumption DEF Init, TwoInv, GhostsDead, Shut, Live

\* A step of the attempt that comes to hold, or holds.
LEMMA HolderShuts ==
  ASSUME TypeOK, NEW p \in Live, NEW q \in Live, p # q, Shut(p, q), Shut(q, p),
         pc' = [pc EXCEPT ![p] = pc'[p]], ClaimStep(p) \/ LastStep(p) \/ StatusStep(p)
  PROVE  Shut(p, q)'
<1> SUFFICES ASSUME pc'[p] = "holding" PROVE Shut(p, q)'
  BY DEF Shut
<1> USE DEF Live, TypeOK
<1>1. pc[p] = "verify" /\ status = p /\ UNCHANGED <<status, aside>>
  <2>1. StatusStep(p)
    BY DEF ClaimStep, LastStep, Early
  <2> QED
    BY <2>1 DEF StatusStep, Goto, files, private, Observe, Classify, Confirm, Move, CheckMoved,
                Restore, Publish, Verify, ReadOwnStatus, Withdraw, CheckWithdrawn
<1>2. pc[q] # "holding"
  BY <1>1 DEF Shut, Over
<1> QED
  BY <1>1, <1>2 DEF Shut

\* A step of the other attempt while p holds.
LEMMA OtherShut ==
  ASSUME TypeOK, NEW p \in Live, NEW q \in Live, p # q, Shut(p, q),
         pc' = [pc EXCEPT ![q] = pc'[q]], ClaimStep(q) \/ LastStep(q) \/ StatusStep(q)
  PROVE  Shut(p, q)'
<1> SUFFICES ASSUME pc[p] = "holding", pc'[p] = "holding" PROVE Shut(p, q)'
  BY DEF Shut, Live, TypeOK
<1> USE ConstantsAssumption DEF Live, TypeOK, Shut, Over
<1>1. CASE ClaimStep(q) \/ LastStep(q)
  BY <1>1 DEF ClaimStep, LastStep, Early
<1> USE DEF Goto, files, private
<1>2. CASE Observe(q) \/ Classify(q) \/ Confirm(q) \/ Verify(q) \/ ReadOwnStatus(q)
  BY <1>2 DEF Observe, Classify, Confirm, Verify, ReadOwnStatus
<1>3. CASE Move(q) \/ Publish(q)
  BY <1>3 DEF Move, Publish
<1>4. CASE CheckMoved(q)
  BY <1>4 DEF CheckMoved, Verdicts
<1>5. CASE Restore(q) \/ Withdraw(q) \/ CheckWithdrawn(q)
  BY <1>5 DEF Restore, Withdraw, CheckWithdrawn
<1> QED
  BY <1>1, <1>2, <1>3, <1>4, <1>5 DEF StatusStep

LEMMA TwoStep == AtMostTwo /\ TypeOK /\ TwoInv /\ [Next]_vars => TwoInv'
<1> SUFFICES ASSUME AtMostTwo, TypeOK, TwoInv, [Next]_vars PROVE TwoInv'
  OBVIOUS
<1>1. CASE UNCHANGED vars
  BY <1>1 DEF vars, files, TwoInv, GhostsDead, Shut
<1>2. CASE Next
  <2>1. PICK s \in Attempts :
          /\ pc' = [pc EXCEPT ![s] = pc'[s]] /\ pc[s] # "crashed"
          /\ ClaimStep(s) \/ LastStep(s) \/ StatusStep(s)
    BY <1>2, Layers
  <2>2. s \in Live
    BY <2>1 DEF TwoInv, GhostsDead, Live
  <2>3. GhostsDead'
    BY <2>1, <2>2, ConstantsAssumption DEF TwoInv, GhostsDead, Live, TypeOK
  <2>4. ASSUME NEW p \in Live, NEW q \in Live, p # q
        PROVE  Shut(p, q)'
    <3>1. s = p \/ s = q
      BY <2>2, <2>4 DEF AtMostTwo
    <3>2. Shut(p, q) /\ Shut(q, p)
      BY <2>4 DEF TwoInv
    <3> QED
      BY <2>1, <2>4, <3>1, <3>2, HolderShuts, OtherShut
  <2> QED
    BY <2>3, <2>4 DEF TwoInv
<1> QED
  BY <1>1, <1>2

LEMMA TwoExclusive == TwoInv => MutualExclusion
<1> SUFFICES ASSUME TwoInv, NEW p \in Attempts, NEW q \in Attempts,
                    pc[p] = "holding", pc[q] = "holding", p # q
             PROVE  FALSE
  BY DEF MutualExclusion
<1>1. p \in Live /\ q \in Live
  BY DEF TwoInv, GhostsDead, Live
<1> QED
  BY <1>1 DEF TwoInv, Shut, Over

\* No two live processes hold the lock: of two, whatever the dead left behind,
\* wherever either of them dies and whatever the OS answers.
THEOREM TwoExclude ==
  ASSUME AtMostTwo
  PROVE  Spec => []MutualExclusion
<1>1. Init => TypeOK /\ TwoInv
  BY InitTyped, TwoInit
<1>2. TypeOK /\ TwoInv /\ [Next]_vars => (TypeOK /\ TwoInv)'
  BY AtMostTwo, TypesStep, TwoStep
<1> QED
  BY <1>1, <1>2, TwoExclusive, PTL DEF Spec
-----------------------------------------------------------------------------
(* While nobody has died *)

NobodyDead == \A p \in Attempts : pc[p] # "crashed"

\* Nobody's record is taken for a dead one's, so the record of an attempt is at
\* the fixed name from the moment it is published.
Orderly(p) ==
  /\ pc[p] \in {"classify"} => observed[p] \in Attempts
  /\ pc[p] \notin {"confirm", "move", "moved", "restore", "unverified"}
  /\ pc[p] \in {"verify", "holding", "withdraw"} => status = p
  /\ pc[p] = "withdrawn" => aside[p] = p

OrderlyInv == NobodyDead => \A p \in Attempts : Orderly(p)

LEMMA OrderlyInit == Init => OrderlyInv
BY ConstantsAssumption DEF Init, OrderlyInv, Orderly, NobodyDead

LEMMA OrderlyOne ==
  ASSUME TypeOK, NEW s \in Attempts, NEW p \in Attempts, NobodyDead, pc'[s] # "crashed",
         Orderly(p), Orderly(s), pc' = [pc EXCEPT ![s] = pc'[s]],
         ClaimStep(s) \/ LastStep(s) \/ StatusStep(s)
  PROVE  Orderly(p)'
<1> USE ConstantsAssumption DEF TypeOK, Orderly, NobodyDead
<1>1. CASE ClaimStep(s) \/ LastStep(s)
  BY <1>1 DEF ClaimStep, LastStep, Early
<1> USE DEF Goto, files, private
<1>2. CASE Observe(s) \/ Confirm(s) \/ Verify(s) \/ ReadOwnStatus(s)
  BY <1>2 DEF Observe, Confirm, Verify, ReadOwnStatus
<1>3. CASE Classify(s)
  <2>1. pc[s] = "classify" /\ UNCHANGED <<status, aside, observed>>
    BY <1>3 DEF Classify
  <2>2. "stale" \notin Verdicts(observed[s])
    BY <2>1, StaleIsDead
  <2>3. pc'[s] = "unlink"
    BY <1>3, <2>2 DEF Classify
  <2> QED
    BY <2>1, <2>3
<1>4. CASE Move(s) \/ CheckMoved(s) \/ Restore(s)
  BY <1>4 DEF Move, CheckMoved, Restore
<1>5. CASE Publish(s)
  BY <1>5 DEF Publish
<1>6. CASE Withdraw(s) \/ CheckWithdrawn(s)
  BY <1>6 DEF Withdraw, CheckWithdrawn
<1> QED
  BY <1>1, <1>2, <1>3, <1>4, <1>5, <1>6 DEF StatusStep

LEMMA OrderlyStep == TypeOK /\ OrderlyInv /\ [Next]_vars => OrderlyInv'
<1> SUFFICES ASSUME TypeOK, OrderlyInv, [Next]_vars, NobodyDead' PROVE OrderlyInv'
  BY DEF OrderlyInv
<1>1. CASE UNCHANGED vars
  BY <1>1 DEF vars, files, private, OrderlyInv, Orderly, NobodyDead
<1>2. CASE Next
  <2>1. PICK s \in Attempts :
          /\ pc' = [pc EXCEPT ![s] = pc'[s]] /\ pc[s] # "crashed"
          /\ ClaimStep(s) \/ LastStep(s) \/ StatusStep(s)
    BY <1>2, Layers
  <2>2. NobodyDead
    BY <2>1 DEF NobodyDead, TypeOK
  <2>3. \A p \in Attempts : Orderly(p)'
    BY <2>1, <2>2, OrderlyOne DEF OrderlyInv, NobodyDead
  <2> QED
    BY <2>3 DEF OrderlyInv
<1> QED
  BY <1>1, <1>2

\* While no process has died, the lock file alone keeps any number of attempts
\* apart, also where the OS refuses to identify some: what goes wrong with three
\* (claim_three) takes a dead holder.
THEOREM ExclusiveWhileNobodyDies == Spec => [](NobodyDead => MutualExclusion)
<1>1. TypeOK /\ OrderlyInv => (NobodyDead => MutualExclusion)
  BY DEF OrderlyInv, Orderly, MutualExclusion
<1> QED
  BY <1>1, InitTyped, TypesStep, OrderlyInit, OrderlyStep, PTL DEF Spec
-----------------------------------------------------------------------------
(* The holder's record *)

Published == Over \cup {"verify", "holding"}

\* The records there are, or were when an attempt looked.
Records == {status} \cup {aside[p] : p \in Attempts} \cup {observed[p] : p \in Attempts}

\* Of the processes that died before, one left a record.
OneDead == \A x, y \in Records \cap Ghosts : x = y

\* A record is there from the moment its attempt published it.
Named(p) == p \in Records => pc[p] \in Published

\* What an attempt knows of the records it moves and brings back.
Found(q) ==
  /\ pc[q] = "classify" => observed[q] \in Attempts
  /\ pc[q] \in {"confirm", "move", "moved"} =>
       observed[q] \in Attempts /\ pc[observed[q]] = "crashed"
  /\ pc[q] = "move" /\ status \in Ghosts => status = observed[q]
  /\ pc[q] = "moved" /\ aside[q] \in Ghosts => aside[q] = observed[q]
  /\ pc[q] = "withdraw" => status \notin Ghosts
  /\ pc[q] \in {"moved", "withdrawn", "restore"} => aside[q] \in Attempts
  /\ pc[q] \in {"withdrawn", "restore"} => aside[q] \notin Ghosts
  /\ pc[q] = "restore" => aside[q] # q

\* Where the record of p is while q is about, from the moment p published it.
Has(p, q) ==
  pc[p] \in {"verify", "holding"} =>
    \/ /\ status = p
       /\ pc[q] # "restore"
       /\ pc[q] = "withdrawn" => aside[q] = q
       /\ pc[q] = "moved" => aside[q] = observed[q]
    \/ aside[q] = p /\ pc[q] \in {"moved", "withdrawn", "restore", "crashed"}

\* Nobody is about to move the record of p.
Alone(p) == Live = {p} /\ pc[p] \in {"verify", "holding"} => status = p

RecordInv ==
  /\ GhostsDead /\ OneDead
  /\ \A p \in Live : Named(p) /\ Found(p) /\ Alone(p)
  /\ \A p, q \in Live : p # q => Has(p, q)

\* The OS identifies every process: a dead one's record that was observed and
\* moved is never brought back.
Sure == \A q \in Attempts :
  pc[q] = "moved" /\ pc'[q] = "restore" => aside[q] # observed[q] \/ pc[observed[q]] # "crashed"

LEMMA RecordInit == Init => RecordInv
BY ConstantsAssumption
   DEF Init, RecordInv, GhostsDead, OneDead, Records, Named, Found, Alone, Has, Live

\* Records are only copied, but for the one an attempt publishes.
LEMMA RecordsCopied ==
  ASSUME TypeOK, NEW s \in Attempts, ClaimStep(s) \/ LastStep(s) \/ StatusStep(s)
  PROVE  \/ Records' \subseteq Records \cup {NoRecord}
         \/ Records' \subseteq Records \cup {s} /\ pc[s] = "publish" /\ pc'[s] = "verify"
<1> USE DEF TypeOK, Records, Goto, files, private
<1>1. CASE ClaimStep(s) \/ LastStep(s)
  BY <1>1 DEF ClaimStep, LastStep
<1>2. CASE Observe(s)
  BY <1>2 DEF Observe
<1>3. CASE Classify(s) \/ Confirm(s) \/ Verify(s) \/ ReadOwnStatus(s)
  BY <1>3 DEF Classify, Confirm, Verify, ReadOwnStatus
<1>4. CASE Move(s) \/ Withdraw(s)
  BY <1>4 DEF Move, Withdraw
<1>5. CASE CheckMoved(s) \/ CheckWithdrawn(s)
  BY <1>5 DEF CheckMoved, CheckWithdrawn
<1>6. CASE Restore(s)
  BY <1>6 DEF Restore
<1>7. CASE Publish(s)
  BY <1>7 DEF Publish
<1> QED
  BY <1>1, <1>2, <1>3, <1>4, <1>5, <1>6, <1>7 DEF StatusStep

LEMMA NamedStep ==
  ASSUME TypeOK, GhostsDead, OneDead, NEW s \in Live, \A p \in Live : Named(p),
         pc' = [pc EXCEPT ![s] = pc'[s]],
         ClaimStep(s) \/ LastStep(s) \/ StatusStep(s)
  PROVE  OneDead' /\ \A p \in Live : Named(p)'
<1>1. /\ Records' \cap Attempts \subseteq Records \cup {s}
      /\ s \in Records' => s \in Records \/ pc'[s] = "verify"
  BY RecordsCopied, ConstantsAssumption DEF Live
<1>2. OneDead'
  <2>1. s \notin Ghosts /\ Ghosts \subseteq Attempts
    BY ConstantsAssumption DEF Live
  <2>2. Records' \cap Ghosts \subseteq Records \cap Ghosts
    BY <1>1, <2>1
  <2> QED
    BY <2>2 DEF OneDead
<1>3. pc[s] \in Published => pc'[s] \in Published
  BY DEF Published, Over, ClaimStep, LastStep, StatusStep, Early, TypeOK, Live, Goto,
         Observe, Classify, Confirm, Move, CheckMoved, Restore, Publish, Verify, ReadOwnStatus,
         Withdraw, CheckWithdrawn
<1>4. ASSUME NEW p \in Live PROVE Named(p)'
  BY <1>1, <1>3 DEF Named, TypeOK, Live, Published
<1> QED
  BY <1>2, <1>4
\* What the attempt that steps knows of the records afterwards.
LEMMA FoundOwn ==
  ASSUME AtMostTwo, TypeOK, RecordInv, Sure, NEW q \in Live,
         pc' = [pc EXCEPT ![q] = pc'[q]], ClaimStep(q) \/ LastStep(q) \/ StatusStep(q)
  PROVE  Found(q)'
<1> USE ConstantsAssumption DEF Found
<1>0. /\ q \in Attempts /\ q \notin Ghosts /\ Found(q) /\ Named(q)
      /\ \A c \in Attempts : pc[c] = "crashed" => pc'[c] = "crashed"
      /\ \A x, y \in Records \cap Ghosts : x = y
      /\ \A g \in Ghosts : pc[g] = "crashed"
  <2>1. pc[q] # "crashed"
    BY StatusMoves DEF ClaimStep, LastStep, Early, Live
  <2> QED
    BY <2>1 DEF RecordInv, Live, TypeOK, OneDead, GhostsDead
<1>1. CASE ClaimStep(q) \/ LastStep(q)
  BY <1>1 DEF ClaimStep, LastStep, Early
<1> USE DEF TypeOK, Goto, files, private
<1>2. CASE Observe(q)
  BY <1>0, <1>2 DEF Observe
<1>3. CASE Classify(q)
  <2>1. pc[q] = "classify" /\ UNCHANGED <<status, aside, observed>> /\ pc'[q] \in {"confirm", "unlink"}
    BY <1>0, <1>3 DEF Classify
  <2>2. pc'[q] = "confirm" => pc[observed[q]] = "crashed"
    BY <1>0, <1>3, StaleIsDead DEF Classify
  <2> QED
    BY <1>0, <2>1, <2>2
<1>4. CASE Confirm(q)
  BY <1>0, <1>4 DEF Confirm
<1>5. CASE Move(q)
  BY <1>0, <1>5 DEF Move
<1>6. CASE CheckMoved(q)
  <2>1. /\ pc[q] = "moved" /\ pc'[q] \in {"publish", "restore"} /\ UNCHANGED <<status, observed>>
        /\ pc'[q] = "restore" => aside'[q] = aside[q]
    BY <1>0, <1>6 DEF CheckMoved
  <2>2. ASSUME pc'[q] = "restore"
        PROVE  aside[q] \notin Ghosts /\ aside[q] # q
    <3>1. aside[q] # observed[q] \/ pc[observed[q]] # "crashed"
      BY <1>0, <2>1, <2>2 DEF Sure
    <3>2. aside[q] # q
      BY <1>0, <2>1 DEF Named, Records, Published, Over
    <3> QED
      BY <1>0, <2>1, <3>1, <3>2
  <2> QED
    BY <1>0, <2>1, <2>2
<1>7. CASE Restore(q) \/ Publish(q) \/ Verify(q)
  BY <1>0, <1>7 DEF Restore, Publish, Verify
<1>8. CASE ReadOwnStatus(q)
  BY <1>0, <1>8 DEF ReadOwnStatus
<1>9. CASE Withdraw(q)
  BY <1>0, <1>9 DEF Withdraw
<1>10. CASE CheckWithdrawn(q)
  BY <1>0, <1>10 DEF CheckWithdrawn
<1> QED
  BY <1>1, <1>2, <1>3, <1>4, <1>5, <1>6, <1>7, <1>8, <1>9, <1>10 DEF StatusStep

\* What another attempt knows after a step: the record at the fixed name only
\* becomes a dead leftover's where it was one.
LEMMA FoundOther ==
  ASSUME TypeOK, RecordInv, NEW s \in Live, NEW q \in Live, q # s,
         pc' = [pc EXCEPT ![s] = pc'[s]], ClaimStep(s) \/ LastStep(s) \/ StatusStep(s)
  PROVE  Found(q)'
<1>0. /\ s \in Attempts /\ q \in Attempts /\ s \notin Ghosts /\ Found(s) /\ Found(q)
      /\ \A c \in Attempts : pc[c] = "crashed" => pc'[c] = "crashed"
      /\ pc'[q] = pc[q]
  <2>1. pc[s] # "crashed"
    BY StatusMoves DEF ClaimStep, LastStep, Early, Live
  <2> QED
    BY <2>1 DEF RecordInv, Live, TypeOK
<1>1. /\ status' \in Ghosts => status' = status
      /\ aside'[q] = aside[q] /\ observed'[q] = observed[q]
  <2> USE ConstantsAssumption DEF TypeOK, Goto, files, private
  <2>1. CASE ClaimStep(s) \/ LastStep(s)
    BY <2>1 DEF ClaimStep, LastStep
  <2>2. CASE Observe(s) \/ Classify(s) \/ Confirm(s) \/ Verify(s) \/ ReadOwnStatus(s)
    BY <1>0, <2>2 DEF Observe, Classify, Confirm, Verify, ReadOwnStatus
  <2>3. CASE Move(s) \/ Withdraw(s)
    <3>1. /\ status' = NoRecord /\ NoRecord \notin Ghosts
          /\ aside' = [aside EXCEPT ![s] = status] /\ observed' = observed
      BY <2>3 DEF Move, Withdraw
    <3> QED
      BY <1>0, <3>1
  <2>4. CASE CheckMoved(s) \/ CheckWithdrawn(s)
    BY <1>0, <2>4 DEF CheckMoved, CheckWithdrawn
  <2>5. CASE Restore(s)
    BY <1>0, <2>5 DEF Restore, Found
  <2>6. CASE Publish(s)
    BY <1>0, <2>6 DEF Publish
  <2> QED
    BY <2>1, <2>2, <2>3, <2>4, <2>5, <2>6 DEF StatusStep
<1> QED
  BY <1>0, <1>1, ConstantsAssumption DEF Found, TypeOK

\* A step of the attempt whose record it is.
LEMMA HasOwn ==
  ASSUME AtMostTwo, TypeOK, RecordInv, NEW p \in Live, NEW q \in Live, p # q,
         pc' = [pc EXCEPT ![p] = pc'[p]], ClaimStep(p) \/ LastStep(p) \/ StatusStep(p)
  PROVE  Has(p, q)'
<1> SUFFICES ASSUME pc'[p] \in {"verify", "holding"} PROVE Has(p, q)'
  BY DEF Has
<1>0. /\ p \in Attempts /\ q \in Attempts /\ Has(p, q) /\ Found(q) /\ Named(p) /\ Named(q)
      /\ pc'[q] = pc[q] /\ \A r \in Live : r = p \/ r = q
  BY DEF RecordInv, Live, TypeOK, AtMostTwo
<1>1. CASE pc[p] = "publish" /\ status' = p /\ UNCHANGED <<aside, observed>>
  <2>1. aside[q] # p
    BY <1>0, <1>1 DEF Named, Records, Published, Over
  <2>2. pc[q] # "restore"
    BY <1>0, <2>1, ConstantsAssumption DEF Found, Live
  <2>3. pc[q] = "withdrawn" => aside[q] = q
    BY <1>0, <2>1, ConstantsAssumption DEF Found, Live
  <2>4. pc[q] = "moved" => aside[q] = observed[q]
    <3>1. pc[q] = "moved" => aside[q] # q
      BY <1>0 DEF Named, Records, Published, Over
    <3> QED
      BY <1>0, <2>1, <3>1, ConstantsAssumption DEF Found, Live
  <2> QED
    BY <1>0, <1>1, <2>2, <2>3, <2>4 DEF Has
<1>2. CASE pc[p] \in {"verify", "holding"} /\ UNCHANGED <<status, aside, observed>>
  BY <1>0, <1>2 DEF Has
<1>3. StatusStep(p)
  BY DEF ClaimStep, LastStep, Early
<1> QED
  BY <1>0, <1>1, <1>2, <1>3
     DEF StatusStep, TypeOK, Goto, files, private, Observe, Classify, Confirm, Move, CheckMoved,
         Restore, Publish, Verify, ReadOwnStatus, Withdraw, CheckWithdrawn

\* A step of the other attempt.
LEMMA HasOther ==
  ASSUME TypeOK, RecordInv, Sure, NEW p \in Live, NEW q \in Live, p # q,
         pc' = [pc EXCEPT ![q] = pc'[q]], ClaimStep(q) \/ LastStep(q) \/ StatusStep(q)
  PROVE  Has(p, q)'
<1> SUFFICES ASSUME pc[p] \in {"verify", "holding"} PROVE Has(p, q)'
  BY DEF Has, Live, TypeOK
<1>0. /\ p \in Attempts /\ q \in Attempts /\ Has(p, q) /\ Found(q)
      /\ pc'[p] = pc[p] /\ p # NoRecord
  BY ConstantsAssumption DEF RecordInv, Live, TypeOK
<1> USE <1>0 DEF Has
<1>1. CASE ClaimStep(q) \/ LastStep(q)
  BY <1>1 DEF ClaimStep, LastStep, Early
<1> USE DEF TypeOK, Goto, files, private
<1>2. CASE Observe(q) \/ Classify(q) \/ Confirm(q) \/ Verify(q) \/ ReadOwnStatus(q)
  BY <1>2 DEF Observe, Classify, Confirm, Verify, ReadOwnStatus
<1>3. CASE Move(q)
  BY <1>3 DEF Move
<1>4. CASE CheckMoved(q)
  <2>1. pc[q] = "moved" /\ pc'[q] \in {"publish", "restore"} /\ UNCHANGED status
    BY <1>4 DEF CheckMoved
  <2>2. pc'[q] = "restore" => aside'[q] = aside[q] /\ (aside[q] # observed[q] \/ pc[observed[q]] # "crashed")
    BY <1>4 DEF CheckMoved, Sure
  <2>3. pc'[q] = "publish" => aside[q] = observed[q]
    BY <1>4 DEF CheckMoved
  <2> QED
    BY <2>1, <2>2, <2>3 DEF Found
<1>5. CASE Restore(q) \/ Publish(q)
  BY <1>5 DEF Restore, Publish
<1>6. CASE Withdraw(q) \/ CheckWithdrawn(q)
  BY <1>6 DEF Withdraw, CheckWithdrawn
<1> QED
  BY <1>1, <1>2, <1>3, <1>4, <1>5, <1>6 DEF StatusStep
LEMMA AloneStep ==
  ASSUME TypeOK, NEW p \in Live, Alone(p),
         pc' = [pc EXCEPT ![p] = pc'[p]], ClaimStep(p) \/ LastStep(p) \/ StatusStep(p)
  PROVE  Alone(p)'
<1> USE DEF Live, TypeOK, Alone
<1>1. CASE ClaimStep(p) \/ LastStep(p)
  BY <1>1 DEF ClaimStep, LastStep, Early
<1>2. CASE StatusStep(p)
  BY <1>2 DEF StatusStep, Goto, files, private, Observe, Classify, Confirm, Move, CheckMoved,
              Restore, Publish, Verify, ReadOwnStatus, Withdraw, CheckWithdrawn
<1> QED
  BY <1>1, <1>2

LEMMA RecordStep == AtMostTwo /\ TypeOK /\ RecordInv /\ Next /\ Sure => RecordInv'
<1> SUFFICES ASSUME AtMostTwo, TypeOK, RecordInv, Next, Sure PROVE RecordInv'
  OBVIOUS
<1>1. PICK s \in Attempts :
        /\ pc' = [pc EXCEPT ![s] = pc'[s]] /\ pc[s] # "crashed"
        /\ ClaimStep(s) \/ LastStep(s) \/ StatusStep(s)
  BY Layers
<1>2. s \in Live
  BY <1>1 DEF RecordInv, GhostsDead, Live
<1>3. GhostsDead'
  BY <1>1, <1>2, ConstantsAssumption DEF RecordInv, GhostsDead, Live, TypeOK
<1>4. OneDead' /\ \A p \in Live : Named(p)'
  BY <1>1, <1>2, NamedStep DEF RecordInv
<1>5. \A p \in Live : Found(p)' /\ Alone(p)'
  <2>1. \A p \in Live : Found(p)'
    BY <1>1, <1>2, FoundOwn, FoundOther
  <2>2. Alone(s)'
    BY <1>1, <1>2, AloneStep DEF RecordInv
  <2>3. \A p \in Live : p # s => Alone(p)'
    BY <1>2 DEF Alone, Live
  <2> QED
    BY <2>1, <2>2, <2>3
<1>6. ASSUME NEW p \in Live, NEW q \in Live, p # q
      PROVE  Has(p, q)'
  <2>1. s = p \/ s = q
    BY <1>2, <1>6 DEF AtMostTwo
  <2> QED
    BY <1>1, <1>6, <2>1, HasOwn, HasOther
<1> QED
  BY <1>3, <1>4, <1>5, <1>6 DEF RecordInv

LEMMA RecordStutters == RecordInv /\ UNCHANGED vars => RecordInv'
BY DEF vars, files, private, RecordInv, GhostsDead, OneDead, Records, Named, Found, Alone, Has

LEMMA RecordKept == RecordInv => HolderRecordKept
<1> SUFFICES ASSUME RecordInv, NEW p \in Attempts, pc[p] = "holding", status # p
             PROVE  \E q \in Attempts : aside[q] = p
  BY DEF HolderRecordKept
<1>1. p \in Live
  BY DEF RecordInv, GhostsDead, Live
<1>2. PICK q \in Live : q # p
  BY <1>1 DEF RecordInv, Alone
<1>3. Has(p, q)
  BY <1>1, <1>2 DEF RecordInv
<1> QED
  BY <1>2, <1>3 DEF Has, Live
\* A probe that always answers is Sure.
LEMMA CheckIsSure ==
  ASSUME TypeOK, NEW q \in Attempts, CheckMoved(q), pc[q] = "moved", pc'[q] = "restore", ~ProbeMayFail
  PROVE  aside[q] # observed[q] \/ pc[observed[q]] # "crashed"
BY DEF CheckMoved, Verdicts, Goto, TypeOK

\* The steps other than the comparison of a moved record.
Other(s) ==
  \/ Begin(s) \/ PublishChoosing(s) \/ ListForTicket(s) \/ CountTicket(s) \/ TakeTicket(s)
  \/ Overflow(s) \/ DropChoosing(s)
  \/ List(s) \/ ReadClaim(s) \/ PassOver(s) \/ WaitAndRescan(s) \/ Judge(s) \/ Claim(s)
  \/ Tick(s)
  \/ Observe(s) \/ Classify(s) \/ Confirm(s) \/ Move(s) \/ Restore(s)
  \/ Publish(s) \/ Verify(s) \/ ReadOwnStatus(s) \/ Withdraw(s) \/ CheckWithdrawn(s)
  \/ Unlink(s) \/ RemoveDirectory(s) \/ Crash(s)

LEMMA OtherLeaves ==
  ASSUME TypeOK, NEW s \in Attempts, Other(s), NEW q \in Attempts, pc[q] = "moved"
  PROVE  pc'[q] # "restore"
<1>1. CASE \/ Begin(s) \/ PublishChoosing(s) \/ ListForTicket(s) \/ CountTicket(s) \/ TakeTicket(s)
           \/ Overflow(s) \/ DropChoosing(s)
           \/ List(s) \/ ReadClaim(s) \/ PassOver(s) \/ WaitAndRescan(s) \/ Judge(s) \/ Claim(s)
           \/ Tick(s)
  BY <1>1, ClaimLayer DEF ClaimStep, Early, TypeOK
<1>2. CASE \/ Observe(s) \/ Classify(s) \/ Confirm(s) \/ Move(s) \/ Restore(s)
           \/ Publish(s) \/ Verify(s) \/ ReadOwnStatus(s) \/ Withdraw(s) \/ CheckWithdrawn(s)
  BY <1>2 DEF TypeOK, Goto, Observe, Classify, Confirm, Move, Restore, Publish, Verify,
              ReadOwnStatus, Withdraw, CheckWithdrawn
<1>3. CASE Unlink(s) \/ RemoveDirectory(s) \/ Crash(s)
  BY <1>3 DEF TypeOK, Goto, Unlink, RemoveDirectory, Crash
<1> QED
  BY <1>1, <1>2, <1>3 DEF Other

LEMMA CheckStays ==
  ASSUME TypeOK, NEW s \in Attempts, CheckMoved(s), NEW q \in Attempts, q # s
  PROVE  pc'[q] = pc[q]
BY DEF CheckMoved, TypeOK, Goto

\* The holder's record is at the fixed name, or in the hands of the attempt that
\* took it for a dead one's and will bring it back: with two attempts that live,
\* while the OS identifies every process.
THEOREM KeepsHolderRecord ==
  ASSUME AtMostTwo, ~ProbeMayFail
  PROVE  Spec => []HolderRecordKept
<1>1. TypeOK /\ Next => Sure
  <2> SUFFICES ASSUME TypeOK, Next, NEW q \in Attempts, pc[q] = "moved", pc'[q] = "restore"
               PROVE  aside[q] # observed[q] \/ pc[observed[q]] # "crashed"
    BY DEF Sure
  <2>1. PICK s \in Attempts : Other(s) \/ CheckMoved(s)
    BY StepOf, Zenon DEF Other
  <2>2. CheckMoved(q)
    BY <2>1, OtherLeaves, CheckStays
  <2> QED
    BY <2>2, CheckIsSure
<1>2. Init => TypeOK /\ RecordInv
  BY InitTyped, RecordInit
<1>3. TypeOK /\ RecordInv /\ [Next]_vars => (TypeOK /\ RecordInv)'
  BY <1>1, AtMostTwo, TypesStep, RecordStep, RecordStutters
<1> QED
  BY <1>2, <1>3, RecordKept, PTL DEF Spec

LEMMA CertainIsSure ==
  ASSUME TypeOK, 1 \in MayCrash, Certain!Next
  PROVE  Next /\ Sure
<1>1. PICK p \in Attempts :
        Certain!Begin(p) \/ Certain!Proceed(p) \/ Certain!Release(p) \/ Certain!Tick(p) \/ Certain!Crash(p)
  BY DEF Certain!Next
<1>2. /\ \A c : Certain!Verdicts(c) \subseteq Verdicts(c)
      /\ \A n : Certain!RemoveClaim(n) <=> RemoveClaim(n)
      /\ \A q, place : Certain!Goto(q, place) <=> Goto(q, place)
      /\ Certain!Names = Names /\ Certain!Listing = Listing
      /\ \A c, q : Certain!Earlier(c, q) <=> Earlier(c, q)
      /\ \A q : Certain!ChoosingSeen(q) = ChoosingSeen(q)
      /\ \A q : Certain!Scanned(q) <=> Scanned(q)
      /\ (UNCHANGED Certain!files <=> UNCHANGED files)
      /\ (UNCHANGED Certain!private <=> UNCHANGED private)
  BY DEF Certain!Verdicts, Verdicts, Certain!RemoveClaim, RemoveClaim, Certain!Goto, Goto,
         Certain!Names, Names, Certain!Listing, Listing, Certain!Earlier, Earlier,
         Certain!ChoosingSeen, ChoosingSeen, Certain!Scanned, Scanned,
         Certain!files, files, Certain!private, private
<1>3. Certain!Overflow(p) => Overflow(p)
  BY <1>2, Zenon DEF Certain!Overflow, Overflow
<1>4. Certain!Judge(p) => Judge(p)
  BY <1>2, Zenon DEF Certain!Judge, Judge
<1>5. Certain!Classify(p) => Classify(p)
  BY <1>2, Zenon DEF Certain!Classify, Classify
<1>6. Certain!CheckMoved(p) => CheckMoved(p)
  BY <1>2, Zenon DEF Certain!CheckMoved, CheckMoved
<1>7. Certain!Crash(p) => Crash(p)
  BY <1>2 DEF Certain!Crash, Crash
<1>8. /\ Certain!Begin(p) => Begin(p)
      /\ Certain!Tick(p) => Tick(p)
      /\ Certain!PublishChoosing(p) => PublishChoosing(p)
      /\ Certain!ListForTicket(p) => ListForTicket(p)
      /\ Certain!CountTicket(p) => CountTicket(p)
      /\ Certain!TakeTicket(p) => TakeTicket(p)
      /\ Certain!DropChoosing(p) => DropChoosing(p)
      /\ Certain!List(p) => List(p)
      /\ Certain!ReadClaim(p) => ReadClaim(p)
      /\ Certain!PassOver(p) => PassOver(p)
      /\ Certain!WaitAndRescan(p) => WaitAndRescan(p)
      /\ Certain!Claim(p) => Claim(p)
  BY <1>2, Zenon
     DEF Certain!Begin, Begin, Certain!Tick, Tick, Certain!PublishChoosing, PublishChoosing,
         Certain!ListForTicket, ListForTicket, Certain!CountTicket, CountTicket,
         Certain!TakeTicket, TakeTicket, Certain!DropChoosing, DropChoosing,
         Certain!List, List, Certain!ReadClaim, ReadClaim, Certain!PassOver, PassOver,
         Certain!WaitAndRescan, WaitAndRescan, Certain!Claim, Claim
<1>9. /\ Certain!Observe(p) => Observe(p)
      /\ Certain!Confirm(p) => Confirm(p)
      /\ Certain!Move(p) => Move(p)
      /\ Certain!Restore(p) => Restore(p)
      /\ Certain!Publish(p) => Publish(p)
      /\ Certain!Verify(p) => Verify(p)
      /\ Certain!ReadOwnStatus(p) => ReadOwnStatus(p)
      /\ Certain!Withdraw(p) => Withdraw(p)
      /\ Certain!CheckWithdrawn(p) => CheckWithdrawn(p)
      /\ Certain!Unlink(p) => Unlink(p)
      /\ Certain!RemoveDirectory(p) => RemoveDirectory(p)
  BY <1>2, Zenon
     DEF Certain!Observe, Observe, Certain!Confirm, Confirm, Certain!Move, Move,
         Certain!Restore, Restore, Certain!Publish, Publish, Certain!Verify, Verify,
         Certain!ReadOwnStatus, ReadOwnStatus, Certain!Withdraw, Withdraw,
         Certain!CheckWithdrawn, CheckWithdrawn, Certain!Unlink, Unlink,
         Certain!RemoveDirectory, RemoveDirectory
<1>10. Next
  <2>1. Certain!Proceed(p) => Proceed(p)
    BY <1>3, <1>4, <1>5, <1>6, <1>8, <1>9, Zenon DEF Certain!Proceed, Proceed
  <2>2. Certain!Release(p) => Release(p)
    BY <1>9, Zenon DEF Certain!Release, Release
  <2> QED
    BY <1>1, <1>7, <1>8, <2>1, <2>2, Zenon DEF Next
<1>11. ASSUME NEW q \in Attempts, pc[q] = "moved", pc'[q] = "restore"
       PROVE  aside[q] # observed[q] \/ pc[observed[q]] # "crashed"
  <2>1. Other(p) \/ Certain!CheckMoved(p)
    BY <1>1, <1>3, <1>4, <1>5, <1>7, <1>8, <1>9, Zenon
       DEF Other, Certain!Proceed, Certain!Release
  <2>2. p = q /\ Certain!CheckMoved(q)
    BY <1>6, <1>11, <2>1, OtherLeaves, CheckStays
  <2> QED
    BY <1>2, <1>11, <2>2 DEF Certain!CheckMoved, Certain!Verdicts, TypeOK, Goto
<1> QED
  BY <1>10, <1>11 DEF Sure

\* The same of the run claim_two, in which the OS identifies every process in
\* the behaviours that are certain.
THEOREM CertainKeepsRecord ==
  ASSUME AtMostTwo, 1 \in MayCrash
  PROVE  EitherSpec => []CertainRecordKept
<1> DEFINE I == TypeOK /\ (certain => RecordInv)
<1>1. EitherInit => I
  BY InitTyped, RecordInit DEF EitherInit
<1>2. I /\ [EitherNext]_<<vars, certain>> => I'
  <2> SUFFICES ASSUME I, [EitherNext]_<<vars, certain>> PROVE I'
    OBVIOUS
  <2>1. CASE certain /\ Certain!Next /\ UNCHANGED certain
    BY <2>1, AtMostTwo, CertainIsSure, TypesStep, RecordStep
  <2>2. CASE ~certain /\ Next /\ UNCHANGED certain
    BY <2>2, TypesStep
  <2>3. CASE UNCHANGED <<vars, certain>>
    BY <2>3, TypesStep, RecordStutters
  <2> QED
    BY <2>1, <2>2, <2>3 DEF EitherNext
<1>3. I => CertainRecordKept
  BY RecordKept DEF CertainRecordKept
<1> QED
  BY <1>1, <1>2, <1>3, PTL DEF EitherSpec
=============================================================================
