----------------------------- MODULE MCClaimLock -----------------------------
(* TLC instances of ClaimLock. *)
EXTENDS ClaimLock

VARIABLE certain  \* the OS identifies every process

\* Then one of the attempts may die.
Certain == INSTANCE ClaimLock WITH ProbeMayFail <- FALSE, MayCrash <- {1}

EitherInit == Init /\ certain \in BOOLEAN

EitherNext ==
  \/ certain /\ Certain!Next /\ UNCHANGED certain
  \/ ~certain /\ Next /\ UNCHANGED certain

\* acquireLock is synchronous: it runs until it returns, and time passes.
EitherSpec ==
  /\ EitherInit /\ [][EitherNext]_<<vars, certain>>
  /\ \A p \in Attempts \ Ghosts :
       WF_vars(certain /\ Certain!Proceed(p)) /\ WF_vars(certain /\ Tick(p))

\* ClaimLock: the record of a holder is at the fixed name, or on its way back.
CertainRecordKept == certain => HolderRecordKept

\* ClaimLock: every attempt ends, and one that has only dead processes around
\* it gets the lock.
CertainAttemptsEnd == certain => AttemptsEnd

-----------------------------------------------------------------------------
\* Some behaviours of Spec, few enough to search for a race of three attempts:
\* a dead holder left only its record, no deadline passes, nobody releases or
\* scans twice, and the attempts meet before they claim and before they look
\* at the fixed file.
Stage(place) ==
  CASE place \in {"idle", "mkdir", "choosing", "counting"} -> 0
    [] place \in {"ticketed", "list", "reading"}           -> 1
    [] OTHER                                               -> 2

Meet(p) ==
  pc'[p] # pc[p] =>
    /\ Stage(pc'[p]) = 2 => \A q \in Attempts \ Ghosts : Stage(pc[q]) >= 1
    /\ pc[p] = "claimed" => \A q \in Attempts \ Ghosts : Stage(pc[q]) = 2

RaceSpec ==
  /\ Init /\ certain = FALSE
  /\ choosing = {} /\ tickets = {} /\ status \in Ghosts
  /\ [][/\ \E p \in Attempts : (Begin(p) \/ Proceed(p)) /\ ~WaitAndRescan(p) /\ Meet(p)
        /\ UNCHANGED certain]_<<vars, certain>>
=============================================================================
