---------------------------- MODULE ByteAuthority ----------------------------
(***************************************************************************)
(* Region holds: the authority (src/src/lib/region-holds/byte-authority.js)  *)
(* through which sessions read, patch and replace the files of the host, as   *)
(* providers/host-control.js sets it up: observations are kept and checked    *)
(* per file, a file is replaced only by a session that has observed all of    *)
(* it, and a session's own write leaves it an observation.                    *)
(*                                                                          *)
(* This is one file.  Files share nothing but the lock, a database            *)
(* transaction that is open during a whole operation and ends with the        *)
(* process that holds it.  Whoever goes round the authority (a shell command, *)
(* an editor) changes the file at any time, between the last look of a        *)
(* publication at the file and its rename, too: only a change that was there  *)
(* to be seen refuses.                                                        *)
(***************************************************************************)
EXTENDS Naturals, Sequences, FiniteSets

CONSTANTS
  Scopes,          \* the sessions
  Bytes,
  Files,           \* the contents that are written, by whomever, as a whole
  Patches,         \* the texts that are patched in
  Absent, NotEstablished,
  MaxLength,       \* bound: the bytes of the file, and where an observation lies
  MaxReads         \* bound: the observations a new one may be added to

Contents == UNION {[1..n -> Bytes] : n \in 0..MaxLength}

\* What is assumed of the constants.
BytesConstants ==
  /\ MaxLength \in Nat /\ MaxReads \in Nat
  /\ Files \cup Patches \subseteq Contents
  /\ Absent # NotEstablished /\ Absent \notin Contents /\ NotEstablished \notin Contents

VARIABLES
  wholeFileName,   \* the file is one of WHOLE_FILE_NAMES, such as package-lock.json
  file,     \* its bytes, and whether it is the staged file of the pending creation
  record,   \* the resource row: the bytes last established (the code keeps their digest)
  reads,    \* the observations
  op,       \* the operation that is prepared and not settled; raced is a history:
            \* somebody edited the file between the last look at it and the rename
  ended     \* the sessions that are over

bytesVars == <<wholeFileName, file, record, reads, op, ended>>

\* Offsets count from 0, as in the code: the bytes from i up to j.
Slice(content, i, j) == SubSeq(content, i + 1, j)
Spliced(content, i, j, with) == SubSeq(content, 1, i) \o with \o SubSeq(content, j + 1, Len(content))
Ranges(content) == {r \in (0..Len(content)) \X (0..Len(content)) : r[1] <= r[2]}

\* A "lapsed" observation is expired or was overwritten by a patch, and is
\* repaired where it is read again; a "replaced" one (UNMEDIATED_CHANGE,
\* WHOLE_FILE_WRITE) only by a read of the whole file.  Neither lets its bytes
\* be used, so they are not kept here.
Reads == [scope : Scopes, receipt : Nat \ {0}, from : 0..MaxLength, to : 0..MaxLength,
          bytes : Contents, is : {"current", "lapsed", "replaced"}]

Of(s) == {r \in reads : r.scope = s}
Lapse(r, how) == [r EXCEPT !.is = how, !.bytes = <<>>]
Part(r, i, j) == [r EXCEPT !.from = i, !.to = j,
                           !.bytes = IF r.is = "current" THEN Slice(@, i - r.from, j - r.from) ELSE @]

Intersects(a, b, c, d) ==
  IF a = b /\ c = d THEN a = c
  ELSE IF a = b THEN c <= a /\ a < d
  ELSE IF c = d THEN a <= c /\ c < b
  ELSE a < d /\ c < b
Covers(a, b, c, d) == a <= c /\ b >= d

NoOp == [kind |-> "none"]
Pending == op # NoOp
Locked == Pending /\ op.at \in {"prepared", "checked", "published"}

-----------------------------------------------------------------------------
(* Establishing the bytes of the file *)

\* _resource: a change nobody mediated makes every observation useless.
Establish(content) ==
  IF record \in {NotEstablished, content} THEN reads ELSE {Lapse(r, "replaced") : r \in reads}

\* _replaceObserved: what the session has observed where it reads again.
ReplaceObserved(rows, s, i, j, length) ==
  LET whole == i = 0 /\ j = length
      Gone(r) == /\ r.scope = s
                 /\ whole \/ ( /\ r.is # "replaced"
                               /\ Intersects(r.from, r.to, i, j) \/ Covers(i, j, r.from, r.to) )
      Rest(r) == (IF r.from < i THEN {Part(r, r.from, i)} ELSE {})
                 \cup (IF r.to > j THEN {Part(r, j, r.to)} ELSE {})
      gone == {r \in rows : Gone(r)}
  IN (rows \ gone) \cup (IF whole THEN {} ELSE UNION {Rest(r) : r \in gone})

\* A receipt that names no observation of the session yet.
Fresh(rows, s) ==
  CHOOSE k \in 1..(Cardinality(rows) + 1) : \A r \in rows : r.scope = s => r.receipt # k

Moved(r, o) ==
  LET end == o.from + Len(o.with)
  IN [r EXCEPT !.from = (@ + end) - o.to, !.to = (@ + end) - o.to]

\* _rebaseReads: the observations after a patch.  The bytes that were not
\* patched are still observed, at the place they moved to.
Rebase(rows, o) ==
  LET end == o.from + Len(o.with)
      Rebased(r) ==
        LET same == r.scope = o.scope
            overlap == Intersects(r.from, r.to, o.from, o.to) \/ (same /\ o.from = o.to /\ r.to = o.from)
        IN IF wholeFileName /\ ~same THEN {Lapse(r, "replaced")}
           ELSE IF ~overlap THEN {IF r.from >= o.to THEN Moved(r, o) ELSE r}
           ELSE {IF same /\ r.is = "current" THEN [r EXCEPT !.from = o.from, !.to = end, !.bytes = o.with]
                 ELSE [Lapse(r, "lapsed") EXCEPT !.from = o.from, !.to = end]}
                \cup (IF r.from < o.from THEN {Part(r, r.from, o.from)} ELSE {})
                \cup (IF r.to > o.to THEN {Moved(Part(r, o.to, r.to), o)} ELSE {})
  IN UNION {Rebased(r) : r \in rows}

\* _selectReceipt: the observations of one receipt, read from left to right,
\* cover the bytes from i to j.
CoveredBy(rows, i, j) ==
  IF i = j THEN \E r \in rows : r.is = "current" /\ Covers(r.from, r.to, i, j)
  ELSE \A k \in i..(j - 1) : \E r \in rows : r.is = "current" /\ r.from <= k /\ k < r.to

-----------------------------------------------------------------------------
BytesInit ==
  /\ wholeFileName \in BOOLEAN
  /\ file \in [bytes : Files \cup {Absent}, staged : {FALSE}]
  /\ record = NotEstablished
  /\ reads = {}
  /\ op = NoOp
  /\ ended = {}

\* The lock is free and an earlier operation on the file is settled (Recover
\* comes first under the lock).
Admitted(s) == ~Pending /\ s \notin ended

\* observeRead, of a range of the file
ObserveRead(s) ==
  /\ Admitted(s)
  /\ file.bytes # Absent
  /\ Cardinality(reads) < MaxReads
  /\ record' = file.bytes
  /\ \E r \in Ranges(file.bytes) :
       LET rest == ReplaceObserved(Establish(file.bytes), s, r[1], r[2], Len(file.bytes))
       IN reads' = rest \cup {[scope |-> s, receipt |-> Fresh(rest, s), from |-> r[1], to |-> r[2],
                               bytes |-> Slice(file.bytes, r[1], r[2]), is |-> "current"]}
  /\ UNCHANGED <<file, op, ended>>

\* observeAbsence
ObserveAbsence(s) ==
  /\ Admitted(s)
  /\ file.bytes = Absent
  /\ record' = IF record = NotEstablished THEN NotEstablished ELSE Absent
  /\ reads' = {r \in Establish(record') : r.scope # s}
  /\ UNCHANGED <<file, op, ended>>

\* recordExposure: bytes were shown by a search.  It recovers nothing first.
RecordExposure(s) ==
  /\ ~Locked
  /\ s \notin ended
  /\ file.bytes # Absent
  /\ record' = file.bytes
  /\ reads' = Establish(file.bytes)
  /\ op' = IF Pending /\ record # file.bytes THEN [op EXCEPT !.based = FALSE] ELSE op
  /\ UNCHANGED <<file, ended>>

\* _validateReadSet: no observation of the session is stale, nor of a range the
\* file has no more.
Valid(rows, s) == \A r \in rows : r.scope = s => r.is = "current"

\* _publishOperation, as far as the prepared operation.
Prepare(s, kind, i, j, with, after) ==
  op' = [kind |-> kind, scope |-> s, from |-> i, to |-> j, with |-> with,
         base |-> file.bytes, after |-> after, based |-> TRUE, raced |-> FALSE, at |-> "prepared"]

\* applyPatch, of some bytes of the file that the session has observed under
\* one receipt
ApplyPatch(s) ==
  LET rows == Establish(file.bytes)
  IN /\ Admitted(s)
     /\ file.bytes # Absent
     /\ record' = file.bytes
     /\ reads' = rows
     /\ \/ /\ Valid(rows, s)
           /\ \E r \in Ranges(file.bytes), with \in Patches :
                /\ r[1] < r[2]
                /\ \E k \in {q.receipt : q \in Of(s)} :
                     CoveredBy({q \in rows : q.scope = s /\ q.receipt = k}, r[1], r[2])
                /\ Len(Spliced(file.bytes, r[1], r[2], with)) <= MaxLength
                /\ \A q \in rows : q.to >= r[2] => q.to + Len(with) <= MaxLength + (r[2] - r[1])
                /\ Prepare(s, "patch", r[1], r[2], with, Spliced(file.bytes, r[1], r[2], with))
        \/ UNCHANGED op     \* refused: stale, not read, or the text is not there
     /\ UNCHANGED <<file, ended>>

\* applyWrite, of a whole file: one the session has observed, or one it creates
ApplyWrite(s) ==
  LET rows == Establish(file.bytes)
      length == IF file.bytes = Absent THEN 0 ELSE Len(file.bytes)
  IN /\ Admitted(s)
     /\ record' = file.bytes
     /\ reads' = rows
     /\ \/ /\ IF file.bytes = Absent THEN {r \in rows : r.scope = s} = {}
              ELSE Valid(rows, s) /\ CoveredBy({r \in rows : r.scope = s}, 0, length)
           /\ \E after \in Files : Prepare(s, "write", 0, length, after, after)
        \/ UNCHANGED op
     /\ UNCHANGED <<file, ended>>

\* Mutation: the file is not compared with the base again.
CheckBlind ==
  /\ Pending /\ op.at = "prepared"
  /\ op' = [op EXCEPT !.at = "checked"]
  /\ UNCHANGED <<file, record, reads, ended>>

\* publish, first: the file is read once more and compared with the base (one
\* that is created, with its absence), and the session is asserted to be live.
Check ==
  /\ Pending /\ op.at = "prepared"
  /\ op.base # op.after => file.bytes = op.base
  /\ op' = [op EXCEPT !.at = "checked"]
  /\ UNCHANGED <<file, record, reads, ended>>

\* publish, then: a rename replaces the file, whatever is in it by now; a
\* created file is linked, which replaces nothing.  Nothing is published where
\* the bytes would stay as they are.
Publish ==
  /\ Pending /\ op.at = "checked"
  /\ op.base = Absent => file.bytes = Absent
  /\ file' = IF op.base = op.after THEN file ELSE [bytes |-> op.after, staged |-> op.base = Absent]
  /\ op' = [op EXCEPT !.at = "published"]
  /\ UNCHANGED <<record, reads, ended>>

\* The operation ends without a receipt and stays prepared: the file had
\* changed, the session was revoked, the bytes could not be confirmed, or the
\* process died.
LeftPrepared ==
  /\ Locked
  /\ op' = [op EXCEPT !.at = "left"]
  /\ UNCHANGED <<file, record, reads, ended>>

\* Somebody created the file first: the stage is removed (_abortUnappliedCreate).
CreateConflict ==
  /\ Pending /\ op.at \in {"prepared", "checked"}
  /\ op.base = Absent /\ file.bytes # Absent
  /\ op' = NoOp
  /\ UNCHANGED <<file, record, reads, ended>>

\* _commitOperation
Committed(rows) ==
  IF op.base = op.after THEN rows
  ELSE IF op.kind = "write" THEN {Lapse(r, "replaced") : r \in rows}
  ELSE Rebase(rows, op)

CommitOperation(rows) ==
  /\ record' = op.after
  /\ reads' = rows
  /\ op' = NoOp
  /\ file' = [file EXCEPT !.staged = FALSE]
  /\ UNCHANGED ended

\* The published bytes are confirmed and committed.  The writer of a whole
\* file has then observed it (_observePublished), unless it was revoked or the
\* process died in between.
Confirm ==
  LET s == op.scope
      others == {r \in Committed(reads) : r.scope # s}
      own == [scope |-> s, receipt |-> 1, from |-> 0, to |-> Len(op.after), bytes |-> op.after, is |-> "current"]
  IN /\ Pending /\ op.at = "published"
     /\ file.bytes = op.after /\ (op.base = Absent => file.staged)
     /\ \/ CommitOperation(Committed(reads))
        \/ op.kind = "write" /\ CommitOperation(others \cup {own})

\* _recoverPendingLocked: under the lock, before any other operation on the
\* file.  Where the file is neither what it was nor what it should be, nor the
\* record the one the operation was prepared on, everything stays as it is and
\* the caller is refused.
Recover ==
  /\ Pending /\ op.at = "left"
  /\ op.based
  /\ op.base = Absent /\ file.bytes # Absent => file.staged
  /\ \/ file.bytes = op.base /\ op.base = op.after /\ CommitOperation(Committed(reads))
     \/ file.bytes = op.base /\ op.base # op.after /\ op' = NoOp /\ UNCHANGED <<file, record, reads, ended>>
     \/ file.bytes = op.after /\ op.base # op.after /\ CommitOperation(Committed(reads))

\* closeLaunch
CloseLaunch(s) ==
  /\ ~Locked
  /\ s \notin ended
  /\ ended' = ended \cup {s}
  /\ reads' = {r \in reads : r.scope # s}
  /\ UNCHANGED <<file, record, op>>

\* An hour passes, or a minute if the file is read by others.  (The time is
\* looked at when an operation is admitted, so it may as well pass between
\* operations.)
ObservationExpires ==
  /\ ~Locked
  /\ \E r \in reads : r.is = "current" /\ reads' = (reads \ {r}) \cup {Lapse(r, "lapsed")}
  /\ UNCHANGED <<file, record, op, ended>>

\* Somebody writes, replaces or deletes the file without the authority.
Edit ==
  /\ \E content \in Files \cup {Absent} :
       \E staged \in {FALSE, file.staged /\ content # Absent} :
         file' = [bytes |-> content, staged |-> staged]
  /\ op' = IF Pending /\ op.at = "checked" THEN [op EXCEPT !.raced = TRUE] ELSE op
  /\ UNCHANGED <<record, reads, ended>>

\* A file keeps its name.
BytesNext ==
  /\ UNCHANGED wholeFileName
  /\ \/ \E s \in Scopes :
          \/ ObserveRead(s) \/ ObserveAbsence(s) \/ RecordExposure(s)
          \/ ApplyPatch(s) \/ ApplyWrite(s) \/ CloseLaunch(s)
     \/ Check \/ Publish \/ LeftPrepared \/ CreateConflict \/ Confirm \/ Recover
     \/ ObservationExpires \/ Edit

BytesSpec == BytesInit /\ [][BytesNext]_bytesVars

-----------------------------------------------------------------------------
(* Properties *)

Ops == {NoOp} \cup
       [kind : {"patch", "write"}, scope : Scopes, from : 0..MaxLength, to : 0..MaxLength,
        with : Contents, base : Contents \cup {Absent}, after : Contents,
        based : BOOLEAN, raced : BOOLEAN, at : {"prepared", "checked", "published", "left"}]

\* The kinds of the variables.
BytesTypeOK ==
  /\ wholeFileName \in BOOLEAN
  /\ file \in [bytes : Contents \cup {Absent}, staged : BOOLEAN]
  /\ record \in Contents \cup {Absent, NotEstablished}
  /\ reads \subseteq Reads
  /\ op \in Ops
  /\ ended \subseteq Scopes

\* Wherever patches of other sessions have moved it, a current observation
\* says what the bytes at its place are: those of the file as last
\* established.
ObservationsTrue ==
  \A r \in reads : r.is = "current" =>
    /\ record \in Contents
    /\ r.from <= r.to /\ r.to <= Len(record)
    /\ r.bytes = Slice(record, r.from, r.to)

\* No byte is replaced through the authority that the session which replaces
\* it has not observed as it is, a patch leaves the other bytes as they are, and
\* a creation replaces no file: nothing undoes a change its writer never saw,
\* whoever made the change, except one that is made round the authority between
\* the last look at the file and the rename.
Seen(s, k) ==
  /\ file.bytes # Absent /\ k < Len(file.bytes)
  /\ \E r \in Of(s) : /\ r.from <= k /\ k < r.to /\ Len(r.bytes) = r.to - r.from
                      /\ r.bytes[k - r.from + 1] = file.bytes[k + 1]
OnlySeenIsReplaced ==
  Pending /\ op.at \in {"prepared", "checked"} /\ file' # file /\ op'.at = "published" =>
    /\ op.base = Absent => file.bytes = Absent
    /\ \/ op.raced
       \/ /\ \A k \in op.from..(op.to - 1) : Seen(op.scope, k)
          /\ op.kind = "patch" => file'.bytes = Spliced(file.bytes, op.from, op.to, op.with)

\* An observation says what the bytes are, wherever patches have moved it and
\* whoever died in the middle of one, and a write replaces nothing else that
\* could still be seen.
ObservationsKept == [][ObservationsTrue' /\ OnlySeenIsReplaced]_bytesVars
=============================================================================
