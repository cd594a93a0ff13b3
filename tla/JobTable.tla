------------------------------ MODULE JobTable ------------------------------
(***************************************************************************)
(* The rows of workflow_start_jobs and the SQL statements that change one. *)
(* Each operator maps a row to the row the statement leaves behind; the    *)
(* statements' WHERE clauses are the operators' conditions.                *)
(*                                                                         *)
(* Time is abstracted: "due" says whether next_attempt_at has passed, and  *)
(* "lock" how locked_at compares with now() - STALE_PROCESSING_MINUTES.    *)
(* "conn" says whether last_error reads like a connectivity failure.       *)
(* attempt_count only lengthens the retry delay, which "due" abstracts:    *)
(* every INSERT writes max_attempts = 0, so no job is ever given up.       *)
(***************************************************************************)

Statuses == {"absent", "pending", "processing", "completed"}
Locks    == {"none", "fresh", "stale"}

Rows == [status : Statuses, due : BOOLEAN, lock : Locks, conn : BOOLEAN]

\* No row has the job's (tenant_id, job_type, workflow_id) key.
NoRow == [status |-> "absent", due |-> FALSE, lock |-> "none", conn |-> FALSE]

\* A fresh INSERT: pending, due at once.
InsertedRow ==
  [status |-> "pending", due |-> TRUE, lock |-> "none", conn |-> FALSE]

\* INSERT ... ON CONFLICT DO UPDATE with the CASE expressions that leave a
\* completed row as it is and make any other row, even a claimed one, pending.
UpsertedRow(row) ==
  IF row.status = "completed" THEN row ELSE InsertedRow

\* Mutant: the claim forgets status = 'pending'.
IsDueEvenIfClaimed(row) == row.status \in {"pending", "processing"} /\ row.due

IsDue(row) == row.status = "pending" /\ row.due

ClaimedRow(row) ==
  [row EXCEPT !.status = "processing", !.lock = "fresh"]

CompletedRow(row) ==
  IF row.status = "processing"
  THEN [row EXCEPT !.status = "completed", !.lock = "none", !.conn = FALSE]
  ELSE row

\* Mutant: the first failure gives the job up.
FailedRowGivesUp(row, conn) ==
  IF row.status = "processing"
  THEN [status |-> "failed", due |-> FALSE, lock |-> "none", conn |-> conn]
  ELSE row

\* Mutant: the failed row stays claimed, without a lock to go stale.
FailedRowStaysClaimed(row, conn) ==
  IF row.status = "processing"
  THEN [row EXCEPT !.lock = "none", !.conn = conn]
  ELSE row

\* next_attempt_at moves at least five seconds into the future.
FailedRow(row, conn) ==
  IF row.status = "processing"
  THEN [status |-> "pending", due |-> FALSE, lock |-> "none", conn |-> conn]
  ELSE row

\* Mutant: recovery does not look at locked_at.
RecoveredRowAtOnce(row) ==
  IF row.status = "processing"
  THEN [row EXCEPT !.status = "pending", !.lock = "none"]
  ELSE row

\* Mutant: no stale recovery.
RecoveredRowNever(row) == row

RecoveredRow(row) ==
  IF row.status = "processing" /\ row.lock = "stale"
  THEN [row EXCEPT !.status = "pending", !.lock = "none"]
  ELSE row

FastForwardedRow(row) ==
  IF row.status = "pending" /\ row.conn THEN [row EXCEPT !.due = TRUE] ELSE row
=============================================================================
