----------------------------- MODULE RetryQueue -----------------------------
(***************************************************************************)
(* The agent's persistent queue (agent/retry_queue.py): the payload column *)
(* of the SQLite table retry_queue, in the order of its AUTOINCREMENT id.  *)
(* Each operation holds the queue's lock from its first statement to its   *)
(* commit, so each is one atomic step; what its callers do between two     *)
(* operations is not.  The rows are on disk and outlive the process.       *)
(***************************************************************************)
EXTENDS Integers, Sequences

VARIABLE rows

(* The number of rows that "the count oldest" stands for: LIMIT count. *)
Limited(count) == IF count < Len(rows) THEN count ELSE Len(rows)

(* Mutant, part of no specification: peek reads ORDER BY id DESC.          *)
PeekNewest(limit) == SubSeq(rows, Len(rows) - Limited(limit) + 1, Len(rows))

(* put: INSERT, which takes the next id and so the end of the order. *)
Put(e) == rows' = Append(rows, e)

(* peek: the payloads of the first limit rows, which stay in the table. *)
Peek(limit) == SubSeq(rows, 1, Limited(limit))

(* commit: DELETE of whichever rows are the count oldest at this moment. *)
Commit(count) == rows' = SubSeq(rows, Limited(count) + 1, Len(rows))

(* The payloads that Commit(count) would delete. *)
Removed(count) == {rows[i] : i \in 1..Limited(count)}

(* size: SELECT COUNT. *)
Size == Len(rows)

=============================================================================
