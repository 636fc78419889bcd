------------------------------ MODULE BulkInsert ------------------------------
(***************************************************************************)
(* DatabaseConnection.insert_rows (runtime/cds_runtime/database.py): a     *)
(* bulk insert sent in batches inside one transaction.  "The whole call is *)
(* one atomic transaction: it commits once at the end and rolls back       *)
(* entirely on any failure."  Rows are counted: they are all of one shape.  *)
(***************************************************************************)
EXTENDS Integers

CONSTANTS
  MaxRows, MaxBatch,   \* bounds of the instance: rows of a call, batch_size
  MaxFaults            \* bound: failing statements, commits and connections

ASSUME BulkAssumption == {MaxRows, MaxBatch, MaxFaults} \subseteq Nat

VARIABLES
  pc,         \* "idle", "begin", "loop", "commit", "returned", "raised"
  rows,       \* len(rows)
  batchSize,
  start,      \* how many rows have been sent
  inserted,   \* the sum insert_rows keeps
  pending,    \* rows inserted by the open transaction
  committed,  \* rows the call has put in the table for good
  answer,     \* the value returned
  faults

vars == <<pc, rows, batchSize, start, inserted, pending, committed, answer, faults>>

Smaller(a, b) == IF a < b THEN a ELSE b
Fail == faults < MaxFaults /\ faults' = faults + 1

(* The checks made before the engine is touched. *)
Call(n, b, homogeneous) ==
  /\ pc = "idle"
  /\ rows' = n /\ batchSize' = b
  /\ pc' = IF n = 0 THEN "returned"
           ELSE IF b < 1 \/ ~homogeneous THEN "raised" ELSE "begin"
  /\ answer' = 0
  /\ start' = 0 /\ inserted' = 0 /\ pending' = 0 /\ committed' = 0
  /\ UNCHANGED faults

(* engine() and engine.begin(). *)
Begin ==
  /\ pc = "begin"
  /\ \/ pc' = "loop" /\ UNCHANGED faults
     \/ pc' = "raised" /\ Fail
  /\ UNCHANGED <<rows, batchSize, start, inserted, pending, committed, answer>>

(***************************************************************************)
(* One round of the loop: the batch is executed; if the driver does not    *)
(* report its row count, the function returns -1 from inside the `with`,   *)
(* which commits.                                                          *)
(***************************************************************************)
SendBatch ==
  /\ pc = "loop"
  /\ LET size == Smaller(batchSize, rows - start)
     IN  IF size > 0
         THEN /\ pending' = pending + size
              /\ start' = start + size
              /\ \/ inserted' = inserted + size /\ UNCHANGED <<pc, answer>>
                 \/ pc' = "commit" /\ answer' = -1 /\ UNCHANGED inserted
         ELSE /\ pc' = "commit" /\ answer' = inserted
              /\ UNCHANGED <<pending, start, inserted>>
  /\ UNCHANGED <<rows, batchSize, committed, faults>>

\* Mutant: every batch is committed by itself.
KeepOnFailure ==
  /\ pc \in {"loop", "commit"}
  /\ Fail
  /\ pc' = "raised"
  /\ committed' = pending /\ pending' = 0
  /\ UNCHANGED <<rows, batchSize, start, inserted, answer>>

(* A batch or the COMMIT fails: the transaction rolls back. *)
RollBack ==
  /\ pc \in {"loop", "commit"}
  /\ Fail
  /\ pc' = "raised"
  /\ pending' = 0
  /\ UNCHANGED <<rows, batchSize, start, inserted, committed, answer>>

Commit ==
  /\ pc = "commit"
  /\ pc' = "returned"
  /\ committed' = committed + pending
  /\ pending' = 0
  /\ UNCHANGED <<rows, batchSize, start, inserted, answer, faults>>

(* The caller takes the result or handles the exception. *)
Resume ==
  /\ pc \in {"returned", "raised"}
  /\ pc' = "idle"
  /\ UNCHANGED <<rows, batchSize, start, inserted, pending, committed, answer, faults>>

Init ==
  /\ pc = "idle" /\ rows = 0 /\ batchSize = 0 /\ answer = 0
  /\ start = 0 /\ inserted = 0 /\ pending = 0 /\ committed = 0 /\ faults = 0

Next ==
  \/ \E n \in 0 .. MaxRows, b \in 0 .. MaxBatch, h \in BOOLEAN : Call(n, b, h)
  \/ Begin
  \/ SendBatch
  \/ RollBack
  \/ Commit
  \/ Resume

Spec == Init /\ [][Next]_vars

-----------------------------------------------------------------------------
TypeOK ==
  /\ pc \in {"idle", "begin", "loop", "commit", "returned", "raised"}
  /\ rows \in 0 .. MaxRows /\ batchSize \in 0 .. MaxBatch
  /\ start \in 0 .. rows
  /\ {inserted, pending, committed} \subseteq 0 .. start
  /\ answer \in -1 .. rows
  /\ faults \in 0 .. MaxFaults

(***************************************************************************)
(* A call that returns a count has put every row in the table, and that is *)
(* the count; a call that raises has put none.                             *)
(***************************************************************************)
AllOrNothing ==
  /\ pc = "returned" /\ answer # -1 => committed = rows /\ answer = rows
  /\ pc = "raised" => committed = 0

(***************************************************************************)
(* "The whole call is one atomic transaction", also when the driver does   *)
(* not report row counts: a call that returns has put every row in the     *)
(* table.                                                                  *)
(***************************************************************************)
WholeCall == pc = "returned" => committed = rows

(***************************************************************************)
(* What AllOrNothing rests on: nothing is in the table before the commit,  *)
(* which comes when every row has been sent and counted.                   *)
(***************************************************************************)
SentIsCounted ==
  /\ pc \in {"begin", "loop"} => pending = start /\ answer = 0 /\ batchSize > 0
  /\ pc \in {"loop", "commit"} /\ answer # -1 => pending = start /\ inserted = start
  /\ pc = "commit" /\ answer # -1 => start = rows /\ answer = rows
  /\ pc \in {"begin", "loop", "commit", "raised"} => committed = 0
  /\ pc = "begin" => start = 0
=============================================================================
