---------------------------- MODULE BulkInsert_proofs ----------------------------
(* Proofs about BulkInsert, for any number of rows, batches and failures. *)
EXTENDS BulkInsert, TLAPS

Inv == TypeOK /\ SentIsCounted /\ AllOrNothing

(***************************************************************************)
(* Through batches, failures and the commit, what the transaction holds is *)
(* what was sent, and the table has all of it or nothing.                  *)
(***************************************************************************)
LEMMA InvStep == Inv /\ [Next]_vars => Inv'
<1> SUFFICES ASSUME Inv, [Next]_vars PROVE Inv'
  OBVIOUS
<1> USE BulkAssumption DEF Inv, TypeOK, SentIsCounted, AllOrNothing
<1>1. ASSUME NEW n \in 0 .. MaxRows, NEW b \in 0 .. MaxBatch, NEW h \in BOOLEAN,
             Call(n, b, h)
      PROVE  Inv'
  BY <1>1 DEF Call
<1>2. CASE Begin
  BY <1>2 DEF Begin, Fail
<1>3. CASE SendBatch
  <2>1. CASE start < rows
    BY <1>3, <2>1 DEF SendBatch, Smaller
  <2>2. CASE start = rows
    BY <1>3, <2>2 DEF SendBatch, Smaller
  <2> QED BY <2>1, <2>2
<1>4. CASE RollBack
  BY <1>4 DEF RollBack, Fail
<1>5. CASE Commit
  BY <1>5 DEF Commit
<1>6. CASE Resume
  BY <1>6 DEF Resume
<1>7. CASE UNCHANGED vars
  BY <1>7 DEF vars
<1> QED BY <1>1, <1>2, <1>3, <1>4, <1>5, <1>6, <1>7 DEF Next

(***************************************************************************)
(* insert_rows is atomic as long as the driver reports row counts: it puts *)
(* all the rows in the table and returns their number, or raises and puts  *)
(* none, however many batches there are and wherever one fails.            *)
(***************************************************************************)
THEOREM InsertIsAtomic == Spec => [](TypeOK /\ AllOrNothing)
<1>1. Init => Inv
  BY BulkAssumption DEF Init, Inv, TypeOK, SentIsCounted, AllOrNothing
<1>2. Inv /\ [Next]_vars => Inv'
  BY InvStep
<1> QED BY <1>1, <1>2, PTL DEF Spec, Inv
=============================================================================
