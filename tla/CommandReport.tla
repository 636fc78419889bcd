---------------------------- MODULE CommandReport ----------------------------
(***************************************************************************)
(* What `cds up` promises about every invocation that gets as far as       *)
(* applying a plan (docs/audit-log.md): it ends by returning an exit code, *)
(* after an entry in the audit log with the outcome that code tells, or by *)
(* an exception, with or without an entry.  There is one entry, but a      *)
(* Ctrl-C that reaches the command when it has recorded its outcome and    *)
(* not returned yet may add a second one, "interrupted", which is then     *)
(* what the exit code tells.  `cds down` ends as well but is not audited.  *)
(***************************************************************************)
EXTENDS Naturals, Sequences

VARIABLES
  audited, \* whether the command is one that leaves an entry
  entries, \* the outcomes it has recorded in the audit log, in order
  exit     \* "none" before the first command, "running", what the exit code
           \* tells, or "raised"

reported == <<audited, entries, exit>>

Outcomes == {"success", "failure", "interrupted"}

Record(outcome) ==
  /\ audited /\ entries = <<>> /\ exit = "running"
  /\ entries' = Append(entries, outcome)
  /\ UNCHANGED <<audited, exit>>

RecordInterrupt ==
  /\ Len(entries) = 1 /\ exit = "running"
  /\ entries' = Append(entries, "interrupted")
  /\ UNCHANGED <<audited, exit>>

Return ==
  /\ entries # <<>> /\ exit = "running"
  /\ exit' = entries[Len(entries)]
  /\ UNCHANGED <<audited, entries>>

(* The entry and the exit code in one, or an exit code without an entry.   *)
Finish(outcome) ==
  /\ entries = <<>> /\ exit = "running"
  /\ entries' = IF audited THEN <<outcome>> ELSE <<>>
  /\ exit' = outcome
  /\ UNCHANGED audited

Raise ==
  /\ exit = "running"
  /\ exit' = "raised"
  /\ UNCHANGED <<audited, entries>>

Begin ==
  /\ exit # "running"
  /\ exit' = "running" /\ entries' = <<>>
  /\ audited' \in BOOLEAN

Ending ==
  \/ Return \/ Raise \/ RecordInterrupt
  \/ \E outcome \in Outcomes : Record(outcome) \/ Finish(outcome)

Init == audited \in BOOLEAN /\ entries = <<>> /\ exit \in {"none", "running"}

Next == Begin \/ Ending

(* What an invocation may do, and that it ends. *)
Safety == Init /\ [][Next]_reported
Spec   == Safety /\ WF_reported(Ending)

=============================================================================
