-------------------------- MODULE HelmRelease_proofs --------------------------
(***************************************************************************)
(* What `cds up` and `cds down` promise on a cluster, for any workloads,   *)
(* replicas, timeout and number of commands.  The inductive invariant says *)
(* where each command can be, that a command that goes on has no entry and *)
(* no exit code yet, and how the claims that `down --delete-pvcs` will     *)
(* delete cover those the release had when it began.                       *)
(***************************************************************************)
EXTENDS HelmRelease, TLAPS

Active == {"prepare", "apply", "list", "poll", "uninstall", "delete"}

(* Which command can be at which step. *)
Places ==
  /\ pc \in {"idle", "prepare", "apply", "poll"} => verb = "up"
  /\ pc = "list" => verb \in {"up", "delete"}
  /\ pc \in {"uninstall", "delete"} => verb \in {"down", "delete"}
  /\ verb = "down" => names = {}

(* A command that goes on has neither an entry nor an exit code. *)
Entries ==
  /\ pc \in Active \cup {"idle"} => exit = "running" /\ report = "none"
  /\ pc = "done" => exit # "running"

(* The claims that will be deleted, or are, cover those of the release. *)
Covered ==
  /\ verb = "delete" /\ pc = "list" => owned \subseteq ClaimNames
  /\ verb = "delete" /\ pc \in {"uninstall", "delete"} => owned \subseteq names
  /\ pc = "delete" \/ (verb = "delete" /\ exit = "success") => \A w \in Workloads : ~Applied(w)

(* Only what has been applied is current. *)
Rolled == \A w \in current : Applied(w)

Inv == /\ TypeOK /\ Rolled /\ Places /\ Entries /\ Covered
       /\ SecretsRemoved /\ GivesUpInTime /\ ReadyWasSeen /\ OwnedDeleted

LEMMA InitInv == Init => Inv
<1> SUFFICES ASSUME Init PROVE Inv
  OBVIOUS
<1>1. Timeout \in Nat /\ Grace \in Nat /\ MaxReplicas \in Nat /\ MaxReplicas > 0 /\ MaxCommands \in Nat
  BY HelmAssumption
<1>2. TypeOK
  <2>1. health \in [Workloads -> Healths] /\ seen \in [Workloads -> Healths]
    BY DEF Init, Nothing, Healths
  <2>2. replicas \in [StatefulSets -> 1 .. MaxReplicas]
    <3>1. 1 \in 1 .. MaxReplicas
      BY <1>1
    <3> QED BY <3>1 DEF Init
  <2>3. 0 \in 0 .. Timeout + Grace /\ 0 \in 0 .. MaxCommands
    BY <1>1
  <2> QED BY <2>1, <2>2, <2>3 DEF Init, TypeOK
<1>3. Covered /\ Rolled
  BY DEF Init, Covered, Rolled, Nothing, Applied
<1> QED BY <1>1, <1>2, <1>3 DEF Init, Inv, Places, Entries, SecretsRemoved, GivesUpInTime,
     ReadyWasSeen, Watched, OwnedDeleted, Active

(***************************************************************************)
(* The steps of the cluster: no claim appears once nothing is applied.     *)
(***************************************************************************)
LEMMA ClusterInv == Inv /\ Cluster => Inv'
<1> SUFFICES ASSUME Inv, Cluster PROVE Inv'
  OBVIOUS
<1> USE HelmAssumption DEF Inv
<1>1. ASSUME NEW w \in Workloads, RollOut(w) \/ Change(w) PROVE Inv'
  <2> USE <1>1 DEF RollOut, Change
  <2>1. /\ \A v \in Workloads : Applied(v)' = Applied(v)
        /\ health' \in [Workloads -> Healths] /\ current' \subseteq Workloads
    <3>1. \E h \in Healths \ {"absent"} : health' = [health EXCEPT ![w] = h]
      <4>1. CASE RollOut(w)
        BY <4>1 DEF Healths
      <4>2. CASE Change(w)
        BY <4>2 DEF Healths
      <4> QED BY <1>1, <4>1, <4>2
    <3>2. health[w] # "absent"
      <4>1. CASE RollOut(w)
        BY <4>1 DEF Applied
      <4>2. CASE Change(w)
        BY <4>2 DEF Change, Rolled, Applied
      <4> QED BY <1>1, <4>1, <4>2
    <3> QED BY <3>1, <3>2 DEF Applied, TypeOK, Healths
  <2>2. ClaimNames' = ClaimNames
    BY <2>1 DEF ClaimNames, TypeOK
  <2>3. TypeOK'
    BY <2>1 DEF TypeOK
  <2>4. Covered' /\ Rolled'
    BY <2>1, <2>2 DEF Covered, Rolled, Change, Applied
  <2> QED BY <2>3, <2>4 DEF Places, Entries, SecretsRemoved, GivesUpInTime, ReadyWasSeen, Watched, OwnedDeleted
<1>2. ASSUME NEW w \in StatefulSets, Claim(w) PROVE Inv'
  <2> USE <1>2 DEF Claim
  <2>1. TypeOK'
    BY DEF TypeOK
  <2>2. OwnedDeleted'
    BY DEF OwnedDeleted, Covered
  <2> QED BY <2>1, <2>2 DEF Places, Entries, Covered, Rolled, ClaimNames, Applied, SecretsRemoved,
       GivesUpInTime, ReadyWasSeen, Watched
<1> QED BY <1>1, <1>2 DEF Cluster

(***************************************************************************)
(* The steps of a command.                                                 *)
(***************************************************************************)
LEMMA BeginInv == Inv /\ Begin => Inv'
<1> SUFFICES ASSUME Inv, Begin PROVE Inv'
  OBVIOUS
<1> USE HelmAssumption DEF Inv, Begin, cluster
<1>1. TypeOK'
  BY DEF TypeOK, Nothing, Healths, ClaimsOfRelease
<1>2. Covered' /\ Rolled'
  BY DEF Covered, Rolled, ClaimsOfRelease, ClaimNames, Applied
<1> QED BY <1>1, <1>2 DEF Places, Entries, Active, SecretsRemoved, GivesUpInTime, ReadyWasSeen,
     Watched, OwnedDeleted, TypeOK

LEMMA CommandInv == Inv /\ (Command \/ Interrupt) => Inv'
<1> SUFFICES ASSUME Inv, Command \/ Interrupt PROVE Inv'
  OBVIOUS
<1> USE HelmAssumption DEF Inv, Ends, Escapes, cluster
<1>1. CASE Prepare
  <2> USE <1>1 DEF Prepare
  <2>1. TypeOK' /\ Places' /\ Entries'
    BY DEF TypeOK, Places, Entries, Active
  <2>2. Covered' /\ Rolled' /\ OwnedDeleted'
    BY DEF Places, Covered, Rolled, Applied, OwnedDeleted
  <2>3. SecretsRemoved' /\ GivesUpInTime' /\ ReadyWasSeen'
    BY DEF Places, SecretsRemoved, GivesUpInTime, ReadyWasSeen, Watched, Entries, Active
  <2> QED BY <2>1, <2>2, <2>3
<1>2. CASE HelmUpgrade
  <2> USE <1>2 DEF HelmUpgrade
  <2>1. TypeOK'
    BY DEF TypeOK, Apply, Healths, Applied
  <2>2. Places' /\ Entries' /\ Covered' /\ SecretsRemoved' /\ OwnedDeleted'
    BY DEF TypeOK, Places, Entries, Active, Covered, SecretsRemoved, OwnedDeleted
  <2>3. GivesUpInTime' /\ ReadyWasSeen'
    BY DEF TypeOK, Places, Entries, Active, GivesUpInTime, ReadyWasSeen, Watched
  <2>4. Rolled'
    BY DEF Apply, Rolled, Applied, TypeOK
  <2> QED BY <2>1, <2>2, <2>3, <2>4
<1>3. CASE List
  <2>1. TypeOK'
    BY <1>3 DEF List, KubectlFails, TypeOK, ClaimNames
  <2> QED BY <1>3, <2>1 DEF List, KubectlFails, TypeOK, Places, Entries, Active, Covered, Rolled, Applied, ClaimNames,
       SecretsRemoved, GivesUpInTime, ReadyWasSeen, Watched, OwnedDeleted
<1>4. CASE Poll
  <2>1. TypeOK' /\ GivesUpInTime'
    BY <1>4 DEF Poll, KubectlFails, TypeOK, Places, GivesUpInTime, Remaining
  <2>2. ReadyWasSeen'
    BY <1>4 DEF Poll, KubectlFails, Settled, TypeOK, Places, Entries, Active, ReadyWasSeen, Watched
  <2> QED BY <1>4, <2>1, <2>2 DEF Poll, KubectlFails, TypeOK, Places, Entries, Active, Covered,
       Rolled, Applied, SecretsRemoved, OwnedDeleted
<1>5. CASE Uninstall
  <2> USE <1>5 DEF Uninstall
  <2>1. TypeOK'
    BY DEF TypeOK, Healths
  <2>2. Covered'
    <3>1. PICK some \in SUBSET Workloads :
            /\ health' = [w \in Workloads |-> IF w \in some THEN "absent" ELSE health[w]]
            /\ \/ /\ some = Workloads
                  /\ IF names = {} THEN Ends("success")
                                   ELSE pc' = "delete" /\ UNCHANGED <<report, exit>>
               \/ Ends("failure") \/ Escapes
      OBVIOUS
    <3>2. some = Workloads => \A w \in Workloads : ~Applied(w)'
      BY <3>1 DEF Applied
    <3> QED BY <3>1, <3>2 DEF Covered, Entries, Active, Places, TypeOK
  <2>3. OwnedDeleted'
    BY DEF OwnedDeleted, Covered, Entries, Active, Places, TypeOK
  <2>4. Rolled'
    BY DEF Rolled, Applied, TypeOK
  <2> QED BY <2>1, <2>2, <2>3, <2>4 DEF Places, Entries, Active, TypeOK, SecretsRemoved, GivesUpInTime,
       ReadyWasSeen, Watched
<1>6. CASE DeleteClaims
  <2> USE <1>6 DEF DeleteClaims
  <2>1. TypeOK' /\ Covered' /\ Rolled' /\ OwnedDeleted'
    BY DEF TypeOK, Covered, Rolled, OwnedDeleted, Applied, Entries, Active, Places
  <2> QED BY <2>1 DEF Places, Entries, Active, TypeOK, SecretsRemoved, GivesUpInTime, ReadyWasSeen, Watched
<1>7. CASE Interrupt
  BY <1>7 DEF Interrupt, TypeOK, Places, Entries, Active, Covered, Rolled, Applied, SecretsRemoved, GivesUpInTime,
     ReadyWasSeen, Watched, OwnedDeleted
<1> QED BY <1>1, <1>2, <1>3, <1>4, <1>5, <1>6, <1>7 DEF Command

LEMMA StutterInv == Inv /\ UNCHANGED vars => Inv'
BY DEF vars, cluster, Inv, TypeOK, Places, Entries, Covered, Rolled, ClaimNames, Applied, SecretsRemoved, GivesUpInTime,
   ReadyWasSeen, Watched, OwnedDeleted

LEMMA InvAlways == Spec => []Inv
<1>1. Inv /\ [Next]_vars => Inv'
  BY ClusterInv, BeginInv, CommandInv, StutterInv DEF Next
<1> QED BY InitInv, <1>1, PTL DEF Spec

-----------------------------------------------------------------------------
(***************************************************************************)
(* The values file with the secrets exists only while helm runs, however   *)
(* helm ends (the `finally` of helm_up).                                   *)
(***************************************************************************)
THEOREM SecretsAreRemoved == Spec => []SecretsRemoved
<1>1. Inv => SecretsRemoved
  BY DEF Inv
<1> QED BY <1>1, InvAlways, PTL

(***************************************************************************)
(* Polling keeps to the one time budget that helm has already drawn on.    *)
(***************************************************************************)
THEOREM PollingIsBounded == Spec => []GivesUpInTime
<1>1. Inv => GivesUpInTime
  BY DEF Inv
<1> QED BY <1>1, InvAlways, PTL

(***************************************************************************)
(* An `up` that reports a ready release has seen every workload healthy in *)
(* one snapshot.                                                           *)
(***************************************************************************)
THEOREM ReadyIsBacked == Spec => []ReadyWasSeen
<1>1. Inv => ReadyWasSeen
  BY DEF Inv
<1> QED BY <1>1, InvAlways, PTL

(***************************************************************************)
(* A successful `down --delete-pvcs` leaves none of the claims that the    *)
(* release had, or could still get, when the command began.                *)
(***************************************************************************)
THEOREM ClaimsAreDeleted == Spec => []OwnedDeleted
<1>1. Inv => OwnedDeleted
  BY DEF Inv
<1> QED BY <1>1, InvAlways, PTL

(***************************************************************************)
(* Claims go only by `down --delete-pvcs`, once helm has removed every     *)
(* workload of the release.                                                *)
(***************************************************************************)
THEOREM ClaimsAreKept == Spec => ClaimsRetained
<1>1. Inv /\ [Next]_vars =>
        [~(claims \subseteq claims') => verb = "delete" /\ \A w \in Workloads : ~Applied(w)]_vars
  <2> SUFFICES ASSUME Inv, Next, ~(claims \subseteq claims')
               PROVE  verb = "delete" /\ \A w \in Workloads : ~Applied(w)
    BY DEF vars
  <2>1. DeleteClaims
    BY DEF Next, Begin, Command, Interrupt, Cluster, RollOut, Change, Claim, Prepare, HelmUpgrade, Apply,
       List, KubectlFails, Poll, Uninstall, cluster
  <2>2. pc = "delete" /\ names # {}
    BY <2>1 DEF DeleteClaims
  <2> QED BY <2>2 DEF Inv, Covered, Places, TypeOK
<1> QED BY <1>1, InvAlways, PTL DEF Spec, ClaimsRetained

(***************************************************************************)
(* The safety part of ReportsOnce: every step of HelmRelease is a step of  *)
(* CommandReport or a stutter, so an `up` never leaves a second entry and  *)
(* never returns an exit code that its entry does not tell.                *)
(***************************************************************************)
THEOREM AuditIsFaithful == Spec => Audit!Safety
<1>1. Init => Audit!Init
  BY DEF Init, Audit!Init
<1>2. Inv /\ Inv' /\ [Next]_vars => [Audit!Next]_(Audit!reported)
  <2> SUFFICES ASSUME Inv, Inv', [Next]_vars PROVE [Audit!Next]_(Audit!reported)
    OBVIOUS
  <2> USE DEF Inv, Places, Entries, Active, Audit!reported
  <2>1. CASE Cluster \/ UNCHANGED vars
    BY <2>1 DEF Cluster, RollOut, Change, Claim, vars
  <2>2. CASE Begin
    <3>1. Audit!Begin
      BY <2>2 DEF Begin, Audit!Begin
    <3> QED BY <3>1 DEF Audit!Next
  <2>3. CASE Command \/ Interrupt
    <3>1. /\ verb' = verb /\ pc \in Active
          /\ \/ pc' \in Active /\ UNCHANGED <<report, exit>>
             \/ \E outcome \in {"success", "failure"} : Ends(outcome)
             \/ Escapes
      BY <2>3 DEF Command, Interrupt, Prepare, HelmUpgrade, List, KubectlFails, Poll, Uninstall, DeleteClaims
    <3>2. CASE pc' \in Active /\ UNCHANGED <<report, exit>>
      BY <3>1, <3>2
    <3>3. ASSUME NEW outcome \in {"success", "failure"}, Ends(outcome) PROVE Audit!Finish(outcome)
      BY <3>1, <3>3 DEF Ends, Audit!Finish
    <3>4. CASE Escapes
      BY <3>1, <3>4 DEF Escapes, Audit!Raise, Audit!Next, Audit!Ending
    <3> QED BY <3>1, <3>2, <3>3, <3>4 DEF Audit!Next, Audit!Ending, Audit!Outcomes
  <2> QED BY <2>1, <2>2, <2>3 DEF Next
<1> QED BY <1>1, <1>2, InvAlways, PTL DEF Spec, Audit!Safety
=============================================================================
