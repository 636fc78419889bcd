----------------------------- MODULE HelmRelease -----------------------------
(***************************************************************************)
(* `cds up --target helm` and `cds down --target helm`, one command after  *)
(* another on one release (cli/k8s_runner.py and the two branches of       *)
(* cli/main.py that call it), and the cluster they act on.                 *)
(*                                                                         *)
(* `up` writes the secret values to a temporary file, runs `helm upgrade   *)
(* --install` and spends what is left of one time budget polling the       *)
(* workloads.  `down --delete-pvcs` lists the claims of the StatefulSets,  *)
(* uninstalls the release and deletes the claims.  Meanwhile the cluster   *)
(* rolls workloads out, and creates the claims its StatefulSets lack.      *)
(***************************************************************************)
EXTENDS Naturals

CONSTANTS
  Workloads,      \* Deployments, StatefulSets and Jobs of the chart
  StatefulSets,   \* those with volume claims
  MaxReplicas,    \* bound on the replicas of a StatefulSet
  Timeout, Grace, \* --timeout, and what `helm` gets beyond it, in polls
  MaxCommands     \* bound on the commands of a behaviour

ASSUME HelmAssumption ==
  /\ StatefulSets \subseteq Workloads
  /\ {MaxReplicas, Timeout, Grace, MaxCommands} \subseteq Nat /\ MaxReplicas > 0

VARIABLES
  health,    \* [Workloads -> Healths], what parse_k8s_workloads_json sees
  current,   \* the workloads whose health is that of the last revision applied
  replicas,  \* [StatefulSets -> 1..MaxReplicas]
  claims,    \* the persistent volume claims that exist
  pc, verb, detach,
  secrets,   \* the temporary values file exists
  elapsed,   \* time since the command started
  start,     \* elapsed when the polling started
  seen,      \* the last snapshot of the workloads
  names,     \* the claims `down` will delete
  owned,     \* history: the claims the release could have when `down` began
  report, exit,   \* the audit entry, or "none"; what the exit code tells
  commands

cluster == <<health, current, replicas, claims>>
vars == <<health, current, replicas, claims, pc, verb, detach, secrets, elapsed, start,
          seen, names, owned, report, exit, commands>>

Healths == {"absent", "STARTING", "HEALTHY", "UNHEALTHY"}
Nothing == [w \in Workloads |-> "absent"]

Applied(w) == health[w] # "absent"

(* The claims the controller may create for the release as it is. *)
ClaimsOfRelease ==
  {c \in StatefulSets \X (0 .. MaxReplicas - 1) : Applied(c[1]) /\ c[2] < replicas[c[1]]}

\* Mutant: only the claims that exist by now are listed.
ClaimNamesSoFar ==
  {c \in claims : Applied(c[1]) /\ c[2] < replicas[c[1]]}

(* _stateful_pvc_names: by ordinal, whether or not the claim exists. *)
ClaimNames ==
  {c \in StatefulSets \X (0 .. MaxReplicas - 1) : Applied(c[1]) /\ c[2] < replicas[c[1]]}

-----------------------------------------------------------------------------
(* The cluster. *)

RollOut(w) ==
  /\ Applied(w) /\ w \notin current
  /\ current' = current \cup {w}
  /\ health' \in {[health EXCEPT ![w] = h] : h \in Healths \ {"absent"}}
  /\ UNCHANGED <<replicas, claims, pc, verb, detach, secrets, elapsed, start, seen,
                 names, owned, report, exit, commands>>

Change(w) ==
  /\ w \in current
  /\ \/ health[w] = "STARTING"
        /\ health' \in {[health EXCEPT ![w] = h] : h \in {"HEALTHY", "UNHEALTHY"}}
     \/ health[w] # "STARTING" /\ health' = [health EXCEPT ![w] = "STARTING"]
  /\ UNCHANGED <<current, replicas, claims, pc, verb, detach, secrets, elapsed, start,
                 seen, names, owned, report, exit, commands>>

(* The StatefulSet controller creates the claims its pods lack. *)
Claim(w) ==
  /\ Applied(w)
  /\ \E i \in 0 .. replicas[w] - 1 :
       <<w, i>> \notin claims /\ claims' = claims \cup {<<w, i>>}
  /\ UNCHANGED <<health, current, replicas, pc, verb, detach, secrets, elapsed, start,
                 seen, names, owned, report, exit, commands>>

-----------------------------------------------------------------------------
(* How a command ends. *)

(* `up` records every outcome it handles; `down` records nothing. *)
Ends(outcome) ==
  /\ pc' = "done"
  /\ exit' = outcome
  /\ report' = IF verb = "up" THEN outcome ELSE report

(* An exception that no handler catches. *)
Escapes ==
  /\ pc' = "done"
  /\ exit' = "raised"
  /\ UNCHANGED report

Begin ==
  /\ pc \in {"idle", "done"}
  /\ commands < MaxCommands
  /\ \E v \in {"up", "down", "delete"} :   \* delete: down --delete-pvcs
       /\ verb' = v
       /\ pc' = CASE v = "up" -> "prepare" [] v = "down" -> "uninstall"
                  [] v = "delete" -> "list"
  /\ detach' \in BOOLEAN
  /\ elapsed' = 0 /\ start' = 0
  /\ seen' = Nothing
  /\ names' = {} /\ owned' = ClaimsOfRelease
  /\ report' = "none" /\ exit' = "running"
  /\ commands' = commands + 1
  /\ UNCHANGED <<cluster, secrets>>

(***************************************************************************)
(* Rendering, the cluster, the operators' CRDs, the images and the missing *)
(* environment variables: each of them can fail, and is recorded.          *)
(***************************************************************************)
Prepare ==
  /\ pc = "prepare"
  /\ \/ pc' = "apply" /\ secrets' = TRUE /\ UNCHANGED <<report, exit>>
     \/ Ends("failure") /\ UNCHANGED secrets
  /\ UNCHANGED <<cluster, verb, detach, elapsed, start, seen, names, owned,
                 commands>>

(* Some workloads of the new revision reach the cluster; one that is there *)
(* keeps its old pods, and their health, until it is rolled out.           *)
Apply(some, size) ==
  /\ health' = [w \in Workloads |->
                  IF w \in some /\ ~Applied(w) THEN "STARTING" ELSE health[w]]
  /\ current' = {w \in Workloads : IF w \in some THEN ~Applied(w) ELSE w \in current}
  /\ replicas' = [w \in StatefulSets |-> IF w \in some THEN size[w] ELSE replicas[w]]
  /\ UNCHANGED claims

\* Mutant: the values file is removed after a successful upgrade only.
HelmUpgradeNoFinally ==
  /\ pc = "apply"
  /\ elapsed' \in 0 .. Timeout + Grace
  /\ \E some \in SUBSET Workloads, size \in [StatefulSets -> 1 .. MaxReplicas] :
       /\ Apply(some, size)
       /\ \/ /\ some = Workloads /\ elapsed' < Timeout + Grace
             /\ secrets' = FALSE
             /\ IF detach THEN Ends("success")
                          ELSE pc' = "list" /\ UNCHANGED <<report, exit>>
          \/ Ends("failure") /\ UNCHANGED secrets
  /\ UNCHANGED <<verb, detach, start, seen, names, owned, commands>>

(***************************************************************************)
(* `helm upgrade --install`, killed after Timeout + Grace.  The `finally`  *)
(* clause removes the secret values.                                       *)
(***************************************************************************)
HelmUpgrade ==
  /\ pc = "apply"
  /\ elapsed' \in 0 .. Timeout + Grace
  /\ secrets' = FALSE
  /\ \E some \in SUBSET Workloads, size \in [StatefulSets -> 1 .. MaxReplicas] :
       /\ Apply(some, size)
       /\ \/ /\ some = Workloads /\ elapsed' < Timeout + Grace
             /\ IF detach THEN Ends("success")
                          ELSE pc' = "list" /\ UNCHANGED <<report, exit>>
          \/ Ends("failure") \/ Escapes   \* Ctrl-C
  /\ UNCHANGED <<verb, detach, start, seen, names, owned, commands>>

(* get_k8s_workloads fails: `up` handles the RuntimeError, `down` does     *)
(* not, and neither handles the TimeoutExpired of a call that hangs.       *)
KubectlFails ==
  /\ (verb = "up" /\ Ends("failure")) \/ Escapes
  /\ UNCHANGED <<cluster, verb, detach, secrets, elapsed, start, seen, names,
                 owned, commands>>

(* `up` counts the workloads and reads the clock; the poll has the rest.   *)
List ==
  /\ pc = "list"
  /\ \/ /\ IF verb = "up"
           THEN pc' = "poll" /\ start' = elapsed /\ UNCHANGED names
           ELSE pc' = "uninstall" /\ names' = ClaimNames /\ UNCHANGED start
        /\ UNCHANGED <<cluster, verb, detach, secrets, elapsed, seen, owned,
                       report, exit, commands>>
     \/ KubectlFails

\* Mutant: the poll gets the whole timeout again.
RemainingInFull == Timeout

Remaining == IF start < Timeout THEN Timeout - start ELSE 0

\* Mutant: a workload that is still starting is taken for settled.
SettledEarly(ws) == \E w \in Workloads : ws[w] \in {"HEALTHY", "UNHEALTHY"}

Settled(ws) == \A w \in Workloads : ws[w] \in {"HEALTHY", "UNHEALTHY"}

\* Mutant: only success ends the polling.
PollForever ==
  /\ pc = "poll"
  /\ seen' = health
  /\ IF \A w \in Workloads : seen'[w] = "HEALTHY"
     THEN Ends("success")
     ELSE UNCHANGED <<pc, report, exit>>
  /\ UNCHANGED <<cluster, verb, detach, secrets, elapsed, start, names, owned, commands>>

\* Mutant: a run that does not settle returns without an entry.
PollSilently ==
  /\ pc = "poll"
  /\ seen' = health
  /\ IF Settled(seen')
     THEN /\ Ends(IF \E w \in Workloads : seen'[w] = "UNHEALTHY"
                  THEN "failure" ELSE "success")
          /\ UNCHANGED elapsed
     ELSE IF elapsed - start >= Remaining
          THEN pc' = "done" /\ exit' = "failure" /\ UNCHANGED <<report, elapsed>>
          ELSE elapsed' = elapsed + 1 /\ UNCHANGED <<pc, report, exit>>
  /\ UNCHANGED <<cluster, verb, detach, secrets, start, names, owned, commands>>

(* One round of _poll_until_settled, and the sleep after it. *)
Poll ==
  /\ pc = "poll"
  /\ \/ /\ seen' = health
        /\ IF Settled(seen')
           THEN /\ Ends(IF \E w \in Workloads : seen'[w] = "UNHEALTHY"
                        THEN "failure" ELSE "success")
                /\ UNCHANGED elapsed
           ELSE IF elapsed - start >= Remaining
                THEN Ends("failure") /\ UNCHANGED elapsed
                ELSE elapsed' = elapsed + 1 /\ UNCHANGED <<pc, report, exit>>
        /\ UNCHANGED <<cluster, verb, detach, secrets, start, names, owned, commands>>
     \/ KubectlFails

\* Mutant: the claims are deleted whatever helm said.
UninstallUnchecked ==
  /\ pc = "uninstall"
  /\ \E some \in SUBSET Workloads :
       /\ health' = [w \in Workloads |-> IF w \in some THEN "absent" ELSE health[w]]
       /\ current' = current \ some
  /\ IF names = {} THEN Ends("success") ELSE pc' = "delete" /\ UNCHANGED <<report, exit>>
  /\ UNCHANGED <<replicas, claims, verb, detach, secrets, elapsed, start, seen,
                 names, owned, commands>>

(* `helm uninstall --ignore-not-found`; a failure may have removed some.   *)
Uninstall ==
  /\ pc = "uninstall"
  /\ \E some \in SUBSET Workloads :
       /\ health' = [w \in Workloads |-> IF w \in some THEN "absent" ELSE health[w]]
       /\ current' = current \ some
       /\ \/ /\ some = Workloads
             /\ IF names = {} THEN Ends("success")
                              ELSE pc' = "delete" /\ UNCHANGED <<report, exit>>
          \/ Ends("failure") \/ Escapes   \* Ctrl-C
  /\ UNCHANGED <<replicas, claims, verb, detach, secrets, elapsed, start, seen,
                 names, owned, commands>>

DeleteClaims ==
  /\ pc = "delete"
  /\ \E some \in SUBSET names :
       /\ claims' = claims \ some
       /\ \/ some = names /\ Ends("success")
          \/ Ends("failure") \/ Escapes   \* Ctrl-C
  /\ UNCHANGED <<health, current, replicas, verb, detach, secrets, elapsed, start, seen,
                 names, owned, commands>>

(* Ctrl-C, for which neither command has a handler, between two steps that *)
(* change the cluster.                                                     *)
Interrupt ==
  /\ pc \in {"prepare", "list", "poll"}
  /\ Escapes
  /\ UNCHANGED <<cluster, verb, detach, secrets, elapsed, start, seen, names,
                 owned, commands>>

-----------------------------------------------------------------------------
Init ==
  /\ health = Nothing /\ current = {}
  /\ replicas = [w \in StatefulSets |-> 1] /\ claims = {}
  /\ pc = "idle" /\ verb = "up" /\ detach = FALSE /\ secrets = FALSE
  /\ elapsed = 0 /\ start = 0 /\ seen = Nothing
  /\ names = {} /\ owned = {}
  /\ report = "none" /\ exit = "running" /\ commands = 0

Command ==
  \/ Prepare \/ HelmUpgrade \/ List \/ Poll \/ Uninstall \/ DeleteClaims

Cluster ==
  \/ \E w \in Workloads : RollOut(w) \/ Change(w)
  \/ \E w \in StatefulSets : Claim(w)

Next == Begin \/ Command \/ Interrupt \/ Cluster

(* A command that runs goes on: helm is killed in the end, kubectl returns. *)
Spec == Init /\ [][Next]_vars /\ WF_vars(Command)

-----------------------------------------------------------------------------
TypeOK ==
  /\ health \in [Workloads -> Healths]
  /\ current \subseteq Workloads
  /\ replicas \in [StatefulSets -> 1 .. MaxReplicas]
  /\ claims \subseteq StatefulSets \X (0 .. MaxReplicas - 1)
  /\ pc \in {"idle", "prepare", "apply", "list", "poll", "uninstall", "delete", "done"}
  /\ verb \in {"up", "down", "delete"} /\ detach \in BOOLEAN /\ secrets \in BOOLEAN
  /\ elapsed \in 0 .. Timeout + Grace /\ start \in 0 .. Timeout + Grace
  /\ seen \in [Workloads -> Healths]
  /\ names \subseteq StatefulSets \X (0 .. MaxReplicas - 1)
  /\ owned \subseteq StatefulSets \X (0 .. MaxReplicas - 1)
  /\ report \in {"none", "success", "failure"}
  /\ exit \in {"running", "success", "failure", "raised"}
  /\ commands \in 0 .. MaxCommands

(***************************************************************************)
(* The secret values are on disk while helm runs and at no other time,     *)
(* however helm ends: success, failure, killed by the timer, Ctrl-C.       *)
(***************************************************************************)
SecretsRemoved == secrets => pc = "apply"

(***************************************************************************)
(* One budget: the poll never goes on beyond the timeout, nor beyond the   *)
(* end of a helm that used all of it.                                      *)
(***************************************************************************)
GivesUpInTime == pc = "poll" => elapsed <= (IF start < Timeout THEN Timeout ELSE start)

Watched == verb = "up" /\ ~detach /\ exit = "success"

(* "Ready" rests on one snapshot in which every workload was healthy. *)
ReadyWasSeen == Watched => \A w \in Workloads : seen[w] = "HEALTHY"

(***************************************************************************)
(* Every command ends; an `up` that returns has left one audit entry, with *)
(* the outcome its exit code tells, and a `down` leaves none.              *)
(***************************************************************************)
Audit == INSTANCE CommandReport
           WITH audited <- verb = "up",
                entries <- IF report = "none" THEN <<>> ELSE <<report>>,
                exit <- IF pc = "idle" THEN "none" ELSE exit
ReportsOnce == Audit!Spec

(***************************************************************************)
(* When `down --delete-pvcs` succeeds, no claim of the StatefulSets that   *)
(* the release had at the start is left, one created meanwhile included.   *)
(***************************************************************************)
OwnedDeleted == verb = "delete" /\ exit = "success" => owned \cap claims = {}

(***************************************************************************)
(* "PVC retention is the safe default": a claim goes only by               *)
(* `down --delete-pvcs`, and only once no workload can be using it or      *)
(* create it again.                                                        *)
(***************************************************************************)
ClaimsRetained ==
  [][~(claims \subseteq claims') =>
       verb = "delete" /\ \A w \in Workloads : ~Applied(w)]_vars

(* Each command ends, whatever the workloads do. *)
CommandEnds == pc \notin {"idle", "done"} ~> pc = "done"
=============================================================================
