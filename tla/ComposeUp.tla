------------------------------ MODULE ComposeUp ------------------------------
(***************************************************************************)
(* `cds up` for the Compose target, from the moment the compose file is    *)
(* rendered (the "up" branch of cli/main.py) with the polling loop of      *)
(* cli/up_runner.py, and the docker daemon it watches.                     *)
(*                                                                         *)
(* The command builds, starts `docker compose up --detach` in the          *)
(* background, polls `docker compose ps` until the stack settles or the    *)
(* timeout is over, reaps `up` and records the outcome.  Meanwhile `up`    *)
(* replaces the containers an earlier run left behind, containers change   *)
(* health, and the user may press Ctrl-C.  `ps -a` also lists containers   *)
(* that no service of the compose file has (`up` is not called with        *)
(* --remove-orphans) and those of `docker compose run`.                    *)
(***************************************************************************)
EXTENDS Naturals, Sequences, FiniteSets

CONSTANTS
  Services,     \* of the compose file; each has one container, of its name
  Others,       \* the other containers of the compose project
  Label,        \* the service each of these is listed under
  Timeout       \* polls after `up` has finished before the command gives up

ASSUME ComposeAssumption ==
  /\ Timeout \in Nat
  /\ IsFiniteSet(Services) /\ IsFiniteSet(Others) /\ Services \cap Others = {}

VARIABLES
  box,      \* [Containers -> Statuses]
  outdated, \* services whose container `up` still has to replace or restart
  up,       \* the `docker compose up` process
  tail,     \* the `docker compose logs -f` process
  pc,       \* where the command is
  detach,   \* --detach
  seen,     \* the last snapshot of `ps`
  settled,
  elapsed,  \* polls since `up` finished, or 0 while it has not
  entries, exit \* as in CommandReport

docker == <<box, outdated>>
vars == <<box, outdated, up, tail, pc, detach, seen, settled, elapsed,
          entries, exit>>

Containers == Services \cup Others

Good     == {"RUNNING", "HEALTHY", "HEALTHY EXIT"}
Failing  == {"UNHEALTHY", "UNHEALTHY EXIT"}
Statuses == Good \cup Failing \cup {"absent", "CREATED", "STARTING"}
Exited   == {"HEALTHY EXIT", "UNHEALTHY EXIT"}

Nothing == [c \in Containers |-> "absent"]

(* Inside the try statement, and in the handlers that record an outcome.   *)
Guarded  == {"build", "launch", "stream", "fetch", "check", "reap", "leave"}
Handling == {"stopped", "missing"}

Goto(from, to) == pc = from /\ pc' = to

-----------------------------------------------------------------------------
(* The docker daemon and `docker compose up`. *)

Create(s) ==
  /\ up = "running"
  /\ box[s] = "absent" \/ s \in outdated
  /\ box' = [box EXCEPT ![s] = "CREATED"]
  /\ outdated' = outdated \ {s}
  /\ UNCHANGED <<up, tail, pc, detach, seen, settled, elapsed, entries, exit>>

(* With a healthcheck a container is starting first. *)
Start(s) ==
  /\ up = "running"
  /\ box[s] = "CREATED"
  /\ box' \in {[box EXCEPT ![s] = status] : status \in {"RUNNING", "STARTING"}}
  /\ UNCHANGED <<outdated, up, tail, pc, detach, seen, settled, elapsed,
                 entries, exit>>

Change(s) ==
  /\ \/ box[s] = "STARTING"
        /\ box' \in {[box EXCEPT ![s] = status] :
                       status \in {"HEALTHY", "UNHEALTHY"} \cup Exited}
     \/ box[s] = "RUNNING"
        /\ box' \in {[box EXCEPT ![s] = status] : status \in Exited}
     \/ box[s] = "HEALTHY"   /\ box' = [box EXCEPT ![s] = "UNHEALTHY"]
     \/ box[s] = "UNHEALTHY" /\ box' = [box EXCEPT ![s] = "HEALTHY"]
  /\ UNCHANGED <<outdated, up, tail, pc, detach, seen, settled, elapsed,
                 entries, exit>>

UpExits ==
  /\ up = "running"
  /\ \/ up' = "failed"
     \/ /\ up' = "ok"
        /\ outdated = {}
        /\ \A s \in Services : box[s] \notin {"absent", "CREATED"}
  /\ UNCHANGED <<docker, tail, pc, detach, seen, settled, elapsed, entries, exit>>

-----------------------------------------------------------------------------
(* The command. *)

(* An outcome is recorded and is to be returned from the try statement.    *)
Ends(outcome) ==
  /\ entries' = Append(entries, outcome)
  /\ pc' = "leave"

Build ==
  /\ pc = "build"
  /\ \/ pc' = "launch" /\ UNCHANGED entries
     \/ Ends("failure")
  /\ UNCHANGED <<docker, up, tail, detach, seen, settled, elapsed, exit>>

(* --detach streams `up` to its end; otherwise it runs in the background. *)
Launch ==
  /\ Goto("launch", IF detach THEN "stream" ELSE "fetch")
  /\ up' = "running"
  /\ UNCHANGED <<docker, tail, detach, seen, settled, elapsed, entries, exit>>

StreamEnds ==
  /\ pc = "stream"
  /\ up \in {"ok", "failed"}
  /\ Ends(IF up = "ok" THEN "success" ELSE "failure")
  /\ UNCHANGED <<docker, up, tail, detach, seen, settled, elapsed, exit>>

(***************************************************************************)
(* _is_settled on what group_services_by_health makes of the snapshot:     *)
(* nothing is pending, and as many names are listed, counted once per      *)
(* status, as the compose file has services.                               *)
(***************************************************************************)
Name(c) == IF c \in Services THEN c ELSE Label[c]

Listed(ps) == {c \in Containers : ps[c] # "absent"}

\* Mutant: services that are not listed yet are not missed.
SettledSoFar(ps) ==
  /\ Listed(ps) # {}
  /\ \A c \in Listed(ps) : ps[c] \in Good \cup Failing

Settled(ps) ==
  /\ \A c \in Listed(ps) : ps[c] \in Good \cup Failing
  /\ Cardinality({<<Name(c), ps[c]>> : c \in Listed(ps)}) >= Cardinality(Services)

(* One round of _poll_until_settled, up to its decision on the snapshot; a *)
(* failing `ps` shows no services.                                         *)
Fetch ==
  /\ pc = "fetch"
  /\ seen' \in {box, Nothing}
  /\ IF Settled(seen')
     THEN /\ settled' = \A c \in Containers : seen'[c] \notin Failing
          /\ pc' = "reap"
     ELSE pc' = "check" /\ UNCHANGED settled
  /\ UNCHANGED <<docker, up, tail, detach, elapsed, entries, exit>>

\* Mutant: the log tail is started without waiting for `up` to finish.
CheckEagerly ==
  /\ pc = "check"
  /\ tail' = "running"
  /\ IF up = "failed"
     THEN settled' = FALSE /\ pc' = "reap"
     ELSE pc' = "fetch" /\ UNCHANGED settled
  /\ UNCHANGED <<docker, up, detach, elapsed, seen, entries, exit>>

\* Mutant: any exit of `up` ends the polling, not only a failure.
CheckImpatiently ==
  /\ pc = "check"
  /\ IF up = "running"
     THEN pc' = "fetch" /\ UNCHANGED settled
     ELSE settled' = FALSE /\ pc' = "reap"
  /\ UNCHANGED <<docker, up, tail, detach, elapsed, seen, entries, exit>>

\* Mutant: the clock is started again in every round.
CheckForever ==
  /\ pc = "check"
  /\ IF up = "failed"
     THEN settled' = FALSE /\ pc' = "reap" /\ UNCHANGED tail
     ELSE /\ pc' = "fetch" /\ UNCHANGED settled
          /\ tail' = IF up = "ok" THEN "running" ELSE tail
  /\ UNCHANGED <<docker, up, detach, elapsed, seen, entries, exit>>

(***************************************************************************)
(* The rest of the round: while `up` runs the clock stands still; once it  *)
(* has failed nothing more will settle; the first time it is seen to have  *)
(* succeeded the log tail and the clock are started.                       *)
(***************************************************************************)
Check ==
  /\ pc = "check"
  /\ CASE up = "running" -> pc' = "fetch" /\ UNCHANGED <<tail, settled, elapsed>>
       [] up = "failed"  -> /\ settled' = FALSE /\ pc' = "reap"
                            /\ UNCHANGED <<tail, elapsed>>
       [] up = "ok"      -> /\ tail' = "running"
                            /\ elapsed' = IF tail = "none" THEN 0 ELSE elapsed + 1
                            /\ IF elapsed' >= Timeout
                               THEN settled' = FALSE /\ pc' = "reap"
                               ELSE pc' = "fetch" /\ UNCHANGED settled
  /\ UNCHANGED <<docker, up, detach, seen, entries, exit>>

(* `up_process.wait()`, with no bound of its own. *)
Reap ==
  /\ pc = "reap"
  /\ up \in {"ok", "failed"}
  /\ IF up = "ok" THEN pc' = "cleanup" /\ UNCHANGED entries ELSE Ends("failure")
  /\ UNCHANGED <<docker, up, tail, detach, seen, settled, elapsed, exit>>

(* The `return` leaves the try statement. *)
Leave ==
  /\ Goto("leave", "cleanup")
  /\ UNCHANGED <<docker, up, tail, detach, seen, settled, elapsed, entries, exit>>

(* Docker is not on the PATH (any more): FileNotFoundError, from the next  *)
(* command that is started.                                                *)
DockerMissing ==
  /\ \/ pc \in {"build", "launch", "fetch"}
     \/ pc = "check" /\ up = "ok" /\ tail = "none"
  /\ pc' = "missing"
  /\ UNCHANGED <<docker, up, tail, detach, seen, settled, elapsed, entries, exit>>

\* Mutant: after "Stopped watching" the command falls through to the verdict.
InterruptIgnored ==
  /\ pc \in Guarded
  /\ up' = up
  /\ entries' = Append(entries, "interrupted") /\ pc' = "verdict"
  /\ UNCHANGED <<docker, tail, detach, seen, settled, elapsed, exit>>

(***************************************************************************)
(* Ctrl-C inside the try statement: while polling, a handler of its own    *)
(* records it and returns; anywhere else, also between a record and its    *)
(* return, the outer handler takes it.  A terminal delivers the signal to  *)
(* every process of the command's group, and `up` is started in it.        *)
(***************************************************************************)
Interrupt ==
  /\ pc \in Guarded
  /\ up' \in IF up = "running" THEN {"running", "failed"} ELSE {up}
  /\ \/ pc \in {"fetch", "check"} /\ Ends("interrupted")
     \/ pc' = "stopped" /\ UNCHANGED entries
  /\ UNCHANGED <<docker, tail, detach, seen, settled, elapsed, exit>>

Handle ==
  /\ pc \in Handling
  /\ entries' = Append(entries, IF pc = "stopped" THEN "interrupted" ELSE "failure")
  /\ pc' = "cleanup"
  /\ UNCHANGED <<docker, up, tail, detach, seen, settled, elapsed, exit>>

(* `finally`, and then the return it was on the way to, if any. *)
Cleanup ==
  /\ Goto("cleanup", IF entries = <<>> THEN "verdict" ELSE "return")
  /\ tail' = IF tail = "running" THEN "stopped" ELSE tail
  /\ UNCHANGED <<docker, up, detach, seen, settled, elapsed, entries, exit>>

Verdict ==
  /\ Goto("verdict", "return")
  /\ entries' = Append(entries, IF settled THEN "success" ELSE "failure")
  /\ UNCHANGED <<docker, up, tail, detach, seen, settled, elapsed, exit>>

Return ==
  /\ Goto("return", "done")
  /\ exit' = entries[Len(entries)]
  /\ UNCHANGED <<docker, up, tail, detach, seen, settled, elapsed, entries>>

(* Ctrl-C in a handler, in `finally` (which it may cut short) or after     *)
(* that: nothing catches it.                                               *)
LateInterrupt ==
  /\ pc \in Handling \cup {"cleanup", "verdict", "return"}
  /\ pc' = "done"
  /\ exit' = "raised"
  /\ \/ UNCHANGED tail
     \/ tail = "running" /\ tail' = "stopped"
  /\ UNCHANGED <<docker, up, detach, seen, settled, elapsed, entries>>

-----------------------------------------------------------------------------
(* The services run as the compose file has them, or an earlier run left   *)
(* containers behind that `up` must replace or restart.                    *)
Init ==
  /\ box \in [Containers -> Statuses]
  /\ \/ /\ \A s \in Services : box[s] \in {"absent", "RUNNING", "HEALTHY"}
        /\ outdated = {}
     \/ /\ \A s \in Services : box[s] # "STARTING"
        /\ outdated = {s \in Services : box[s] # "absent"}
  /\ up = "none" /\ tail = "none"
  /\ pc \in {"build", "launch"}     \* --no-build skips the build
  /\ detach \in BOOLEAN
  /\ seen = Nothing
  /\ settled = TRUE /\ elapsed = 0
  /\ entries = <<>> /\ exit = "running"

(* These wait for a docker command, and none of them has a timeout. *)
Awaiting == Build \/ Fetch \/ UpExits

Command ==
  Launch \/ StreamEnds \/ Check \/ Reap \/ Leave \/ Handle \/ Cleanup \/ Verdict \/ Return

Daemon ==
  \/ \E s \in Services : Create(s) \/ Start(s)
  \/ \E c \in Containers : Change(c)

Next == Command \/ Awaiting \/ DockerMissing \/ Interrupt \/ LateInterrupt \/ Daemon

(* The command's own steps are taken; docker need not answer. *)
Spec == Init /\ [][Next]_vars /\ WF_vars(Command)

-----------------------------------------------------------------------------
TypeOK ==
  /\ box \in [Containers -> Statuses]
  /\ outdated \subseteq Services
  /\ up \in {"none", "running", "ok", "failed"}
  /\ tail \in {"none", "running", "stopped"}
  /\ pc \in Guarded \cup Handling \cup {"cleanup", "verdict", "return", "done"}
  /\ detach \in BOOLEAN
  /\ seen \in [Containers -> Statuses]
  /\ settled \in BOOLEAN
  /\ elapsed \in 0 .. Timeout
  /\ entries \in Seq({"success", "failure", "interrupted"})
  /\ exit \in {"running", "success", "failure", "interrupted", "raised"}

(***************************************************************************)
(* An exit code is returned only after an audit entry that tells it; there *)
(* is one entry, or a second one for a Ctrl-C that came between the first  *)
(* entry and the return.                                                   *)
(***************************************************************************)
Audit == INSTANCE CommandReport WITH audited <- TRUE
ReportsFaithfully == Audit!Safety

(***************************************************************************)
(* "cds up exits 0 once the stack settles": the success of a watched run   *)
(* rests on an `up` that succeeded and on a poll that found every listed   *)
(* container settled and none failing.  A service may be missing from that *)
(* poll only if another container was counted in its place.                *)
(***************************************************************************)
SuccessWasSeen ==
  exit = "success" /\ ~detach =>
    /\ up = "ok"
    /\ \A c \in Containers : seen[c] \in Good \cup {"absent"}
    /\ Cardinality({s \in Services : seen[s] = "absent"})
         <= Cardinality({o \in Others : seen[o] # "absent"})

(***************************************************************************)
(* "or 1 on timeout or an unhealthy service": when `up` succeeded and the  *)
(* command still fails, the time was over or a container was seen failing, *)
(* of a service or another one of the project.                             *)
(***************************************************************************)
FailureWasSeen ==
  exit = "failure" /\ up = "ok" /\ ~settled =>
    elapsed = Timeout \/ \E c \in Containers : seen[c] \in Failing

(***************************************************************************)
(* The log file has one writer at a time, and the log tail does not        *)
(* outlive the command: it starts after `up` has ended ("interleaving      *)
(* output mid-line") and is stopped on every path that returns.            *)
(***************************************************************************)
OneLogWriter ==
  /\ ~(up = "running" /\ tail = "running")
  /\ exit \in Audit!Outcomes => tail # "running"

(***************************************************************************)
(* The command ends, whatever the containers do and whenever the user      *)
(* interrupts it, unless one of the docker commands it waits for never     *)
(* does: the build, one `ps`, or `up`.  A stack that never settles is      *)
(* given up.                                                               *)
(***************************************************************************)
EndsUnlessDockerHangs ==
  \/ <>(pc = "done")
  \/ <>[](pc = "build") \/ <>[](pc = "fetch") \/ <>[](up = "running")
=============================================================================
