---------------------------- MODULE MCComposeUp ----------------------------
(* An instance of ComposeUp for TLC: two services, one of which can settle *)
(* while the other does not, and an orphan of an earlier compose file or a *)
(* container of `docker compose run web`.                                  *)
EXTENDS ComposeUp

CONSTANTS web, db, orphan, once

Both   == {web, db}
Beside == {orphan, once}
Listing == [o \in Beside |-> IF o = once THEN web ELSE o]

(* An orphan is running or was never started, and not both of the others   *)
(* are there; the stack is started, or what an earlier run left behind is  *)
(* replaced.                                                               *)
MCInit ==
  /\ Init
  /\ box[orphan] \in {"absent", "RUNNING", "CREATED"}
  /\ box[once] \in {"absent", "RUNNING"}
  /\ "absent" \in {box[o] : o \in Beside}
  /\ \A s \in Services : box[s] \in {"absent", "RUNNING", "UNHEALTHY EXIT"}

MCSpec == MCInit /\ [][Next]_vars /\ WF_vars(Command)

=============================================================================
