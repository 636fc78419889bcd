---------------------------- MODULE ComposeUp_proofs ----------------------------
(* Proofs about ComposeUp, for any services, other containers and timeout. *)
EXTENDS ComposeUp, FiniteSetTheorems, TLAPS

(***************************************************************************)
(* Where the command is, what it has recorded and what has ended.          *)
(***************************************************************************)
Phases ==
  /\ pc \in {"build", "launch", "stream", "fetch", "check", "reap", "missing", "verdict"}
       => entries = <<>>
  /\ pc = "leave" => Len(entries) = 1
  /\ pc = "stopped" => Len(entries) \in {0, 1}
  /\ pc = "return" => entries # <<>>
  /\ pc # "done" => exit = "running"
  /\ tail # "none" => up = "ok"
  /\ pc \in {"build", "launch"} => up = "none"
  /\ pc \in {"stream", "fetch", "check", "reap"} => up # "none"
  /\ pc \in {"fetch", "check"} => tail # "stopped"
  /\ tail = "none" => elapsed = 0
  /\ pc \in {"fetch", "check"} /\ tail = "running" => elapsed < Timeout
  /\ pc \in {"build", "launch", "stream"} => tail = "none"
  /\ pc \in {"verdict", "return"} => tail # "running"
  /\ exit \notin {"running", "raised"}
       => tail # "running" /\ entries # <<>> /\ exit = entries[Len(entries)]

(* The first entry of a command. *)
LEMMA OneEntry ==
  ASSUME NEW e, e = Append(<<>>, "interrupted")
  PROVE  Len(e) = 1 /\ e # <<>> /\ e[Len(e)] = "interrupted"
<1>1. <<>> \in Seq(STRING)
  OBVIOUS
<1> QED BY <1>1

(* A command with an entry has recorded something. *)
LEMMA NotEmpty == ASSUME NEW e, Len(e) = 1 PROVE e # <<>>
<1>1. Len(<<>>) = 0
  OBVIOUS
<1> QED BY <1>1

(* Types. *)
LEMMA TypeStep == TypeOK /\ Phases /\ [Next]_vars => TypeOK'
<1> SUFFICES ASSUME TypeOK, Phases, [Next]_vars PROVE TypeOK'
  OBVIOUS
<1> USE ComposeAssumption DEF TypeOK, docker, Guarded, Handling, Containers
<1>1. CASE Build
  BY <1>1 DEF Build, Goto, Ends
<1>2. CASE Launch
  BY <1>2 DEF Launch, Goto, Ends
<1>3. CASE StreamEnds
  BY <1>3 DEF StreamEnds, Goto, Ends
<1>4. CASE Fetch
  BY <1>4 DEF Fetch, Nothing, Statuses
<1>5. CASE Check
  <2>1. up \in {"running", "ok", "failed"} /\ elapsed + 1 \in Nat
    BY <1>5 DEF Check, Phases
  <2>2. CASE up = "running"
    BY <1>5, <2>2 DEF Check
  <2>3. CASE up = "failed"
    BY <1>5, <2>3 DEF Check
  <2>4. CASE up = "ok" /\ tail = "none"
    <3>1. elapsed' = 0 /\ tail' = "running"
      BY <1>5, <2>4 DEF Check
    <3>2. settled' \in BOOLEAN /\ pc' \in {"reap", "fetch"}
      BY <1>5, <2>4 DEF Check
    <3> QED BY <1>5, <3>1, <3>2 DEF Check
  <2>5. CASE up = "ok" /\ tail # "none"
    <3>1. elapsed' = elapsed + 1 /\ tail' = "running" /\ pc = "check"
      BY <1>5, <2>5 DEF Check
    <3>2. settled' \in BOOLEAN /\ pc' \in {"reap", "fetch"}
      BY <1>5, <2>5 DEF Check
    <3>3. elapsed < Timeout
      BY <1>5, <2>5, <3>1 DEF Phases
    <3> QED BY <1>5, <3>1, <3>2, <3>3 DEF Check
  <2> QED BY <2>1, <2>2, <2>3, <2>4, <2>5
<1>6. CASE Reap
  BY <1>6 DEF Reap, Goto, Ends
<1>7. CASE Cleanup
  BY <1>7 DEF Cleanup, Goto, Ends
<1>8. CASE Verdict
  BY <1>8 DEF Verdict, Goto, Ends
<1>9. CASE Return
  BY <1>9 DEF Return, Phases, Goto, Ends
<1>10. CASE DockerMissing
  BY <1>10 DEF DockerMissing, Goto, Ends
<1>11. CASE Interrupt
  BY <1>11 DEF Interrupt, Goto, Ends
<1>12. CASE LateInterrupt
  BY <1>12 DEF LateInterrupt, Goto, Ends
<1>13. CASE UpExits
  BY <1>13 DEF UpExits
<1>18. CASE Leave
  BY <1>18 DEF Leave, Goto
<1>19. CASE Handle
  BY <1>19 DEF Handle
<1>14. ASSUME NEW s \in Services, Create(s) PROVE TypeOK'
  BY <1>14 DEF Create, Statuses
<1>15. ASSUME NEW s \in Services, Start(s) PROVE TypeOK'
  <2>1. PICK status \in Statuses : box' = [box EXCEPT ![s] = status]
    BY <1>15 DEF Start, Statuses, Good
  <2> QED BY <1>15, <2>1 DEF Start
<1>16. ASSUME NEW c \in Containers, Change(c) PROVE TypeOK'
  <2>1. PICK status \in Statuses : box' = [box EXCEPT ![c] = status]
    BY <1>16 DEF Change, Exited, Statuses, Good, Failing
  <2> QED BY <1>16, <2>1 DEF Change
<1>17. CASE UNCHANGED vars
  BY <1>17 DEF vars, docker
<1> QED BY <1>1, <1>2, <1>3, <1>4, <1>5, <1>6, <1>7, <1>8, <1>9, 
           <1>10, <1>11, <1>12, <1>13, <1>14, <1>15, <1>16, <1>17, <1>18, <1>19
           DEF Next, Command, Awaiting, Daemon

(* Each path through the command records before it returns, and once. *)
LEMMA PhasesStep == TypeOK /\ Phases /\ [Next]_vars => Phases'
<1> SUFFICES ASSUME TypeOK /\ Phases, [Next]_vars PROVE Phases'
  OBVIOUS
<1> USE ComposeAssumption DEF TypeOK, Phases, docker, Guarded, Handling
<1>1. CASE Build
  BY <1>1 DEF Build, Goto, Ends
<1>2. CASE Launch
  BY <1>2 DEF Launch, Goto, Ends
<1>3. CASE StreamEnds
  BY <1>3 DEF StreamEnds, Goto, Ends
<1>4. CASE Fetch
  BY <1>4 DEF Fetch, Goto, Ends
<1>5. CASE Check
  <2>1. entries' = entries /\ exit' = exit /\ up' = up /\ pc = "check"
    BY <1>5 DEF Check
  <2>2. CASE up # "ok"
    <3>1. pc' \in {"fetch", "reap"} /\ tail' = tail /\ elapsed' = elapsed
      BY <1>5, <2>2, <2>1 DEF Check
    <3> QED BY <2>1, <3>1
  <2>3. CASE up = "ok"
    <3>1. tail' = "running" /\ elapsed' = IF tail = "none" THEN 0 ELSE elapsed + 1
      BY <1>5, <2>3 DEF Check
    <3>2. elapsed' \in Nat
      BY <3>1
    <3>3. IF elapsed' >= Timeout THEN pc' = "reap" ELSE pc' = "fetch"
      BY <1>5, <2>3 DEF Check
    <3>4. pc' = "reap" \/ (pc' = "fetch" /\ elapsed' < Timeout)
      BY <3>2, <3>3
    <3> QED BY <2>1, <2>3, <3>1, <3>4
  <2> QED BY <2>2, <2>3
<1>6. CASE Reap
  BY <1>6 DEF Reap, Goto, Ends
<1>7. CASE Cleanup
  BY <1>7 DEF Cleanup, Goto, Ends
<1>8. CASE Verdict
  BY <1>8 DEF Verdict, Goto, Ends
<1>9. CASE Return
  BY <1>9 DEF Return, Goto, Ends
<1>10. CASE DockerMissing
  BY <1>10 DEF DockerMissing, Goto, Ends
<1>11. CASE Interrupt
  <2>1. \/ up' = up
        \/ up = "running" /\ up' = "failed"
    BY <1>11 DEF Interrupt
  <2>2. UNCHANGED <<docker, tail, detach, seen, settled, elapsed, exit>> /\ pc \in Guarded
    BY <1>11 DEF Interrupt
  <2>3. CASE pc \in {"fetch", "check"} /\ Ends("interrupted")
    <3>1. entries = <<>> /\ entries' = Append(entries, "interrupted") /\ pc' = "leave"
      BY <2>3 DEF Ends
    <3>2. Len(entries') = 1 /\ entries' # <<>> /\ entries'[Len(entries')] = "interrupted"
      BY <3>1, OneEntry
    <3> QED BY <2>1, <2>2, <2>3, <3>1, <3>2
  <2>4. CASE pc' = "stopped" /\ UNCHANGED entries
    <3>1. Len(entries) \in {0, 1}
      BY <2>2
    <3> QED BY <2>1, <2>2, <2>4, <3>1
  <2> QED BY <1>11, <2>3, <2>4 DEF Interrupt
<1>12. CASE LateInterrupt
  BY <1>12 DEF LateInterrupt, Goto, Ends
<1>13. CASE UpExits
  BY <1>13 DEF UpExits
<1>18. CASE Leave
  <2>1. Len(entries) = 1
    BY <1>18 DEF Leave, Goto
  <2>2. entries # <<>>
    BY <2>1, NotEmpty
  <2> QED BY <1>18, <2>2 DEF Leave, Goto
<1>19. CASE Handle
  BY <1>19 DEF Handle
<1>14. ASSUME NEW s \in Services, Create(s) PROVE Phases'
  BY <1>14 DEF Create
<1>15. ASSUME NEW s \in Services, Start(s) PROVE Phases'
  BY <1>15 DEF Start
<1>16. ASSUME NEW c \in Containers, Change(c) PROVE Phases'
  BY <1>16 DEF Change
<1>17. CASE UNCHANGED vars
  BY <1>17 DEF vars, docker
<1> QED BY <1>1, <1>2, <1>3, <1>4, <1>5, <1>6, <1>7, <1>8, <1>9, 
           <1>10, <1>11, <1>12, <1>13, <1>14, <1>15, <1>16, <1>17, <1>18, <1>19
           DEF Next, Command, Awaiting, Daemon

(***************************************************************************)
(* What Settled means for the services: at most as many of them are        *)
(* missing as other containers are listed.                                 *)
(***************************************************************************)
Missing(ps) == {s \in Services : ps[s] = "absent"}
Strays(ps)  == {o \in Others : ps[o] # "absent"}

(* One name and status per listed container, at most. *)
LEMMA NamesAreFew ==
  ASSUME NEW ps \in [Containers -> Statuses]
  PROVE  LET names == {<<Name(c), ps[c]>> : c \in Listed(ps)}
         IN  IsFiniteSet(Listed(ps)) /\ IsFiniteSet(names)
               /\ Cardinality(names) <= Cardinality(Listed(ps))
<1> DEFINE names == {<<Name(c), ps[c]>> : c \in Listed(ps)}
           f == [c \in Listed(ps) |-> <<Name(c), ps[c]>>]
<1>1. IsFiniteSet(Containers)
  BY ComposeAssumption, FS_Union DEF Containers
<1>2. IsFiniteSet(Listed(ps))
  BY <1>1, FS_Subset DEF Listed
<1>3. f \in Surjection(Listed(ps), names)
  BY DEF Surjection
<1> QED BY <1>2, <1>3, FS_Surjection

LEMMA SettledCounts ==
  ASSUME NEW ps \in [Containers -> Statuses], Settled(ps)
  PROVE  Cardinality(Missing(ps)) <= Cardinality(Strays(ps))
<1> DEFINE names == {<<Name(c), ps[c]>> : c \in Listed(ps)}
           there == Services \ Missing(ps)
<1>1. IsFiniteSet(Missing(ps)) /\ IsFiniteSet(there) /\ IsFiniteSet(Strays(ps))
  BY ComposeAssumption, FS_Subset DEF Missing, Strays
<1>2. Listed(ps) = there \cup Strays(ps) /\ there \cap Strays(ps) = {}
  BY ComposeAssumption DEF Listed, Containers, Missing, Strays
<1>3. Cardinality(Listed(ps)) = Cardinality(there) + Cardinality(Strays(ps))
  <2>1. Cardinality(there \cap Strays(ps)) = 0
    BY <1>2, FS_EmptySet
  <2>2. Cardinality(there \cup Strays(ps))
          = Cardinality(there) + Cardinality(Strays(ps)) - Cardinality(there \cap Strays(ps))
    BY <1>1, FS_Union
  <2>3. Cardinality(there) \in Nat /\ Cardinality(Strays(ps)) \in Nat
    BY <1>1, FS_CardinalityType
  <2> HIDE DEF there
  <2> QED BY <1>2, <2>1, <2>2, <2>3
<1>4. Cardinality(there) = Cardinality(Services) - Cardinality(Missing(ps))
  <2>1. Services \cap Missing(ps) = Missing(ps)
    BY DEF Missing
  <2> QED BY <2>1, ComposeAssumption, FS_Difference
<1>5. Cardinality(names) <= Cardinality(Listed(ps)) /\ IsFiniteSet(names) /\ IsFiniteSet(Listed(ps))
  BY NamesAreFew
<1>6. Cardinality(names) >= Cardinality(Services)
  BY DEF Settled
<1>7. /\ Cardinality(names) \in Nat /\ Cardinality(Listed(ps)) \in Nat
      /\ Cardinality(Services) \in Nat /\ Cardinality(Missing(ps)) \in Nat
      /\ Cardinality(Strays(ps)) \in Nat
  BY <1>1, <1>5, ComposeAssumption, FS_CardinalityType
<1> HIDE DEF names, there
<1> QED BY <1>3, <1>4, <1>5, <1>6, <1>7

(***************************************************************************)
(* What was decided on the last poll is what is recorded.                  *)
(***************************************************************************)
Whole ==
  /\ \A c \in Containers : seen[c] \in Good \cup {"absent"}
  /\ Cardinality(Missing(seen)) <= Cardinality(Strays(seen))

Seen ==
  /\ pc \in {"launch", "build", "fetch", "check"} => settled
  /\ pc \in {"reap", "cleanup", "verdict"} /\ entries = <<>> /\ settled => Whole
  /\ ~settled => \/ up = "failed"
                 \/ elapsed = Timeout
                 \/ \E c \in Containers : seen[c] \in Failing
  /\ pc \in {"cleanup", "verdict"} /\ entries = <<>> => up = "ok" /\ ~detach
  /\ pc \in {"fetch", "check", "reap"} => ~detach
  /\ pc = "stream" => detach
  /\ entries # <<>> /\ entries[Len(entries)] = "success" /\ ~detach => up = "ok" /\ Whole

(* Each step of the command keeps the link between outcome and snapshot.   *)
LEMMA SeenStep == TypeOK /\ Phases /\ Seen /\ [Next]_vars => Seen'
<1> SUFFICES ASSUME TypeOK, Phases, Seen, [Next]_vars PROVE Seen'
  OBVIOUS
<1> USE ComposeAssumption DEF TypeOK, Phases, Seen, docker, Guarded, Handling, Whole
<1>1. CASE Build
  BY <1>1 DEF Build, Goto, Ends
<1>2. CASE Launch
  BY <1>2 DEF Launch, Goto, Ends
<1>3. CASE StreamEnds
  BY <1>3 DEF StreamEnds, Goto, Ends
<1>4. CASE Fetch
  <2>1. seen' \in [Containers -> Statuses]
    BY <1>4 DEF Fetch, Nothing, Statuses
  <2>2. CASE Settled(seen')
    <3>1. \A c \in Containers : seen'[c] \in Good \cup Failing \cup {"absent"}
      BY <2>2 DEF Settled, Listed
    <3>2. Cardinality(Missing(seen')) <= Cardinality(Strays(seen'))
      BY <2>1, <2>2, SettledCounts
    <3>3. settled' = (\A c \in Containers : seen'[c] \notin Failing) /\ pc' = "reap"
      BY <1>4, <2>2 DEF Fetch
    <3>4. settled' => Whole'
      BY <3>1, <3>2, <3>3
    <3>5. settled' \in BOOLEAN
      BY <3>3
    <3> QED BY <1>4, <3>3, <3>4, <3>5 DEF Fetch
  <2>3. CASE ~Settled(seen')
    BY <1>4, <2>3 DEF Fetch
  <2> QED BY <2>2, <2>3
<1>5. CASE Check
  <2>1. entries' = entries /\ up' = up /\ pc = "check" /\ pc' \in {"reap", "fetch"}
    BY <1>5 DEF Check
  <2>2. UNCHANGED <<outdated, seen, detach>>
    BY <1>5 DEF Check
  <2>3. settled' = settled \/ (settled' = FALSE /\ (up = "failed" \/ elapsed' >= Timeout))
    BY <1>5 DEF Check
  <2>4. elapsed' \in 0 .. Timeout
    BY <1>5, TypeStep DEF Next, Command
  <2>5. pc' = "fetch" => settled' = settled
    BY <1>5 DEF Check
  <2>6. pc' = "reap" => settled' = FALSE
    BY <1>5 DEF Check
  <2>7. settled /\ entries = <<>>
    BY <2>1
  <2>8. elapsed' >= Timeout => elapsed' = Timeout
    BY <2>4
  <2>9. ~settled' => up' = "failed" \/ elapsed' = Timeout
    BY <2>1, <2>3, <2>7, <2>8, Zenon
  <2> QED BY <2>1, <2>2, <2>5, <2>6, <2>7, <2>9
<1>6. CASE Reap
  BY <1>6 DEF Reap, Goto, Ends
<1>7. CASE Cleanup
  BY <1>7 DEF Cleanup, Goto, Ends
<1>8. CASE Verdict
  BY <1>8 DEF Verdict, Goto, Ends
<1>9. CASE Return
  BY <1>9 DEF Return, Goto, Ends
<1>10. CASE DockerMissing
  BY <1>10 DEF DockerMissing, Goto, Ends
<1>11. CASE Interrupt
  <2>1. \/ up' = up
        \/ up = "running" /\ up' = "failed"
    BY <1>11 DEF Interrupt
  <2>2. UNCHANGED <<docker, tail, detach, seen, settled, elapsed, exit>> /\ pc \in Guarded
    BY <1>11 DEF Interrupt
  <2>3. CASE pc \in {"fetch", "check"} /\ Ends("interrupted")
    <3>1. entries = <<>> /\ entries' = Append(entries, "interrupted") /\ pc' = "leave"
      BY <2>3 DEF Ends
    <3>2. Len(entries') = 1 /\ entries' # <<>> /\ entries'[Len(entries')] = "interrupted"
      BY <3>1, OneEntry
    <3> QED BY <2>1, <2>2, <2>3, <3>1, <3>2
  <2>4. CASE pc' = "stopped" /\ UNCHANGED entries
    <3>1. Len(entries) \in {0, 1}
      BY <2>2
    <3> QED BY <2>1, <2>2, <2>4, <3>1
  <2> QED BY <1>11, <2>3, <2>4 DEF Interrupt
<1>12. CASE LateInterrupt
  BY <1>12 DEF LateInterrupt, Goto, Ends
<1>13. CASE UpExits
  BY <1>13 DEF UpExits
<1>18. CASE Leave
  <2>1. Len(entries) = 1
    BY <1>18 DEF Leave, Goto
  <2>2. entries # <<>>
    BY <2>1, NotEmpty
  <2> QED BY <1>18, <2>2 DEF Leave, Goto
<1>19. CASE Handle
  BY <1>19 DEF Handle
<1>14. ASSUME NEW s \in Services, Create(s) PROVE Seen'
  BY <1>14 DEF Create
<1>15. ASSUME NEW s \in Services, Start(s) PROVE Seen'
  BY <1>15 DEF Start
<1>16. ASSUME NEW c \in Containers, Change(c) PROVE Seen'
  BY <1>16 DEF Change
<1>17. CASE UNCHANGED vars
  BY <1>17 DEF vars
<1> QED BY <1>1, <1>2, <1>3, <1>4, <1>5, <1>6, <1>7, <1>8, <1>9,
           <1>10, <1>11, <1>12, <1>13, <1>14, <1>15, <1>16, <1>17, <1>18, <1>19
           DEF Next, Command, Awaiting, Daemon

-----------------------------------------------------------------------------
Inv == TypeOK /\ Phases /\ Seen

(* The three parts hold at the start. *)
LEMMA InitInv == Init => Inv
<1> SUFFICES ASSUME Init PROVE Inv
  OBVIOUS
<1> USE ComposeAssumption DEF Init, Nothing
<1>1. TypeOK
  <2>1. outdated \subseteq Services
    OBVIOUS
  <2>2. seen \in [Containers -> Statuses]
    BY DEF Statuses
  <2> QED BY <2>1, <2>2 DEF TypeOK, Guarded
<1>2. Phases
  BY DEF Phases, Guarded
<1>3. Seen
  BY DEF Seen
<1> QED BY <1>1, <1>2, <1>3 DEF Inv

(* The inductive invariant holds in every run. *)
LEMMA InvAlways == Spec => []Inv
<1>1. Inv /\ [Next]_vars => Inv'
  BY TypeStep, PhasesStep, SeenStep DEF Inv
<1> QED BY <1>1, InitInv, PTL DEF Spec

(* Types, in every run: any services and any timeout.                      *)
THEOREM TypeCorrect == Spec => []TypeOK
<1> QED BY InvAlways, PTL DEF Inv

(***************************************************************************)
(* Exit code 0 of a watched `cds up` is what it saw: an `up` that          *)
(* succeeded and a poll in which every listed container was settled, none  *)
(* failing, and no more services were missing than others were listed.     *)
(***************************************************************************)
THEOREM SuccessIsTrue == Spec => []SuccessWasSeen
<1>1. Inv => SuccessWasSeen
  BY DEF Inv, TypeOK, Phases, Seen, Whole, Missing, Strays, SuccessWasSeen
<1> QED BY <1>1, InvAlways, PTL

(***************************************************************************)
(* Exit code 1 of a watched `cds up` whose `up` succeeded has a cause that *)
(* was seen: a timeout, or a container of the project that fails.          *)
(***************************************************************************)
THEOREM FailureIsTrue == Spec => []FailureWasSeen
<1>1. Inv => FailureWasSeen
  BY DEF Inv, TypeOK, Phases, Seen, FailureWasSeen
<1> QED BY <1>1, InvAlways, PTL

(***************************************************************************)
(* `docker compose up` and the log tail never write at the same time, and  *)
(* the tail does not outlive a command that returns.                       *)
(***************************************************************************)
THEOREM LogHasOneWriter == Spec => []OneLogWriter
<1>1. Inv => OneLogWriter
  BY DEF Inv, TypeOK, Phases, OneLogWriter, Audit!Outcomes
<1> QED BY <1>1, InvAlways, PTL

(***************************************************************************)
(* Every step of the command is a step of the abstract CommandReport or    *)
(* changes neither the entries nor the exit code: an exit code is returned *)
(* only after an entry that tells it, and a second entry is that of a      *)
(* Ctrl-C between the first one and the return.                            *)
(***************************************************************************)
THEOREM AuditIsFaithful == Spec => ReportsFaithfully
<1>1. Init => Audit!Init
  BY DEF Init, Audit!Init
<1>2. Inv /\ [Next]_vars => [Audit!Next]_(Audit!reported)
  <2> SUFFICES ASSUME Inv, [Next]_vars PROVE [Audit!Next]_(Audit!reported)
    OBVIOUS
  <2> USE DEF Inv, TypeOK, Phases, Guarded, Handling, Audit!reported, Audit!Next, Audit!Ending,
              Audit!Outcomes
  <2>1. CASE Build
    BY <2>1 DEF Build, Ends, Audit!Record
  <2>2. CASE StreamEnds
    BY <2>2 DEF StreamEnds, Ends, Audit!Record
  <2>3. CASE Reap
    BY <2>3 DEF Reap, Ends, Audit!Record
  <2>4. CASE Verdict
    BY <2>4 DEF Verdict, Goto, Audit!Record
  <2>5. CASE Return
    BY <2>5 DEF Return, Goto, Audit!Return
  <2>6. CASE DockerMissing
    BY <2>6 DEF DockerMissing
  <2>7. CASE Interrupt
    BY <2>7 DEF Interrupt, Ends, Audit!Record
  <2>8. CASE LateInterrupt
    BY <2>8 DEF LateInterrupt, Audit!Raise
  <2>9. CASE Launch \/ Fetch \/ Check \/ Cleanup \/ Leave \/ UpExits
    BY <2>9 DEF Launch, Fetch, Check, Cleanup, Leave, UpExits
  <2>10. CASE Handle
    <3>1. exit = "running" /\ exit' = exit
      BY <2>10 DEF Handle
    <3>2. CASE Len(entries) = 1
      <4>1. pc = "stopped" /\ entries' = Append(entries, "interrupted")
        BY <2>10, <3>2 DEF Handle
      <4>2. Audit!RecordInterrupt
        BY <3>1, <3>2, <4>1 DEF Audit!RecordInterrupt
      <4> QED BY <4>2
    <3>3. CASE Len(entries) # 1
      <4>1. entries = <<>>
        BY <2>10, <3>3 DEF Handle
      <4>2. PICK outcome \in Audit!Outcomes : entries' = Append(entries, outcome)
        BY <2>10 DEF Handle
      <4>3. Audit!Record(outcome)
        BY <3>1, <4>1, <4>2 DEF Audit!Record
      <4> QED BY <4>3
    <3> QED BY <3>2, <3>3
  <2>11. ASSUME NEW c \in Containers, Create(c) \/ Start(c) \/ Change(c)
         PROVE UNCHANGED <<entries, exit>>
    BY <2>11 DEF Create, Start, Change
  <2>12. CASE UNCHANGED vars
    BY <2>12 DEF vars
  <2> QED BY <2>1, <2>2, <2>3, <2>4, <2>5, <2>6, <2>7, <2>8, <2>9, <2>10, <2>11, <2>12
             DEF Next, Command, Awaiting, Daemon, Containers
<1> QED BY <1>1, <1>2, InvAlways, PTL DEF Spec, ReportsFaithfully, Audit!Safety
=============================================================================
