------------------------ MODULE ConnectionRegistry_proofs ------------------------
(***************************************************************************)
(* Proofs about ConnectionRegistry for any number of threads, names,       *)
(* connections and engines.                                                *)
(***************************************************************************)
EXTENDS ConnectionRegistry, TLAPS

Locked == TypeOK /\ RegistryLocked /\ EngineLocked

(* Types, for any interleaving of lookups, creations and closings. *)
LEMMA TypeStep == Locked /\ [Next]_vars => TypeOK'
<1> USE DEF TypeOK, Opt
<1> SUFFICES ASSUME TypeOK, RegistryLocked, EngineLocked, [Next]_vars PROVE TypeOK'
  BY DEF Locked
<1>1. CASE UNCHANGED vars
  BY <1>1 DEF vars, shared
<1>2. ASSUME NEW t \in Threads, Step(t) PROVE TypeOK'
  <2> USE DEF Goto, shared, Unborn
  <2>1. CASE Bypass(t)
    BY <2>1 DEF Bypass
  <2>2. CASE \E k \in Keys : Lookup(t, k)
    BY <2>2 DEF Lookup
  <2>3. CASE LockRegistry(t)
    BY <2>3 DEF LockRegistry
  <2>4. CASE RecheckRegistry(t)
    <3>1. key[t] \in Keys /\ registry[key[t]] \in Opt(Conns)
      BY <2>4 DEF RecheckRegistry, RegistryLocked, InRegistry
    <3> QED BY <2>4, <3>1 DEF RecheckRegistry
  <2>5. CASE Register(t)
    <3>1. PICK c \in Unborn(origin) :
            /\ origin' = [origin EXCEPT ![c] = "registry"]
            /\ registry' = [registry EXCEPT ![key[t]] = c]
            /\ self' = [self EXCEPT ![t] = c]
      BY <2>5 DEF Register
    <3>2. c \in Conns
      BY DEF Unborn
    <3> QED BY <2>5, <3>1, <3>2 DEF Register
  <2>6. CASE CallEngine(t)
    BY <2>6 DEF CallEngine
  <2>7. CASE LockEngine(t)
    BY <2>7 DEF LockEngine
  <2>8. CASE RecheckEngine(t)
    BY <2>8 DEF RecheckEngine
  <2>9. CASE CreateEngine(t)
    <3>1. PICK e \in Unborn(pool) :
            /\ pool' = [pool EXCEPT ![e] = "open"]
            /\ engineOf' = [engineOf EXCEPT ![self[t]] = e]
      BY <2>9 DEF CreateEngine
    <3>2. e \in Engines
      BY DEF Unborn
    <3> QED BY <2>9, <3>1, <3>2 DEF CreateEngine
  <2>10. CASE CreateEngineFails(t)
    BY <2>10 DEF CreateEngineFails
  <2>11. CASE ReturnEngine(t)
    BY <2>11 DEF ReturnEngine
  <2>12. CASE CallClose(t)
    BY <2>12 DEF CallClose, Closing
  <2>13. CASE Dispose(t)
    <3>1. victim[t] \in Conns /\ engineOf[victim[t]] \in Opt(Engines)
      BY <2>13 DEF Dispose, EngineLocked, Closes
    <3> QED BY <2>13, <3>1 DEF Dispose
  <2>14. CASE ClearEngine(t)
    BY <2>14 DEF ClearEngine
  <2>15. CASE Recover(t)
    BY <2>15 DEF Recover
  <2>16. CASE CallCloseAll(t)
    BY <2>16 DEF CallCloseAll, Registered
  <2>17. CASE \E c \in Conns : SweepNext(t, c)
    BY <2>17 DEF SweepNext, Closing
  <2>18. CASE ClearRegistry(t)
    BY <2>18 DEF ClearRegistry
  <2> QED BY <1>2, <2>1, <2>2, <2>3, <2>4, <2>5, <2>6, <2>7, <2>8, <2>9, <2>10, <2>11,
             <2>12, <2>13, <2>14, <2>15, <2>16, <2>17, <2>18 DEF Step
<1> QED BY <1>1, <1>2 DEF Next


(***************************************************************************)
(* The registry's lock excludes: nobody else registers or clears between   *)
(* the second look and the registration.                                   *)
(***************************************************************************)
LEMMA RegistryStep == Locked /\ [Next]_vars => RegistryLocked'
<1> USE DEF TypeOK, Opt, RegistryLocked, InRegistry
<1> SUFFICES ASSUME Locked, [Next]_vars PROVE RegistryLocked'
  OBVIOUS
<1> USE DEF Locked
<1>1. CASE UNCHANGED vars
  BY <1>1 DEF vars, shared
<1>2. ASSUME NEW t \in Threads, Step(t) PROVE RegistryLocked'
  <2> USE DEF Goto, shared, Unborn
  <2>1. CASE Bypass(t)
    BY <2>1 DEF Bypass
  <2>2. CASE \E k \in Keys : Lookup(t, k)
    BY <2>2 DEF Lookup
  <2>3. CASE LockRegistry(t)
    BY <2>3, NoneAssumption DEF LockRegistry
  <2>4. CASE RecheckRegistry(t)
    BY <2>4 DEF RecheckRegistry
  <2>5. CASE Register(t)
    BY <2>5 DEF Register
  <2>6. CASE CallEngine(t)
    BY <2>6 DEF CallEngine
  <2>7. CASE LockEngine(t)
    BY <2>7, NoneAssumption DEF LockEngine
  <2>8. CASE RecheckEngine(t)
    BY <2>8 DEF RecheckEngine
  <2>9. CASE CreateEngine(t)
    BY <2>9 DEF CreateEngine
  <2>10. CASE CreateEngineFails(t)
    BY <2>10 DEF CreateEngineFails
  <2>11. CASE ReturnEngine(t)
    BY <2>11 DEF ReturnEngine
  <2>12. CASE CallClose(t)
    BY <2>12 DEF CallClose, Closing
  <2>13. CASE Dispose(t)
    BY <2>13 DEF Dispose
  <2>14. CASE ClearEngine(t)
    BY <2>14 DEF ClearEngine
  <2>15. CASE Recover(t)
    BY <2>15 DEF Recover
  <2>16. CASE CallCloseAll(t)
    BY <2>16, NoneAssumption DEF CallCloseAll
  <2>17. CASE \E c \in Conns : SweepNext(t, c)
    BY <2>17 DEF SweepNext, Closing
  <2>18. CASE ClearRegistry(t)
    BY <2>18 DEF ClearRegistry
  <2> QED BY <1>2, <2>1, <2>2, <2>3, <2>4, <2>5, <2>6, <2>7, <2>8, <2>9,
             <2>10, <2>11, <2>12, <2>13, <2>14, <2>15, <2>16, <2>17, <2>18 DEF Step
<1> QED BY <1>1, <1>2 DEF Next

(***************************************************************************)
(* A connection's lock excludes: nobody else caches an engine between the  *)
(* second look and the creation, and clearing one only helps.              *)
(***************************************************************************)
LEMMA EngineStep == Locked /\ [Next]_vars => EngineLocked'
<1> USE DEF TypeOK, Opt, EngineLocked, InEngine, Closes
<1> SUFFICES ASSUME Locked, [Next]_vars PROVE EngineLocked'
  OBVIOUS
<1> USE DEF Locked
<1>1. CASE UNCHANGED vars
  BY <1>1 DEF vars, shared
<1>2. ASSUME NEW t \in Threads, Step(t) PROVE EngineLocked'
  <2> USE DEF Goto, shared, Unborn
  <2>1. CASE Bypass(t)
    BY <2>1 DEF Bypass
  <2>2. CASE \E k \in Keys : Lookup(t, k)
    BY <2>2 DEF Lookup
  <2>3. CASE LockRegistry(t)
    BY <2>3, NoneAssumption DEF LockRegistry
  <2>4. CASE RecheckRegistry(t)
    BY <2>4 DEF RecheckRegistry
  <2>5. CASE Register(t)
    BY <2>5 DEF Register
  <2>6. CASE CallEngine(t)
    BY <2>6 DEF CallEngine
  <2>7. CASE LockEngine(t)
    BY <2>7, NoneAssumption DEF LockEngine
  <2>8. CASE RecheckEngine(t)
    BY <2>8 DEF RecheckEngine
  <2>9. CASE CreateEngine(t)
    BY <2>9 DEF CreateEngine
  <2>10. CASE CreateEngineFails(t)
    BY <2>10 DEF CreateEngineFails
  <2>11. CASE ReturnEngine(t)
    BY <2>11 DEF ReturnEngine
  <2>12. CASE CallClose(t)
    BY <2>12 DEF CallClose, Closing
  <2>13. CASE Dispose(t)
    BY <2>13 DEF Dispose
  <2>14. CASE ClearEngine(t)
    BY <2>14 DEF ClearEngine
  <2>15. CASE Recover(t)
    BY <2>15 DEF Recover
  <2>16. CASE CallCloseAll(t)
    BY <2>16, NoneAssumption DEF CallCloseAll
  <2>17. CASE \E c \in Conns : SweepNext(t, c)
    BY <2>17 DEF SweepNext, Closing
  <2>18. CASE ClearRegistry(t)
    BY <2>18 DEF ClearRegistry
  <2> QED BY <1>2, <2>1, <2>2, <2>3, <2>4, <2>5, <2>6, <2>7, <2>8, <2>9,
             <2>10, <2>11, <2>12, <2>13, <2>14, <2>15, <2>16, <2>17, <2>18 DEF Step
<1> QED BY <1>1, <1>2 DEF Next

(* Every way out of a `with` block releases its lock. *)
LEMMA ReleaseStep == Locked /\ LocksReleased /\ [Next]_vars => LocksReleased'
<1> SUFFICES ASSUME Locked /\ LocksReleased, [Next]_vars PROVE LocksReleased'
  OBVIOUS
<1> USE NoneAssumption DEF Locked, TypeOK, Opt, RegistryLocked, EngineLocked, LocksReleased, InRegistry, InEngine, Closes
<1>1. CASE UNCHANGED vars
  BY <1>1 DEF vars, shared
<1>2. ASSUME NEW t \in Threads, Step(t) PROVE LocksReleased'
  <2> USE DEF Goto, shared, Unborn
  <2>1. CASE Bypass(t)
    BY <2>1 DEF Bypass
  <2>2. CASE \E k \in Keys : Lookup(t, k)
    BY <2>2 DEF Lookup
  <2>3. CASE LockRegistry(t)
    BY <2>3 DEF LockRegistry
  <2>4. CASE RecheckRegistry(t)
    BY <2>4 DEF RecheckRegistry
  <2>5. CASE Register(t)
    BY <2>5 DEF Register
  <2>6. CASE CallEngine(t)
    BY <2>6 DEF CallEngine
  <2>7. CASE LockEngine(t)
    BY <2>7 DEF LockEngine
  <2>8. CASE RecheckEngine(t)
    BY <2>8 DEF RecheckEngine
  <2>9. CASE CreateEngine(t)
    BY <2>9 DEF CreateEngine
  <2>10. CASE CreateEngineFails(t)
    BY <2>10 DEF CreateEngineFails
  <2>11. CASE ReturnEngine(t)
    BY <2>11 DEF ReturnEngine
  <2>12. CASE CallClose(t)
    BY <2>12 DEF CallClose, Closing
  <2>13. CASE Dispose(t)
    BY <2>13 DEF Dispose
  <2>14. CASE ClearEngine(t)
    BY <2>14 DEF ClearEngine
  <2>15. CASE Recover(t)
    BY <2>15 DEF Recover
  <2>16. CASE CallCloseAll(t)
    BY <2>16 DEF CallCloseAll
  <2>17. CASE \E c \in Conns : SweepNext(t, c)
    BY <2>17 DEF SweepNext, Closing
  <2>18. CASE ClearRegistry(t)
    BY <2>18 DEF ClearRegistry
  <2> QED BY <1>2, <2>1, <2>2, <2>3, <2>4, <2>5, <2>6, <2>7, <2>8, <2>9,
             <2>10, <2>11, <2>12, <2>13, <2>14, <2>15, <2>16, <2>17, <2>18 DEF Step
<1> QED BY <1>1, <1>2 DEF Next

(* A name in the registry is only ever freed. *)
LEMMA RegistryKeeps == Locked /\ [Next]_vars =>
  \A x \in Keys : registry[x] # None => registry'[x] \in {registry[x], None}
<1> SUFFICES ASSUME Locked, [Next]_vars, NEW x \in Keys, registry[x] # None
             PROVE  registry'[x] \in {registry[x], None}
  OBVIOUS
<1> USE DEF Locked, TypeOK, Opt, RegistryLocked, InRegistry
<1>1. CASE UNCHANGED vars
  BY <1>1 DEF vars, shared
<1>2. ASSUME NEW t \in Threads, Step(t) PROVE registry'[x] \in {registry[x], None}
  <2> USE DEF Goto, shared
  <2>1. CASE Bypass(t)
    BY <2>1 DEF Bypass
  <2>2. CASE \E k \in Keys : Lookup(t, k)
    BY <2>2 DEF Lookup
  <2>3. CASE LockRegistry(t)
    BY <2>3 DEF LockRegistry
  <2>4. CASE RecheckRegistry(t)
    BY <2>4 DEF RecheckRegistry
  <2>5. CASE Register(t)
    BY <2>5 DEF Register
  <2>6. CASE CallEngine(t)
    BY <2>6 DEF CallEngine
  <2>7. CASE LockEngine(t)
    BY <2>7 DEF LockEngine
  <2>8. CASE RecheckEngine(t)
    BY <2>8 DEF RecheckEngine
  <2>9. CASE CreateEngine(t)
    BY <2>9 DEF CreateEngine
  <2>10. CASE CreateEngineFails(t)
    BY <2>10 DEF CreateEngineFails
  <2>11. CASE ReturnEngine(t)
    BY <2>11 DEF ReturnEngine
  <2>12. CASE CallClose(t)
    BY <2>12 DEF CallClose, Closing
  <2>13. CASE Dispose(t)
    BY <2>13 DEF Dispose
  <2>14. CASE ClearEngine(t)
    BY <2>14 DEF ClearEngine
  <2>15. CASE Recover(t)
    BY <2>15 DEF Recover
  <2>16. CASE CallCloseAll(t)
    BY <2>16 DEF CallCloseAll
  <2>17. CASE \E c \in Conns : SweepNext(t, c)
    BY <2>17 DEF SweepNext, Closing
  <2>18. CASE ClearRegistry(t)
    BY <2>18 DEF ClearRegistry
  <2> QED BY <1>2, <2>1, <2>2, <2>3, <2>4, <2>5, <2>6, <2>7, <2>8, <2>9,
             <2>10, <2>11, <2>12, <2>13, <2>14, <2>15, <2>16, <2>17, <2>18 DEF Step
<1> QED BY <1>1, <1>2 DEF Next

(* A cached engine is only ever cleared. *)
LEMMA EngineKeeps == Locked /\ [Next]_vars =>
  \A x \in Conns : engineOf[x] # None => engineOf'[x] \in {engineOf[x], None}
<1> SUFFICES ASSUME Locked, [Next]_vars, NEW x \in Conns, engineOf[x] # None
             PROVE  engineOf'[x] \in {engineOf[x], None}
  OBVIOUS
<1> USE DEF Locked, TypeOK, Opt, EngineLocked, InEngine
<1>1. CASE UNCHANGED vars
  BY <1>1 DEF vars, shared
<1>2. ASSUME NEW t \in Threads, Step(t) PROVE engineOf'[x] \in {engineOf[x], None}
  <2> USE DEF Goto, shared
  <2>1. CASE Bypass(t)
    BY <2>1 DEF Bypass
  <2>2. CASE \E k \in Keys : Lookup(t, k)
    BY <2>2 DEF Lookup
  <2>3. CASE LockRegistry(t)
    BY <2>3 DEF LockRegistry
  <2>4. CASE RecheckRegistry(t)
    BY <2>4 DEF RecheckRegistry
  <2>5. CASE Register(t)
    BY <2>5 DEF Register
  <2>6. CASE CallEngine(t)
    BY <2>6 DEF CallEngine
  <2>7. CASE LockEngine(t)
    BY <2>7 DEF LockEngine
  <2>8. CASE RecheckEngine(t)
    BY <2>8 DEF RecheckEngine
  <2>9. CASE CreateEngine(t)
    BY <2>9 DEF CreateEngine
  <2>10. CASE CreateEngineFails(t)
    BY <2>10 DEF CreateEngineFails
  <2>11. CASE ReturnEngine(t)
    BY <2>11 DEF ReturnEngine
  <2>12. CASE CallClose(t)
    BY <2>12 DEF CallClose, Closing
  <2>13. CASE Dispose(t)
    BY <2>13 DEF Dispose
  <2>14. CASE ClearEngine(t)
    BY <2>14 DEF ClearEngine
  <2>15. CASE Recover(t)
    BY <2>15 DEF Recover
  <2>16. CASE CallCloseAll(t)
    BY <2>16 DEF CallCloseAll
  <2>17. CASE \E c \in Conns : SweepNext(t, c)
    BY <2>17 DEF SweepNext, Closing
  <2>18. CASE ClearRegistry(t)
    BY <2>18 DEF ClearRegistry
  <2> QED BY <1>2, <2>1, <2>2, <2>3, <2>4, <2>5, <2>6, <2>7, <2>8, <2>9,
             <2>10, <2>11, <2>12, <2>13, <2>14, <2>15, <2>16, <2>17, <2>18 DEF Step
<1> QED BY <1>1, <1>2 DEF Next

(***************************************************************************)
(* While no close() overlaps another close of its connection: nobody else  *)
(* clears what a close has found, and no engine is created over it.        *)
(***************************************************************************)
SweptInOrder == ClosesApart /\ SweepsAlone /\ CloseNeverRaises

(* One close at a time, so it finds what its test found. *)
LEMMA SweepStep == Locked /\ SweptInOrder /\ [Next]_vars => SweptInOrder'
<1> SUFFICES ASSUME Locked /\ SweptInOrder, [Next]_vars PROVE SweptInOrder'
  OBVIOUS
<1> USE NoneAssumption DEF Locked, TypeOK, Opt, SweptInOrder, ClosesApart, SweepsAlone, CloseNeverRaises, RegistryLocked, EngineLocked, InRegistry, InEngine, Closes
<1>1. CASE UNCHANGED vars
  BY <1>1 DEF vars, shared
<1>2. ASSUME NEW t \in Threads, Step(t) PROVE SweptInOrder'
  <2> USE DEF Goto, shared, Unborn
  <2>1. CASE Bypass(t)
    BY <2>1 DEF Bypass
  <2>2. CASE \E k \in Keys : Lookup(t, k)
    BY <2>2 DEF Lookup
  <2>3. CASE LockRegistry(t)
    BY <2>3 DEF LockRegistry
  <2>4. CASE RecheckRegistry(t)
    BY <2>4 DEF RecheckRegistry
  <2>5. CASE Register(t)
    BY <2>5 DEF Register
  <2>6. CASE CallEngine(t)
    BY <2>6 DEF CallEngine
  <2>7. CASE LockEngine(t)
    BY <2>7 DEF LockEngine
  <2>8. CASE RecheckEngine(t)
    BY <2>8 DEF RecheckEngine
  <2>9. CASE CreateEngine(t)
    BY <2>9 DEF CreateEngine
  <2>10. CASE CreateEngineFails(t)
    BY <2>10 DEF CreateEngineFails
  <2>11. CASE ReturnEngine(t)
    BY <2>11 DEF ReturnEngine
  <2>12. CASE CallClose(t)
    BY <2>12 DEF CallClose, Closing
  <2>13. CASE Dispose(t)
    BY <2>13 DEF Dispose
  <2>14. CASE ClearEngine(t)
    BY <2>14 DEF ClearEngine
  <2>15. CASE Recover(t)
    BY <2>15 DEF Recover
  <2>16. CASE CallCloseAll(t)
    BY <2>16 DEF CallCloseAll
  <2>17. CASE \E c \in Conns : SweepNext(t, c)
    BY <2>17 DEF SweepNext, Closing
  <2>18. CASE ClearRegistry(t)
    BY <2>18 DEF ClearRegistry
  <2> QED BY <1>2, <2>1, <2>2, <2>3, <2>4, <2>5, <2>6, <2>7, <2>8, <2>9,
             <2>10, <2>11, <2>12, <2>13, <2>14, <2>15, <2>16, <2>17, <2>18 DEF Step
<1> QED BY <1>1, <1>2 DEF Next

(***************************************************************************)
(* What a sweep has still to do: an engine that was registered when it     *)
(* took the lock is disposed of, or cached in a connection it will come    *)
(* to, or the one it has just found.                                       *)
(***************************************************************************)
SweepCovers ==
  "overlap" \notin called =>
    \A t \in Threads : registryLock = t /\ pc[t] \in {"sweep"} \cup Closes =>
      \A e \in before[t] :
        \/ pool[e] = "disposed"
        \/ \E c \in sweep[t] : engineOf[c] = e
        \/ pc[t] = "dispose" /\ engineOf[victim[t]] = e

LEMMA CoverStep == Locked /\ LocksReleased /\ SweptInOrder /\ SweepCovers /\ [Next]_vars => SweepCovers'
<1> SUFFICES ASSUME Locked /\ LocksReleased /\ SweptInOrder /\ SweepCovers, [Next]_vars, "overlap" \notin called'
             PROVE  SweepCovers'
  BY DEF SweepCovers
<1> USE NoneAssumption DEF Locked, Closes
<1>1. CASE UNCHANGED vars
  BY <1>1 DEF vars, shared, SweepCovers
<1>2. ASSUME NEW t \in Threads, Step(t) PROVE SweepCovers'
  <2>0. /\ pc \in [Threads -> {"idle", "want_registry", "recheck_registry", "register",
                               "want_engine", "recheck_engine", "create_engine",
                               "return_engine", "sweep", "dispose", "clear", "raised"}]
        /\ pool \in [Engines -> {"unborn", "open", "disposed"}]
        /\ engineOf \in [Conns -> Opt(Engines)] /\ before \in [Threads -> SUBSET Engines]
        /\ sweep \in [Threads -> SUBSET Conns] /\ victim \in [Threads -> Opt(Conns)]
        /\ "overlap" \notin called
    <3>1. called \subseteq called'
      BY <1>2 DEF Step, shared, Bypass, Lookup, LockRegistry, RecheckRegistry, Register, CallEngine, LockEngine,
           RecheckEngine, CreateEngine, CreateEngineFails, ReturnEngine, CallClose, Dispose, ClearEngine,
           Recover, CallCloseAll, SweepNext, ClearRegistry, Closing
    <3> QED BY <3>1 DEF TypeOK
  <2>1. CASE /\ UNCHANGED <<engineOf, pool, victim, sweep, before>>
             /\ \A q \in Threads : registryLock' = q /\ pc'[q] \in {"sweep"} \cup Closes
                                  => registryLock = q /\ pc'[q] = pc[q]
    BY <2>0, <2>1 DEF SweepCovers
  <2>2. CASE \/ Bypass(t) \/ (\E k \in Keys : Lookup(t, k)) \/ LockRegistry(t) \/ RecheckRegistry(t)
             \/ Register(t) \/ CallEngine(t) \/ LockEngine(t) \/ RecheckEngine(t) \/ CreateEngineFails(t)
             \/ ReturnEngine(t) \/ Recover(t) \/ ClearRegistry(t)
    <3>1. UNCHANGED <<engineOf, pool, victim, sweep, before>>
      BY <2>2 DEF shared, Bypass, Lookup, LockRegistry, RecheckRegistry, Register, CallEngine, LockEngine,
           RecheckEngine, CreateEngineFails, ReturnEngine, Recover, ClearRegistry
    <3>2. \A q \in Threads : registryLock' = q /\ pc'[q] \in {"sweep"} \cup Closes
                               => registryLock = q /\ pc'[q] = pc[q]
      BY <2>0, <2>2 DEF shared, Goto, Bypass, Lookup, LockRegistry, RecheckRegistry, Register, CallEngine, LockEngine,
           RecheckEngine, CreateEngineFails, ReturnEngine, Recover, ClearRegistry
    <3> QED BY <2>1, <3>1, <3>2
  <2>3. CASE CreateEngine(t)
    <3>1. PICK e \in Unborn(pool) : /\ pool' = [pool EXCEPT ![e] = "open"]
                                    /\ engineOf' = [engineOf EXCEPT ![self[t]] = e]
      BY <2>3 DEF CreateEngine
    <3>2. UNCHANGED <<victim, sweep, before>> /\ pc[t] = "create_engine" /\ engineOf[self[t]] = None
      BY <2>3 DEF CreateEngine, Goto, EngineLocked
    <3>3. \A q \in Threads : registryLock' = q /\ pc'[q] \in {"sweep"} \cup Closes
                               => registryLock = q /\ pc'[q] = pc[q]
      BY <2>0, <2>3 DEF CreateEngine, Goto
    <3>4. \A x \in Engines : pool[x] = "disposed" => pool'[x] = "disposed"
      BY <2>0, <3>1 DEF Unborn
    <3>5. \A c \in Conns : engineOf[c] # None => engineOf'[c] = engineOf[c]
      BY <2>0, <3>1, <3>2
    <3> QED BY <2>0, <3>2, <3>3, <3>4, <3>5 DEF SweepCovers, Opt, EngineLocked
  <2>4. CASE CallClose(t)
    <3>0. registryLock # t
      BY <2>0, <2>4 DEF CallClose, Goto, LocksReleased, InRegistry
    <3>1. /\ UNCHANGED <<engineOf, pool, registryLock, sweep, before>> /\ pc[t] = "idle"
          /\ pc'[t] \in {"idle", "dispose"} /\ victim'[t] = self[t]
          /\ \A q \in Threads : q # t => pc'[q] = pc[q] /\ victim'[q] = victim[q]
      BY <2>0, <2>4 DEF CallClose, Goto, shared
    <3> QED BY <2>0, <3>0, <3>1 DEF SweepCovers
  <2>5. CASE Dispose(t)
    <3>1. /\ UNCHANGED <<engineOf, registryLock, victim, sweep, before>> /\ victim[t] \in Conns
          /\ engineOf[victim[t]] # None /\ pc[t] = "dispose" /\ pc' = [pc EXCEPT ![t] = "clear"]
          /\ pool' = [pool EXCEPT ![engineOf[victim[t]]] = "disposed"]
      BY <2>0, <2>5 DEF Dispose, Goto, EngineLocked, SweptInOrder, ClosesApart
    <3>2. /\ \A x \in Engines : pool[x] = "disposed" => pool'[x] = "disposed"
          /\ pool'[engineOf[victim[t]]] = "disposed"
      BY <2>0, <3>1 DEF Opt
    <3> QED BY <2>0, <3>1, <3>2 DEF SweepCovers
  <2>6. CASE ClearEngine(t)
    <3>1. /\ UNCHANGED <<pool, registryLock, victim, sweep, before>> /\ victim[t] \in Conns /\ pc[t] = "clear"
          /\ engineOf' = [engineOf EXCEPT ![victim[t]] = None]
          /\ \A q \in Threads : q # t => pc'[q] = pc[q]
      BY <2>0, <2>6 DEF ClearEngine, Goto, EngineLocked
    <3>2. pool[engineOf[victim[t]]] = "disposed"
      BY <2>0, <3>1 DEF SweptInOrder, ClosesApart
    <3>3. \A q \in Threads : q # t /\ pc[q] = "dispose" => victim[q] # victim[t]
      BY <2>0, <3>1 DEF SweptInOrder, ClosesApart
    <3>4. \A c \in Conns : c # victim[t] => engineOf'[c] = engineOf[c]
      BY <2>0, <3>1
    <3>5. \A q \in Threads : pc'[q] \in {"sweep"} \cup Closes => pc[q] \in {"sweep"} \cup Closes
      BY <3>1
    <3>6. pc'[t] # "dispose"
      BY <2>0, <2>6 DEF ClearEngine, Goto
    <3> QED
      <4> SUFFICES ASSUME NEW q \in Threads, registryLock = q,
                          pc'[q] \in {"sweep"} \cup Closes, NEW e \in before[q],
                          pool[e] # "disposed"
                   PROVE  \/ \E c \in sweep[q] : engineOf'[c] = e
                          \/ pc'[q] = "dispose" /\ engineOf'[victim[q]] = e
        BY <2>0, <3>1 DEF SweepCovers
      <4>1. \/ \E c \in sweep[q] : engineOf[c] = e
            \/ pc[q] = "dispose" /\ engineOf[victim[q]] = e
        BY <2>0, <3>5 DEF SweepCovers
      <4>2. CASE \E c \in sweep[q] : engineOf[c] = e
        BY <2>0, <3>2, <3>4, <4>2
      <4>3. CASE pc[q] = "dispose" /\ engineOf[victim[q]] = e
        <5>1. q # t /\ victim[q] # victim[t] /\ victim[q] \in Conns
          BY <3>1, <3>3, <4>3 DEF EngineLocked
        <5> QED BY <3>1, <3>4, <4>3, <5>1
      <4> QED BY <4>1, <4>2, <4>3
  <2>7. CASE CallCloseAll(t)
    <3>0. registryLock' = t
      BY <2>7 DEF CallCloseAll
    <3>1. /\ UNCHANGED <<pool, victim, engineOf>> /\ sweep' = [sweep EXCEPT ![t] = Registered]
          /\ before' = [before EXCEPT ![t] = {engineOf[c] : c \in Registered} \ {None}]
          /\ \A q \in Threads : q # t => pc'[q] = pc[q]
      BY <2>0, <2>7 DEF CallCloseAll, Goto
    <3>2. \A q \in Threads : q # t => sweep'[q] = sweep[q] /\ before'[q] = before[q]
      BY <2>0, <3>1
    <3>3. sweep'[t] = Registered /\ before'[t] = {engineOf[c] : c \in Registered} \ {None}
      BY <2>0, <3>1
    <3> QED BY <2>0, <3>0, <3>1, <3>2, <3>3 DEF SweepCovers
  <2>8. ASSUME NEW c \in Conns, SweepNext(t, c) PROVE SweepCovers'
    <3>1. /\ UNCHANGED <<engineOf, registryLock, pool, before>> /\ pc[t] = "sweep"
          /\ sweep'[t] = sweep[t] \ {c} /\ victim'[t] = c
          /\ pc'[t] = IF engineOf[c] = None THEN "sweep" ELSE "dispose"
          /\ \A q \in Threads : q # t => pc'[q] = pc[q] /\ sweep'[q] = sweep[q] /\ victim'[q] = victim[q]
      BY <2>0, <2>8 DEF SweepNext, Goto, shared
    <3>2. \A e \in before[t] : e # None
      BY <2>0
    <3>3. registryLock = t
      BY <3>1 DEF RegistryLocked
    <3> QED BY <2>0, <3>1, <3>2, <3>3 DEF SweepCovers
  <2> QED BY <1>2, <2>2, <2>3, <2>4, <2>5, <2>6, <2>7, <2>8 DEF Step
<1> QED BY <1>1, <1>2 DEF Next

(* An engine leaves its connection only after it was disposed of. *)
LEMMA HeldStep == Locked /\ SweptInOrder /\ OpenIsHeldApart /\ [Next]_vars => OpenIsHeldApart'
<1> SUFFICES ASSUME Locked /\ SweptInOrder /\ OpenIsHeldApart, [Next]_vars PROVE OpenIsHeldApart'
  OBVIOUS
<1> USE NoneAssumption DEF Locked, TypeOK, Opt, OpenIsHeldApart, OpenIsHeld, SweptInOrder, ClosesApart, EngineLocked, InEngine, Closes
<1>1. CASE UNCHANGED vars
  BY <1>1 DEF vars, shared
<1>2. ASSUME NEW t \in Threads, Step(t) PROVE OpenIsHeldApart'
  <2> USE DEF Goto, shared, Unborn
  <2>1. CASE Bypass(t)
    BY <2>1 DEF Bypass
  <2>2. CASE \E k \in Keys : Lookup(t, k)
    BY <2>2 DEF Lookup
  <2>3. CASE LockRegistry(t)
    BY <2>3 DEF LockRegistry
  <2>4. CASE RecheckRegistry(t)
    BY <2>4 DEF RecheckRegistry
  <2>5. CASE Register(t)
    BY <2>5 DEF Register
  <2>6. CASE CallEngine(t)
    BY <2>6 DEF CallEngine
  <2>7. CASE LockEngine(t)
    BY <2>7 DEF LockEngine
  <2>8. CASE RecheckEngine(t)
    BY <2>8 DEF RecheckEngine
  <2>9. CASE CreateEngine(t)
    BY <2>9 DEF CreateEngine
  <2>10. CASE CreateEngineFails(t)
    BY <2>10 DEF CreateEngineFails
  <2>11. CASE ReturnEngine(t)
    BY <2>11 DEF ReturnEngine
  <2>12. CASE CallClose(t)
    BY <2>12 DEF CallClose, Closing
  <2>13. CASE Dispose(t)
    BY <2>13 DEF Dispose
  <2>14. CASE ClearEngine(t)
    BY <2>14 DEF ClearEngine
  <2>15. CASE Recover(t)
    BY <2>15 DEF Recover
  <2>16. CASE CallCloseAll(t)
    BY <2>16 DEF CallCloseAll
  <2>17. CASE \E c \in Conns : SweepNext(t, c)
    BY <2>17 DEF SweepNext, Closing
  <2>18. CASE ClearRegistry(t)
    BY <2>18 DEF ClearRegistry
  <2> QED BY <1>2, <2>1, <2>2, <2>3, <2>4, <2>5, <2>6, <2>7, <2>8, <2>9,
             <2>10, <2>11, <2>12, <2>13, <2>14, <2>15, <2>16, <2>17, <2>18 DEF Step
<1> QED BY <1>1, <1>2 DEF Next

(* Which steps are out of reach before the first close or close_all. *)
Unclosed ==
  /\ HandlesAgree
  /\ EngineReturnedWhileOpen
  /\ \A t \in Threads :
       /\ "close_all" \notin called => pc[t] # "sweep"
       /\ called = {} => pc[t] \notin {"dispose", "clear"}
       /\ registryLock = t /\ pc[t] \in Closes => "close_all" \in called

(* With nobody closing, nothing a thread was handed changes. *)
LEMMA OpenStep == Locked /\ LocksReleased /\ Unclosed /\ [Next]_vars => Unclosed'
<1> SUFFICES ASSUME Locked, LocksReleased, Unclosed, [Next]_vars PROVE Unclosed'
  OBVIOUS
<1> USE NoneAssumption DEF Locked, TypeOK, Opt, Unclosed, HandlesAgree, EngineReturnedWhileOpen, EngineReturned, RegistryLocked, EngineLocked, LocksReleased, InRegistry, InEngine, Closes
<1>1. CASE UNCHANGED vars
  BY <1>1 DEF vars, shared
<1>2. ASSUME NEW t \in Threads, Step(t) PROVE Unclosed'
  <2> USE DEF Goto, shared, Unborn
  <2>1. CASE Bypass(t)
    BY <2>1 DEF Bypass
  <2>2. CASE \E k \in Keys : Lookup(t, k)
    BY <2>2 DEF Lookup
  <2>3. CASE LockRegistry(t)
    BY <2>3 DEF LockRegistry
  <2>4. CASE RecheckRegistry(t)
    BY <2>4 DEF RecheckRegistry
  <2>5. CASE Register(t)
    BY <2>5 DEF Register
  <2>6. CASE CallEngine(t)
    BY <2>6 DEF CallEngine
  <2>7. CASE LockEngine(t)
    BY <2>7 DEF LockEngine
  <2>8. CASE RecheckEngine(t)
    BY <2>8 DEF RecheckEngine
  <2>9. CASE CreateEngine(t)
    BY <2>9 DEF CreateEngine
  <2>10. CASE CreateEngineFails(t)
    BY <2>10 DEF CreateEngineFails
  <2>11. CASE ReturnEngine(t)
    BY <2>11 DEF ReturnEngine
  <2>12. CASE CallClose(t)
    BY <2>12 DEF CallClose, Closing
  <2>13. CASE Dispose(t)
    BY <2>13 DEF Dispose
  <2>14. CASE ClearEngine(t)
    BY <2>14 DEF ClearEngine
  <2>15. CASE Recover(t)
    BY <2>15 DEF Recover
  <2>16. CASE CallCloseAll(t)
    BY <2>16 DEF CallCloseAll
  <2>17. CASE \E c \in Conns : SweepNext(t, c)
    BY <2>17 DEF SweepNext, Closing
  <2>18. CASE ClearRegistry(t)
    BY <2>18 DEF ClearRegistry
  <2> QED BY <1>2, <2>1, <2>2, <2>3, <2>4, <2>5, <2>6, <2>7, <2>8, <2>9,
             <2>10, <2>11, <2>12, <2>13, <2>14, <2>15, <2>16, <2>17, <2>18 DEF Step
<1> QED BY <1>1, <1>2 DEF Next

-----------------------------------------------------------------------------
(***************************************************************************)
(* Types are right and both locks exclude, whoever closes what and when:   *)
(* the name about to be registered is free, the connection about to get an *)
(* engine has none.                                                        *)
(***************************************************************************)
THEOREM LocksExclude == Spec => [](TypeOK /\ DecisionsHold)
<1>1. Init => Locked
  BY DEF Init, Locked, TypeOK, RegistryLocked, EngineLocked, Opt, InRegistry, InEngine, Closes
<1>2. Locked /\ [Next]_vars => Locked'
  BY TypeStep, RegistryStep, EngineStep DEF Locked
<1>3. Locked => TypeOK /\ DecisionsHold
  BY DEF Locked, DecisionsHold
<1> QED BY <1>1, <1>2, <1>3, PTL DEF Spec

(* No path out of a `with` block, failures included, leaves a lock taken,  *)
(* and no thread waits while it holds one.                                 *)
THEOREM NoLockLeftBehind == Spec => []LocksReleased
<1>1. Init => LocksReleased
  <2> SUFFICES ASSUME Init, NEW t \in Threads PROVE registryLock # t /\ \A c \in Conns : engineLock[c] # t
    BY DEF LocksReleased
  <2>1. t # None
    BY NoneAssumption
  <2> QED BY <2>1 DEF Init
<1>2. Spec => []Locked
  BY LocksExclude, PTL DEF Locked, DecisionsHold
<1>3. Locked /\ LocksReleased /\ [Next]_vars => LocksReleased'
  BY ReleaseStep
<1> QED BY <1>1, <1>2, <1>3, PTL DEF Spec

(* Concurrent first calls share one connection: a registered connection is *)
(* never replaced by another one.                                          *)
THEOREM OneConnectionPerName == Spec => RegisteredStays
<1>1. Locked /\ [Next]_vars =>
        [\A k \in Keys : registry[k] # None => registry'[k] \in {registry[k], None}]_vars
  BY RegistryKeeps
<1>2. Spec => []Locked
  BY LocksExclude, PTL DEF Locked, DecisionsHold
<1> QED BY <1>1, <1>2, PTL DEF Spec, RegisteredStays

(***************************************************************************)
(* Concurrent first operations share one engine: a cached engine is never  *)
(* replaced by another one, and it leaves its connection only when it has  *)
(* been disposed of, unless a close() overlaps another close of it.        *)
(***************************************************************************)
THEOREM OneEnginePerConnection == Spec => EngineStays
<1>1. Locked /\ SweptInOrder /\ [Next]_vars =>
        [\A c \in Conns :
           engineOf[c] # None /\ engineOf'[c] # engineOf[c] =>
             /\ engineOf'[c] = None
             /\ "overlap" \notin called => pool[engineOf[c]] = "disposed"]_vars
  <2> SUFFICES ASSUME Locked, SweptInOrder, NEW t \in Threads, Step(t), NEW c \in Conns,
                      engineOf[c] # None, engineOf'[c] # engineOf[c]
               PROVE  /\ engineOf'[c] = None
                      /\ "overlap" \notin called => pool[engineOf[c]] = "disposed"
    BY DEF Next
  <2>1. engineOf'[c] = None
    BY EngineKeeps DEF Next
  <2>2. ClearEngine(t)
    <3>1. ~ CreateEngine(t)
      BY <2>1, NoneAssumption DEF CreateEngine, Locked, TypeOK, Unborn, EngineLocked, Goto
    <3> QED BY <3>1 DEF Step, shared, Bypass, Lookup, LockRegistry, RecheckRegistry, Register, CallEngine,
           LockEngine, RecheckEngine, CreateEngineFails, ReturnEngine, CallClose, Dispose,
           Recover, CallCloseAll, SweepNext, ClearRegistry
  <2>3. pc[t] = "clear" /\ victim[t] = c
    BY <2>2 DEF ClearEngine, Goto, Locked, TypeOK
  <2> QED BY <2>1, <2>3 DEF SweptInOrder, ClosesApart, Closes
<1>2. Init => SweptInOrder
  BY DEF Init, SweptInOrder, ClosesApart, SweepsAlone, CloseNeverRaises, Closes
<1>3. Spec => []Locked
  BY LocksExclude, PTL DEF Locked, DecisionsHold
<1>4. Locked /\ SweptInOrder /\ [Next]_vars => SweptInOrder'
  BY SweepStep
<1> QED BY <1>1, <1>2, <1>3, <1>4, PTL DEF Spec, EngineStays

(***************************************************************************)
(* As long as no close() overlaps another close of its connection, neither *)
(* a close nor a rotation fails half way, and no engine leaks, whatever the *)
(* other threads are doing.                                                *)
(***************************************************************************)
THEOREM RotationIsSafe == Spec => [](CloseNeverRaises /\ OpenIsHeldApart)
<1>1. Init => SweptInOrder /\ OpenIsHeldApart
  BY DEF Init, SweptInOrder, ClosesApart, SweepsAlone, CloseNeverRaises, OpenIsHeldApart, OpenIsHeld, Closes
<1>2. Spec => []Locked
  BY LocksExclude, PTL DEF Locked, DecisionsHold
<1>3. Locked /\ SweptInOrder /\ [Next]_vars => SweptInOrder'
  BY SweepStep
<1>4. Locked /\ SweptInOrder /\ OpenIsHeldApart /\ [Next]_vars => OpenIsHeldApart'
  BY HeldStep
<1>5. SweptInOrder => CloseNeverRaises
  BY DEF SweptInOrder
<1> QED BY <1>1, <1>2, <1>3, <1>4, <1>5, PTL DEF Spec

(***************************************************************************)
(* A close_all leaves open no engine that was registered when it took the  *)
(* lock, for any number of connections and whatever others open or close   *)
(* meanwhile, as long as no close() overlaps another close of its          *)
(* connection.                                                             *)
(***************************************************************************)
THEOREM SweepIsComplete == Spec => SweepDisposes
<1>1. Init => SweptInOrder /\ SweepCovers
  BY DEF Init, SweptInOrder, ClosesApart, SweepsAlone, CloseNeverRaises, SweepCovers, Closes
<1>2. Spec => []Locked
  BY LocksExclude, PTL DEF Locked, DecisionsHold
<1>3. Locked /\ LocksReleased /\ SweptInOrder /\ SweepCovers /\ [Next]_vars => SweptInOrder' /\ SweepCovers'
  BY SweepStep, CoverStep
<1>4. Locked /\ SweepCovers /\ [Next]_vars =>
        [\A t \in Threads :
           "overlap" \notin called /\ pc[t] = "sweep" /\ pc'[t] = "idle"
             => \A e \in before[t] : pool[e] = "disposed"]_vars
  <2> SUFFICES ASSUME Locked, SweepCovers, NEW q \in Threads, Step(q), NEW t \in Threads,
                      "overlap" \notin called, pc[t] = "sweep", pc'[t] = "idle"
               PROVE  \A e \in before[t] : pool[e] = "disposed"
    BY DEF Next
  <2>0. pc \in [Threads -> {"idle", "want_registry", "recheck_registry", "register",
                            "want_engine", "recheck_engine", "create_engine",
                            "return_engine", "sweep", "dispose", "clear", "raised"}]
    BY DEF Locked, TypeOK
  <2>1. ClearRegistry(q) /\ q = t
    <3>1. CASE \/ Bypass(q) \/ (\E k \in Keys : Lookup(q, k)) \/ LockRegistry(q) \/ RecheckRegistry(q)
               \/ Register(q) \/ CallEngine(q) \/ LockEngine(q) \/ RecheckEngine(q) \/ CreateEngine(q)
               \/ CreateEngineFails(q)
      BY <2>0, <3>1 DEF Goto, Bypass, Lookup, LockRegistry, RecheckRegistry, Register, CallEngine,
           LockEngine, RecheckEngine, CreateEngine, CreateEngineFails
    <3>2. CASE \/ ReturnEngine(q) \/ CallClose(q) \/ Dispose(q) \/ ClearEngine(q) \/ Recover(q)
               \/ CallCloseAll(q) \/ \E c \in Conns : SweepNext(q, c)
      BY <2>0, <3>2 DEF Goto, ReturnEngine, CallClose, Dispose, ClearEngine, Recover, CallCloseAll, SweepNext
    <3>3. CASE ClearRegistry(q)
      BY <2>0, <3>3 DEF Goto, ClearRegistry
    <3> QED BY <3>1, <3>2, <3>3 DEF Step
  <2>2. sweep[t] = {}
    BY <2>1 DEF ClearRegistry
  <2>3. registryLock = t
    BY DEF Locked, RegistryLocked
  <2> QED BY <2>2, <2>3 DEF SweepCovers
<1> QED BY <1>1, <1>2, <1>3, <1>4, NoLockLeftBehind, PTL DEF Spec, SweepDisposes

(* Until somebody closes something, engine() always has an engine to       *)
(* return; until a close_all, all callers of database(name) hold the same  *)
(* connection.                                                             *)
THEOREM HandlesAreShared == Spec => [](HandlesAgree /\ EngineReturnedWhileOpen)
<1>1. Init => Unclosed
  <2> SUFFICES ASSUME Init PROVE Unclosed
    OBVIOUS
  <2> QED BY DEF Init, Unclosed, HandlesAgree, EngineReturnedWhileOpen, EngineReturned, Closes
<1>2. Spec => []Locked
  BY LocksExclude, PTL DEF Locked, DecisionsHold
<1>3. Locked /\ LocksReleased /\ Unclosed /\ [Next]_vars => Unclosed'
  BY OpenStep
<1>4. Unclosed => HandlesAgree /\ EngineReturnedWhileOpen
  BY DEF Unclosed
<1> QED BY <1>1, <1>2, <1>3, <1>4, NoLockLeftBehind, PTL DEF Spec

=============================================================================
