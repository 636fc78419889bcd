------------------------- MODULE ConnectionRegistry -------------------------
(***************************************************************************)
(* The process-wide registry of database connections of cds-runtime        *)
(* (runtime/cds_runtime/connections.py) and the lazily created engine of   *)
(* each connection (DatabaseConnection.engine and close in                 *)
(* runtime/cds_runtime/database.py), used by several threads.              *)
(*                                                                         *)
(* database() and engine() test without a lock, take the lock and test     *)
(* again; close() takes no lock at all; close_all() holds the registry's   *)
(* lock while it closes one connection after another.  Each read or write  *)
(* of shared state is a step, as it is between two bytecodes.              *)
(***************************************************************************)
EXTENDS Naturals

CONSTANTS
  Threads,
  Keys,          \* (name, environment prefix)
  Conns,         \* the DatabaseConnection objects that can be created
  Engines,       \* the SQLAlchemy engines that can be created
  None

ASSUME NoneAssumption == None \notin Threads \cup Keys \cup Conns \cup Engines

VARIABLES
  registry,     \* [Keys -> Conns or None]: _connections
  registryLock, \* the thread that holds _registry_lock, or None
  engineOf,     \* [Conns -> Engines or None]: self._engine
  engineLock,   \* [Conns -> Threads or None]: self._engine_lock
  origin,       \* [Conns -> {"unborn", "registry", "env"}]: who created it
  pool,         \* [Engines -> {"unborn", "open", "disposed"}]
  pc,           \* where each thread is
  key,          \* the key a thread is looking up
  self,         \* the connection a thread works with
  victim,       \* the connection a thread is closing
  sweep,        \* the connections close_all has still to close
  before,       \* history: the registered engines when close_all took the lock
  called        \* history: which of "close" and "close_all" was ever called,
                \* and "overlap" if a close() and another closed one connection at once

shared == <<registry, registryLock, engineOf, engineLock, origin, pool>>
vars   == <<shared, pc, key, self, victim, sweep, before, called>>

Opt(S) == S \cup {None}
Registered == {registry[k] : k \in Keys} \ {None}
Unborn(state) == {x \in DOMAIN state : state[x] = "unborn"}

Goto(t, from, to) ==
  /\ pc[t] = from
  /\ pc' = [pc EXCEPT ![t] = to]

-----------------------------------------------------------------------------
(* connections.database(name) *)

(* With an explicit env the registry is bypassed. *)
Bypass(t) ==
  /\ Goto(t, "idle", "idle")
  /\ \E c \in Unborn(origin) :
       /\ origin' = [origin EXCEPT ![c] = "env"]
       /\ self' = [self EXCEPT ![t] = c]
  /\ key' = [key EXCEPT ![t] = None]
  /\ UNCHANGED <<registry, registryLock, engineOf, engineLock, pool,
                 victim, sweep, before, called>>

(* The first, unlocked `_connections.get(key)`. *)
Lookup(t, k) ==
  /\ Goto(t, "idle", IF registry[k] = None THEN "want_registry" ELSE "idle")
  /\ key' = [key EXCEPT ![t] = k]
  /\ self' = [self EXCEPT ![t] = registry[k]]
  /\ UNCHANGED <<shared, victim, sweep, before, called>>

LockRegistry(t) ==
  /\ Goto(t, "want_registry", "recheck_registry")
  /\ registryLock = None
  /\ registryLock' = t
  /\ UNCHANGED <<registry, engineOf, engineLock, origin, pool,
                 key, self, victim, sweep, before, called>>

\* Mutant: the second look under the lock is left out.
CreateUnchecked(t) ==
  /\ Goto(t, "recheck_registry", "register")
  /\ UNCHANGED <<shared, key, self, victim, sweep, before, called>>

(* The second `_connections.get(key)`: another thread may have been first. *)
RecheckRegistry(t) ==
  LET found == registry[key[t]]
  IN  /\ Goto(t, "recheck_registry", IF found = None THEN "register" ELSE "idle")
      /\ self' = [self EXCEPT ![t] = found]
      /\ registryLock' = IF found = None THEN t ELSE None
      /\ UNCHANGED <<registry, engineOf, engineLock, origin, pool,
                     key, victim, sweep, before, called>>

Register(t) ==
  /\ Goto(t, "register", "idle")
  /\ \E c \in Unborn(origin) :
       /\ origin' = [origin EXCEPT ![c] = "registry"]
       /\ registry' = [registry EXCEPT ![key[t]] = c]
       /\ self' = [self EXCEPT ![t] = c]
  /\ registryLock' = None
  /\ UNCHANGED <<engineOf, engineLock, pool, key, victim, sweep, before, called>>

-----------------------------------------------------------------------------
(* DatabaseConnection.engine(), which every operation calls *)

(* The first, unlocked `self._engine is None`. *)
CallEngine(t) ==
  /\ self[t] # None
  /\ Goto(t, "idle", IF engineOf[self[t]] = None THEN "want_engine" ELSE "return_engine")
  /\ UNCHANGED <<shared, key, self, victim, sweep, before, called>>

LockEngine(t) ==
  /\ Goto(t, "want_engine", "recheck_engine")
  /\ engineLock[self[t]] = None
  /\ engineLock' = [engineLock EXCEPT ![self[t]] = t]
  /\ UNCHANGED <<registry, registryLock, engineOf, origin, pool,
                 key, self, victim, sweep, before, called>>

\* Mutant: an engine is created whatever the second look finds.
RecreateEngine(t) ==
  /\ Goto(t, "recheck_engine", "create_engine")
  /\ UNCHANGED <<shared, key, self, victim, sweep, before, called>>

RecheckEngine(t) ==
  LET c == self[t]
      none == engineOf[c] = None
  IN  /\ Goto(t, "recheck_engine", IF none THEN "create_engine" ELSE "return_engine")
      /\ engineLock' = [engineLock EXCEPT ![c] = IF none THEN t ELSE None]
      /\ UNCHANGED <<registry, registryLock, engineOf, origin, pool,
                     key, self, victim, sweep, before, called>>

(* `self._engine = self._create_engine()`, then the lock is released. *)
CreateEngine(t) ==
  /\ Goto(t, "create_engine", "return_engine")
  /\ \E e \in Unborn(pool) :
       /\ pool' = [pool EXCEPT ![e] = "open"]
       /\ engineOf' = [engineOf EXCEPT ![self[t]] = e]
  /\ engineLock' = [engineLock EXCEPT ![self[t]] = None]
  /\ UNCHANGED <<registry, registryLock, origin, key, self, victim, sweep, before, called>>

\* Mutant: the lock is not released when create_engine raises.
FailLocked(t) ==
  /\ Goto(t, "create_engine", "idle")
  /\ UNCHANGED <<shared, key, self, victim, sweep, before, called>>

(* create_engine raises: the `with` block releases the lock. *)
CreateEngineFails(t) ==
  /\ Goto(t, "create_engine", "idle")
  /\ engineLock' = [engineLock EXCEPT ![self[t]] = None]
  /\ UNCHANGED <<registry, registryLock, engineOf, origin, pool,
                 key, self, victim, sweep, before, called>>

(* `return self._engine` reads the attribute once more. *)
ReturnEngine(t) ==
  /\ Goto(t, "return_engine", "idle")
  /\ UNCHANGED <<shared, key, self, victim, sweep, before, called>>

-----------------------------------------------------------------------------
(* DatabaseConnection.close(), called by a thread or by close_all() *)

Closes == {"dispose", "clear"}

(* The calls so far, when this one begins to close c: with a close() among *)
(* them, another thread may be between its test of c and its end.          *)
Closing(t, c, calls) ==
  IF "close" \in calls /\ \E u \in Threads \ {t} : pc[u] \in Closes /\ victim[u] = c
  THEN calls \cup {"overlap"} ELSE calls

CallClose(t) ==
  /\ self[t] # None
  /\ Goto(t, "idle", IF engineOf[self[t]] = None THEN "idle" ELSE "dispose")
  /\ victim' = [victim EXCEPT ![t] = self[t]]
  /\ called' = Closing(t, self[t], called \cup {"close"})
  /\ UNCHANGED <<shared, key, self, sweep, before>>

\* Mutant: the attribute is cleared without the engine being disposed of.
DropEngine(t) ==
  /\ Goto(t, "dispose", "clear")
  /\ UNCHANGED <<shared, key, self, victim, sweep, before, called>>

(***************************************************************************)
(* `self._engine.dispose()` reads the attribute again.  If it has become   *)
(* None this raises AttributeError, which also ends a close_all and        *)
(* releases its lock.                                                      *)
(***************************************************************************)
Dispose(t) ==
  LET e == engineOf[victim[t]]
  IN  /\ Goto(t, "dispose", IF e = None THEN "raised" ELSE "clear")
      /\ pool' = IF e = None THEN pool ELSE [pool EXCEPT ![e] = "disposed"]
      /\ registryLock' = IF e = None /\ registryLock = t THEN None ELSE registryLock
      /\ UNCHANGED <<registry, engineOf, engineLock, origin,
                     key, self, victim, sweep, before, called>>

ClearEngine(t) ==
  /\ Goto(t, "clear", IF registryLock = t THEN "sweep" ELSE "idle")
  /\ engineOf' = [engineOf EXCEPT ![victim[t]] = None]
  /\ UNCHANGED <<registry, registryLock, engineLock, origin, pool,
                 key, self, victim, sweep, before, called>>

(* The caller handles the exception and carries on. *)
Recover(t) ==
  /\ Goto(t, "raised", "idle")
  /\ UNCHANGED <<shared, key, self, victim, sweep, before, called>>

-----------------------------------------------------------------------------
(* connections.close_all() *)

\* Mutant: the registry is swept without its lock.
SweepUnlocked(t) ==
  /\ Goto(t, "idle", "sweep")
  /\ sweep' = [sweep EXCEPT ![t] = Registered]
  /\ before' = [before EXCEPT ![t] = {engineOf[c] : c \in Registered} \ {None}]
  /\ called' = called \cup {"close_all"}
  /\ UNCHANGED <<shared, key, self, victim>>

CallCloseAll(t) ==
  /\ Goto(t, "idle", "sweep")
  /\ registryLock = None
  /\ registryLock' = t
  /\ sweep' = [sweep EXCEPT ![t] = Registered]
  /\ before' = [before EXCEPT ![t] = {engineOf[c] : c \in Registered} \ {None}]
  /\ called' = called \cup {"close_all"}
  /\ UNCHANGED <<registry, engineOf, engineLock, origin, pool, key, self, victim>>

(* The next `connection.close()`, up to its test of the attribute. *)
SweepNext(t, c) ==
  /\ c \in sweep[t]
  /\ Goto(t, "sweep", IF engineOf[c] = None THEN "sweep" ELSE "dispose")
  /\ sweep' = [sweep EXCEPT ![t] = @ \ {c}]
  /\ victim' = [victim EXCEPT ![t] = c]
  /\ called' = Closing(t, c, called)
  /\ UNCHANGED <<shared, key, self, before>>

(* `_connections.clear()`, and the lock is released. *)
ClearRegistry(t) ==
  /\ sweep[t] = {}
  /\ Goto(t, "sweep", "idle")
  /\ registry' = [k \in Keys |-> None]
  /\ registryLock' = None
  /\ UNCHANGED <<engineOf, engineLock, origin, pool, key, self, victim, sweep, before, called>>

-----------------------------------------------------------------------------
Init ==
  /\ registry = [k \in Keys |-> None]
  /\ registryLock = None
  /\ engineOf = [c \in Conns |-> None]
  /\ engineLock = [c \in Conns |-> None]
  /\ origin = [c \in Conns |-> "unborn"]
  /\ pool = [e \in Engines |-> "unborn"]
  /\ pc = [t \in Threads |-> "idle"]
  /\ key = [t \in Threads |-> None]
  /\ self = [t \in Threads |-> None]
  /\ victim = [t \in Threads |-> None]
  /\ sweep = [t \in Threads |-> {}]
  /\ before = [t \in Threads |-> {}]
  /\ called = {}

Step(t) ==
  \/ Bypass(t)
  \/ \E k \in Keys : Lookup(t, k)
  \/ LockRegistry(t)
  \/ RecheckRegistry(t)
  \/ Register(t)
  \/ CallEngine(t)
  \/ LockEngine(t)
  \/ RecheckEngine(t)
  \/ CreateEngine(t)
  \/ CreateEngineFails(t)
  \/ ReturnEngine(t)
  \/ CallClose(t)
  \/ Dispose(t)
  \/ ClearEngine(t)
  \/ Recover(t)
  \/ CallCloseAll(t)
  \/ \E c \in Conns : SweepNext(t, c)
  \/ ClearRegistry(t)

Next == \E t \in Threads : Step(t)

Spec == Init /\ [][Next]_vars

-----------------------------------------------------------------------------
TypeOK ==
  /\ registry \in [Keys -> Opt(Conns)]
  /\ registryLock \in Opt(Threads)
  /\ engineOf \in [Conns -> Opt(Engines)]
  /\ engineLock \in [Conns -> Opt(Threads)]
  /\ origin \in [Conns -> {"unborn", "registry", "env"}]
  /\ pool \in [Engines -> {"unborn", "open", "disposed"}]
  /\ pc \in [Threads -> {"idle", "want_registry", "recheck_registry", "register",
                         "want_engine", "recheck_engine", "create_engine",
                         "return_engine", "sweep", "dispose", "clear", "raised"}]
  /\ key \in [Threads -> Opt(Keys)]
  /\ self \in [Threads -> Opt(Conns)]
  /\ victim \in [Threads -> Opt(Conns)]
  /\ sweep \in [Threads -> SUBSET Conns]
  /\ before \in [Threads -> SUBSET Engines]
  /\ called \subseteq {"close", "close_all", "overlap"}

(***************************************************************************)
(* "Concurrent first calls return one shared connection": a registered     *)
(* connection is never replaced by another, only removed (by close_all).   *)
(***************************************************************************)
RegisteredStays ==
  [][\A k \in Keys : registry[k] # None => registry'[k] \in {registry[k], None}]_vars

(***************************************************************************)
(* "One engine per connection": a cached engine is never replaced by       *)
(* another, only cleared; and it is disposed of before it is cleared,      *)
(* unless a close() overlaps another close of its connection.              *)
(***************************************************************************)
EngineStays ==
  [][\A c \in Conns :
       engineOf[c] # None /\ engineOf'[c] # engineOf[c] =>
         /\ engineOf'[c] = None
         /\ "overlap" \notin called => pool[engineOf[c]] = "disposed"]_vars

(***************************************************************************)
(* Until close_all clears the registry, every thread that asked for a name *)
(* holds the connection that is registered under it.                       *)
(***************************************************************************)
HandlesAgree ==
  "close_all" \notin called =>
    \A t \in Threads :
      self[t] # None /\ key[t] # None => self[t] = registry[key[t]]

(***************************************************************************)
(* engine() hands out an engine: `return self._engine` does not find the   *)
(* attribute cleared again since it was tested or set.                     *)
(***************************************************************************)
EngineReturned ==
  \A t \in Threads : pc[t] = "return_engine" => engineOf[self[t]] # None

(***************************************************************************)
(* The same as long as nobody has closed anything: the unlocked first test *)
(* and a creation that fails in another thread do no harm.                 *)
(***************************************************************************)
EngineReturnedWhileOpen == called = {} => EngineReturned

(***************************************************************************)
(* An engine with open database connections is the cached engine of some   *)
(* DatabaseConnection, where a later close() can find it.                  *)
(***************************************************************************)
OpenIsHeld == \A e \in Engines : pool[e] = "open" => \E c \in Conns : engineOf[c] = e

(***************************************************************************)
(* No leak ("close()/close_all() dispose everything that was created") as  *)
(* long as no close() overlaps another close of its connection: of two     *)
(* that do, the second to clear the attribute may drop an engine that was  *)
(* created after the first did.                                            *)
(***************************************************************************)
OpenIsHeldApart == "overlap" \notin called => OpenIsHeld

(***************************************************************************)
(* The engine that close() found is still there when it disposes of it, in *)
(* a close of its own as well as in a rotation, whatever is created,       *)
(* opened or registered meanwhile, as long as no close() overlaps another  *)
(* close of its connection (two of close_all() never do).                  *)
(***************************************************************************)
CloseNeverRaises == "overlap" \notin called => \A t \in Threads : pc[t] # "raised"

(***************************************************************************)
(* "Dispose every registered connection's engine and clear the registry":  *)
(* when close_all clears the registry, every engine that was cached in a   *)
(* registered connection when it started is disposed of, by this sweep or  *)
(* by a close() of another thread, as long as no close() overlaps another  *)
(* close of its connection.                                                *)
(***************************************************************************)
SweepDisposes ==
  [][\A t \in Threads :
       "overlap" \notin called /\ pc[t] = "sweep" /\ pc'[t] = "idle"
         => \A e \in before[t] : pool[e] = "disposed"]_vars

-----------------------------------------------------------------------------
InRegistry == {"recheck_registry", "register"}
InEngine   == {"recheck_engine", "create_engine"}

(***************************************************************************)
(* No deadlock: every path out of a `with` block, an exception included,   *)
(* releases its lock, and a thread that holds one is at a step that waits  *)
(* for no other.                                                           *)
(***************************************************************************)
LocksReleased ==
  \A t \in Threads :
    /\ registryLock = t => pc[t] \in InRegistry \cup {"sweep"} \cup Closes
    /\ \A c \in Conns : engineLock[c] = t => pc[t] \in InEngine /\ self[t] = c

(***************************************************************************)
(* What a thread decided under the registry's lock is still so: the name   *)
(* it is about to register is free.                                        *)
(***************************************************************************)
RegistryLocked ==
  \A t \in Threads :
    /\ pc[t] \in InRegistry \cup {"sweep"} => registryLock = t
    /\ pc[t] = "register" => registry[key[t]] = None
    /\ pc[t] \in InRegistry \cup {"want_registry"} => key[t] \in Keys

(***************************************************************************)
(* What a thread decided under a connection's lock is still so: the        *)
(* connection it is about to create an engine for has none.                *)
(***************************************************************************)
EngineLocked ==
  \A t \in Threads :
    /\ pc[t] \in InEngine => engineLock[self[t]] = t
    /\ pc[t] = "create_engine" => engineOf[self[t]] = None
    /\ pc[t] \in InEngine \cup {"want_engine", "return_engine"} => self[t] \in Conns
    /\ pc[t] \in Closes => victim[t] \in Conns

(***************************************************************************)
(* Double-checked locking: what database() and engine() decide under a     *)
(* lock holds until they act on it, whatever the unlocked test saw.        *)
(***************************************************************************)
DecisionsHold == RegistryLocked /\ EngineLocked

(***************************************************************************)
(* As long as no close() overlaps another close of its connection, the     *)
(* engine that a close found stays until it clears the attribute, and is   *)
(* disposed by then.                                                       *)
(***************************************************************************)
ClosesApart ==
  "overlap" \notin called =>
    \A t \in Threads : pc[t] \in Closes =>
      /\ engineOf[victim[t]] # None
      /\ pc[t] = "clear" => pool[engineOf[victim[t]]] = "disposed"
      /\ \A u \in Threads \ {t} : pc[u] \in Closes => victim[u] # victim[t]

(* As long as only close_all() closes, it is its lock that keeps two apart. *)
SweepsAlone ==
  "close" \notin called => \A t \in Threads : pc[t] \in Closes => registryLock = t
=============================================================================
