------------------------- MODULE NGDBSharedManager -------------------------
(***************************************************************************)
(* The registry of drivers.  Threads open connections (initWithURL:...),   *)
(* for which they fetch the shared manager; the first to ask creates it    *)
(* inside @synchronized, registers the built-in driver and loads every     *)
(* plug-in bundle found on the disk.  A program may also load bundles      *)
(* itself (loadDriverFromBundle:); nothing is locked then.                 *)
(*                                                                         *)
(* The registry is two dictionaries, written one after the other for every *)
(* scheme of a driver.  A plug-in whose Info.plist is malformed makes      *)
(* addDriverClass: raise an exception, which leaves the methods it crosses *)
(* and releases the lock.                                                  *)
(***************************************************************************)
EXTENDS Naturals, Sequences

CONSTANTS Threads, NoThread,
          Registrars,    \* threads that load bundles themselves
          Schemes,       \* URL schemes programs ask for
          Plugins,       \* the bundles on the disk, in the plug-in folders or not
          BuiltIn,       \* the driver compiled in
          NoDriver,      \* no entry for a scheme, or no bundle at hand
          SchemesOf,     \* the schemes a driver declares, in order
          Malformed,     \* bundles with a CFBundleURLSchemes that is no array
          Classless      \* bundles without a principal class

Drivers == Plugins \cup {BuiltIn}

ASSUME ManagerAssumption ==
         /\ NoThread \notin Threads /\ Registrars \subseteq Threads
         /\ BuiltIn \notin Plugins /\ NoDriver \notin Drivers
         /\ SchemesOf \in [Drivers -> Seq(Schemes)]
         /\ Malformed \subseteq Plugins /\ Classless \subseteq Plugins

VARIABLES shared,        \* sharedDatabaseManager has been assigned
          lock,          \* the thread inside @synchronized
          driverClasses, \* scheme -> driver, for driverForScheme:
          driverInfo,    \* scheme -> driver, for driverProperty:forScheme:
          bundles,       \* bundles whose code is loaded
          pending,       \* bundles loadPlugIns has yet to visit
          pc,            \* what each thread is doing
          job            \* the registration it is carrying out

vars == <<shared, lock, driverClasses, driverInfo, bundles, pending, pc, job>>

(* driver: whose entries are being written; todo: the schemes left; half:  *)
(* the first of them is in driverClasses and not yet in driverInfo; count: *)
(* some scheme has been registered.                                        *)
Jobs == [driver : Drivers \cup {NoDriver}, todo : Seq(Schemes),
         half : BOOLEAN, count : BOOLEAN]

NoJob == [driver |-> NoDriver, todo |-> <<>>, half |-> FALSE, count |-> FALSE]
JobOf(d) == [driver |-> d, todo |-> SchemesOf[d], half |-> FALSE, count |-> FALSE]

(* Any of the bundles may have been installed in the plug-in folders.      *)
Init == /\ shared = FALSE /\ lock = NoThread
        /\ driverClasses = [s \in Schemes |-> NoDriver]
        /\ driverInfo = [s \in Schemes |-> NoDriver]
        /\ bundles = {} /\ pending \in SUBSET Plugins
        /\ pc = [t \in Threads |-> "idle"]
        /\ job = [t \in Threads |-> NoJob]

(* A thread calls initWithURL:options:status: or is about to load a bundle. *)
Call(t) ==
  /\ pc[t] = "idle"
  /\ pc' = [pc EXCEPT ![t] = "waiting"]
  /\ UNCHANGED <<shared, lock, driverClasses, driverInfo, bundles, pending, job>>

(* +sharedDatabaseManager, with -init when there is none.                  *)
(* Mutant: the manager is looked at outside the lock. *)
EnterUnlocked(t) ==
  /\ pc[t] = "waiting"
  /\ shared \/ lock = NoThread
  /\ IF shared
     THEN pc' = [pc EXCEPT ![t] = "ready"] /\ UNCHANGED <<shared, lock, job>>
     ELSE /\ pc' = [pc EXCEPT ![t] = "init"]
          /\ shared' = TRUE /\ lock' = t
          /\ job' = [job EXCEPT ![t] = JobOf(BuiltIn)]
  /\ UNCHANGED <<driverClasses, driverInfo, bundles, pending>>

Enter(t) ==
  /\ pc[t] = "waiting" /\ lock = NoThread
  /\ IF shared
     THEN pc' = [pc EXCEPT ![t] = "ready"] /\ UNCHANGED <<shared, lock, job>>
     ELSE /\ pc' = [pc EXCEPT ![t] = "init"]
          /\ shared' = TRUE /\ lock' = t
          /\ job' = [job EXCEPT ![t] = JobOf(BuiltIn)]
  /\ UNCHANGED <<driverClasses, driverInfo, bundles, pending>>

-----------------------------------------------------------------------------
(* addDriverClass:class:bundlePath:, scheme by scheme.                     *)
SetClass(t) ==
  /\ job[t].todo # <<>> /\ ~job[t].half
  /\ driverClasses' = [driverClasses EXCEPT ![Head(job[t].todo)] = job[t].driver]
  /\ job' = [job EXCEPT ![t].half = TRUE]
  /\ UNCHANGED <<shared, lock, driverInfo, bundles, pending, pc>>

(* Mutant: setObject:forKey: is given its arguments in the wrong order. *)
SetInfoSwapped(t) ==
  /\ job[t].half
  /\ driverInfo' = [driverInfo EXCEPT ![Head(job[t].todo)] = Head(job[t].todo)]
  /\ job' = [job EXCEPT ![t].half = FALSE, ![t].count = TRUE,
                        ![t].todo = Tail(job[t].todo)]
  /\ UNCHANGED <<shared, lock, driverClasses, bundles, pending, pc>>

(* Mutant: an entry of driverInfo is written once only. *)
SetInfoOnce(t) ==
  /\ job[t].half
  /\ driverInfo' = [driverInfo EXCEPT ![Head(job[t].todo)] =
                      IF @ = NoDriver THEN job[t].driver ELSE @]
  /\ job' = [job EXCEPT ![t].half = FALSE, ![t].count = TRUE,
                        ![t].todo = Tail(job[t].todo)]
  /\ UNCHANGED <<shared, lock, driverClasses, bundles, pending, pc>>

SetInfo(t) ==
  /\ job[t].half
  /\ driverInfo' = [driverInfo EXCEPT ![Head(job[t].todo)] = job[t].driver]
  /\ job' = [job EXCEPT ![t].half = FALSE, ![t].count = TRUE,
                        ![t].todo = Tail(job[t].todo)]
  /\ UNCHANGED <<shared, lock, driverClasses, bundles, pending, pc>>

Written(t) == job[t].driver # NoDriver /\ job[t].todo = <<>>

(* A malformed entry comes after the good ones: [schemes count] raises.    *)
(* The exception ends the program's call, and init with it.                *)
(* Mutant: the lock is not released when init is left by an exception. *)
RaiseLocked(t) ==
  /\ Written(t) /\ job[t].driver \in Malformed
  /\ job' = [job EXCEPT ![t] = NoJob]
  /\ pc' = [pc EXCEPT ![t] = "idle"]
  /\ UNCHANGED <<shared, lock, driverClasses, driverInfo, bundles, pending>>

Raise(t) ==
  /\ Written(t) /\ job[t].driver \in Malformed
  /\ job' = [job EXCEPT ![t] = NoJob]
  /\ pc' = [pc EXCEPT ![t] = "idle"]
  /\ lock' = IF lock = t THEN NoThread ELSE lock
  /\ UNCHANGED <<shared, driverClasses, driverInfo, bundles, pending>>

(* The end of loadDriverFromBundle:, which unloads a bundle of which no    *)
(* scheme was registered.                                                  *)
(* Mutant: the bundle is unloaded when some scheme was registered. *)
RegisteredUnloading(t) ==
  /\ Written(t) /\ job[t].driver \notin Malformed
  /\ bundles' = IF ~job[t].count THEN bundles ELSE bundles \ {job[t].driver}
  /\ job' = [job EXCEPT ![t] = NoJob]
  /\ pc' = [pc EXCEPT ![t] = IF pc[t] = "init" THEN "init" ELSE "idle"]
  /\ UNCHANGED <<shared, lock, driverClasses, driverInfo, pending>>

Registered(t) ==
  /\ Written(t) /\ job[t].driver \notin Malformed
  /\ bundles' = IF job[t].count THEN bundles ELSE bundles \ {job[t].driver}
  /\ job' = [job EXCEPT ![t] = NoJob]
  /\ pc' = [pc EXCEPT ![t] = IF pc[t] = "init" THEN "init" ELSE "idle"]
  /\ UNCHANGED <<shared, lock, driverClasses, driverInfo, pending>>

(* loadPlugIns visits one bundle after the other, in the order of the      *)
(* directory; one without a class is unloaded at once.                     *)
Loads(t, b) ==
  IF b \in Classless
  THEN UNCHANGED <<bundles, job>>
  ELSE bundles' = bundles \cup {b} /\ job' = [job EXCEPT ![t] = JobOf(b)]

Visit(t, b) ==
  /\ pc[t] = "init" /\ job[t] = NoJob /\ b \in pending
  /\ pending' = pending \ {b}
  /\ Loads(t, b)
  /\ UNCHANGED <<shared, lock, driverClasses, driverInfo, pc>>

(* Mutant: the lock is released before the plug-ins are loaded. *)
FinishInitEarly(t) ==
  /\ pc[t] = "init" /\ job[t] = NoJob
  /\ lock = t \/ pending = {}
  /\ lock' = IF lock = t THEN NoThread ELSE lock
  /\ pc' = [pc EXCEPT ![t] = IF pending = {} THEN "ready" ELSE "init"]
  /\ UNCHANGED <<shared, driverClasses, driverInfo, bundles, pending, job>>

FinishInit(t) ==
  /\ pc[t] = "init" /\ job[t] = NoJob /\ pending = {}
  /\ lock' = NoThread
  /\ pc' = [pc EXCEPT ![t] = "ready"]
  /\ UNCHANGED <<shared, driverClasses, driverInfo, bundles, pending, job>>

-----------------------------------------------------------------------------
(* driverForScheme: and the driver's initDriverWithURL:options:status:,    *)
(* which leave the registry alone, whatever they answer.                   *)
Connect(t) ==
  /\ pc[t] = "ready"
  /\ pc' = [pc EXCEPT ![t] = "idle"]
  /\ UNCHANGED <<shared, lock, driverClasses, driverInfo, bundles, pending, job>>

(* loadDriverFromBundle: called by the program.                            *)
LoadBundle(t, b) ==
  /\ pc[t] = "ready" /\ t \in Registrars
  /\ Loads(t, b)
  /\ pc' = [pc EXCEPT ![t] = IF b \in Classless THEN "idle" ELSE "loading"]
  /\ UNCHANGED <<shared, lock, driverClasses, driverInfo, pending>>

Step(t) == \/ Enter(t)
           \/ SetClass(t) \/ SetInfo(t) \/ Raise(t) \/ Registered(t)
           \/ (\E b \in Plugins : Visit(t, b)) \/ FinishInit(t)
           \/ Connect(t) \/ (\E b \in Plugins : LoadBundle(t, b))

Next == \E t \in Threads : Call(t) \/ Step(t)

Spec == Init /\ [][Next]_vars

(* Every thread inside a call is scheduled.  The lock is taken at most     *)
(* once for long, so weak fairness suffices for the threads waiting for it. *)
FairSpec == Spec /\ \A t \in Threads : WF_vars(Step(t))

-----------------------------------------------------------------------------
(* Type invariant. *)
TypeOK == /\ shared \in BOOLEAN /\ lock \in Threads \cup {NoThread}
          /\ driverClasses \in [Schemes -> Drivers \cup {NoDriver}]
          /\ driverInfo \in [Schemes -> Drivers \cup {NoDriver}]
          /\ bundles \subseteq Plugins /\ pending \subseteq Plugins
          /\ pc \in [Threads -> {"idle", "waiting", "init", "ready", "loading"}]
          /\ job \in [Threads -> Jobs]

(* The dictionaries are not thread-safe: while a thread creates the        *)
(* manager, no other registers a driver or is about to look one up.        *)
Writing(t) == job[t].driver # NoDriver

NoRace ==
  \A t, u \in Threads : t # u /\ pc[t] = "init" => ~Writing(u) /\ pc[u] # "ready"

(* driverForScheme: never answers with a class of an unloaded bundle.      *)
ClassesLoaded ==
  \A s \in Schemes : driverClasses[s] \in bundles \cup {BuiltIn, NoDriver}

(* Whoever has got hold of the manager finds the built-in driver, or a     *)
(* plug-in that took its scheme over.                                      *)
BuiltInServed ==
  \A t \in Threads : pc[t] = "ready" =>
    \A i \in DOMAIN SchemesOf[BuiltIn] : driverClasses[SchemesOf[BuiltIn][i]] # NoDriver

(* When no registration is under way, the class and the property list of a *)
(* scheme come from the same driver.  Two threads that load bundles at the *)
(* same time can break this: the property is for one Registrar at most.    *)
InfoMatchesClass ==
  (\A t \in Threads : ~Writing(t)) => driverInfo = driverClasses

(* Every call returns: an exception leaves nobody waiting for the lock.    *)
CallsReturn == \A t \in Threads : pc[t] # "idle" ~> pc[t] = "idle"
=============================================================================
