---------------------- MODULE NGDBSharedManagerProofs ----------------------
(***************************************************************************)
(* The registry of drivers, for any number of threads, schemes and         *)
(* bundles.  The manager is created once, so the lock is held during one   *)
(* initialisation only, before any thread has got hold of the manager.     *)
(***************************************************************************)
EXTENDS NGDBSharedManager, TLAPS

(* What a thread is doing agrees with the lock and with its job. *)
LockOK ==
  /\ ~shared => lock = NoThread /\ \A t \in Threads : pc[t] \in {"idle", "waiting"}
  /\ \A t \in Threads : pc[t] = "init" <=> lock = t
  /\ lock # NoThread => \A t \in Threads : pc[t] \notin {"ready", "loading"}

JobsOK ==
  \A t \in Threads :
    /\ Writing(t) => pc[t] \in {"init", "loading"}
    /\ pc[t] = "loading" => t \in Registrars
    /\ job[t].driver = BuiltIn => pc[t] = "init"
    /\ ~Writing(t) => job[t] = NoJob
    /\ job[t].half => job[t].todo # <<>>

(* A job is at the first scheme until something is registered. *)
Progress(t) ==
  LET d == job[t].driver
  IN Writing(t) => /\ ~job[t].count => job[t].todo = SchemesOf[d]
                   /\ SchemesOf[d] = <<>> => job[t].todo = <<>>
                   /\ SchemesOf[d] # <<>> => d \in bundles \cup {BuiltIn}

(* A registered driver declares some scheme, so it is never unloaded. *)
EntriesOK ==
  /\ \A t \in Threads : Progress(t)
  /\ \A s \in Schemes : driverClasses[s] # NoDriver =>
        driverClasses[s] \in bundles \cup {BuiltIn} /\ SchemesOf[driverClasses[s]] # <<>>

(* A scheme of the built-in driver is registered or about to be. *)
BuiltInOK ==
  /\ \A t \in Threads : job[t].half => driverClasses[Head(job[t].todo)] # NoDriver
  /\ shared => \A i \in DOMAIN SchemesOf[BuiltIn] :
       \/ driverClasses[SchemesOf[BuiltIn][i]] # NoDriver
       \/ \E t \in Threads : /\ job[t].driver = BuiltIn
                            /\ \E j \in DOMAIN job[t].todo : job[t].todo[j] = SchemesOf[BuiltIn][i]

Inv == TypeOK /\ LockOK /\ JobsOK /\ EntriesOK /\ BuiltInOK

-----------------------------------------------------------------------------
LEMMA JobFacts ==
  /\ NoJob \in Jobs /\ \A d \in Drivers : JobOf(d) \in Jobs
  /\ \A d \in Drivers : /\ JobOf(d).driver = d /\ JobOf(d).todo = SchemesOf[d]
                         /\ JobOf(d).half = FALSE /\ JobOf(d).count = FALSE
                         /\ d # NoDriver
  /\ NoJob.driver = NoDriver /\ NoJob.todo = <<>> /\ NoJob.half = FALSE
<1>1. NoJob \in Jobs BY DEF NoJob, Jobs
<1>2. ASSUME NEW d \in Drivers PROVE JobOf(d) \in Jobs
  <2>1. SchemesOf[d] \in Seq(Schemes) BY ManagerAssumption
  <2> QED BY <2>1 DEF JobOf, Jobs
<1> QED BY <1>1, <1>2, ManagerAssumption DEF JobOf, NoJob

LEMMA InvInit == Init => Inv
<1> SUFFICES ASSUME Init PROVE Inv OBVIOUS
<1>1. TypeOK BY JobFacts DEF Init, TypeOK
<1>2. LockOK BY ManagerAssumption DEF Init, LockOK
<1>3. JobsOK BY JobFacts, ManagerAssumption DEF Init, JobsOK, Writing, Drivers
<1>4. EntriesOK BY JobFacts DEF Init, EntriesOK, Progress, Writing
<1>5. BuiltInOK BY JobFacts DEF Init, BuiltInOK
<1> QED BY <1>1, <1>2, <1>3, <1>4, <1>5 DEF Inv

(* What SetInfo leaves of a job. *)
LEMMA Informed ==
  ASSUME Inv, NEW t \in Threads, SetInfo(t)
  PROVE  LET j == job[t]  k == job'[t]
         IN /\ j \in Jobs /\ j.half = TRUE /\ j.todo # <<>> /\ j.todo \in Seq(Schemes)
            /\ k \in Jobs /\ k.driver = j.driver /\ k.todo = Tail(j.todo)
            /\ k.half = FALSE /\ k.count = TRUE
            /\ \A u \in Threads \ {t} : job'[u] = job[u]
            /\ Head(j.todo) \in Schemes
            /\ \A i \in DOMAIN j.todo :
                 \/ j.todo[i] = Head(j.todo)
                 \/ \E m \in DOMAIN k.todo : k.todo[m] = j.todo[i]
<1>1. /\ job[t] \in Jobs /\ job[t].half = TRUE /\ job[t].todo # <<>> /\ job[t].todo \in Seq(Schemes)
      /\ job \in [Threads -> Jobs]
  BY DEF Inv, TypeOK, JobsOK, SetInfo, Jobs
<1> DEFINE k == [driver |-> job[t].driver, todo |-> Tail(job[t].todo), half |-> FALSE, count |-> TRUE]
<1>2. job' = [job EXCEPT ![t] = k] BY <1>1 DEF SetInfo, Jobs
<1>3. k \in Jobs BY <1>1 DEF Jobs
<1>4. job'[t] = k /\ \A u \in Threads \ {t} : job'[u] = job[u] BY <1>1, <1>2
<1>5. Head(job[t].todo) \in Schemes BY <1>1
<1>6. ASSUME NEW i \in DOMAIN job[t].todo, i # 1
      PROVE  \E m \in DOMAIN Tail(job[t].todo) : Tail(job[t].todo)[m] = job[t].todo[i]
  <2>1. Len(job[t].todo) \in Nat /\ i \in 1..Len(job[t].todo) BY <1>1
  <2>2. i - 1 \in 1..(Len(job[t].todo) - 1) BY <2>1, <1>6
  <2>3. Len(Tail(job[t].todo)) = Len(job[t].todo) - 1 BY <1>1
  <2>4. Tail(job[t].todo) \in Seq(Schemes) BY <1>1
  <2>5. DOMAIN Tail(job[t].todo) = 1..(Len(job[t].todo) - 1) BY <2>3, <2>4
  <2>6. Tail(job[t].todo)[i - 1] = job[t].todo[i] BY <1>1, <2>1, <2>2
  <2> QED BY <2>2, <2>5, <2>6
<1>7. \A i \in DOMAIN job[t].todo :
        \/ job[t].todo[i] = Head(job[t].todo)
        \/ \E m \in DOMAIN Tail(job[t].todo) : Tail(job[t].todo)[m] = job[t].todo[i]
  <2>1. Head(job[t].todo) = job[t].todo[1] BY <1>1
  <2> QED BY <1>6, <2>1
<1>8. /\ k.driver = job[t].driver /\ k.todo = Tail(job[t].todo)
      /\ k.half = FALSE /\ k.count = TRUE
  OBVIOUS
<1> HIDE DEF k
<1> QED BY <1>1, <1>3, <1>4, <1>5, <1>7, <1>8

LEMMA Classed ==
  ASSUME Inv, NEW t \in Threads, SetClass(t)
  PROVE  LET j == job[t]  k == job'[t]
         IN /\ j \in Jobs /\ j.todo # <<>> /\ j.todo \in Seq(Schemes)
            /\ Writing(t) /\ j.driver \in Drivers
            /\ k \in Jobs /\ k.driver = j.driver /\ k.todo = j.todo /\ k.count = j.count
            /\ \A u \in Threads \ {t} : job'[u] = job[u]
            /\ Head(j.todo) \in Schemes
<1>1. job[t] \in Jobs /\ job[t].todo # <<>> /\ job[t].todo \in Seq(Schemes)
      /\ job \in [Threads -> Jobs] /\ job[t].driver \in Drivers \cup {NoDriver}
  BY DEF Inv, TypeOK, JobsOK, SetClass, Jobs
<1>2. Writing(t) BY <1>1, JobFacts DEF Inv, JobsOK
<1>3. job' = [job EXCEPT ![t] = [job[t] EXCEPT !.half = TRUE]] BY <1>1 DEF SetClass
<1>4. job'[t] = [job[t] EXCEPT !.half = TRUE] /\ \A u \in Threads \ {t} : job'[u] = job[u]
  BY <1>1, <1>3
<1>5. [job[t] EXCEPT !.half = TRUE] \in Jobs BY <1>1 DEF Jobs
<1>6. Head(job[t].todo) \in Schemes BY <1>1
<1> QED BY <1>1, <1>2, <1>4, <1>5, <1>6 DEF Jobs, Writing

LEMMA TypeNext == Inv /\ [Next]_vars => TypeOK'
<1> SUFFICES ASSUME Inv, [Next]_vars PROVE TypeOK' OBVIOUS
<1> USE DEF Inv
<1>1. ASSUME NEW t \in Threads, Call(t) PROVE TypeOK' BY <1>1 DEF Call, TypeOK
<1>2. ASSUME NEW t \in Threads, Enter(t) PROVE TypeOK'
  <2>1. JobOf(BuiltIn) \in Jobs BY JobFacts DEF Drivers
  <2>2. job' \in [Threads -> Jobs] BY <1>2, <2>1 DEF Enter, TypeOK
  <2>3. pc' \in [Threads -> {"idle", "waiting", "init", "ready", "loading"}]
    BY <1>2 DEF Enter, TypeOK
  <2>4. lock' \in Threads \cup {NoThread} /\ shared' \in BOOLEAN BY <1>2 DEF Enter, TypeOK
  <2> QED BY <1>2, <2>2, <2>3, <2>4 DEF Enter, TypeOK
<1>3. ASSUME NEW t \in Threads, SetClass(t) PROVE TypeOK'
  <2>1. job' \in [Threads -> Jobs] BY <1>3, Classed DEF TypeOK, SetClass
  <2>2. driverClasses' \in [Schemes -> Drivers \cup {NoDriver}]
    BY <1>3, Classed DEF TypeOK, SetClass
  <2> QED BY <1>3, <2>1, <2>2 DEF SetClass, TypeOK
<1>4. ASSUME NEW t \in Threads, SetInfo(t) PROVE TypeOK'
  <2>1. job' \in [Threads -> Jobs] BY <1>4, Informed DEF TypeOK, SetInfo
  <2>2. job[t].driver \in Drivers \cup {NoDriver} BY DEF TypeOK, Jobs
  <2>3. driverInfo' \in [Schemes -> Drivers \cup {NoDriver}]
    BY <1>4, <2>2 DEF TypeOK, SetInfo
  <2> QED BY <1>4, <2>1, <2>3 DEF SetInfo, TypeOK
<1>5. ASSUME NEW t \in Threads, Raise(t) PROVE TypeOK' BY <1>5, JobFacts DEF Raise, TypeOK
<1>6. ASSUME NEW t \in Threads, Registered(t) PROVE TypeOK'
  BY <1>6, JobFacts DEF Registered, TypeOK
<1>7. ASSUME NEW t \in Threads, NEW b \in Plugins, Visit(t, b) \/ LoadBundle(t, b) PROVE TypeOK'
  BY <1>7, JobFacts DEF Visit, LoadBundle, Loads, TypeOK, Drivers
<1>8. ASSUME NEW t \in Threads, FinishInit(t) PROVE TypeOK' BY <1>8 DEF FinishInit, TypeOK
<1>9. ASSUME NEW t \in Threads, Connect(t) PROVE TypeOK'
  BY <1>9 DEF Connect, TypeOK
<1>10. CASE UNCHANGED vars BY <1>10 DEF vars, TypeOK
<1> QED BY <1>1, <1>2, <1>3, <1>4, <1>5, <1>6, <1>7, <1>8, <1>9, <1>10 DEF Next, Step

LEMMA LockNext == Inv /\ [Next]_vars => LockOK'
<1> SUFFICES ASSUME Inv, [Next]_vars PROVE LockOK' OBVIOUS
<1>0. LockOK /\ JobsOK /\ pc \in [Threads -> {"idle", "waiting", "init", "ready", "loading"}]
      /\ lock \in Threads \cup {NoThread} /\ shared \in BOOLEAN
  BY DEF Inv, TypeOK
<1> USE ManagerAssumption
<1>1. ASSUME NEW t \in Threads, Call(t) PROVE LockOK' BY <1>0, <1>1 DEF Call, LockOK
<1>2. ASSUME NEW t \in Threads, Enter(t) PROVE LockOK' BY <1>0, <1>2 DEF Enter, LockOK
<1>3. ASSUME NEW t \in Threads, SetClass(t) \/ SetInfo(t) PROVE LockOK'
  BY <1>0, <1>3 DEF SetClass, SetInfo, LockOK
<1>4. ASSUME NEW t \in Threads, Raise(t) PROVE LockOK'
  <2>1. pc[t] \in {"init", "loading"} BY <1>0, <1>4 DEF Raise, Written, JobsOK, Writing
  <2> QED BY <1>0, <1>4, <2>1 DEF Raise, LockOK
<1>5. ASSUME NEW t \in Threads, Registered(t) PROVE LockOK'
  <2>1. pc[t] \in {"init", "loading"} BY <1>0, <1>5 DEF Registered, Written, JobsOK, Writing
  <2> QED BY <1>0, <1>5, <2>1 DEF Registered, LockOK
<1>6. ASSUME NEW t \in Threads, NEW b \in Plugins, Visit(t, b) PROVE LockOK'
  BY <1>0, <1>6 DEF Visit, LockOK
<1>7. ASSUME NEW t \in Threads, NEW b \in Plugins, LoadBundle(t, b) PROVE LockOK'
  BY <1>0, <1>7 DEF LoadBundle, LockOK
<1>8. ASSUME NEW t \in Threads, FinishInit(t) PROVE LockOK' BY <1>0, <1>8 DEF FinishInit, LockOK
<1>9. ASSUME NEW t \in Threads, Connect(t) PROVE LockOK'
  BY <1>0, <1>9 DEF Connect, LockOK
<1>10. CASE UNCHANGED vars BY <1>0, <1>10 DEF vars, LockOK
<1> QED BY <1>1, <1>2, <1>3, <1>4, <1>5, <1>6, <1>7, <1>8, <1>9, <1>10 DEF Next, Step

LEMMA JobsNext == Inv /\ [Next]_vars => JobsOK'
<1> SUFFICES ASSUME Inv, [Next]_vars PROVE JobsOK' OBVIOUS
<1>0. LockOK /\ JobsOK /\ pc \in [Threads -> {"idle", "waiting", "init", "ready", "loading"}]
      /\ job \in [Threads -> Jobs]
  BY DEF Inv, TypeOK
<1> USE ManagerAssumption, JobFacts
<1>1. ASSUME NEW t \in Threads, Call(t) PROVE JobsOK' BY <1>0, <1>1 DEF Call, JobsOK, Writing
<1>2. ASSUME NEW t \in Threads, Enter(t) PROVE JobsOK'
  BY <1>0, <1>2 DEF Enter, JobsOK, Writing, Drivers
<1>3. ASSUME NEW t \in Threads, SetClass(t) PROVE JobsOK'
  BY <1>0, <1>3, Classed DEF SetClass, JobsOK, Writing
<1>4. ASSUME NEW t \in Threads, SetInfo(t) PROVE JobsOK'
  <2>1. Writing(t) BY <1>0, <1>4 DEF SetInfo, JobsOK
  <2>2. /\ job'[t].driver = job[t].driver /\ job'[t].half = FALSE
        /\ \A u \in Threads \ {t} : job'[u] = job[u]
    BY <1>4, Informed
  <2>3. pc' = pc BY <1>4 DEF SetInfo
  <2> QED BY <1>0, <2>1, <2>2, <2>3 DEF JobsOK, Writing
<1>5. ASSUME NEW t \in Threads, Raise(t) PROVE JobsOK'
  BY <1>0, <1>5 DEF Raise, JobsOK, Writing, Drivers
<1>6. ASSUME NEW t \in Threads, Registered(t) PROVE JobsOK'
  BY <1>0, <1>6 DEF Registered, JobsOK, Writing, Drivers
<1>7. ASSUME NEW t \in Threads, NEW b \in Plugins, Visit(t, b) \/ LoadBundle(t, b) PROVE JobsOK'
  BY <1>0, <1>7 DEF Visit, LoadBundle, Loads, JobsOK, Writing, Drivers
<1>8. ASSUME NEW t \in Threads, FinishInit(t) PROVE JobsOK'
  BY <1>0, <1>8 DEF FinishInit, JobsOK, Writing, Drivers
<1>9. ASSUME NEW t \in Threads, Connect(t) PROVE JobsOK'
  BY <1>0, <1>9 DEF Connect, JobsOK, Writing
<1>10. CASE UNCHANGED vars BY <1>0, <1>10 DEF vars, JobsOK, Writing
<1> QED BY <1>1, <1>2, <1>3, <1>4, <1>5, <1>6, <1>7, <1>8, <1>9, <1>10 DEF Next, Step
LEMMA EntriesNext == Inv /\ [Next]_vars => EntriesOK'
<1> SUFFICES ASSUME Inv, [Next]_vars PROVE EntriesOK' OBVIOUS
<1>0. /\ EntriesOK /\ job \in [Threads -> Jobs] /\ bundles \subseteq Plugins
      /\ driverClasses \in [Schemes -> Drivers \cup {NoDriver}]
  BY DEF Inv, TypeOK
<1> USE ManagerAssumption DEF EntriesOK, Progress, Writing
<1>1. ASSUME NEW t \in Threads, Call(t) PROVE EntriesOK' BY <1>0, <1>1 DEF Call
<1>2. ASSUME NEW t \in Threads, Enter(t) PROVE EntriesOK'
  <2>1. BuiltIn \in Drivers BY DEF Drivers
  <2>2. job' = job \/ job' = [job EXCEPT ![t] = JobOf(BuiltIn)] BY <1>2 DEF Enter
  <2>3. \A u \in Threads : job'[u] = job[u] \/ job'[u] = JobOf(BuiltIn) BY <1>0, <2>2
  <2>4. bundles' = bundles /\ driverClasses' = driverClasses BY <1>2 DEF Enter
  <2>5. JobOf(BuiltIn).driver = BuiltIn /\ JobOf(BuiltIn).todo = SchemesOf[BuiltIn]
    BY <2>1, JobFacts
  <2>6. \A u \in Threads : Progress(u)' BY <1>0, <2>3, <2>4, <2>5
  <2> QED BY <1>0, <2>4, <2>6
<1>3. ASSUME NEW t \in Threads, SetClass(t) PROVE EntriesOK'
  <2>1. /\ job[t].driver \in Drivers /\ SchemesOf[job[t].driver] # <<>>
        /\ job[t].driver \in bundles \cup {BuiltIn}
    BY <1>0, <1>3, Classed
  <2>2. \A u \in Threads : /\ job'[u].driver = job[u].driver
                           /\ job'[u].todo = job[u].todo /\ job'[u].count = job[u].count
    BY <1>3, Classed
  <2>3. \A s \in Schemes : driverClasses'[s] = driverClasses[s] \/ driverClasses'[s] = job[t].driver
    BY <1>0, <1>3 DEF SetClass
  <2>4. bundles' = bundles BY <1>3 DEF SetClass
  <2> QED BY <1>0, <2>1, <2>2, <2>3, <2>4
<1>4. ASSUME NEW t \in Threads, SetInfo(t) PROVE EntriesOK'
  <2>1. job[t].todo # <<>> BY <1>4, Informed
  <2>2. /\ job'[t].driver = job[t].driver /\ job'[t].count = TRUE
        /\ \A u \in Threads \ {t} : job'[u] = job[u]
    BY <1>4, Informed
  <2>3. bundles' = bundles /\ driverClasses' = driverClasses BY <1>4 DEF SetInfo
  <2> QED BY <1>0, <2>1, <2>2, <2>3
<1>5. ASSUME NEW t \in Threads, Raise(t) PROVE EntriesOK'
  <2>1. \A u \in Threads : job'[u] = job[u] \/ job'[u].driver = NoDriver
    BY <1>0, <1>5, JobFacts DEF Raise
  <2> QED BY <1>0, <1>5, <2>1 DEF Raise
<1>6. ASSUME NEW t \in Threads, Registered(t) PROVE EntriesOK'
  <2>1. \A u \in Threads : job'[u] = job[u] \/ job'[u].driver = NoDriver
    BY <1>0, <1>6, JobFacts DEF Registered
  <2>2. \/ bundles' = bundles
        \/ (bundles' = bundles \ {job[t].driver} /\ SchemesOf[job[t].driver] = <<>>)
    BY <1>0, <1>6 DEF Registered, Written
  <2>3. driverClasses' = driverClasses BY <1>6 DEF Registered
  <2> QED BY <1>0, <2>1, <2>2, <2>3
<1>7. ASSUME NEW t \in Threads, NEW b \in Plugins, Loads(t, b),
             UNCHANGED driverClasses
      PROVE  EntriesOK'
  <2>1. b \in Drivers BY DEF Drivers
  <2>2. bundles \subseteq bundles' BY <1>7 DEF Loads
  <2>3. \A u \in Threads : job'[u] = job[u] \/ (job'[u] = JobOf(b) /\ b \in bundles')
    BY <1>0, <1>7 DEF Loads
  <2> QED BY <1>0, <1>7, <2>1, <2>2, <2>3, JobFacts
<1>8. ASSUME NEW t \in Threads, FinishInit(t) PROVE EntriesOK' BY <1>0, <1>8 DEF FinishInit
<1>9. ASSUME NEW t \in Threads, Connect(t) PROVE EntriesOK'
  BY <1>0, <1>9 DEF Connect
<1>10. CASE UNCHANGED vars BY <1>0, <1>10 DEF vars
<1> QED
  BY <1>1, <1>2, <1>3, <1>4, <1>5, <1>6, <1>7, <1>8, <1>9, <1>10
  DEF Next, Step, Visit, LoadBundle

-----------------------------------------------------------------------------
(* A scheme is due when a thread is still to register the built-in driver  *)
(* for it.                                                                 *)
Due(s) == \E t \in Threads : /\ job[t].driver = BuiltIn
                             /\ \E j \in DOMAIN job[t].todo : job[t].todo[j] = s

(* No step removes an entry, and one that ends a scheme's being due finds  *)
(* it registered: enough for the invariant once the manager exists.        *)
LEMMA Served ==
  ASSUME Inv,
         \A s \in Schemes : driverClasses[s] # NoDriver => driverClasses'[s] # NoDriver,
         \A s \in Schemes : Due(s) => Due(s)' \/ driverClasses'[s] # NoDriver,
         \A t \in Threads : job'[t].half => driverClasses'[Head(job'[t].todo)] # NoDriver,
         shared' = shared
  PROVE  BuiltInOK'
<1>1. \A i \in DOMAIN SchemesOf[BuiltIn] : SchemesOf[BuiltIn][i] \in Schemes
  BY ManagerAssumption DEF Drivers
<1>2. shared => \A i \in DOMAIN SchemesOf[BuiltIn] :
        driverClasses[SchemesOf[BuiltIn][i]] # NoDriver \/ Due(SchemesOf[BuiltIn][i])
  BY DEF Inv, BuiltInOK, Due
<1>3. shared' => \A i \in DOMAIN SchemesOf[BuiltIn] :
        driverClasses'[SchemesOf[BuiltIn][i]] # NoDriver \/ Due(SchemesOf[BuiltIn][i])'
  BY <1>1, <1>2
<1> QED BY <1>3 DEF BuiltInOK, Due

LEMMA BuiltInNext == Inv /\ [Next]_vars => BuiltInOK'
<1> SUFFICES ASSUME Inv, [Next]_vars PROVE BuiltInOK' OBVIOUS
<1>0. /\ BuiltInOK /\ JobsOK /\ job \in [Threads -> Jobs] /\ BuiltIn \in Drivers
      /\ driverClasses \in [Schemes -> Drivers \cup {NoDriver}]
  BY DEF Inv, TypeOK, Drivers
<1>a. \A t \in Threads : job[t].half => driverClasses[Head(job[t].todo)] # NoDriver
  BY <1>0 DEF BuiltInOK
(* The steps that leave the jobs and the classes alone. *)
<1>1. ASSUME UNCHANGED <<shared, job, driverClasses>> PROVE BuiltInOK'
  BY <1>0, <1>1 DEF BuiltInOK
(* The steps that replace the job of one thread, not the built-in driver's. *)
<1>2. ASSUME NEW t \in Threads, NEW j \in Jobs, j.half = FALSE, job' = [job EXCEPT ![t] = j],
             job[t].driver # BuiltIn \/ job[t].todo = <<>>, UNCHANGED <<shared, driverClasses>>
      PROVE  BuiltInOK'
  <2>1. job'[t] = j /\ \A u \in Threads \ {t} : job'[u] = job[u] BY <1>0, <1>2
  <2>2. \A s \in Schemes : Due(s) => Due(s)' BY <1>2, <2>1 DEF Due
  <2>3. \A u \in Threads : job'[u].half => driverClasses'[Head(job'[u].todo)] # NoDriver
    BY <1>a, <1>2, <2>1
  <2> QED BY <1>2, <2>2, <2>3, Served
<1>3. ASSUME NEW t \in Threads, Enter(t) PROVE BuiltInOK'
  <2>1. CASE shared BY <1>1, <1>3, <2>1 DEF Enter
  <2>2. CASE ~shared
    <3>1. job' = [job EXCEPT ![t] = JobOf(BuiltIn)] /\ driverClasses' = driverClasses
      BY <1>3, <2>2 DEF Enter
    <3>2. job'[t] = JobOf(BuiltIn) /\ \A u \in Threads \ {t} : job'[u] = job[u]
      BY <1>0, <3>1
    <3>3. \A u \in Threads : job'[u].half => driverClasses'[Head(job'[u].todo)] # NoDriver
      BY <1>0, <1>a, <3>1, <3>2, JobFacts
    <3>4. job'[t].driver = BuiltIn /\ job'[t].todo = SchemesOf[BuiltIn]
      BY <1>0, <3>2, JobFacts
    <3> QED BY <3>3, <3>4 DEF BuiltInOK
  <2> QED BY <2>1, <2>2
<1>4. ASSUME NEW t \in Threads, SetClass(t) PROVE BuiltInOK'
  <2>1. /\ job[t].driver # NoDriver /\ Head(job[t].todo) \in Schemes
        /\ \A u \in Threads : job'[u].driver = job[u].driver /\ job'[u].todo = job[u].todo
        /\ \A u \in Threads \ {t} : job'[u] = job[u]
    BY <1>4, Classed DEF Writing
  <2>2. driverClasses' = [driverClasses EXCEPT ![Head(job[t].todo)] = job[t].driver]
        /\ shared' = shared
    BY <1>4 DEF SetClass
  <2>3. \A s \in Schemes : driverClasses[s] # NoDriver => driverClasses'[s] # NoDriver
    BY <1>0, <2>1, <2>2
  <2>4. driverClasses'[Head(job[t].todo)] # NoDriver BY <1>0, <2>1, <2>2
  <2>5. \A s \in Schemes : Due(s) => Due(s)' BY <2>1 DEF Due
  <2>6. ASSUME NEW u \in Threads, job'[u].half
        PROVE  driverClasses'[Head(job'[u].todo)] # NoDriver
    <3>1. CASE u = t BY <2>1, <2>4, <3>1
    <3>2. CASE u # t
      <4>1. job[u].half /\ job'[u].todo = job[u].todo BY <2>1, <2>6, <3>2
      <4>2. job[u].todo # <<>> /\ job[u].todo \in Seq(Schemes) BY <1>0, <4>1 DEF JobsOK, Jobs
      <4>3. Head(job[u].todo) \in Schemes BY <4>2
      <4> QED BY <1>a, <2>3, <4>1, <4>3
    <3> QED BY <3>1, <3>2
  <2> QED BY <2>2, <2>3, <2>5, <2>6, Served
<1>5. ASSUME NEW t \in Threads, SetInfo(t) PROVE BuiltInOK'
  <2>1. job[t].half /\ driverClasses' = driverClasses /\ shared' = shared BY <1>5 DEF SetInfo
  <2>2. /\ job'[t].driver = job[t].driver /\ job'[t].half = FALSE
        /\ \A u \in Threads \ {t} : job'[u] = job[u]
        /\ \A i \in DOMAIN job[t].todo :
             \/ job[t].todo[i] = Head(job[t].todo)
             \/ \E m \in DOMAIN job'[t].todo : job'[t].todo[m] = job[t].todo[i]
    BY <1>5, Informed
  <2>3. ASSUME NEW s \in Schemes, Due(s) PROVE Due(s)' \/ driverClasses'[s] # NoDriver
    <3>1. PICK u \in Threads : /\ job[u].driver = BuiltIn
                               /\ \E i \in DOMAIN job[u].todo : job[u].todo[i] = s
      BY <2>3 DEF Due
    <3>2. CASE u # t BY <2>2, <3>1, <3>2 DEF Due
    <3>3. CASE u = t
      <4>1. PICK i \in DOMAIN job[t].todo : job[t].todo[i] = s BY <3>1, <3>3
      <4>2. CASE s = Head(job[t].todo) BY <1>a, <2>1, <4>2
      <4>3. CASE \E m \in DOMAIN job'[t].todo : job'[t].todo[m] = s
        BY <2>2, <3>1, <3>3, <4>3 DEF Due
      <4> QED BY <2>2, <4>1, <4>2, <4>3
    <3> QED BY <3>2, <3>3
  <2>4. \A u \in Threads : job'[u].half => driverClasses'[Head(job'[u].todo)] # NoDriver
    BY <1>a, <2>1, <2>2
  <2> QED BY <2>1, <2>3, <2>4, Served
<1>6. ASSUME NEW t \in Threads, Raise(t) \/ Registered(t) PROVE BuiltInOK'
  <2>1. job' = [job EXCEPT ![t] = NoJob] /\ UNCHANGED <<shared, driverClasses>>
        /\ job[t].todo = <<>>
    BY <1>6 DEF Raise, Registered, Written
  <2>2. NoJob \in Jobs /\ NoJob.half = FALSE BY JobFacts
  <2> QED BY <1>2, <2>1, <2>2
<1>7. ASSUME NEW t \in Threads, NEW b \in Plugins, Visit(t, b) \/ LoadBundle(t, b) PROVE BuiltInOK'
  <2>1. Loads(t, b) /\ UNCHANGED <<shared, driverClasses>> BY <1>7 DEF Visit, LoadBundle
  <2>2. job[t].driver # BuiltIn
    BY <1>0, <1>7, JobFacts, ManagerAssumption DEF Visit, LoadBundle, JobsOK, Drivers
  <2>3. job' = job \/ job' = [job EXCEPT ![t] = JobOf(b)] BY <2>1 DEF Loads
  <2>4. JobOf(b) \in Jobs /\ JobOf(b).half = FALSE BY JobFacts DEF Drivers
  <2> QED BY <1>1, <1>2, <2>1, <2>2, <2>3, <2>4
<1>8. ASSUME NEW t \in Threads, Call(t) \/ FinishInit(t) PROVE BuiltInOK'
  BY <1>1, <1>8 DEF Call, FinishInit
<1>9. ASSUME NEW t \in Threads, Connect(t) PROVE BuiltInOK'
  BY <1>1, <1>9 DEF Connect
<1>10. CASE UNCHANGED vars BY <1>1, <1>10 DEF vars
<1> QED BY <1>3, <1>4, <1>5, <1>6, <1>7, <1>8, <1>9, <1>10 DEF Next, Step

LEMMA InvNext == Inv /\ [Next]_vars => Inv'
BY TypeNext, LockNext, JobsNext, EntriesNext, BuiltInNext DEF Inv

-----------------------------------------------------------------------------
(* The invariant of the registry. *)
THEOREM Invariance == Spec => []Inv
<1>1. Init => Inv BY InvInit
<1>2. Inv /\ [Next]_vars => Inv' BY InvNext
<1> QED BY <1>1, <1>2, PTL DEF Spec

(* Type correctness of the registry, for any threads, schemes and bundles. *)
THEOREM TypeCorrect == Spec => []TypeOK
<1>1. Inv => TypeOK BY DEF Inv
<1> QED BY <1>1, Invariance, PTL

(* A registered driver is the built-in one or one of a loaded bundle,      *)
(* whoever else loads bundles at the same time.                            *)
THEOREM LoadedClasses == Spec => []ClassesLoaded
<1>1. Inv => ClassesLoaded
  BY DEF Inv, EntriesOK, ClassesLoaded
<1> QED BY <1>1, Invariance, PTL

(* A thread that got hold of the manager finds every scheme of the         *)
(* built-in driver: no thread can still be registering it.                 *)
THEOREM BuiltInFound == Spec => []BuiltInServed
<1>1. ASSUME Inv, NEW t \in Threads, pc[t] = "ready", NEW i \in DOMAIN SchemesOf[BuiltIn]
      PROVE  driverClasses[SchemesOf[BuiltIn][i]] # NoDriver
  <2>1. lock = NoThread /\ shared BY <1>1 DEF Inv, LockOK
  <2>2. \A u \in Threads : pc[u] # "init" BY <2>1, ManagerAssumption, <1>1 DEF Inv, LockOK
  <2>3. \A u \in Threads : job[u].driver # BuiltIn BY <1>1, <2>2 DEF Inv, JobsOK
  <2> QED BY <1>1, <2>1, <2>3 DEF Inv, BuiltInOK
<1>2. Inv => BuiltInServed BY <1>1 DEF BuiltInServed
<1> QED BY <1>2, Invariance, PTL

(* While a thread creates the manager, no other reads or writes its        *)
(* dictionaries, whoever is waiting and whatever the plug-ins do.          *)
THEOREM RaceFree == Spec => []NoRace
<1>1. ASSUME Inv, NEW t \in Threads, NEW u \in Threads, t # u, pc[t] = "init"
      PROVE  ~Writing(u) /\ pc[u] # "ready"
  <2>1. lock = t BY <1>1 DEF Inv, LockOK
  <2>2. pc[u] \notin {"init", "loading", "ready"}
    BY <1>1, <2>1, ManagerAssumption DEF Inv, LockOK
  <2> QED BY <1>1, <2>2 DEF Inv, JobsOK
<1>2. Inv => NoRace BY <1>1 DEF NoRace
<1> QED BY <1>2, Invariance, PTL
-----------------------------------------------------------------------------
(* The two dictionaries, when at most one thread loads bundles by itself:  *)
(* they differ in the scheme that is being registered, and there only.     *)
OneRegistrar == \A t, u \in Registrars : t = u

Agree ==
  /\ \A t \in Threads : job[t].half => driverClasses[Head(job[t].todo)] = job[t].driver
  /\ \A s \in Schemes : driverInfo[s] # driverClasses[s] =>
       \E t \in Threads : job[t].half /\ Head(job[t].todo) = s

(* There is one writer: the creator of the manager or the registrar. *)
LEMMA OneWriter ==
  ASSUME OneRegistrar, Inv
  PROVE  /\ \A t \in Threads : job[t].half => Writing(t)
         /\ \A t, u \in Threads : Writing(t) /\ Writing(u) => t = u
<1>1. ASSUME NEW t \in Threads, job[t].half PROVE Writing(t)
  BY <1>1, JobFacts DEF Inv, JobsOK
<1>2. ASSUME NEW t \in Threads, NEW u \in Threads, Writing(t), Writing(u) PROVE t = u
  <2>1. pc[t] \in {"init", "loading"} /\ pc[u] \in {"init", "loading"}
    BY <1>2 DEF Inv, JobsOK
  <2>2. CASE pc[t] = "loading" /\ pc[u] = "loading"
    BY <2>2 DEF Inv, JobsOK, OneRegistrar
  <2>3. CASE pc[t] = "init" \/ pc[u] = "init"
    <3>1. lock \in {t, u} BY <2>3 DEF Inv, LockOK
    <3>2. pc[t] = "init" /\ pc[u] = "init"
      BY <2>1, <3>1, ManagerAssumption DEF Inv, LockOK
    <3> QED BY <3>2 DEF Inv, LockOK
  <2> QED BY <2>1, <2>2, <2>3
<1> QED BY <1>1, <1>2

(* The steps that replace a job without a half-made entry by another. *)
LEMMA OtherJob ==
  ASSUME Inv, Agree, NEW t \in Threads, NEW j \in Jobs, j.half = FALSE, job[t].half = FALSE,
         job' = job \/ job' = [job EXCEPT ![t] = j], UNCHANGED <<driverClasses, driverInfo>>
  PROVE  Agree'
<1>1. \A u \in Threads : job'[u] = job[u] \/ (u = t /\ job'[u] = j) BY DEF Inv, TypeOK
<1>2. \A u \in Threads : job[u].half => job'[u] = job[u]
  <2>1. job'[t] = job[t] \/ job[t].half = FALSE OBVIOUS
  <2> QED BY <1>1, <2>1
<1>3. \A u \in Threads : job'[u].half => job'[u] = job[u] BY <1>1
<1> QED BY <1>2, <1>3 DEF Agree

LEMMA AgreeInit == Init => Agree
<1> SUFFICES ASSUME Init PROVE Agree OBVIOUS
<1>1. \A t \in Threads : job[t].half = FALSE BY JobFacts DEF Init
<1>2. driverInfo = driverClasses BY DEF Init
<1> QED BY <1>1, <1>2 DEF Agree

LEMMA AgreeNext == ASSUME OneRegistrar, Inv, Agree, [Next]_vars PROVE Agree'
<1>0. /\ \A t \in Threads : job[t] \in Jobs /\ job[t].half \in BOOLEAN
      /\ NoJob \in Jobs /\ NoJob.half = FALSE
      /\ driverClasses \in [Schemes -> Drivers \cup {NoDriver}]
      /\ driverInfo \in [Schemes -> Drivers \cup {NoDriver}]
  BY JobFacts DEF Inv, TypeOK, Jobs
<1>1. ASSUME UNCHANGED <<driverClasses, driverInfo, job>> PROVE Agree'
  BY <1>1 DEF Agree
<1>2. ASSUME NEW t \in Threads, Enter(t) PROVE Agree'
  <2>1. job[t].half = FALSE
    BY <1>0, <1>2, OneWriter DEF Enter, Inv, JobsOK
  <2>2. JobOf(BuiltIn) \in Jobs /\ JobOf(BuiltIn).half = FALSE BY JobFacts DEF Drivers
  <2> QED BY <1>2, <2>1, <2>2, OtherJob DEF Enter
<1>3. ASSUME NEW t \in Threads, NEW b \in Plugins, Visit(t, b) \/ LoadBundle(t, b) PROVE Agree'
  <2>1. job[t].half = FALSE
    BY <1>0, <1>3, OneWriter DEF Visit, LoadBundle, Inv, JobsOK
  <2>2. JobOf(b) \in Jobs /\ JobOf(b).half = FALSE BY JobFacts DEF Drivers
  <2> QED BY <1>3, <2>1, <2>2, OtherJob DEF Visit, LoadBundle, Loads
<1>4. ASSUME NEW t \in Threads, Raise(t) \/ Registered(t) PROVE Agree'
  <2>1. job[t].half = FALSE
    BY <1>0, <1>4 DEF Raise, Registered, Written, Inv, JobsOK
  <2> QED BY <1>0, <1>4, <2>1, OtherJob DEF Raise, Registered
<1>5. ASSUME NEW t \in Threads, SetClass(t) PROVE Agree'
  <2> DEFINE s == Head(job[t].todo)
  <2>1. /\ Writing(t) /\ s \in Schemes /\ job'[t].todo = job[t].todo
        /\ job'[t].driver = job[t].driver
        /\ \A u \in Threads \ {t} : job'[u] = job[u]
    BY <1>5, Classed
  <2>2. job'[t].half BY <1>0, <1>5 DEF SetClass, Inv, TypeOK, Jobs
  <2>3. \A u \in Threads \ {t} : ~job[u].half BY <2>1, OneWriter
  <2>4. \A u \in Threads : ~job[u].half BY <1>5, <2>3 DEF SetClass
  <2>5. driverInfo = driverClasses BY <1>0, <2>4 DEF Agree
  <2>6. driverClasses' = [driverClasses EXCEPT ![s] = job[t].driver] /\ driverInfo' = driverInfo
    BY <1>5 DEF SetClass
  <2>7. driverClasses'[s] = job[t].driver BY <1>0, <2>1, <2>6
  <2>8. \A r \in Schemes : driverInfo'[r] # driverClasses'[r] => r = s BY <1>0, <2>5, <2>6
  <2> HIDE DEF s
  <2>9. Head(job'[t].todo) = s BY <2>1 DEF s
  <2>10. \A u \in Threads : job'[u].half => driverClasses'[Head(job'[u].todo)] = job'[u].driver
    BY <2>1, <2>3, <2>7, <2>9
  <2> QED BY <2>2, <2>8, <2>9, <2>10 DEF Agree
<1>6. ASSUME NEW t \in Threads, SetInfo(t) PROVE Agree'
  <2> DEFINE s == Head(job[t].todo)
  <2>1. /\ job[t].half /\ s \in Schemes /\ ~job'[t].half
        /\ \A u \in Threads \ {t} : job'[u] = job[u]
    BY <1>6, Informed
  <2>2. \A u \in Threads \ {t} : ~job[u].half BY <2>1, OneWriter
  <2>3. \A u \in Threads : ~job'[u].half BY <2>1, <2>2
  <2>4. driverInfo' = [driverInfo EXCEPT ![s] = job[t].driver] /\ driverClasses' = driverClasses
    BY <1>6 DEF SetInfo
  <2>5. driverClasses[s] = job[t].driver BY <2>1 DEF Agree
  <2>6. \A r \in Schemes : driverInfo[r] # driverClasses[r] => r = s BY <2>2 DEF Agree
  <2> HIDE DEF s
  <2>7. \A r \in Schemes : driverInfo'[r] = driverClasses'[r]
    BY <1>0, <2>1, <2>4, <2>5, <2>6
  <2> QED BY <2>3, <2>7 DEF Agree
<1>7. ASSUME NEW t \in Threads, Call(t) \/ FinishInit(t) \/ Connect(t) PROVE Agree'
  BY <1>1, <1>7 DEF Call, FinishInit, Connect
<1>8. CASE UNCHANGED vars BY <1>1, <1>8 DEF vars
<1> QED BY <1>2, <1>3, <1>4, <1>5, <1>6, <1>7, <1>8 DEF Next, Step

(* The class and the property list of a scheme are the same driver's       *)
(* whenever no registration is under way, if at most one thread loads      *)
(* bundles itself.                                                         *)
THEOREM InfoAgrees == ASSUME OneRegistrar PROVE Spec => []InfoMatchesClass
<1>1. Inv /\ Agree /\ [Next]_vars => Agree' BY AgreeNext
<1>2. Inv /\ Agree => InfoMatchesClass
  <2> SUFFICES ASSUME Inv, Agree, \A t \in Threads : ~Writing(t)
               PROVE  driverInfo = driverClasses
    BY DEF InfoMatchesClass
  <2>1. \A t \in Threads : ~job[t].half BY OneWriter
  <2> QED BY <2>1 DEF Agree, Inv, TypeOK
<1> QED BY <1>1, <1>2, AgreeInit, Invariance, PTL DEF Spec
=============================================================================
