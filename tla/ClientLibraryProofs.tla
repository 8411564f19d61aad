------------------------ MODULE ClientLibraryProofs ------------------------
(***************************************************************************)
(* Proofs about ClientLibrary, for any finite set of threads and any       *)
(* bounds, of programs that keep to the rules (Orderly).                   *)
(*                                                                         *)
(* The properties hold because one thread at a time starts or ends the     *)
(* library (Actors), at a point of its way up or down that says exactly    *)
(* what exists (Rising, Falling), while all the others are outside or on   *)
(* their way out, for which alone THR_LOCK_threads must be kept.           *)
(***************************************************************************)
EXTENDS ClientLibrary, FiniteSetTheorems, TLAPS

(* A thread is in one call at a time, at one of its places. *)
Located ==
  \A t \in Threads :
    \/ at[t] = "idle" /\ call[t] = "none"
    \/ at[t] \in {"flag", "my_init", "global", "mutexes"} /\ call[t] = "first"
    \/ at[t] \in {"lookup", "count", "inited"} /\ call[t] \in {"first", "later"}
    \/ at[t] \in {"uncount", "forget"} /\ call[t] \in {"thread_end", "server_end"}
    \/ at[t] = "no_key" /\ call[t] = "thread_end"
    \/ at[t] \in {"wait", "delete", "delete_all"} /\ call[t] \in {"first", "server_end"}
    \/ at[t] = "done" /\ call[t] = "server_end"

Alone(t) == \A u \in Threads \ {t} : call[u] \in {"none", "thread_end"}

Actors ==
  \A t \in Threads :
    /\ call[t] = "first" => life = "starting" /\ Alone(t)
    /\ call[t] = "server_end" => life = "ending" /\ Alone(t)
    /\ call[t] = "later" => life = "up"

(* What exists while nobody starts or ends the library. *)
Settled ==
  /\ ~org_my_init_done
  /\ life # "up" => handles = {}
  /\ life = "down" => ~mysql_client_init /\ ~my_init_done /\ ~key /\ variable = {}
  /\ life = "up" => mysql_client_init /\ key /\ my_init_done /\ mutexes = AllMutexes
  /\ life = "ending" /\ key => mutexes = AllMutexes

(* What exists at each point of the first call ... *)
Rising ==
  \A t \in Threads : call[t] = "first" =>
    /\ mysql_client_init <=> at[t] # "flag"
    /\ my_init_done <=> at[t] \notin {"flag", "my_init"}
    /\ key <=> at[t] \notin {"flag", "my_init", "global"}
    /\ at[t] \in {"lookup", "count", "inited", "wait", "delete", "delete_all"} =>
         mutexes = AllMutexes
    /\ variable = IF at[t] \in {"count", "inited"} THEN {t} ELSE {}

(* ... and of mysql_server_end. *)
Falling ==
  \A t \in Threads : call[t] = "server_end" =>
    IF at[t] = "done" THEN ~key /\ ~my_init_done /\ variable = {}
                      ELSE key /\ my_init_done /\ mutexes = AllMutexes

(* What each thread can rely on where it is. *)
Entitled ==
  \A t \in Threads :
    /\ at[t] \in {"count", "inited"} => t \in variable
    /\ at[t] \in {"count", "uncount", "forget"} => t \notin handles
    /\ at[t] = "uncount" => "threads" \in mutexes
    /\ at[t] = "delete_all" => Counted = {}
    /\ t \in handles => t \in variable
    /\ t \in variable => key /\ mutexes = AllMutexes

Inv == /\ TypeOK /\ Located /\ Actors /\ Settled /\ Rising /\ Falling /\ Entitled
       /\ CountIsThreads

-----------------------------------------------------------------------------
(* Counting. *)

LEMMA CountedFinite ==
  TypeOK => /\ IsFiniteSet(Counted) /\ Cardinality(Counted) \in Nat
            /\ (Cardinality(Counted) = 0 <=> Counted = {})
  BY FS_Subset, FS_CardinalityType, FS_EmptySet, ClientAssumption DEF Counted

LEMMA SameCount ==
  ASSUME CountIsThreads, Counted' = Counted,
         THR_thread_count' = THR_thread_count, strays' = strays
  PROVE  CountIsThreads'
  BY DEF CountIsThreads

-----------------------------------------------------------------------------
(* Moving. *)

Moved(t, p, c) ==
  /\ at' \in [Threads -> Places] /\ at'[t] = p
  /\ call' \in [Threads -> Calls] /\ call'[t] = c
  /\ \A u \in Threads : u # t => at'[u] = at[u] /\ call'[u] = call[u]

LEMMA Goes ==
  ASSUME TypeOK, NEW t \in Threads, NEW p \in Places, Goto(t, p), call' = call
  PROVE  Moved(t, p, call[t])
  BY DEF TypeOK, Goto, Moved

LEMMA Enters ==
  ASSUME TypeOK, NEW t \in Threads, NEW p \in Places, NEW c \in Calls, Enter(t, p, c)
  PROVE  Moved(t, p, c)
  BY DEF TypeOK, Goto, Enter, Moved

-----------------------------------------------------------------------------
(* One lemma per action: it preserves the invariant. *)

LEMMA InitInv == Init => Inv
<1> SUFFICES ASSUME Init PROVE Inv
  OBVIOUS
<1>1. TypeOK
  <2>1. at \in [Threads -> Places] /\ call \in [Threads -> Calls]
    BY DEF Init, Places, Calls
  <2>2. starts \in 0..MaxStarts /\ THR_thread_count \in Nat /\ strays \in Nat
    BY ClientAssumption DEF Init
  <2> QED
    BY <2>1, <2>2 DEF Init, TypeOK, Lives
<1>2. Located /\ Actors /\ Settled /\ Rising /\ Falling
  BY DEF Init, Located, Actors, Settled, Rising, Falling
<1>3. Counted = {}
  BY DEF Init, Counted
<1>4. Entitled
  BY DEF Init, Entitled
<1>5. CountIsThreads
  BY <1>3, FS_EmptySet DEF Init, CountIsThreads
<1> QED
  BY <1>1, <1>2, <1>4, <1>5 DEF Inv

LEMMA MysqlInitStep ==
  ASSUME Orderly, Inv, NEW t \in Threads, MysqlInit(t)
  PROVE  Inv'
<1> USE ClientAssumption DEF Inv
<1> USE DEF MysqlInit, MayInit, flags
<1>0. \/ /\ life = "up" /\ mysql_client_init /\ Moved(t, "lookup", "later")
      \/ /\ life = "down" /\ ~mysql_client_init /\ Moved(t, "flag", "first")
  BY Enters DEF Settled, Places, Calls
<1>1. TypeOK'
  BY <1>0 DEF Moved, TypeOK, Lives
<1>2. Located'
  BY <1>0 DEF Moved, Located
<1>3. Actors'
  <2>1. \A u \in Threads \ {t} : call[u] \notin {"first", "server_end"}
    BY DEF Actors
  <2>2. life = "down" => Alone(t)
    BY DEF Actors, Located, Alone
  <2>3. CASE life = "up"
    BY <2>3, <1>0 DEF Moved, Actors
  <2>4. CASE life = "down"
    BY <2>2, <1>0 DEF Moved, Actors, Alone
  <2> QED
    BY <2>3, <2>4
<1>4. Settled'
  BY DEF Settled
<1>5. Rising'
  BY <1>0 DEF Moved, Settled, Rising
<1>6. Falling'
  BY <1>0 DEF Moved, Falling
<1>7. Counted' = Counted
  BY <1>0 DEF Moved, Counted
<1>8. Entitled'
  BY <1>0, <1>7 DEF Moved, Entitled
<1>9. CountIsThreads'
  BY <1>7, SameCount
<1> QED
  BY <1>1, <1>2, <1>3, <1>4, <1>5, <1>6, <1>8, <1>9

LEMMA SetFlagStep ==
  ASSUME Orderly, Inv, NEW t \in Threads, SetFlag(t)
  PROVE  Inv'
<1> USE ClientAssumption DEF Inv
<1> USE DEF SetFlag, flags
<1>0. Moved(t, "my_init", call[t])
  BY Goes DEF Places
<1>1. TypeOK'
  BY <1>0 DEF Moved, TypeOK
<1>2. Located'
  BY <1>0 DEF Moved, Located
<1>3. Actors'
  BY DEF Actors, Alone
<1>4. Settled'
  BY DEF Located, Actors, Settled, Rising
<1>5. Rising'
  BY <1>0 DEF Moved, Located, Actors, Alone, Rising
<1>6. Falling'
  BY DEF Located, Actors, Falling
<1>7. Counted' = Counted
  BY <1>0 DEF Moved, Counted
<1>8. Entitled'
  BY <1>0, <1>7 DEF Moved, Entitled
<1>9. CountIsThreads'
  BY <1>7, SameCount
<1> QED
  BY <1>1, <1>2, <1>3, <1>4, <1>5, <1>6, <1>8, <1>9

LEMMA MyInitStep ==
  ASSUME Orderly, Inv, NEW t \in Threads, MyInit(t)
  PROVE  Inv'
<1> USE ClientAssumption DEF Inv
<1> USE DEF MyInit, flags
<1>0. call[t] = "first" /\ ~my_init_done /\ Moved(t, "global", "first")
  BY Goes DEF Located, Rising, Places
<1>1. TypeOK'
  BY <1>0 DEF Moved, TypeOK
<1>2. Located'
  BY <1>0 DEF Moved, Located
<1>3. Actors'
  BY DEF Actors, Alone
<1>4. Settled'
  BY <1>0 DEF Settled, Rising
<1>5. Rising'
  BY <1>0 DEF Moved, Actors, Alone, Rising
<1>6. Falling'
  BY <1>0 DEF Actors, Falling
<1>7. Counted' = Counted
  BY <1>0 DEF Moved, Counted
<1>8. Entitled'
  BY <1>0, <1>7 DEF Moved, Entitled
<1>9. CountIsThreads'
  BY <1>7, SameCount
<1> QED
  BY <1>1, <1>2, <1>3, <1>4, <1>5, <1>6, <1>8, <1>9

LEMMA CreateKeyStep ==
  ASSUME Orderly, Inv, NEW t \in Threads, CreateKey(t)
  PROVE  Inv'
<1> USE ClientAssumption DEF Inv
<1> USE DEF CreateKey, flags
<1>0. \/ key' = TRUE /\ variable' = {} /\ life' = life /\ Moved(t, "mutexes", "first")
      \/ key' = key /\ variable' = variable /\ life' = "failed" /\ Moved(t, "idle", "none")
  <2>1. call[t] = "first"
    BY DEF Located
  <2>2. CASE key' = TRUE /\ variable' = {} /\ Goto(t, "mutexes") /\ UNCHANGED <<call, life>>
    <3>1. Moved(t, "mutexes", call[t])
      BY <2>2, Goes DEF Places
    <3> QED
      BY <2>1, <2>2, <3>1
  <2>3. CASE Return(t) /\ life' = "failed" /\ UNCHANGED <<key, variable>>
    BY <2>3, Enters DEF Return, Places, Calls
  <2> QED
    BY <2>2, <2>3
<1>1. TypeOK'
  BY <1>0 DEF Moved, TypeOK, Lives
<1>2. Located'
  BY <1>0 DEF Moved, Located
<1>3. Actors'
  BY <1>0 DEF Moved, Located, Actors, Alone
<1>4. Settled'
  BY DEF Located, Actors, Settled
<1>5. Rising'
  BY <1>0 DEF Moved, Located, Actors, Alone, Rising
<1>6. Falling'
  BY <1>0 DEF Moved, Actors, Falling
<1>7. Counted' = Counted
  BY <1>0 DEF Moved, Rising, Counted
<1>8. Entitled'
  BY <1>0, <1>7 DEF Moved, Rising, Entitled
<1>9. CountIsThreads'
  BY <1>7, SameCount
<1> QED
  BY <1>1, <1>2, <1>3, <1>4, <1>5, <1>6, <1>8, <1>9

LEMMA InitMutexesStep ==
  ASSUME Orderly, Inv, NEW t \in Threads, InitMutexes(t)
  PROVE  Inv'
<1> USE ClientAssumption DEF Inv
<1> USE DEF InitMutexes, flags
<1>0. call[t] = "first" /\ Moved(t, "lookup", "first")
  BY Goes DEF Located, Places
<1>1. TypeOK'
  BY <1>0 DEF Moved, TypeOK
<1>2. Located'
  BY <1>0 DEF Moved, Located
<1>3. Actors'
  BY DEF Actors, Alone
<1>4. Settled'
  BY DEF Settled
<1>5. Rising'
  BY <1>0 DEF Moved, Rising
<1>6. Falling'
  BY <1>0 DEF Actors, Falling
<1>7. Counted' = Counted
  BY <1>0 DEF Moved, Counted
<1>8. Entitled'
  BY <1>0, <1>7 DEF Moved, Entitled, AllMutexes
<1>9. CountIsThreads'
  BY <1>7, SameCount
<1> QED
  BY <1>1, <1>2, <1>3, <1>4, <1>5, <1>6, <1>8, <1>9

LEMMA LookupStep ==
  ASSUME Orderly, Inv, NEW t \in Threads, Lookup(t)
  PROVE  Inv'
<1> USE ClientAssumption DEF Inv
<1> USE DEF Lookup, Known, flags
<1>0. /\ key /\ mutexes = AllMutexes
      /\ \/ t \in variable /\ variable' = variable /\ Moved(t, "inited", call[t])
         \/ t \notin variable /\ variable' = variable \cup {t} /\ Moved(t, "count", call[t])
         \/ variable' = variable /\ call[t] = "first" /\ Moved(t, "wait", "first")
         \/ variable' = variable /\ call[t] = "later" /\ Moved(t, "idle", "none")
  BY Goes, Enters DEF Return, Located, Actors, Settled, Rising, Places, Calls
<1>1. TypeOK'
  BY <1>0 DEF Moved, TypeOK
<1>2. Located'
  BY <1>0 DEF Moved, Located
<1>3. Actors'
  BY <1>0 DEF Moved, Actors, Alone
<1>4. Settled'
  BY DEF Settled
<1>5. Rising'
  BY <1>0 DEF Moved, Located, Actors, Alone, Rising
<1>6. Falling'
  BY <1>0 DEF Moved, Falling
<1>7. Counted' = Counted
  BY <1>0 DEF Moved, Counted
<1>8. Entitled'
  BY <1>0, <1>7 DEF Moved, Entitled
<1>9. CountIsThreads'
  BY <1>7, SameCount
<1> QED
  BY <1>1, <1>2, <1>3, <1>4, <1>5, <1>6, <1>8, <1>9

LEMMA CountStep ==
  ASSUME Orderly, Inv, NEW t \in Threads, Count(t)
  PROVE  Inv'
<1> USE ClientAssumption DEF Inv
<1> USE DEF Count, flags
<1>0. /\ mutexes = AllMutexes
      /\ Moved(t, "inited", call[t]) /\ THR_thread_count' = THR_thread_count + 1
  <2>1. mutexes = AllMutexes
    BY DEF Located, Actors, Settled, Rising
  <2>2. Goto(t, "inited") /\ THR_thread_count' = THR_thread_count + 1 /\ call' = call
    BY <2>1 DEF AllMutexes
  <2> QED
    BY <2>1, <2>2, Goes DEF Places
<1>1. TypeOK'
  BY <1>0 DEF Moved, TypeOK
<1>2. Located'
  BY <1>0 DEF Moved, Located
<1>3. Actors'
  BY DEF Actors, Alone
<1>4. Settled'
  BY DEF Settled
<1>5. Rising'
  BY <1>0 DEF Moved, Rising
<1>6. Falling'
  BY DEF Located, Actors, Falling
<1>7. t \notin Counted /\ Counted' = Counted \cup {t}
  <2>1. t \notin Counted
    BY DEF Counted
  <2>2. \A u \in Threads : u \in Counted' <=> u \in Counted \/ u = t
    BY <1>0 DEF Moved, Entitled, Counted
  <2> QED
    BY <2>2 DEF Counted
<1>8. Entitled'
  BY <1>0 DEF Moved, Located, Actors, Rising, Entitled
<1>9. CountIsThreads'
  <2>1. Cardinality(Counted') = Cardinality(Counted) + 1
    BY <1>7, CountedFinite, FS_AddElement
  <2> QED
    BY <1>0, <2>1, CountedFinite DEF CountIsThreads, TypeOK
<1> QED
  BY <1>1, <1>2, <1>3, <1>4, <1>5, <1>6, <1>8, <1>9

LEMMA InitedStep ==
  ASSUME Orderly, Inv, NEW t \in Threads, Inited(t)
  PROVE  Inv'
<1> USE ClientAssumption DEF Inv
<1> USE DEF Inited, flags
<1>0. Moved(t, "idle", "none")
  BY Enters DEF Return, Places, Calls
<1>1. TypeOK'
  BY <1>0 DEF Moved, TypeOK, Lives
<1>2. Located'
  BY <1>0 DEF Moved, Located
<1>3. Actors'
  BY <1>0 DEF Moved, Actors, Alone
<1>4. Settled'
  BY DEF Located, Actors, Settled, Rising
<1>5. Rising'
  BY <1>0 DEF Moved, Rising
<1>6. Falling'
  BY <1>0 DEF Moved, Falling
<1>7. Counted' = Counted
  <2>1. \A u \in Threads : u \in Counted' <=> u \in Counted
    BY <1>0 DEF Moved, Counted
  <2> QED
    BY <2>1 DEF Counted
<1>8. Entitled'
  BY <1>0, <1>7 DEF Moved, Entitled
<1>9. CountIsThreads'
  BY <1>7, SameCount
<1> QED
  BY <1>1, <1>2, <1>3, <1>4, <1>5, <1>6, <1>8, <1>9

LEMMA MysqlCloseStep ==
  ASSUME Orderly, Inv, NEW t \in Threads, MysqlClose(t)
  PROVE  Inv'
<1> USE ClientAssumption DEF Inv
<1> USE DEF MysqlClose, flags
<1>0. at' = at /\ call' = call
  OBVIOUS
<1>1. TypeOK'
  BY DEF TypeOK
<1>2. Located'
  BY DEF Located
<1>3. Actors'
  BY DEF Actors, Alone
<1>4. Settled'
  BY DEF Settled
<1>5. Rising'
  BY DEF Rising
<1>6. Falling'
  BY DEF Falling
<1>7. Counted' = Counted
  BY DEF Counted
<1>8. Entitled'
  BY <1>7 DEF Entitled
<1>9. CountIsThreads'
  BY <1>7, SameCount
<1> QED
  BY <1>1, <1>2, <1>3, <1>4, <1>5, <1>6, <1>8, <1>9

LEMMA MysqlThreadEndStep ==
  ASSUME Orderly, Inv, NEW t \in Threads, MysqlThreadEnd(t)
  PROVE  Inv'
<1> USE ClientAssumption DEF Inv
<1> USE DEF MysqlThreadEnd, MayEndThread, Known, flags
<1>0. \/ key /\ t \in variable /\ Moved(t, "uncount", "thread_end")
      \/ ~(key /\ t \in variable) /\ Moved(t, "forget", "thread_end")
      \/ ~key /\ Moved(t, "no_key", "thread_end")
  <2>1. CASE Enter(t, IF key /\ Known(t) THEN "uncount" ELSE "forget", "thread_end")
    <3>1. CASE key /\ Known(t)
      BY <2>1, <3>1, Enters DEF Places, Calls
    <3>2. CASE ~(key /\ Known(t))
      BY <2>1, <3>2, Enters DEF Places, Calls
    <3> QED
      BY <3>1, <3>2
  <2>2. CASE ~key /\ Enter(t, "no_key", "thread_end")
    BY <2>2, Enters DEF Places, Calls
  <2> QED
    BY <2>1, <2>2 DEF LeaveThread
<1>1. TypeOK'
  BY <1>0 DEF Moved, TypeOK
<1>2. Located'
  BY <1>0 DEF Moved, Located
<1>3. Actors'
  BY <1>0 DEF Moved, Actors, Alone
<1>4. Settled'
  BY DEF Settled
<1>5. Rising'
  BY <1>0 DEF Moved, Rising
<1>6. Falling'
  BY <1>0 DEF Moved, Falling
<1>7. Counted' = Counted
  <2>1. ~key => variable = {}
    BY DEF Entitled, TypeOK
  <2>2. \A u \in Threads : u \in Counted' <=> u \in Counted
    BY <1>0, <2>1 DEF Moved, Counted
  <2> QED
    BY <2>2 DEF Counted
<1>8. Entitled'
  <2>1. \A u \in Threads : at'[u] = "delete_all" => Counted' = {}
    BY <1>0, <1>7 DEF Moved, Entitled
  <2> QED
    BY <1>0, <2>1 DEF Moved, Entitled, AllMutexes
<1>9. CountIsThreads'
  BY <1>7, SameCount
<1> QED
  BY <1>1, <1>2, <1>3, <1>4, <1>5, <1>6, <1>8, <1>9

LEMMA MysqlServerEndStep ==
  ASSUME Orderly, Inv, NEW t \in Threads, MysqlServerEnd(t)
  PROVE  Inv'
<1> USE ClientAssumption DEF Inv
<1> USE DEF MysqlServerEnd, MayEndServer, OutOf, Known, flags
<1>0. /\ life = "up" /\ key /\ my_init_done
      /\ \/ t \in variable /\ Moved(t, "uncount", "server_end")
         \/ t \notin variable /\ Moved(t, "forget", "server_end")
  <2>1. life = "up" /\ key /\ my_init_done
    BY DEF Settled
  <2>2. Enter(t, IF Known(t) THEN "uncount" ELSE "forget", "server_end")
    BY <2>1 DEF LeaveThread
  <2>3. CASE Known(t)
    BY <2>1, <2>2, <2>3, Enters DEF Places, Calls
  <2>4. CASE ~Known(t)
    BY <2>1, <2>2, <2>4, Enters DEF Places, Calls
  <2> QED
    BY <2>3, <2>4
<1>1. TypeOK'
  BY <1>0 DEF Moved, TypeOK, Lives
<1>2. Located'
  BY <1>0 DEF Moved, Located
<1>3. Actors'
  <2>1. \A u \in Threads \ {t} : call[u] \in {"none", "thread_end"}
    BY DEF Actors, Located
  <2> QED
    BY <1>0, <2>1 DEF Moved, Actors, Alone
<1>4. Settled'
  <2>1. handles = {}
    BY DEF TypeOK
  <2> QED
    BY <2>1 DEF Settled
<1>5. Rising'
  BY <1>0 DEF Moved, Rising
<1>6. Falling'
  BY <1>0 DEF Moved, Settled, Falling
<1>7. Counted' = Counted
  BY <1>0 DEF Moved, Counted
<1>8. Entitled'
  BY <1>0 DEF Moved, Settled, Entitled, AllMutexes
<1>9. CountIsThreads'
  BY <1>7, SameCount
<1> QED
  BY <1>1, <1>2, <1>3, <1>4, <1>5, <1>6, <1>8, <1>9

LEMMA UncountStep ==
  ASSUME Orderly, Inv, NEW t \in Threads, Uncount(t)
  PROVE  Inv'
<1> USE ClientAssumption DEF Inv
<1> USE DEF Uncount, flags
<1>0. THR_thread_count' = THR_thread_count - 1 /\ Moved(t, "forget", call[t])
  BY Goes DEF Entitled, Places
<1>1. TypeOK'
  <2>1. THR_thread_count' \in Nat
    <3>1. Counted # {}
      BY DEF Counted
    <3>2. Cardinality(Counted) \in Nat \ {0}
      BY <3>1, CountedFinite
    <3> QED
      BY <1>0, <3>2 DEF TypeOK, CountIsThreads
  <2> QED
    BY <1>0, <2>1 DEF Moved, TypeOK
<1>2. Located'
  BY <1>0 DEF Moved, Located
<1>3. Actors'
  BY DEF Actors, Alone
<1>4. Settled'
  BY DEF Settled
<1>5. Rising'
  BY <1>0 DEF Moved, Located, Rising
<1>6. Falling'
  BY <1>0 DEF Moved, Falling
<1>7. t \in Counted /\ Counted' = Counted \ {t}
  <2>1. t \in Counted
    BY DEF Counted
  <2>2. \A u \in Threads : u \in Counted' <=> u \in Counted /\ u # t
    BY <1>0 DEF Moved, Counted
  <2> QED
    BY <2>1, <2>2 DEF Counted
<1>8. Entitled'
  BY <1>0, <1>7 DEF Moved, Entitled
<1>9. CountIsThreads'
  <2>1. Cardinality(Counted') = Cardinality(Counted) - 1
    BY <1>7, CountedFinite, FS_RemoveElement
  <2> QED
    BY <1>0, <2>1, CountedFinite DEF CountIsThreads, TypeOK
<1> QED
  BY <1>1, <1>2, <1>3, <1>4, <1>5, <1>6, <1>8, <1>9

LEMMA ForgetStep ==
  ASSUME Orderly, Inv, NEW t \in Threads, Forget(t)
  PROVE  Inv'
<1> USE ClientAssumption DEF Inv
<1> USE DEF Forget, flags
<1>0. /\ variable' = variable \ {t}
      /\ \/ call[t] = "server_end" /\ key /\ Moved(t, "wait", "server_end")
         \/ call[t] = "thread_end" /\ Moved(t, "idle", "none")
         \/ call[t] = "thread_end" /\ Moved(t, "no_key", "thread_end")
  <2>1. call[t] \in {"server_end", "thread_end"}
    BY DEF Located
  <2>2. CASE call[t] = "server_end"
    <3>1. key /\ AfterThread = "wait"
      BY <2>2 DEF Falling, AfterThread, Settled
    <3>2. Goto(t, "wait") /\ call' = call
      BY <2>2, <3>1 DEF ThreadEnded
    <3> QED
      BY <2>2, <3>1, <3>2, Goes DEF Places
  <2>3. CASE call[t] = "thread_end"
    <3>1. Return(t) \/ (Goto(t, "no_key") /\ call' = call)
      BY <2>3 DEF ThreadEnded
    <3> QED
      BY <2>3, <3>1, Goes, Enters DEF Return, Places, Calls
  <2> QED
    BY <2>1, <2>2, <2>3
<1>1. TypeOK'
  BY <1>0 DEF Moved, TypeOK
<1>2. Located'
  BY <1>0 DEF Moved, Located
<1>3. Actors'
  BY <1>0 DEF Moved, Actors, Alone
<1>4. Settled'
  BY DEF Settled
<1>5. Rising'
  <2> SUFFICES ASSUME NEW u \in Threads, call'[u] = "first"
               PROVE  /\ at'[u] = at[u] /\ call[u] = "first" /\ u # t
                      /\ at[u] \in {"count", "inited"} => variable' = {u}
                      /\ at[u] \notin {"count", "inited"} => variable' = {}
    BY DEF Rising
  <2>1. u # t /\ at'[u] = at[u] /\ call[u] = "first"
    BY <1>0 DEF Moved
  <2> QED
    BY <2>1 DEF Rising
<1>6. Falling'
  BY <1>0 DEF Moved, Falling
<1>7. Counted' = Counted
  <2>1. \A u \in Threads : u \in Counted' <=> u \in Counted
    BY <1>0 DEF Moved, Counted
  <2> QED
    BY <2>1 DEF Counted
<1>8. Entitled'
  BY <1>0, <1>7 DEF Moved, Entitled
<1>9. CountIsThreads'
  BY <1>7, SameCount
<1> QED
  BY <1>1, <1>2, <1>3, <1>4, <1>5, <1>6, <1>8, <1>9

LEMMA WaitStep ==
  ASSUME Orderly, Inv, NEW t \in Threads, Wait(t)
  PROVE  Inv'
<1> USE ClientAssumption DEF Inv
<1> USE DEF Wait, flags
<1>0. \/ THR_thread_count > 0 /\ Moved(t, "delete", call[t])
      \/ THR_thread_count = 0 /\ Moved(t, "delete_all", call[t])
  <2>1. mutexes = AllMutexes
    BY DEF Located, Rising, Falling
  <2>2. \/ THR_thread_count > 0 /\ Goto(t, "delete")
        \/ THR_thread_count = 0 /\ Goto(t, "delete_all")
    <3>1. "threads" \in mutexes
      BY <2>1 DEF AllMutexes
    <3>2. Goto(t, IF THR_thread_count > 0 THEN "delete" ELSE "delete_all")
      BY <3>1
    <3>3. THR_thread_count \in Nat
      BY DEF TypeOK
    <3>4. THR_thread_count > 0 \/ THR_thread_count = 0
      BY <3>3
    <3>5. THR_thread_count = 0 => ~(THR_thread_count > 0)
      OBVIOUS
    <3>6. CASE THR_thread_count > 0
      <4>1. Goto(t, "delete")
        BY <3>2, <3>6
      <4> QED
        BY <3>6, <4>1
    <3>7. CASE THR_thread_count = 0
      <4>1. Goto(t, "delete_all")
        BY <3>2, <3>7
      <4> QED
        BY <3>7, <4>1
    <3> QED
      BY <3>4, <3>6, <3>7
  <2>3. call' = call
    OBVIOUS
  <2> QED
    BY <2>2, Goes DEF Places
<1>1. TypeOK'
  BY <1>0 DEF Moved, TypeOK
<1>2. Located'
  BY <1>0 DEF Moved, Located
<1>3. Actors'
  BY DEF Actors, Alone
<1>4. Settled'
  BY DEF Settled
<1>5. Rising'
  BY <1>0 DEF Moved, Rising
<1>6. Falling'
  BY <1>0 DEF Moved, Falling
<1>7. Counted' = Counted
  BY <1>0 DEF Moved, Counted
<1>8. Entitled'
  <2>1. THR_thread_count = 0 => Counted = {}
    <3>1. THR_thread_count = Cardinality(Counted) + strays /\ strays \in Nat
      BY DEF CountIsThreads, TypeOK
    <3>2. THR_thread_count = 0 => Cardinality(Counted) = 0
      BY <3>1, CountedFinite
    <3> QED
      BY <3>2, CountedFinite
  <2>2. \A u \in Threads : at'[u] = "delete_all" => Counted' = {}
    BY <1>0, <1>7, <2>1 DEF Moved, Entitled
  <2> QED
    BY <1>0, <2>2 DEF Moved, Entitled
<1>9. CountIsThreads'
  BY <1>7, SameCount
<1> QED
  BY <1>1, <1>2, <1>3, <1>4, <1>5, <1>6, <1>8, <1>9

LEMMA DeleteStep ==
  ASSUME Orderly, Inv, NEW t \in Threads, Delete(t)
  PROVE  Inv'
<1> USE ClientAssumption DEF Inv
<1> USE DEF Delete, KeptMutexes, flags
<1>0. \/ call[t] = "first" /\ life' = "failed" /\ my_init_done' = TRUE /\ Moved(t, "idle", "none")
      \/ /\ call[t] = "server_end" /\ life' = life /\ my_init_done' = FALSE
         /\ Moved(t, "done", "server_end")
  BY Goes, Enters DEF InitDoneAfter, Return, Located, Places, Calls
<1>1. TypeOK'
  <2>1. Forgotten \subseteq Threads
    BY DEF Forgotten, TypeOK
  <2>2. Cardinality(Forgotten) \in Nat
    BY <2>1, FS_Subset, FS_CardinalityType
  <2>3. strays' = strays + Cardinality(Forgotten) /\ strays \in Nat
    BY DEF TypeOK
  <2>4. strays' \in Nat
    BY <2>2, <2>3
  <2> QED
    BY <1>0, <2>4 DEF Moved, TypeOK, Lives, AllMutexes
<1>2. Located'
  BY <1>0 DEF Moved, Located
<1>3. Actors'
  BY <1>0 DEF Moved, Actors, Alone
<1>4. Settled'
  BY <1>0 DEF Actors, Settled
<1>5. Rising'
  BY <1>0 DEF Moved, Actors, Alone, Rising
<1>6. Falling'
  BY <1>0 DEF Moved, Actors, Alone, Falling
<1>7. /\ Counted = Counted' \cup Forgotten /\ Counted' \cap Forgotten = {}
      /\ Counted' \subseteq Threads /\ Forgotten \subseteq Threads
  <2>1. \A u \in Threads : u \in Counted' <=> at[u] = "uncount"
    BY <1>0 DEF Moved, Counted
  <2>2. \A u \in Threads : at[u] # "count"
    BY DEF Actors, Alone, Located
  <2> QED
    BY <2>1 DEF Counted, Forgotten, TypeOK
<1>8. Entitled'
  <2>1. handles = {}
    BY DEF Actors, Settled, Located
  <2>2. \A u \in Threads : at'[u] \notin {"count", "inited", "delete_all"}
    BY <1>0 DEF Moved, Actors, Alone, Located
  <2>3. ASSUME NEW u \in Threads, at'[u] = "uncount" PROVE "threads" \in mutexes'
    <3>1. u \in Counted
      BY <1>0, <2>3 DEF Moved, Counted
    <3> QED
      BY <3>1 DEF Entitled
  <2> QED
    BY <2>1, <2>2, <2>3 DEF Entitled
<1>9. CountIsThreads'
  <2>1. /\ IsFiniteSet(Counted') /\ Cardinality(Counted') \in Nat
        /\ IsFiniteSet(Forgotten) /\ Cardinality(Forgotten) \in Nat
    BY <1>7, FS_Subset, FS_CardinalityType
  <2>2. Cardinality(Counted) = Cardinality(Counted') + Cardinality(Forgotten)
    <3>1. Cardinality(Counted' \cup Forgotten)
            = Cardinality(Counted') + Cardinality(Forgotten) - Cardinality(Counted' \cap Forgotten)
      BY <2>1, FS_Union
    <3>2. Cardinality(Counted' \cap Forgotten) = 0
      BY <1>7, FS_EmptySet
    <3> QED
      BY <1>7, <2>1, <3>1, <3>2
  <2>3. /\ strays' = strays + Cardinality(Forgotten) /\ strays \in Nat
        /\ THR_thread_count' = THR_thread_count
        /\ THR_thread_count = Cardinality(Counted) + strays
    BY DEF CountIsThreads, TypeOK
  <2>4. THR_thread_count' = Cardinality(Counted') + strays'
    BY <2>1, <2>2, <2>3
  <2> QED
    BY <2>4 DEF CountIsThreads
<1> QED
  BY <1>1, <1>2, <1>3, <1>4, <1>5, <1>6, <1>8, <1>9

LEMMA ServerEndedStep ==
  ASSUME Orderly, Inv, NEW t \in Threads, ServerEnded(t)
  PROVE  Inv'
<1> USE ClientAssumption DEF Inv
<1> USE DEF ServerEnded, flags
<1>0. Moved(t, "idle", "none")
  BY Enters DEF Return, Places, Calls
<1>1. TypeOK'
  BY <1>0 DEF Moved, TypeOK, Lives
<1>2. Located'
  BY <1>0 DEF Moved, Located
<1>3. Actors'
  BY <1>0 DEF Moved, Located, Actors, Alone
<1>4. Settled'
  BY DEF Located, Settled, Falling
<1>5. Rising'
  BY <1>0 DEF Moved, Located, Actors, Rising
<1>6. Falling'
  BY <1>0 DEF Moved, Falling
<1>7. Counted' = Counted
  BY <1>0 DEF Moved, Counted
<1>8. Entitled'
  BY <1>0, <1>7 DEF Moved, Entitled
<1>9. CountIsThreads'
  BY <1>7, SameCount
<1> QED
  BY <1>1, <1>2, <1>3, <1>4, <1>5, <1>6, <1>8, <1>9

LEMMA ThreadExitStep ==
  ASSUME Orderly, Inv, NEW t \in Threads, ThreadExit(t)
  PROVE  Inv'
<1> USE ClientAssumption DEF Inv
<1> USE DEF ThreadExit, OutOf, flags
<1>0. at' = at /\ call' = call
  OBVIOUS
<1>1. TypeOK'
  BY DEF TypeOK
<1>2. Located'
  BY DEF Located
<1>3. Actors'
  BY DEF Actors, Alone
<1>4. Settled'
  BY DEF Settled
<1>5. Rising'
  BY DEF Rising
<1>6. Falling'
  BY DEF Falling
<1>7. t \in Counted /\ Counted' = Counted \ {t}
  <2>1. t \in Counted
    BY DEF Counted
  <2>2. \A u \in Threads : u \in Counted' <=> u \in Counted /\ u # t
    BY DEF Counted
  <2> QED
    BY DEF Counted
<1>8. Entitled'
  BY <1>7 DEF Entitled
<1>9. CountIsThreads'
  <2>1. Cardinality(Counted') = Cardinality(Counted) - 1
    BY <1>7, CountedFinite, FS_RemoveElement
  <2> QED
    BY <2>1, CountedFinite DEF CountIsThreads, TypeOK
<1> QED
  BY <1>1, <1>2, <1>3, <1>4, <1>5, <1>6, <1>8, <1>9

-----------------------------------------------------------------------------
LEMMA NextInv ==
  ASSUME Orderly, Inv, [Next]_vars
  PROVE  Inv'
<1>1. CASE UNCHANGED vars
  BY <1>1 DEF vars, flags, Inv, TypeOK, Located, Actors, Alone, Settled, Rising, Falling,
              Entitled, CountIsThreads, Counted
<1>2. ASSUME NEW t \in Threads, Step(t) PROVE Inv'
  BY <1>2, SetFlagStep, MyInitStep, CreateKeyStep, InitMutexesStep, LookupStep, CountStep,
     InitedStep, UncountStep, ForgetStep, WaitStep, DeleteStep, ServerEndedStep DEF Step
<1>3. ASSUME NEW t \in Threads,
             \/ MysqlInit(t) \/ MysqlClose(t) \/ MysqlThreadEnd(t)
             \/ MysqlServerEnd(t) \/ ThreadExit(t)
      PROVE  Inv'
  BY <1>3, MysqlInitStep, MysqlCloseStep, MysqlThreadEndStep, MysqlServerEndStep, ThreadExitStep
<1> QED
  BY <1>1, <1>2, <1>3 DEF Next

THEOREM Invariance == ASSUME Orderly PROVE Spec => []Inv
<1>1. Init => Inv
  BY InitInv
<1>2. Inv /\ [Next]_vars => Inv'
  BY NextInv
<1> QED
  BY <1>1, <1>2, PTL DEF Spec

(* Type correctness, for any finite set of threads and any bounds. *)
THEOREM TypeCorrect == ASSUME Orderly PROVE Spec => []TypeOK
<1>1. Inv => TypeOK
  BY DEF Inv
<1> QED
  BY <1>1, Invariance, PTL

(* In an orderly program no thread uses a mutex that does not exist, and   *)
(* the key that does not exist is used by no call but mysql_thread_end,    *)
(* which comes late or is overtaken by the end of the library              *)
(* (my_thread_init, my_thread_end, my_thread_global_end).                  *)
THEOREM LateOnlyAstray == ASSUME Orderly PROVE Spec => []OnlyLateAstray
<1>1. Inv => OnlyLateAstray
  BY DEF Inv, Located, OnlyLateAstray
<1> QED
  BY <1>1, Invariance, PTL

(* In an orderly program a handle is returned by mysql_init only when the  *)
(* library and the calling thread are initialised, after any number of     *)
(* starts and ends of the library.                                         *)
THEOREM HandlesReady == ASSUME Orderly PROVE Spec => []ReadyWhenHanded
<1>1. Inv => ReadyWhenHanded
  BY DEF Inv, TypeOK, Settled, Entitled, ReadyWhenHanded, Equipped
<1> QED
  BY <1>1, Invariance, PTL

(* In an orderly program THR_thread_count counts each thread with a        *)
(* variable once, and the threads that exited without mysql_thread_end.    *)
THEOREM CountCorrect == ASSUME Orderly PROVE Spec => []CountIsThreads
<1>1. Inv => CountIsThreads
  BY DEF Inv
<1> QED
  BY <1>1, Invariance, PTL
=============================================================================
