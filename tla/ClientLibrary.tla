--------------------------- MODULE ClientLibrary ---------------------------
(***************************************************************************)
(* How the MySQL client library comes up and goes down under the driver:   *)
(* mysql_init, called by -[NGMySQLConnection initDriverWithURL:...] in     *)
(* whichever thread opens a connection, and mysql_thread_end and           *)
(* mysql_server_end, which a program may call itself.                      *)
(*                                                                         *)
(* The first mysql_init starts the library: it creates the key of the      *)
(* threads' variables and the mutexes.  Later ones only give their thread  *)
(* its variable.  Whether a call is the first is decided by a flag without *)
(* a lock, so each access to what threads share is a step here.  Creating  *)
(* the key and allocating memory may fail, and threads may exit without a  *)
(* word, in which case the end of the library waits for them in vain until *)
(* its timer runs out.                                                     *)
(*                                                                         *)
(* A thread that uses a key or a mutex that does not exist may go astray   *)
(* ("no_key", "no_mutex"): what it does is undefined and not followed any  *)
(* further.  my_thread_end makes nothing of the result of its two uses of  *)
(* the key, so with systems that only refuse them it goes on.              *)
(***************************************************************************)
EXTENDS Integers, FiniteSets

CONSTANTS Threads,
          MaxStarts,     \* bound on the starts of the library
          MaxStrays,     \* bound on the threads that exit without a word
          Orderly        \* the program keeps to the rules in the comments

ASSUME ClientAssumption ==
         /\ IsFiniteSet(Threads)
         /\ MaxStarts \in Nat /\ MaxStrays \in Nat /\ Orderly \in BOOLEAN

VARIABLES mysql_client_init, my_init_done, org_my_init_done,
          key,           \* THR_KEY_mysys names a key
          variable,      \* the threads whose value of the key is not NULL
          mutexes,       \* the mutexes that exist: THR_LOCK_threads, the others
          THR_thread_count,
          handles,       \* the threads that own a MYSQL handle
          at,            \* where each thread is in the library
          call,          \* the call that brought it there
          life,          \* history: what the library is doing
          starts,        \* history: calls that found the library down
          strays         \* history: threads counted that will never end

flags == <<mysql_client_init, my_init_done, org_my_init_done>>
vars == <<flags, key, variable, mutexes, THR_thread_count, handles, at, call,
          life, starts, strays>>

Places == {"idle", "flag", "my_init", "global", "mutexes", "lookup", "count",
           "inited", "uncount", "forget", "wait", "delete_all", "delete", "done",
           "no_key", "no_mutex"}
Calls == {"none", "first", "later", "thread_end", "server_end"}
Lives == {"down", "starting", "up", "ending", "failed"}
AllMutexes == {"threads", "others"}

Init == /\ mysql_client_init = FALSE /\ my_init_done = FALSE /\ org_my_init_done = FALSE
        /\ key = FALSE /\ variable = {} /\ mutexes = {} /\ THR_thread_count = 0
        /\ handles = {}
        /\ at = [t \in Threads |-> "idle"] /\ call = [t \in Threads |-> "none"]
        /\ life = "down" /\ starts = 0 /\ strays = 0

Goto(t, place) == at' = [at EXCEPT ![t] = place]
Enter(t, place, name) == Goto(t, place) /\ call' = [call EXCEPT ![t] = name]
Return(t) == Enter(t, "idle", "none")

-----------------------------------------------------------------------------
(* The rules.  Start: mysql_server_init is over "before doing any other    *)
(* calls", and an error is fatal.  End: no "other threads using the        *)
(* library", though some may be on their way out through mysql_thread_end. *)
(* That may be called at any time, and "multiple times for a thread".      *)
OutOf(t) == t \notin handles /\ at[t] \in {"idle", "uncount", "forget"}

MayInit(t) == at[t] = "idle" /\ (Orderly => life \in {"down", "up"})

MayEndThread(t) == at[t] = "idle" /\ t \notin handles

MayEndServer(t) ==
  at[t] = "idle" /\ (Orderly => life = "up" /\ \A u \in Threads : OutOf(u))

-----------------------------------------------------------------------------
(* mysql_init calls mysql_server_init, which reads the flag ...            *)
MysqlInit(t) ==
  /\ MayInit(t)
  /\ IF mysql_client_init
     THEN Enter(t, "lookup", "later") /\ UNCHANGED <<life, starts>>
     ELSE /\ starts < MaxStarts
          /\ Enter(t, "flag", "first")
          /\ life' = "starting" /\ starts' = starts + 1
  /\ UNCHANGED <<flags, key, variable, mutexes, THR_thread_count, handles, strays>>

(* ... and sets it before anything else is done.                           *)
SetFlag(t) ==
  /\ at[t] = "flag"
  /\ mysql_client_init' = TRUE /\ org_my_init_done' = my_init_done
  /\ Goto(t, "my_init")
  /\ UNCHANGED <<my_init_done, key, variable, mutexes, THR_thread_count, handles,
                 call, life, starts, strays>>

MyInit(t) ==
  /\ at[t] = "my_init"
  /\ my_init_done' = TRUE
  /\ Goto(t, IF my_init_done THEN "inited" ELSE "global")
  /\ UNCHANGED <<mysql_client_init, org_my_init_done, key, variable, mutexes,
                 THR_thread_count, handles, call, life, starts, strays>>

(* my_thread_global_init.  A new key has no values yet.  Without one, the  *)
(* call fails and leaves both flags set.                                   *)
CreateKey(t) ==
  /\ at[t] = "global"
  /\ \/ /\ key' = TRUE /\ variable' = {}
        /\ Goto(t, "mutexes") /\ UNCHANGED <<call, life>>
     \/ /\ Return(t) /\ life' = "failed"
        /\ UNCHANGED <<key, variable>>
  /\ UNCHANGED <<flags, mutexes, THR_thread_count, handles, starts, strays>>

InitMutexes(t) ==
  /\ at[t] = "mutexes"
  /\ mutexes' = AllMutexes
  /\ Goto(t, "lookup")
  /\ UNCHANGED <<flags, key, variable, THR_thread_count, handles, call, life,
                 starts, strays>>

(* my_thread_init: a thread that has its variable is done, another gets    *)
(* one, if there is memory.  When the first thread cannot have one, the    *)
(* library is taken down again (my_thread_global_end).                     *)
Known(t) == t \in variable

(* Mutant: the thread's variable is not looked at. *)
LookupAgain(t) ==
  /\ at[t] = "lookup" /\ key
  /\ variable' = variable \cup {t}
  /\ Goto(t, "count")
  /\ UNCHANGED <<flags, key, mutexes, THR_thread_count, handles, call, life, starts, strays>>

Lookup(t) ==
  /\ at[t] = "lookup"
  /\ IF ~key THEN Goto(t, "no_key") /\ UNCHANGED <<variable, call>>
     ELSE IF Known(t) THEN Goto(t, "inited") /\ UNCHANGED <<variable, call>>
     ELSE \/ /\ variable' = variable \cup {t}
             /\ Goto(t, "count") /\ UNCHANGED call
          \/ /\ IF call[t] = "first" THEN Goto(t, "wait") /\ UNCHANGED call
                                     ELSE Return(t)
             /\ UNCHANGED variable
  /\ UNCHANGED <<flags, key, mutexes, THR_thread_count, handles, life, starts, strays>>

Count(t) ==
  /\ at[t] = "count"
  /\ IF "threads" \in mutexes
     THEN Goto(t, "inited") /\ THR_thread_count' = THR_thread_count + 1
     ELSE Goto(t, "no_mutex") /\ UNCHANGED THR_thread_count
  /\ UNCHANGED <<flags, key, variable, mutexes, handles, call, life, starts, strays>>

(* The environment is there; the handle is allocated, or not.              *)
Inited(t) ==
  /\ at[t] = "inited"
  /\ handles' \in {handles, handles \cup {t}}
  /\ Return(t)
  /\ life' = IF call[t] = "first" THEN "up" ELSE life
  /\ UNCHANGED <<flags, key, variable, mutexes, THR_thread_count, starts, strays>>

(* mysql_close, from the dealloc of the connection.                        *)
MysqlClose(t) ==
  /\ at[t] = "idle" /\ t \in handles
  /\ handles' = handles \ {t}
  /\ UNCHANGED <<flags, key, variable, mutexes, THR_thread_count, at, call, life,
                 starts, strays>>

-----------------------------------------------------------------------------
(* my_thread_end up to the lock: a thread that finds no value of the key   *)
(* has nothing to free, and nothing to be counted for.                     *)
LeaveThread(t, name) ==
  \/ Enter(t, IF key /\ Known(t) THEN "uncount" ELSE "forget", name)
  \/ ~key /\ Enter(t, "no_key", name)

MysqlThreadEnd(t) ==
  /\ MayEndThread(t)
  /\ LeaveThread(t, "thread_end")
  /\ UNCHANGED <<flags, key, variable, mutexes, THR_thread_count, handles, life,
                 starts, strays>>

MysqlServerEnd(t) ==
  /\ MayEndServer(t)
  /\ mysql_client_init
  /\ life' = "ending"
  /\ IF org_my_init_done \/ my_init_done THEN LeaveThread(t, "server_end")
                                         ELSE Enter(t, "done", "server_end")
  /\ UNCHANGED <<flags, key, variable, mutexes, THR_thread_count, handles, starts, strays>>

(* The thread's variable is freed; the key still has it for a value.       *)
Uncount(t) ==
  /\ at[t] = "uncount"
  /\ IF "threads" \in mutexes
     THEN Goto(t, "forget") /\ THR_thread_count' = THR_thread_count - 1
     ELSE Goto(t, "no_mutex") /\ UNCHANGED THR_thread_count
  /\ UNCHANGED <<flags, key, variable, mutexes, handles, call, life, starts, strays>>

(* What mysql_server_end does after its thread's my_thread_end.            *)
AfterThread == IF org_my_init_done THEN "done" ELSE "wait"

ThreadEnded(t) ==
  IF call[t] = "server_end" THEN Goto(t, AfterThread) /\ UNCHANGED call ELSE Return(t)

(* Mutant: the variable is freed and stays set. *)
ForgetKeepingVariable(t) ==
  /\ at[t] = "forget"
  /\ ThreadEnded(t)
  /\ UNCHANGED <<flags, key, variable, mutexes, THR_thread_count, handles, life, starts, strays>>

(* The last step of my_thread_end is outside the lock, after the thread is *)
(* no longer counted: nobody waits with the key for it.                    *)
Forget(t) ==
  /\ at[t] = "forget"
  /\ variable' = variable \ {t}
  /\ \/ ThreadEnded(t)
     \/ ~key /\ Goto(t, "no_key") /\ UNCHANGED call
  /\ UNCHANGED <<flags, key, mutexes, THR_thread_count, handles, life, starts, strays>>

(* my_thread_global_end waits for the threads that have not ended, for a   *)
(* time (my_thread_end_wait_time).                                         *)
(* Mutant: the wait has no time limit. *)
WaitForEver(t) ==
  /\ at[t] = "wait" /\ THR_thread_count = 0
  /\ Goto(t, "delete_all")
  /\ UNCHANGED <<flags, key, variable, mutexes, THR_thread_count, handles, call,
                 life, starts, strays>>

Wait(t) ==
  /\ at[t] = "wait"
  /\ Goto(t, IF "threads" \notin mutexes THEN "no_mutex"
             ELSE IF THR_thread_count > 0 THEN "delete" ELSE "delete_all")
  /\ UNCHANGED <<flags, key, variable, mutexes, THR_thread_count, handles, call,
                 life, starts, strays>>

(* The threads that still have a variable lose it with the key, and if     *)
(* they are not on their way through my_thread_end, they stay counted.     *)
(* THR_LOCK_threads is kept for those that are about to end.               *)
Forgotten == {u \in variable : at[u] \notin {"count", "uncount", "forget"}}

(* Mutant: every mutex is destroyed, whether or not threads are left. *)
KeptMutexesNone(t) == {}

KeptMutexes(t) == IF at[t] = "delete_all" THEN {} ELSE {"threads"}

(* Mutant: the end of my_end does not reset my_init_done. *)
InitDoneAfterKept(t) == TRUE

InitDoneAfter(t) == call[t] = "first"

Delete(t) ==
  /\ at[t] \in {"delete_all", "delete"}
  /\ key' = FALSE /\ variable' = {}
  /\ mutexes' = KeptMutexes(t)
  /\ my_init_done' = InitDoneAfter(t)
  /\ strays' = strays + Cardinality(Forgotten)
  /\ IF call[t] = "first" THEN Return(t) /\ life' = "failed"
                          ELSE Goto(t, "done") /\ UNCHANGED <<call, life>>
  /\ UNCHANGED <<mysql_client_init, org_my_init_done, THR_thread_count, handles, starts>>

ServerEnded(t) ==
  /\ at[t] = "done"
  /\ mysql_client_init' = FALSE /\ org_my_init_done' = FALSE
  /\ life' = "down"
  /\ Return(t)
  /\ UNCHANGED <<my_init_done, key, variable, mutexes, THR_thread_count, handles,
                 starts, strays>>

(* A thread exits without mysql_thread_end, as every thread of a program   *)
(* that only knows the framework does; another takes its place.  The key   *)
(* has no destructor.                                                      *)
ThreadExit(t) ==
  /\ OutOf(t) /\ at[t] = "idle" /\ t \in variable
  /\ strays < MaxStrays
  /\ variable' = variable \ {t} /\ strays' = strays + 1
  /\ UNCHANGED <<flags, key, mutexes, THR_thread_count, handles, at, call, life, starts>>

-----------------------------------------------------------------------------
(* What a thread inside a call does next.                                  *)
Step(t) == \/ SetFlag(t) \/ MyInit(t) \/ CreateKey(t) \/ InitMutexes(t)
           \/ Lookup(t) \/ Count(t) \/ Inited(t)
           \/ Uncount(t) \/ Forget(t) \/ Wait(t) \/ Delete(t) \/ ServerEnded(t)

Next == \E t \in Threads : \/ Step(t)
                           \/ MysqlInit(t) \/ MysqlClose(t) \/ MysqlThreadEnd(t)
                           \/ MysqlServerEnd(t) \/ ThreadExit(t)

Spec == Init /\ [][Next]_vars

Fairness == \A t \in Threads : WF_vars(Step(t))

FairSpec == Spec /\ Fairness
-----------------------------------------------------------------------------
(* Type invariant. *)
TypeOK == /\ mysql_client_init \in BOOLEAN /\ my_init_done \in BOOLEAN
          /\ org_my_init_done \in BOOLEAN
          /\ key \in BOOLEAN /\ variable \subseteq Threads
          /\ mutexes \subseteq AllMutexes /\ THR_thread_count \in Nat
          /\ handles \subseteq Threads
          /\ at \in [Threads -> Places] /\ call \in [Threads -> Calls]
          /\ life \in Lives /\ starts \in 0..MaxStarts /\ strays \in Nat

(* No thread uses a mutex that does not exist, and none but one that calls *)
(* mysql_thread_end uses the key when there is none: not mysql_init, at    *)
(* any of its starts and after any of its failures, nor mysql_server_end.  *)
(* A thread that ends late, or that is counted off while another takes the *)
(* library down, can be left with a key that is deleted (my_thr_init.c:    *)
(* 365), but never with THR_LOCK_threads destroyed.                        *)
OnlyLateAstray ==
  \A t \in Threads : /\ at[t] # "no_mutex"
                     /\ at[t] = "no_key" => call[t] = "thread_end"

(* mysql_init returns a handle only in an environment that is complete:    *)
(* the library is up, with its key and mutexes, and the calling thread has *)
(* its variable ("0 ok", mysql_server_init), also after the library has    *)
(* been taken down and started again.                                      *)
Equipped(t) == mysql_client_init /\ key /\ t \in variable /\ mutexes = AllMutexes

ReadyWhenHanded == \A t \in handles : Equipped(t)

(* THR_thread_count, for which my_thread_global_end waits, counts each     *)
(* thread that has a variable once, however often it calls mysql_init and  *)
(* mysql_thread_end, and besides only the threads that never ended.        *)
Counted == {t \in Threads : \/ t \in variable /\ at[t] \notin {"count", "forget"}
                            \/ at[t] = "uncount"}

CountIsThreads == THR_thread_count = Cardinality(Counted) + strays

(* Every call returns, however many threads have not ended, unless the key *)
(* that a mysql_thread_end uses is gone.                                   *)
CallsReturn == \A t \in Threads : at[t] # "idle" ~> at[t] \in {"idle", "no_key"}
=============================================================================
