------------------------------- MODULE Logger -------------------------------
(***************************************************************************)
(* The table of loggers (logger.c).  Every thread makes itself a logger    *)
(* when it starts and logs through it; main makes two, its own and that of *)
(* the logins, which all sessions use.  The table is filled without a lock *)
(* and nothing takes a logger out of it again: when a session ends its     *)
(* logger stays.  At its end main frees all that the table holds, while    *)
(* other threads may still run.                                            *)
(*                                                                         *)
(* What is logged is left out.                                             *)
(***************************************************************************)
EXTENDS Integers, FiniteSets

CONSTANTS
    Thread,           \* the other threads, each makes one logger
    main_logger,      \* the two that main makes before it starts them
    user_access_log,
    NULL,
    MAX_LOGGERS       \* entries of the table

ASSUME LoggerAssumption ==
    /\ IsFiniteSet(Thread)
    /\ main_logger # user_access_log
    /\ {main_logger, user_access_log} \cap Thread = {}
    /\ NULL \notin Thread \cup {main_logger, user_access_log}
    /\ MAX_LOGGERS \in Nat
    /\ MAX_LOGGERS >= 2

(* A thread's logger has the thread's name here. *)
Loggers == Thread \cup {main_logger, user_access_log}

(* The table and the memory behind it that could be reached *)
Slot == 0..(MAX_LOGGERS + Cardinality(Thread) - 1)

VARIABLES
    main,   \* main is "serving", "freeing" or "exited"
    i,      \* the index of free_all_loggers' loop
    num,    \* numInitializedLoggers
    table,  \* initializedLoggers
    place,  \* where each thread is
    index,  \* the value of num it has read
    todo,   \* what it has still to store: the count, the entry
    own,    \* the logger it got
    freed,  \* how often each logger was freed
    failed, \* history: loggers whose file could not be opened
    raced   \* history: threads that made theirs while another did, or
            \* while main freed them all

loggerVars == <<main, i, num, table, place, index, todo, own, freed, failed, raced>>

LoggerPlace == {"absent", "creating", "loaded", "opening", "running", "gone"}

(* Both of main's loggers are in the table.  One whose file could not be   *)
(* opened was freed, and is there all the same.                            *)
LoggerInit ==
    /\ main = "serving"
    /\ i = 0
    /\ num = 2
    /\ table = [s \in Slot |-> CASE s = 0 -> main_logger
                                 [] s = 1 -> user_access_log
                                 [] OTHER -> NULL]
    /\ place = [t \in Thread |-> "absent"]
    /\ index = [t \in Thread |-> 0]
    /\ todo = [t \in Thread |-> {}]
    /\ own = [t \in Thread |-> NULL]
    /\ failed \in SUBSET {main_logger, user_access_log}
    /\ freed = [l \in Loggers |-> IF l \in failed THEN 1 ELSE 0]
    /\ raced = {}

-----------------------------------------------------------------------------
(* Threads between the test of the count and the last store *)
Creating == {t \in Thread : place[t] \in {"creating", "loaded"}}

Goto(t, p) == place' = [place EXCEPT ![t] = p]

IsAt(t, from) == main # "exited" /\ place[t] = from

(* Mutant: the limit is off by one. *)
begin_one_more(t) ==
    /\ IsAt(t, "absent")
    /\ Goto(t, IF num > MAX_LOGGERS THEN "running" ELSE "creating")
    /\ raced' = IF Creating # {} \/ main = "freeing"
                THEN raced \cup Creating \cup {t} ELSE raced
    /\ UNCHANGED <<main, i, num, table, index, todo, own, freed, failed>>

(* A thread starts and calls initialize_logger, which gives it NULL when   *)
(* the table is full.                                                      *)
begin(t) ==
    /\ IsAt(t, "absent")
    /\ Goto(t, IF num >= MAX_LOGGERS THEN "running" ELSE "creating")
    /\ raced' = IF Creating # {} \/ main = "freeing"
                THEN raced \cup Creating \cup {t} ELSE raced
    /\ UNCHANGED <<main, i, num, table, index, todo, own, freed, failed>>

(* malloc or my_strdup gives nothing: what there is is freed, and the      *)
(* table does not get to see it.                                           *)
malloc_fails(t) ==
    /\ IsAt(t, "creating")
    /\ Goto(t, "running")
    /\ UNCHANGED <<main, i, num, table, index, todo, own, freed, failed, raced>>

(* initializedLoggers[numInitializedLoggers++] = logger: one load ... *)
load_num(t) ==
    /\ IsAt(t, "creating")
    /\ Goto(t, "loaded")
    /\ index' = [index EXCEPT ![t] = num]
    /\ todo' = [todo EXCEPT ![t] = {"count", "entry"}]
    /\ UNCHANGED <<main, i, num, table, own, freed, failed, raced>>

(* ... and two stores, which may be seen in either order. *)
Store(t, what) ==
    /\ IsAt(t, "loaded")
    /\ what \in todo[t]
    /\ todo' = [todo EXCEPT ![t] = @ \ {what}]
    /\ Goto(t, IF todo'[t] = {} THEN "opening" ELSE "loaded")
    /\ UNCHANGED <<main, i, index, own, freed, failed, raced>>

store_count(t) ==
    /\ Store(t, "count")
    /\ num' = index[t] + 1
    /\ UNCHANGED table

store_entry(t) ==
    /\ Store(t, "entry")
    /\ table' = [table EXCEPT ![index[t]] = t]
    /\ UNCHANGED num

fopen_succeeds(t) ==
    /\ IsAt(t, "opening")
    /\ Goto(t, "running")
    /\ own' = [own EXCEPT ![t] = t]
    /\ UNCHANGED <<main, i, num, table, index, todo, freed, failed, raced>>

(* Mutant: the logger is returned although it was freed. *)
fopen_fails_returns(t) ==
    /\ IsAt(t, "opening")
    /\ Goto(t, "running")
    /\ own' = [own EXCEPT ![t] = t]
    /\ freed' = [freed EXCEPT ![t] = @ + 1]
    /\ failed' = failed \cup {t}
    /\ UNCHANGED <<main, i, num, table, index, todo, raced>>

(* The file cannot be opened (the folder may have been set to one that     *)
(* does not exist): the logger is freed, but is in the table by now.       *)
fopen_fails(t) ==
    /\ IsAt(t, "opening")
    /\ Goto(t, "running")
    /\ freed' = [freed EXCEPT ![t] = @ + 1]
    /\ failed' = failed \cup {t}
    /\ UNCHANGED <<main, i, num, table, index, todo, own, raced>>

(* Mutant: a session that ends frees its logger. *)
end_frees(t) ==
    /\ IsAt(t, "running")
    /\ Goto(t, "gone")
    /\ freed' = IF own[t] = NULL THEN freed ELSE [freed EXCEPT ![t] = @ + 1]
    /\ UNCHANGED <<main, i, num, table, index, todo, own, failed, raced>>

(* Mutant: a session that ends takes its logger off the count. *)
end_counts_down(t) ==
    /\ IsAt(t, "running")
    /\ Goto(t, "gone")
    /\ num' = num - 1
    /\ UNCHANGED <<main, i, table, index, todo, own, freed, failed, raced>>

(* A session ends; its logger stays in the table, for main to free. *)
end(t) ==
    /\ IsAt(t, "running")
    /\ Goto(t, "gone")
    /\ UNCHANGED <<main, i, num, table, index, todo, own, freed, failed, raced>>

-----------------------------------------------------------------------------
(* The end of main: no thread is stopped or waited for. *)
main_ends ==
    /\ main = "serving"
    /\ main' = "freeing"
    /\ raced' = raced \cup Creating
    /\ UNCHANGED <<i, num, table, place, index, todo, own, freed, failed>>

(* Mutant: the loop leaves out the first entry. *)
free_logger_but_first ==
    /\ main = "freeing"
    /\ i < num
    /\ i' = i + 1
    /\ freed' = IF table[i] = NULL \/ i = 0
                THEN freed ELSE [freed EXCEPT ![table[i]] = @ + 1]
    /\ UNCHANGED <<main, num, table, place, index, todo, own, failed, raced>>

(* One turn of the loop of free_all_loggers *)
free_logger ==
    /\ main = "freeing"
    /\ i < num
    /\ i' = i + 1
    /\ freed' = IF table[i] = NULL
                THEN freed ELSE [freed EXCEPT ![table[i]] = @ + 1]
    /\ UNCHANGED <<main, num, table, place, index, todo, own, failed, raced>>

(* The loop is over, the count is reset, and main returns: the process ends *)
exit ==
    /\ main = "freeing"
    /\ i >= num
    /\ main' = "exited"
    /\ num' = 0
    /\ UNCHANGED <<i, table, place, index, todo, own, freed, failed, raced>>

-----------------------------------------------------------------------------
LoggerNext ==
    \/ \E t \in Thread :
          \/ begin(t) \/ malloc_fails(t) \/ load_num(t)
          \/ store_count(t) \/ store_entry(t)
          \/ fopen_succeeds(t) \/ fopen_fails(t) \/ end(t)
    \/ main_ends \/ free_logger \/ exit

LoggerSpec == LoggerInit /\ [][LoggerNext]_loggerVars

-----------------------------------------------------------------------------
(* Properties *)

(* The types; the count and the index of a store may pass the end of the   *)
(* table, when threads race, but by less than the number of threads.       *)
LoggerTypeOK ==
    /\ main \in {"serving", "freeing", "exited"}
    /\ i \in Nat
    /\ num \in 0..(MAX_LOGGERS + Cardinality(Thread))
    /\ table \in [Slot -> Loggers \cup {NULL}]
    /\ place \in [Thread -> LoggerPlace]
    /\ index \in [Thread -> Slot]
    /\ todo \in [Thread -> SUBSET {"count", "entry"}]
    /\ own \in [Thread -> Thread \cup {NULL}]
    /\ freed \in [Loggers -> 0..2]
    /\ failed \subseteq Loggers
    /\ raced \subseteq Thread

(* The loggers log_message reads when a thread logs: its own, and for the  *)
(* login of a session that of main, unless there is none                   *)
Uses(t) ==
    {own[t], IF user_access_log \in failed THEN NULL ELSE user_access_log}
        \ {NULL}

(* As long as the server serves no thread logs through a logger that was   *)
(* freed.  (When main ends they may, for main does not wait for them.)     *)
LiveWhileServing ==
    main = "serving" =>
        \A t \in Thread : place[t] = "running" =>
            \A l \in Uses(t) : freed[l] = 0

(* No logger is freed twice, but one whose file could not be opened, which *)
(* was freed at once and stayed in the table.                              *)
FreedOnce == \A l \in Loggers \ failed : freed[l] <= 1

(* Nothing leaks: when the process ends every logger in use was freed, but *)
(* those of threads that raced with another one or with main.              *)
AllFreed ==
    main = "exited" =>
        \A l \in Loggers \ raced :
            freed[l] = 0 => l \in Thread /\ own[l] = NULL

(* A store past the end of the table comes from a race only: by itself the *)
(* test of the count keeps every entry within it.                          *)
WithinTable ==
    \A t \in Thread \ raced : "entry" \in todo[t] => index[t] < MAX_LOGGERS
=============================================================================
