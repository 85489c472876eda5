---------------------------- MODULE ThreadProofs ----------------------------
(***************************************************************************)
(* Proofs about what the server's threads share: Distributor, for any      *)
(* number of listeners, clients and descriptors, any limit and any width   *)
(* of a size_t that the clients do not exhaust; and Logger, for any number *)
(* of threads and any size of the table.                                   *)
(***************************************************************************)
EXTENDS Distributor, Logger, TLAPS, FiniteSetTheorems

-----------------------------------------------------------------------------
(* Arithmetic of a size_t *)

LEMMA SizeIsPositive == Size \in Nat \ {0} /\ Cardinality(Client) \in Nat
  BY FS_CardinalityType, DistributorAssumption

(* A count is always one of a size_t, and below Size it does not wrap. *)
LEMMA Wraps ==
    /\ \A n \in Int : Wrapped(n) \in 0 .. Size - 1
    /\ \A n \in 0 .. Size - 1 : Wrapped(n) = n
  BY SizeIsPositive DEF Wrapped

-----------------------------------------------------------------------------
(* Type correctness *)

(* The store of a count keeps the types. *)
LEMMA OverwriteTyped ==
    ASSUME TypeOK, NEW c \in Client, NEW n \in Int, Overwrite(c, n)
    PROVE  /\ concurrent_clients' \in 0 .. Size - 1
           /\ loaded' \in [Client -> 0 .. Size - 1]
           /\ lost' \in BOOLEAN
  <1>1. concurrent_clients' \in 0 .. Size - 1
    BY Wraps DEF Overwrite
  <1>2. loaded' \in [Client -> 0 .. Size - 1]
    BY SizeIsPositive DEF Overwrite, TypeOK
  <1>3. lost' \in BOOLEAN
    BY DEF Overwrite, TypeOK
  <1> QED  BY <1>1, <1>2, <1>3

LEMMA TypeStep == TypeOK /\ [Next]_distVars => TypeOK'
  <1> SUFFICES ASSUME TypeOK, [Next]_distVars PROVE TypeOK'
    OBVIOUS
  <1> USE DistributorAssumption DEF Step, Turn
  <1>1. ASSUME NEW c \in Client, connect(c) PROVE TypeOK'
    BY <1>1 DEF connect, TypeOK, Phase
  <1>2. ASSUME NEW c \in Client, quit_close(c) PROVE TypeOK'
    BY <1>2 DEF quit_close, TypeOK, Phase
  <1>3. ASSUME NEW c \in Client, unthreaded_crash(c) PROVE TypeOK'
    BY <1>3 DEF unthreaded_crash, TypeOK
  <1>4. ASSUME NEW c \in Client, load(c, "entering", "counting") PROVE TypeOK'
    BY <1>4 DEF load, TypeOK, Phase
  <1>5. ASSUME NEW c \in Client, increment(c) PROVE TypeOK'
    <2>1. loaded[c] + 1 \in Int
      BY DEF TypeOK
    <2>2. /\ concurrent_clients' \in 0 .. Size - 1
          /\ loaded' \in [Client -> 0 .. Size - 1]
          /\ lost' \in BOOLEAN
      BY <1>5, <2>1, OverwriteTyped DEF increment
    <2>3. phase' \in [Client -> Phase]
      BY <1>5 DEF increment, TypeOK, Phase
    <2> QED  BY <1>5, <2>2, <2>3 DEF increment, TypeOK
  <1>6. ASSUME NEW c \in Client, hang_up(c) PROVE TypeOK'
    BY <1>6 DEF hang_up, TypeOK, Phase
  <1>7. ASSUME NEW c \in Client, load(c, "leaving", "discounting") PROVE TypeOK'
    BY <1>7 DEF load, TypeOK, Phase
  <1>8. ASSUME NEW c \in Client, decrement(c) PROVE TypeOK'
    <2>1. loaded[c] - 1 \in Int
      BY DEF TypeOK
    <2>2. /\ concurrent_clients' \in 0 .. Size - 1
          /\ loaded' \in [Client -> 0 .. Size - 1]
          /\ lost' \in BOOLEAN
      BY <1>8, <2>1, OverwriteTyped DEF decrement
    <2>3. phase' \in [Client -> Phase]
      BY <1>8 DEF decrement, TypeOK, Phase
    <2>4. fd' \in [Client -> Fd \cup {NoFd}]
      BY <1>8 DEF decrement, TypeOK
    <2> QED  BY <1>8, <2>2, <2>3, <2>4 DEF decrement, TypeOK
  <1>9. ASSUME NEW l \in Listener, test_done(l) PROVE TypeOK'
    BY <1>9 DEF test_done, AfterTest, TypeOK, Place
  <1>10. ASSUME NEW l \in Listener, accept_fails(l) PROVE TypeOK'
    BY <1>10 DEF accept_fails, AfterTest, TypeOK, Place
  <1>11. ASSUME NEW l \in Listener, NEW c \in Client, NEW d \in Fd,
                accept_client(l, c, d)
         PROVE  TypeOK'
    BY <1>11 DEF accept_client, TypeOK, Place, Phase
  <1>12. ASSUME NEW l \in Listener, NEW c \in Client, refuse(l, c) PROVE TypeOK'
    BY <1>12 DEF refuse, Decide, TypeOK, Place, Phase
  <1>13. ASSUME NEW l \in Listener, NEW c \in Client, create_thread(l, c)
         PROVE  TypeOK'
    BY <1>13 DEF create_thread, Decide, TypeOK, Place, Phase
  <1>14. ASSUME NEW l \in Listener, NEW c \in Client,
                handle_client_without_threading(l, c)
         PROVE  TypeOK'
    BY <1>14 DEF handle_client_without_threading, Decide, TypeOK, Place, Phase
  <1>15. ASSUME NEW l \in Listener, NEW c \in Client, close_again(l, c)
         PROVE  TypeOK'
    BY <1>15 DEF close_again, TypeOK, Place, Phase
  <1>16. CASE sigterm_handler
    BY <1>16 DEF sigterm_handler, TypeOK
  <1>17. CASE main_returns
    BY <1>17 DEF main_returns, TypeOK
  <1>18. CASE UNCHANGED distVars
    BY <1>18 DEF distVars, TypeOK
  <1> QED
    BY <1>1, <1>2, <1>3, <1>4, <1>5, <1>6, <1>7, <1>8, <1>9, <1>10, <1>11,
       <1>12, <1>13, <1>14, <1>15, <1>16, <1>17, <1>18
       DEF Next, SessionStep, ListenerStep

LEMMA TypeInit == Init => TypeOK
  <1> SUFFICES ASSUME Init PROVE TypeOK
    OBVIOUS
  <1>1. 0 \in 0 .. Size - 1
    BY SizeIsPositive
  <1>2. unthreaded \subseteq Client /\ open \subseteq Fd
    BY DEF Init
  <1> QED  BY <1>1, <1>2 DEF Init, TypeOK, Place, Phase

(* Every state of every behaviour is well typed; in particular the count of *)
(* clients is a size_t, whatever updates of it are lost.                    *)
THEOREM TypeCorrect == Spec => []TypeOK
  BY TypeInit, TypeStep, PTL DEF Spec

-----------------------------------------------------------------------------
(***************************************************************************)
(* The count of clients is exact until an update of it is overwritten.     *)
(*                                                                         *)
(* The store of a thread that saw no other update since its load adds one  *)
(* to the count, or takes one from it, at the very step that brings the    *)
(* client among the counted ones or takes it from them; and the count does *)
(* not wrap, since Size is more than the clients there are and a client    *)
(* that is discounted is counted.                                          *)
(***************************************************************************)
LEMMA CountedIsFinite ==
    /\ IsFiniteSet(Counted)
    /\ Cardinality(Counted) \in 0 .. Size - 1
  <1>1. Counted \subseteq Client /\ IsFiniteSet(Client)
    BY DistributorAssumption DEF Counted
  <1>2. IsFiniteSet(Counted) /\ Cardinality(Counted) <= Cardinality(Client)
        /\ Cardinality(Counted) \in Nat
    BY <1>1, FS_Subset, FS_CardinalityType
  <1> QED  BY <1>2, SizeIsPositive, DistributorAssumption

(* A step that counts nobody in or out and stores no count keeps it exact. *)
LEMMA CountFrame ==
    ASSUME CountIsExact, Counted' = Counted, lost' = lost,
           concurrent_clients' = concurrent_clients
    PROVE  CountIsExact'
  BY DEF CountIsExact

(* The step of a client whose phases are both among the counted ones, or   *)
(* both among the others, changes no count.                                *)
LEMMA StepCounts ==
    ASSUME TypeOK, NEW c \in Client, NEW from, NEW to, Step(c, from, to),
           (from \in {"serving", "leaving", "discounting"})
             <=> (to \in {"serving", "leaving", "discounting"})
    PROVE  Counted' = Counted
  BY DEF Step, Counted, TypeOK

LEMMA CountStep ==
    TypeOK /\ CountIsExact /\ [Next]_distVars => CountIsExact'
  <1> SUFFICES ASSUME TypeOK, CountIsExact, [Next]_distVars
               PROVE  CountIsExact'
    OBVIOUS
  <1>1. ASSUME NEW c \in Client, connect(c) PROVE CountIsExact'
    BY <1>1, StepCounts, CountFrame DEF connect
  <1>2. ASSUME NEW c \in Client, quit_close(c) PROVE CountIsExact'
    BY <1>2, StepCounts, CountFrame DEF quit_close
  <1>3. ASSUME NEW c \in Client, load(c, "entering", "counting")
        PROVE  CountIsExact'
    BY <1>3, StepCounts, CountFrame DEF load
  <1>4. ASSUME NEW c \in Client, increment(c) PROVE CountIsExact'
    <2> SUFFICES ASSUME ~ lost'
                 PROVE  concurrent_clients' = Cardinality(Counted')
      BY DEF CountIsExact
    <2>1. /\ ~ lost /\ loaded[c] = concurrent_clients
          /\ concurrent_clients' = Wrapped(loaded[c] + 1)
      BY <1>4 DEF increment, Overwrite, TypeOK
    <2>2. c \notin Counted /\ Counted' = Counted \cup {c}
      BY <1>4 DEF increment, Step, Counted, TypeOK
    <2>3. Cardinality(Counted') = Cardinality(Counted) + 1
      BY <2>2, CountedIsFinite, FS_AddElement
    <2>4. Counted' \subseteq Client
      BY <2>2 DEF Counted
    <2>5. Cardinality(Counted') <= Cardinality(Client)
      BY <2>4, FS_Subset, DistributorAssumption
    <2>6. Cardinality(Counted) + 1 \in 0 .. Size - 1
      BY <2>3, <2>5, CountedIsFinite, SizeIsPositive, DistributorAssumption
    <2> QED  BY <2>1, <2>3, <2>6, Wraps DEF CountIsExact
  <1>5. ASSUME NEW c \in Client, hang_up(c) PROVE CountIsExact'
    BY <1>5, StepCounts, CountFrame DEF hang_up
  <1>6. ASSUME NEW c \in Client, load(c, "leaving", "discounting")
        PROVE  CountIsExact'
    BY <1>6, StepCounts, CountFrame DEF load
  <1>7. ASSUME NEW c \in Client, decrement(c) PROVE CountIsExact'
    <2> SUFFICES ASSUME ~ lost'
                 PROVE  concurrent_clients' = Cardinality(Counted')
      BY DEF CountIsExact
    <2>1. /\ ~ lost /\ loaded[c] = concurrent_clients
          /\ concurrent_clients' = Wrapped(loaded[c] - 1)
      BY <1>7 DEF decrement, Overwrite, TypeOK
    <2>2. c \in Counted /\ Counted' = Counted \ {c}
      BY <1>7 DEF decrement, Step, Counted, TypeOK
    <2>3. Cardinality(Counted') = Cardinality(Counted) - 1
      BY <2>2, CountedIsFinite, FS_RemoveElement
    <2>4. IsFiniteSet(Counted')
      BY <2>2, CountedIsFinite, FS_Subset
    <2>5. Cardinality(Counted') \in Nat
      BY <2>4, FS_CardinalityType
    <2>6. Cardinality(Counted) - 1 \in 0 .. Size - 1
      BY <2>3, <2>5, CountedIsFinite, SizeIsPositive
    <2> QED  BY <2>1, <2>3, <2>6, Wraps DEF CountIsExact
  <1>8. ASSUME NEW l \in Listener, NEW c \in Client, NEW d \in Fd,
               accept_client(l, c, d)
        PROVE  CountIsExact'
    BY <1>8, StepCounts, CountFrame DEF accept_client
  <1>9. ASSUME NEW l \in Listener, NEW c \in Client,
               refuse(l, c) \/ create_thread(l, c)
                 \/ handle_client_without_threading(l, c)
        PROVE  CountIsExact'
    <2>1. PICK to \in {"refused", "entering"} : Step(c, "accepted", to)
      BY <1>9
         DEF refuse, create_thread, handle_client_without_threading, Decide
    <2>2. Counted' = Counted
      BY <2>1, StepCounts
    <2> QED
      BY <1>9, <2>2, CountFrame
         DEF refuse, create_thread, handle_client_without_threading
  <1>10. ASSUME NEW l \in Listener, NEW c \in Client, close_again(l, c)
         PROVE  CountIsExact'
    BY <1>10, StepCounts, CountFrame DEF close_again
  <1>11. ASSUME phase' = phase, lost' = lost,
                concurrent_clients' = concurrent_clients
         PROVE  CountIsExact'
    BY <1>11, CountFrame DEF Counted
  <1>12. ASSUME NEW l \in Listener, test_done(l) \/ accept_fails(l)
         PROVE  CountIsExact'
    BY <1>11, <1>12 DEF test_done, accept_fails
  <1>13. ASSUME NEW c \in Client, unthreaded_crash(c) PROVE CountIsExact'
    BY <1>11, <1>13 DEF unthreaded_crash
  <1>14. CASE sigterm_handler \/ main_returns \/ UNCHANGED distVars
    BY <1>11, <1>14 DEF sigterm_handler, main_returns, distVars
  <1> QED
    BY <1>1, <1>2, <1>3, <1>4, <1>5, <1>6, <1>7, <1>8, <1>9, <1>10, <1>12,
       <1>13, <1>14
       DEF Next, SessionStep, ListenerStep

(* Through refusals, failures of malloc and pthread_create, and ends of all *)
(* kinds, the count is the number of the sessions, as long as no two        *)
(* threads update it at once.                                               *)
THEOREM CountExact == Spec => []CountIsExact
  <1>1. Init => CountIsExact
    <2> SUFFICES ASSUME Init PROVE CountIsExact
      OBVIOUS
    <2>1. Counted = {}
      BY DEF Init, Counted
    <2> QED  BY <2>1, FS_EmptySet DEF Init, CountIsExact
  <1>2. TypeOK /\ CountIsExact /\ [Next]_distVars
          => TypeOK' /\ CountIsExact'
    BY TypeStep, CountStep
  <1> QED  BY <1>1, <1>2, TypeInit, PTL DEF Spec

-----------------------------------------------------------------------------
(***************************************************************************)
(* A descriptor that is open belongs to a client.                          *)
(*                                                                         *)
(* A session keeps its number after its close, and loses it at its end; so *)
(* the invariant has to name an owner that is before its close.  Closing a *)
(* number that is by then another's takes that one's descriptor, and never *)
(* leaves one without an owner.                                            *)
(***************************************************************************)
Owning == {"accepted", "refused", "entering", "counting", "serving"}

OpenIsOwned ==
    \A d \in open : \E c \in Client : fd[c] = d /\ phase[c] \in Owning

(* Closes, and steps that keep the owners owners, keep descriptors owned. *)
LEMMA OwnedFrame ==
    ASSUME OpenIsOwned,
           open' \subseteq open,
           \A c \in Client : fd[c] \in open' /\ phase[c] \in Owning
              => fd'[c] = fd[c] /\ phase'[c] \in Owning
    PROVE  OpenIsOwned'
  BY DEF OpenIsOwned

LEMMA OwnedStep == TypeOK /\ OpenIsOwned /\ [Next]_distVars => OpenIsOwned'
  <1> SUFFICES ASSUME TypeOK, OpenIsOwned, [Next]_distVars PROVE OpenIsOwned'
    OBVIOUS
  <1> USE DEF Step, Turn, Owning
  <1>1. ASSUME NEW c \in Client, connect(c) PROVE OpenIsOwned'
    BY <1>1, OwnedFrame DEF connect, TypeOK
  <1>2. ASSUME NEW c \in Client, quit_close(c) PROVE OpenIsOwned'
    BY <1>2, OwnedFrame DEF quit_close, TypeOK
  <1>3. ASSUME NEW c \in Client, load(c, "entering", "counting")
        PROVE  OpenIsOwned'
    BY <1>3, OwnedFrame DEF load, TypeOK
  <1>4. ASSUME NEW c \in Client, increment(c) PROVE OpenIsOwned'
    BY <1>4, OwnedFrame DEF increment, TypeOK
  <1>5. ASSUME NEW c \in Client, hang_up(c) PROVE OpenIsOwned'
    BY <1>5, OwnedFrame DEF hang_up, TypeOK
  <1>6. ASSUME NEW c \in Client, load(c, "leaving", "discounting")
        PROVE  OpenIsOwned'
    BY <1>6, OwnedFrame DEF load, TypeOK
  <1>7. ASSUME NEW c \in Client, decrement(c) PROVE OpenIsOwned'
    BY <1>7, OwnedFrame DEF decrement, TypeOK
  <1>8. ASSUME NEW l \in Listener, NEW c \in Client, NEW d \in Fd,
               accept_client(l, c, d)
        PROVE  OpenIsOwned'
    <2> SUFFICES ASSUME NEW e \in open'
                 PROVE  \E b \in Client : fd'[b] = e /\ phase'[b] \in Owning
      BY DEF OpenIsOwned
    <2>1. CASE e = d
      BY <1>8, <2>1 DEF accept_client, TypeOK
    <2>2. CASE e # d
      <3>1. PICK b \in Client : fd[b] = e /\ phase[b] \in Owning
        BY <1>8, <2>2 DEF accept_client, OpenIsOwned
      <3>2. b # c
        BY <1>8, <3>1 DEF accept_client
      <3> QED  BY <1>8, <3>1, <3>2 DEF accept_client, TypeOK
    <2> QED  BY <2>1, <2>2
  <1>9. ASSUME NEW l \in Listener, NEW c \in Client,
               refuse(l, c) \/ create_thread(l, c)
                 \/ handle_client_without_threading(l, c)
        PROVE  OpenIsOwned'
    BY <1>9, OwnedFrame
       DEF refuse, create_thread, handle_client_without_threading, Decide, TypeOK
  <1>10. ASSUME NEW l \in Listener, NEW c \in Client, close_again(l, c)
         PROVE  OpenIsOwned'
    BY <1>10, OwnedFrame DEF close_again, TypeOK
  <1>11. ASSUME NEW l \in Listener, test_done(l) \/ accept_fails(l)
         PROVE  OpenIsOwned'
    BY <1>11, OwnedFrame DEF test_done, accept_fails
  <1>12. ASSUME NEW c \in Client, unthreaded_crash(c) PROVE OpenIsOwned'
    BY <1>12, OwnedFrame DEF unthreaded_crash
  <1>13. CASE sigterm_handler \/ main_returns \/ UNCHANGED distVars
    BY <1>13, OwnedFrame DEF sigterm_handler, main_returns, distVars
  <1> QED
    BY <1>1, <1>2, <1>3, <1>4, <1>5, <1>6, <1>7, <1>8, <1>9, <1>10, <1>11,
       <1>12, <1>13
       DEF Next, SessionStep, ListenerStep

(* No session leaves a descriptor open that is nobody's, even when numbers *)
(* are closed twice and given to others in between.                        *)
THEOREM NoDescriptorOrphaned == Spec => []OnlyRefusedLeak
  <1>1. Init => OpenIsOwned
    BY DEF Init, OpenIsOwned
  <1>2. OpenIsOwned => OnlyRefusedLeak
    BY DEF OpenIsOwned, OnlyRefusedLeak
  <1>3. TypeOK /\ OpenIsOwned /\ [Next]_distVars => TypeOK' /\ OpenIsOwned'
    BY TypeStep, OwnedStep
  <1> QED  BY <1>1, <1>2, <1>3, TypeInit, PTL DEF Spec

-----------------------------------------------------------------------------
(***************************************************************************)
(* The table of loggers.                                                   *)
(*                                                                         *)
(* Each logger has one place in the table, its home: main's two have the   *)
(* first entries, that of a thread the index the thread loaded.  What is   *)
(* in the table is at home, so the loop of main frees it once, when it     *)
(* comes by; what raced with nobody stays at home, below the count, so     *)
(* the loop does come by.                                                  *)
(***************************************************************************)
HomeOf(l) == CASE l = main_logger     -> 0
               [] l = user_access_log -> 1
               [] OTHER               -> index[l]

(* Threads that have no store of the count, or of the entry, ahead *)
CountStored == {t \in Thread :
    \/ place[t] \in {"opening", "running", "gone"}
    \/ place[t] = "loaded" /\ "count" \notin todo[t]}
EntryStored == {t \in Thread :
    \/ place[t] \in {"opening", "running", "gone"}
    \/ place[t] = "loaded" /\ "entry" \notin todo[t]}

(* A thread that is done with the table, and whose logger was not freed *)
HasLogger(t) == place[t] = "opening" \/ own[t] = t

(* Where a thread is *)
PlaceInv ==
    /\ \A t \in Thread : todo[t] # {} <=> place[t] = "loaded"
    /\ \A t \in failed \cap Thread : place[t] \in {"running", "gone"}
    /\ \A t \in Thread : own[t] # NULL =>
          own[t] = t /\ t \notin failed /\ place[t] \in {"running", "gone"}

(* The count is passed on from load to store, and rises by one with each   *)
(* thread that stores it.                                                  *)
CountInv ==
    /\ num <= MAX_LOGGERS + Cardinality(CountStored)
    /\ \A t \in Thread : "count" \in todo[t] =>
          index[t] <= MAX_LOGGERS + Cardinality(CountStored)
    /\ main # "exited" => num >= 2
    /\ \A t \in Thread : place[t] = "loaded" => index[t] >= 2

AtHome ==
    \A s \in Slot : table[s] # NULL =>
        /\ s = HomeOf(table[s])
        /\ table[s] \in Thread => table[s] \in EntryStored

(* A logger was freed once if its file did not open, and once more if the  *)
(* loop of main has passed its home.                                       *)
FreedInv ==
    /\ main = "serving" => i = 0
    /\ \A l \in Loggers :
          freed[l] <= (IF l \in failed THEN 1 ELSE 0)
                    + (IF HomeOf(l) < i /\ (l \in Thread => l \in EntryStored)
                       THEN 1 ELSE 0)

(* A thread that raced with nobody is alone at the table. *)
AloneInv ==
    \A t \in Creating \ raced :
        /\ Creating = {t} /\ main = "serving"
        /\ place[t] = "creating" => num < MAX_LOGGERS
        /\ place[t] = "loaded" =>
              /\ index[t] < MAX_LOGGERS
              /\ "count" \notin todo[t] => num = index[t] + 1
              /\ "entry" \notin todo[t] => table[index[t]] = t

(* The loggers that the loop is to find *)
Kept == {main_logger, user_access_log}
          \cup {t \in Thread \ raced : HasLogger(t)}

KeptInv ==
    \A l \in Kept :
        /\ table[HomeOf(l)] = l
        /\ main # "exited" => HomeOf(l) < num
        /\ main = "exited" => HomeOf(l) < i
        /\ HomeOf(l) < i => freed[l] >= 1
        /\ \A t \in Thread : place[t] = "loaded" => HomeOf(l) < index[t]

LoggerInv ==
    LoggerTypeOK /\ PlaceInv /\ CountInv /\ AtHome /\ FreedInv /\ AloneInv /\ KeptInv

(* Constants and sets *)
LEMMA LoggerFacts ==
    /\ Thread \subseteq Loggers /\ main_logger \in Loggers
    /\ user_access_log \in Loggers /\ NULL \notin Loggers
    /\ main_logger \notin Thread /\ user_access_log \notin Thread
    /\ Cardinality(Thread) \in Nat
    /\ Slot = 0 .. MAX_LOGGERS + Cardinality(Thread) - 1
  BY LoggerAssumption, FS_CardinalityType DEF Loggers, Slot

LEMMA Freeings ==
    ASSUME NEW f \in [Loggers -> 0..2], NEW l \in Loggers
    PROVE  f[l] \in Nat /\ f[l] >= f[l]
  OBVIOUS

LEMMA Homes ==
    /\ HomeOf(main_logger) = 0
    /\ HomeOf(user_access_log) = 1
    /\ \A t \in Thread : HomeOf(t) = index[t]
  BY LoggerAssumption DEF HomeOf

LEMMA SubsetCount ==
    ASSUME NEW S \in SUBSET Thread, NEW T \in SUBSET S
    PROVE  /\ Cardinality(S) \in Nat /\ Cardinality(T) \in Nat
           /\ Cardinality(T) <= Cardinality(S)
           /\ Cardinality(S) <= Cardinality(Thread)
           /\ S # Thread => Cardinality(S) < Cardinality(Thread)
  BY LoggerAssumption, FS_Subset, FS_CardinalityType

LEMMA LoggerInitInv == LoggerInit => LoggerInv
  <1> SUFFICES ASSUME LoggerInit PROVE LoggerInv
    OBVIOUS
  <1> USE LoggerFacts, LoggerAssumption
  <1>1. LoggerTypeOK
    BY DEF LoggerInit, LoggerTypeOK, LoggerPlace, Loggers
  <1>2. PlaceInv
    BY DEF LoggerInit, PlaceInv
  <1>3. CountInv
    <2>1. Cardinality(CountStored) \in Nat
      BY SubsetCount DEF CountStored
    <2> QED  BY <2>1 DEF LoggerInit, CountInv
  <1>4. AtHome
    BY Homes DEF LoggerInit, AtHome
  <1>5. FreedInv
    BY Homes DEF LoggerInit, FreedInv, Loggers
  <1>6. AloneInv
    BY DEF LoggerInit, AloneInv, Creating
  <1>7. KeptInv
    <2>1. Kept = {main_logger, user_access_log}
      BY DEF LoggerInit, Kept, HasLogger
    <2>2. 0 \in Slot /\ 1 \in Slot
      OBVIOUS
    <2> QED  BY <2>1, <2>2, Homes DEF LoggerInit, KeptInv
  <1> QED  BY <1>1, <1>2, <1>3, <1>4, <1>5, <1>6, <1>7 DEF LoggerInv

-----------------------------------------------------------------------------
(* The count of those that are through with it rises with each. *)
LEMMA CountStoredGrows ==
    ASSUME LoggerInv, [LoggerNext]_loggerVars
    PROVE  /\ CountStored \subseteq CountStored'
           /\ Cardinality(CountStored) <= Cardinality(CountStored')
           /\ Cardinality(CountStored) \in Nat
           /\ Cardinality(CountStored') \in Nat
  <1>1. CountStored \subseteq CountStored'
    BY DEF LoggerNext, loggerVars, begin, malloc_fails, load_num, store_count,
           store_entry, Store, fopen_succeeds, fopen_fails, end, main_ends,
           free_logger, exit, IsAt, Goto, CountStored, LoggerInv, LoggerTypeOK
  <1>2. CountStored' \subseteq Thread
    BY DEF CountStored
  <1> QED  BY <1>1, <1>2, SubsetCount

LEMMA OneMoreStored ==
    ASSUME LoggerInv, NEW t \in Thread, store_count(t)
    PROVE  Cardinality(CountStored') = Cardinality(CountStored) + 1
  <1>1. t \notin CountStored /\ CountStored' = CountStored \cup {t}
    BY DEF store_count, Store, IsAt, Goto, CountStored, LoggerInv, LoggerTypeOK,
           PlaceInv
  <1>2. IsFiniteSet(CountStored)
    BY LoggerAssumption, FS_Subset DEF CountStored
  <1> QED  BY <1>1, <1>2, FS_AddElement

(* A thread that has still to store the count leaves room in the bound. *)
LEMMA LoadedInSlot ==
    ASSUME LoggerInv, NEW t \in Thread, NEW n \in Nat, t \notin CountStored,
           n <= MAX_LOGGERS + Cardinality(CountStored)
    PROVE  n \in Slot /\ n + 1 <= MAX_LOGGERS + Cardinality(Thread)
  <1>1. CountStored \subseteq Thread /\ CountStored # Thread
    BY DEF CountStored
  <1>2. Cardinality(CountStored) < Cardinality(Thread)
        /\ Cardinality(CountStored) \in Nat
    BY <1>1, SubsetCount
  <1> QED  BY <1>2, LoggerFacts, LoggerAssumption

(* What the loop frees next was not freed by the loop before. *)
LEMMA NextIsNew ==
    ASSUME LoggerInv, free_logger
    PROVE  /\ i \in Slot
           /\ table[i] # NULL =>
                 /\ table[i] \in Loggers /\ HomeOf(table[i]) = i
                 /\ freed[table[i]] <= IF table[i] \in failed THEN 1 ELSE 0
  <1>1. i \in Slot
    BY LoggerFacts, LoggerAssumption DEF free_logger, LoggerInv, LoggerTypeOK
  <1>2. ASSUME table[i] # NULL
        PROVE  /\ table[i] \in Loggers /\ HomeOf(table[i]) = i
               /\ freed[table[i]] <= IF table[i] \in failed THEN 1 ELSE 0
    <2>1. table[i] \in Loggers /\ HomeOf(table[i]) = i
      BY <1>1, <1>2 DEF LoggerInv, LoggerTypeOK, AtHome
    <2>2. ~(HomeOf(table[i]) < i)
      BY <2>1 DEF LoggerInv, LoggerTypeOK
    <2> QED  BY <2>1, <2>2 DEF LoggerInv, FreedInv, LoggerTypeOK
  <1> QED  BY <1>1, <1>2

LEMMA LoggerTypeStep ==
    ASSUME LoggerInv, [LoggerNext]_loggerVars PROVE LoggerTypeOK'
  <1> USE LoggerFacts, LoggerAssumption
  <1> USE DEF IsAt, Goto, LoggerPlace, LoggerTypeOK
  <1>0. LoggerTypeOK
    BY DEF LoggerInv
  <1>1. ASSUME NEW t \in Thread, begin(t) PROVE LoggerTypeOK'
    BY <1>0, <1>1 DEF begin, Creating
  <1>2. ASSUME NEW t \in Thread, malloc_fails(t) PROVE LoggerTypeOK'
    BY <1>0, <1>2 DEF malloc_fails
  <1>3. ASSUME NEW t \in Thread, load_num(t) PROVE LoggerTypeOK'
    <2>1. t \notin CountStored
      BY <1>3 DEF load_num, CountStored
    <2>2. num \in Slot
      BY <1>0, <2>1, LoadedInSlot DEF LoggerInv, CountInv
    <2> QED  BY <1>0, <1>3, <2>2 DEF load_num
  <1>4. ASSUME NEW t \in Thread, store_count(t) PROVE LoggerTypeOK'
    <2>1. t \notin CountStored /\ index[t] <= MAX_LOGGERS + Cardinality(CountStored)
      BY <1>4 DEF store_count, Store, CountStored, LoggerInv, CountInv
    <2>2. index[t] + 1 \in 0 .. MAX_LOGGERS + Cardinality(Thread)
      BY <1>0, <2>1, LoadedInSlot
    <2> QED  BY <1>0, <1>4, <2>2 DEF store_count, Store
  <1>5. ASSUME NEW t \in Thread, store_entry(t) PROVE LoggerTypeOK'
    BY <1>0, <1>5 DEF store_entry, Store
  <1>6. ASSUME NEW t \in Thread, fopen_succeeds(t) PROVE LoggerTypeOK'
    BY <1>0, <1>6 DEF fopen_succeeds
  <1>7. ASSUME NEW t \in Thread, fopen_fails(t) PROVE LoggerTypeOK'
    <2>1. t \notin failed
      BY <1>7 DEF fopen_fails, LoggerInv, PlaceInv
    <2>2. freed[t] \in 0 .. 1
      BY <1>0, <2>1 DEF LoggerInv, FreedInv
    <2> QED  BY <1>0, <1>7, <2>2 DEF fopen_fails
  <1>8. ASSUME NEW t \in Thread, end(t) PROVE LoggerTypeOK'
    BY <1>0, <1>8 DEF end
  <1>9. CASE main_ends
    BY <1>0, <1>9 DEF main_ends, Creating
  <1>10. CASE free_logger
    <2>1. table[i] # NULL => table[i] \in Loggers /\ freed[table[i]] \in 0 .. 1
      BY <1>0, <1>10, NextIsNew
    <2> QED  BY <1>0, <1>10, <2>1 DEF free_logger
  <1>11. CASE exit
    BY <1>0, <1>11 DEF exit
  <1>12. CASE UNCHANGED loggerVars
    BY <1>0, <1>12 DEF loggerVars
  <1> QED
    BY <1>1, <1>2, <1>3, <1>4, <1>5, <1>6, <1>7, <1>8, <1>9, <1>10, <1>11, <1>12
       DEF LoggerNext

LEMMA PlaceStep ==
    ASSUME LoggerInv, [LoggerNext]_loggerVars PROVE PlaceInv'
  <1> USE LoggerFacts, LoggerAssumption
  <1> USE DEF IsAt, Goto, PlaceInv
  <1>0. LoggerTypeOK /\ PlaceInv
    BY DEF LoggerInv
  <1>1. ASSUME NEW t \in Thread, begin(t) PROVE PlaceInv'
    BY <1>0, <1>1 DEF begin, LoggerTypeOK
  <1>2. ASSUME NEW t \in Thread, malloc_fails(t) PROVE PlaceInv'
    BY <1>0, <1>2 DEF malloc_fails, LoggerTypeOK
  <1>3. ASSUME NEW t \in Thread, load_num(t) PROVE PlaceInv'
    BY <1>0, <1>3 DEF load_num, LoggerTypeOK
  <1>4. ASSUME NEW t \in Thread, NEW what, Store(t, what) PROVE PlaceInv'
    BY <1>0, <1>4 DEF Store, LoggerTypeOK
  <1>5. ASSUME NEW t \in Thread, fopen_succeeds(t) PROVE PlaceInv'
    BY <1>0, <1>5 DEF fopen_succeeds, LoggerTypeOK
  <1>6. ASSUME NEW t \in Thread, fopen_fails(t) PROVE PlaceInv'
    BY <1>0, <1>6 DEF fopen_fails, LoggerTypeOK
  <1>7. ASSUME NEW t \in Thread, end(t) PROVE PlaceInv'
    BY <1>0, <1>7 DEF end, LoggerTypeOK
  <1>8. CASE main_ends \/ free_logger \/ exit \/ UNCHANGED loggerVars
    BY <1>0, <1>8 DEF main_ends, free_logger, exit, loggerVars
  <1> QED
    BY <1>1, <1>2, <1>3, <1>4, <1>5, <1>6, <1>7, <1>8
       DEF LoggerNext, store_count, store_entry

LEMMA CountInvStep ==
    ASSUME LoggerInv, [LoggerNext]_loggerVars PROVE CountInv'
  <1> USE LoggerFacts, LoggerAssumption, CountStoredGrows
  <1> USE DEF IsAt, Goto, CountInv
  <1>0. LoggerTypeOK /\ CountInv /\ PlaceInv
    BY DEF LoggerInv
  <1>1. ASSUME num' = num, index' = index, main' # "exited" => main # "exited",
               \A t \in Thread : /\ todo'[t] \subseteq todo[t]
                                 /\ place'[t] = "loaded" => place[t] = "loaded"
        PROVE  CountInv'
    BY <1>0, <1>1 DEF LoggerTypeOK
  <1>2. ASSUME NEW t \in Thread, begin(t) \/ malloc_fails(t) PROVE CountInv'
    BY <1>0, <1>1, <1>2 DEF begin, malloc_fails, LoggerTypeOK
  <1>3. ASSUME NEW t \in Thread, load_num(t) PROVE CountInv'
    BY <1>0, <1>3 DEF load_num, LoggerTypeOK
  <1>4. ASSUME NEW t \in Thread, store_count(t) PROVE CountInv'
    <2>1. index[t] <= MAX_LOGGERS + Cardinality(CountStored) /\ index[t] >= 2
      BY <1>0, <1>4 DEF store_count, Store
    <2>2. Cardinality(CountStored') = Cardinality(CountStored) + 1
      BY <1>4, OneMoreStored
    <2>3. /\ num' <= MAX_LOGGERS + Cardinality(CountStored')
          /\ num' >= 2
      BY <1>0, <1>4, <2>1, <2>2 DEF store_count, LoggerTypeOK
    <2>4. /\ index' = index
          /\ \A u \in Thread : /\ todo'[u] \subseteq todo[u]
                               /\ place'[u] = "loaded" => place[u] = "loaded"
      BY <1>0, <1>4 DEF store_count, Store, LoggerTypeOK
    <2> QED  BY <1>0, <2>3, <2>4 DEF LoggerTypeOK
  <1>5. ASSUME NEW t \in Thread, store_entry(t) PROVE CountInv'
    BY <1>0, <1>1, <1>5 DEF store_entry, Store, LoggerTypeOK
  <1>6. ASSUME NEW t \in Thread,
               fopen_succeeds(t) \/ fopen_fails(t) \/ end(t)
        PROVE  CountInv'
    BY <1>0, <1>1, <1>6 DEF fopen_succeeds, fopen_fails, end, LoggerTypeOK
  <1>7. CASE main_ends \/ free_logger \/ UNCHANGED loggerVars
    BY <1>0, <1>1, <1>7 DEF main_ends, free_logger, loggerVars
  <1>8. CASE exit
    BY <1>0, <1>8 DEF exit, LoggerTypeOK
  <1> QED
    BY <1>2, <1>3, <1>4, <1>5, <1>6, <1>7, <1>8 DEF LoggerNext

(* What a store of the entry does to the homes. *)
LEMMA AtHomeStep ==
    ASSUME LoggerInv, [LoggerNext]_loggerVars PROVE AtHome'
  <1> USE LoggerFacts, LoggerAssumption, Homes
  <1> USE DEF IsAt, Goto, AtHome
  <1>0. LoggerTypeOK /\ AtHome /\ PlaceInv /\ LoggerTypeOK'
    BY LoggerTypeStep DEF LoggerInv
  <1>1. ASSUME table' = table, EntryStored \subseteq EntryStored',
               \A t \in EntryStored : index'[t] = index[t]
        PROVE  AtHome'
    BY <1>0, <1>1 DEF LoggerTypeOK, HomeOf, Loggers
  <1>2. ASSUME NEW t \in Thread, begin(t) \/ malloc_fails(t) \/ load_num(t)
        PROVE  AtHome'
    BY <1>0, <1>1, <1>2
       DEF begin, malloc_fails, load_num, EntryStored, LoggerTypeOK
  <1>3. ASSUME NEW t \in Thread, store_count(t) PROVE AtHome'
    BY <1>0, <1>1, <1>3 DEF store_count, Store, EntryStored, LoggerTypeOK
  <1>4. ASSUME NEW t \in Thread, store_entry(t) PROVE AtHome'
    <2>1. index' = index /\ table' = [table EXCEPT ![index[t]] = t]
      BY <1>4 DEF store_entry, Store
    <2>2. EntryStored \subseteq EntryStored' /\ t \in EntryStored'
      BY <1>0, <1>4 DEF store_entry, Store, EntryStored, LoggerTypeOK
    <2>3. \A l \in Loggers : HomeOf(l)' = HomeOf(l)
      BY <2>1 DEF HomeOf
    <2> SUFFICES ASSUME NEW s \in Slot, table'[s] # NULL
                 PROVE  /\ s = HomeOf(table[s])'
                        /\ table'[s] \in Thread => table'[s] \in EntryStored'
      OBVIOUS
    <2>4. CASE s = index[t]
      BY <1>0, <2>1, <2>2, <2>4 DEF LoggerTypeOK, HomeOf
    <2>5. CASE s # index[t]
      BY <1>0, <2>1, <2>2, <2>3, <2>5 DEF LoggerTypeOK
    <2> QED  BY <2>4, <2>5
  <1>5. ASSUME NEW t \in Thread,
               fopen_succeeds(t) \/ fopen_fails(t) \/ end(t)
        PROVE  AtHome'
    BY <1>0, <1>1, <1>5
       DEF fopen_succeeds, fopen_fails, end, EntryStored, LoggerTypeOK
  <1>6. CASE main_ends \/ free_logger \/ exit \/ UNCHANGED loggerVars
    BY <1>0, <1>1, <1>6
       DEF main_ends, free_logger, exit, loggerVars, EntryStored
  <1> QED
    BY <1>2, <1>3, <1>4, <1>5, <1>6 DEF LoggerNext

LEMMA FreedStep ==
    ASSUME LoggerInv, [LoggerNext]_loggerVars PROVE FreedInv'
  <1> USE LoggerFacts, LoggerAssumption, Homes
  <1> USE DEF IsAt, Goto, FreedInv
  <1>0. LoggerTypeOK /\ FreedInv /\ PlaceInv /\ LoggerTypeOK'
    BY LoggerTypeStep DEF LoggerInv
  <1>1. ASSUME i' = i, freed' = freed, failed' = failed,
               main' = "serving" => main = "serving",
               EntryStored \subseteq EntryStored',
               \A t \in EntryStored : index'[t] = index[t]
        PROVE  FreedInv'
    <2> SUFFICES ASSUME NEW l \in Loggers
                 PROVE  freed'[l] <= (IF l \in failed' THEN 1 ELSE 0)
                          + (IF HomeOf(l)' < i'
                                /\ (l \in Thread => l \in EntryStored')
                             THEN 1 ELSE 0)
      BY <1>0, <1>1
    <2>1. freed[l] <= (IF l \in failed THEN 1 ELSE 0)
                        + (IF HomeOf(l) < i /\ (l \in Thread => l \in EntryStored)
                           THEN 1 ELSE 0)
      BY <1>0
    <2>2. (l \in Thread => l \in EntryStored) => HomeOf(l)' = HomeOf(l)
      BY <1>1 DEF HomeOf, Loggers
    <2>3. freed[l] \in Nat
      <3> HIDE DEF FreedInv
      <3> QED  BY <1>0, Freeings DEF LoggerTypeOK
    <2> HIDE DEF FreedInv
    <2> QED  BY <1>1, <2>1, <2>2, <2>3
  <1>2. ASSUME NEW t \in Thread, begin(t) \/ malloc_fails(t) \/ load_num(t)
        PROVE  FreedInv'
    BY <1>0, <1>1, <1>2
       DEF begin, malloc_fails, load_num, EntryStored, LoggerTypeOK
  <1>3. ASSUME NEW t \in Thread, NEW what, Store(t, what) PROVE FreedInv'
    BY <1>0, <1>1, <1>3 DEF Store, EntryStored, LoggerTypeOK
  <1>4. ASSUME NEW t \in Thread, fopen_succeeds(t) \/ end(t) PROVE FreedInv'
    BY <1>0, <1>1, <1>4 DEF fopen_succeeds, end, EntryStored, LoggerTypeOK
  <1>5. ASSUME NEW t \in Thread, fopen_fails(t) PROVE FreedInv'
    <2>1. t \notin failed /\ t \in Loggers
      BY <1>0, <1>5 DEF fopen_fails, PlaceInv
    <2>2. /\ EntryStored' = EntryStored /\ index' = index /\ i' = i
          /\ main' = main
          /\ freed' = [freed EXCEPT ![t] = @ + 1]
          /\ failed' = failed \cup {t}
      BY <1>0, <1>5 DEF fopen_fails, EntryStored, LoggerTypeOK
    <2>3. \A l \in Loggers : HomeOf(l)' = HomeOf(l)
      BY <2>2 DEF HomeOf
    <2> QED  BY <1>0, <2>1, <2>2, <2>3 DEF LoggerTypeOK
  <1>6. CASE free_logger
    <2>1. /\ EntryStored' = EntryStored /\ index' = index /\ i' = i + 1
          /\ main' = main /\ main = "freeing" /\ failed' = failed
      BY <1>0, <1>6 DEF free_logger, EntryStored
    <2>2. \A l \in Loggers : HomeOf(l)' = HomeOf(l) /\ HomeOf(l) \in Nat
      BY <1>0, <2>1 DEF HomeOf, LoggerTypeOK, Loggers
    <2>i. i \in Nat
      BY <1>0 DEF LoggerTypeOK
    <2>l. \A l \in Loggers : HomeOf(l) < i => HomeOf(l) < i + 1
      BY <2>2, <2>i
    <2>f. \A l \in Loggers : freed[l] \in Nat
      <3> HIDE DEF FreedInv
      <3> QED  BY <1>0, Freeings DEF LoggerTypeOK
    <2>3. CASE table[i] = NULL
      <3>1. freed' = freed
        BY <1>6, <2>3 DEF free_logger
      <3> QED  BY <1>0, <2>1, <2>2, <2>l, <2>f, <3>1
    <2>4. CASE table[i] # NULL
      <3>1. /\ table[i] \in Loggers /\ HomeOf(table[i]) = i
            /\ freed[table[i]] <= IF table[i] \in failed THEN 1 ELSE 0
            /\ table[i] \in Thread => table[i] \in EntryStored
        BY <1>6, <2>4, NextIsNew DEF LoggerInv, AtHome
      <3>2. freed' = [freed EXCEPT ![table[i]] = @ + 1]
        BY <1>6, <2>4 DEF free_logger
      <3> SUFFICES ASSUME NEW l \in Loggers
                   PROVE  freed'[l] <= (IF l \in failed THEN 1 ELSE 0)
                            + (IF HomeOf(l) < i + 1
                                  /\ (l \in Thread => l \in EntryStored)
                               THEN 1 ELSE 0)
        BY <2>1, <2>2
      <3>3. CASE l = table[i]
        <4>1. freed'[l] = freed[l] + 1
          BY <1>0, <3>1, <3>2, <3>3 DEF LoggerTypeOK
        <4>2. HomeOf(l) < i + 1 /\ (l \in Thread => l \in EntryStored)
          BY <2>i, <3>1, <3>3
        <4>3. freed[l] <= IF l \in failed THEN 1 ELSE 0
          BY <3>1, <3>3
        <4> HIDE DEF FreedInv
        <4> QED  BY <2>f, <4>1, <4>2, <4>3
      <3>4. CASE l # table[i]
        <4>1. freed'[l] = freed[l]
          BY <1>0, <3>2, <3>4 DEF LoggerTypeOK
        <4>2. freed[l] <= (IF l \in failed THEN 1 ELSE 0)
                 + (IF HomeOf(l) < i /\ (l \in Thread => l \in EntryStored)
                    THEN 1 ELSE 0)
          BY <1>0
        <4> HIDE DEF FreedInv
        <4> QED  BY <2>l, <2>f, <4>1, <4>2
      <3> QED  BY <3>3, <3>4
    <2> QED  BY <2>3, <2>4
  <1>7. CASE main_ends \/ exit \/ UNCHANGED loggerVars
    BY <1>0, <1>1, <1>7
       DEF main_ends, exit, loggerVars, EntryStored
  <1> QED
    BY <1>2, <1>3, <1>4, <1>5, <1>6, <1>7
       DEF LoggerNext, store_count, store_entry

LEMMA AloneStep ==
    ASSUME LoggerInv, [LoggerNext]_loggerVars PROVE AloneInv'
  <1> USE LoggerFacts, LoggerAssumption
  <1> USE DEF IsAt, Goto, AloneInv, Creating
  <1>0. LoggerTypeOK /\ AloneInv /\ PlaceInv
    BY DEF LoggerInv
  <1>1. ASSUME NEW t \in Thread, begin(t) PROVE AloneInv'
    <2>1. CASE Creating # {} \/ main = "freeing"
      <3>1. Creating' \subseteq Creating \cup {t}
        BY <1>0, <1>1 DEF begin, LoggerTypeOK
      <3>2. raced' = raced \cup Creating \cup {t}
        BY <1>1, <2>1 DEF begin
      <3> QED  BY <3>1, <3>2
    <2>2. CASE Creating = {} /\ main # "freeing"
      <3>1. main = "serving" /\ main' = main /\ num' = num
        BY <1>0, <1>1, <2>2 DEF begin, LoggerTypeOK
      <3>2. Creating' \subseteq {t}
        BY <1>0, <1>1, <2>2 DEF begin, LoggerTypeOK
      <3>3. t \in Creating' => place'[t] = "creating" /\ num < MAX_LOGGERS
        BY <1>0, <1>1 DEF begin, LoggerTypeOK
      <3> QED  BY <3>1, <3>2, <3>3
    <2> QED  BY <2>1, <2>2
  <1>2. ASSUME NEW t \in Thread, malloc_fails(t) PROVE AloneInv'
    <2>1. Creating' = Creating \ {t}
      BY <1>0, <1>2 DEF malloc_fails, LoggerTypeOK
    <2>2. t \in Creating
      BY <1>2 DEF malloc_fails
    <2> QED  BY <1>0, <1>2, <2>1, <2>2 DEF malloc_fails
  <1>3. ASSUME NEW t \in Thread, load_num(t) PROVE AloneInv'
    <2>1. Creating' = Creating /\ t \in Creating
      BY <1>0, <1>3 DEF load_num, LoggerTypeOK
    <2> QED  BY <1>0, <1>3, <2>1 DEF load_num, LoggerTypeOK
  <1>4. ASSUME NEW t \in Thread, store_count(t) PROVE AloneInv'
    <2>1. Creating' \subseteq Creating /\ t \in Creating
      BY <1>0, <1>4 DEF store_count, Store, LoggerTypeOK
    <2> QED  BY <1>0, <1>4, <2>1 DEF store_count, Store, LoggerTypeOK
  <1>5. ASSUME NEW t \in Thread, store_entry(t) PROVE AloneInv'
    <2>1. Creating' \subseteq Creating /\ t \in Creating
      BY <1>0, <1>5 DEF store_entry, Store, LoggerTypeOK
    <2> QED  BY <1>0, <1>5, <2>1 DEF store_entry, Store, LoggerTypeOK
  <1>6. ASSUME NEW t \in Thread,
               fopen_succeeds(t) \/ fopen_fails(t) \/ end(t)
        PROVE  AloneInv'
    <2>1. /\ Creating' = Creating /\ t \notin Creating
          /\ \A u \in Creating : place'[u] = place[u]
      BY <1>0, <1>6 DEF fopen_succeeds, fopen_fails, end, LoggerTypeOK
    <2> QED  BY <1>0, <1>6, <2>1 DEF fopen_succeeds, fopen_fails, end
  <1>7. CASE main_ends
    BY <1>0, <1>7 DEF main_ends
  <1>8. CASE free_logger \/ exit
    <2>1. main # "serving"
      BY <1>8 DEF free_logger, exit
    <2>2. Creating \ raced = {}
      BY <1>0, <2>1
    <2> QED  BY <1>8, <2>2 DEF free_logger, exit
  <1>9. CASE UNCHANGED loggerVars
    BY <1>0, <1>9 DEF loggerVars
  <1> QED
    BY <1>1, <1>2, <1>3, <1>4, <1>5, <1>6, <1>7, <1>8, <1>9 DEF LoggerNext

(* What is kept stays, and of the steps only the stores of a thread that   *)
(* raced with nobody add to it.                                            *)
LEMMA KeptStep ==
    ASSUME LoggerInv, [LoggerNext]_loggerVars PROVE KeptInv'
  <1> USE LoggerFacts, LoggerAssumption
  <1> USE DEF IsAt, Goto, KeptInv
  <1>0. /\ LoggerTypeOK /\ KeptInv /\ PlaceInv /\ AloneInv /\ FreedInv
        /\ LoggerTypeOK'
    BY LoggerTypeStep DEF LoggerInv
  <1>k. \A l \in Kept : l \in Loggers /\ HomeOf(l) \in Slot /\ HomeOf(l) \in Nat
    BY <1>0, Homes DEF Kept, LoggerTypeOK
  <1>1. ASSUME Kept' \subseteq Kept, table' = table, index' = index,
               num' = num, main' = main, i' = i,
               \A l \in Loggers : freed'[l] >= freed[l],
               \A t \in Thread : place'[t] = "loaded" => place[t] = "loaded"
        PROVE  KeptInv'
    <2>1. \A l \in Kept' : HomeOf(l)' = HomeOf(l)
      BY <1>1 DEF HomeOf
    <2> SUFFICES ASSUME NEW l \in Kept'
                 PROVE  /\ table'[HomeOf(l)'] = l
                        /\ main' # "exited" => HomeOf(l)' < num'
                        /\ main' = "exited" => HomeOf(l)' < i'
                        /\ HomeOf(l)' < i' => freed'[l] >= 1
                        /\ \A t \in Thread :
                              place'[t] = "loaded" => HomeOf(l)' < index'[t]
      OBVIOUS
    <2>2. l \in Kept /\ l \in Loggers
      BY <1>1, <1>k
    <2>3. freed'[l] \in Nat /\ freed[l] \in Nat /\ freed'[l] >= freed[l]
      BY <1>0, <1>1, <2>2 DEF LoggerTypeOK
    <2>4. HomeOf(l) < i => freed[l] >= 1
      BY <1>0, <2>2
    <2>5. HomeOf(l)' < i' => freed'[l] >= 1
      BY <1>1, <2>1, <2>3, <2>4
    <2> QED  BY <1>0, <1>1, <2>1, <2>2, <2>5
  <1>2. ASSUME NEW t \in Thread, begin(t) \/ malloc_fails(t) PROVE KeptInv'
    <2>1. Kept' \subseteq Kept
      BY <1>0, <1>2 DEF begin, malloc_fails, Kept, HasLogger, LoggerTypeOK
    <2>2. UNCHANGED <<main, i, num, table, index, freed>>
      BY <1>2 DEF begin, malloc_fails
    <2>3. \A l \in Loggers : freed'[l] >= freed[l]
      BY <1>0, <2>2, Freeings DEF LoggerTypeOK
    <2>4. \A u \in Thread : place'[u] = "loaded" => place[u] = "loaded"
      BY <1>0, <1>2 DEF begin, malloc_fails, LoggerTypeOK
    <2> QED  BY <1>1, <2>1, <2>2, <2>3, <2>4
  <1>3. ASSUME NEW t \in Thread, load_num(t) PROVE KeptInv'
    <2>1. Kept' = Kept /\ t \notin Kept
      <3>1. own' = own /\ raced' = raced /\ place[t] = "creating"
            /\ place' = [place EXCEPT ![t] = "loaded"]
        BY <1>3 DEF load_num
      <3>2. \A u \in Thread : place'[u] = "opening" <=> place[u] = "opening"
        BY <1>0, <3>1 DEF LoggerTypeOK
      <3>3. own[t] # t
        BY <1>0, <3>1 DEF PlaceInv
      <3> QED  BY <3>1, <3>2, <3>3 DEF Kept, HasLogger
    <2>2. \A l \in Kept : HomeOf(l)' = HomeOf(l)
      BY <1>0, <1>3, <1>k, <2>1 DEF load_num, HomeOf, LoggerTypeOK, Loggers
    <2>3. main # "exited" /\ index' = [index EXCEPT ![t] = num]
          /\ place' = [place EXCEPT ![t] = "loaded"]
      BY <1>3 DEF load_num
    <2>4. UNCHANGED <<main, i, num, table, freed>>
      BY <1>3 DEF load_num
    <2>5. \A l \in Kept : \A u \in Thread : place'[u] = "loaded" =>
             HomeOf(l) < index'[u]
      BY <1>0, <2>3 DEF LoggerTypeOK
    <2> QED  BY <1>0, <2>1, <2>2, <2>4, <2>5
  <1>4. ASSUME NEW t \in Thread, NEW what, Store(t, what),
               \/ what = "count" /\ num' = index[t] + 1 /\ table' = table
               \/ what = "entry" /\ table' = [table EXCEPT ![index[t]] = t]
                    /\ num' = num
        PROVE  KeptInv'
    <2>1. /\ place[t] = "loaded" /\ t \notin Kept
          /\ main # "exited" /\ main' = main /\ i' = i /\ index' = index
          /\ freed' = freed /\ raced' = raced /\ own' = own
      BY <1>0, <1>4 DEF Store, Kept, HasLogger, PlaceInv
    <2>2. \A l \in Loggers : HomeOf(l)' = HomeOf(l)
      BY <2>1 DEF HomeOf
    <2>3. \A u \in Thread : place'[u] = "loaded" => place[u] = "loaded"
      BY <1>0, <1>4 DEF Store, LoggerTypeOK
    <2>4. ASSUME NEW l \in Kept' \ {t}
          PROVE  /\ l \in Kept
                 /\ table'[HomeOf(l)] = l
                 /\ HomeOf(l) < num'
      <3>1. l \in Kept
        BY <1>0, <1>4, <2>1 DEF Store, Kept, HasLogger, LoggerTypeOK
      <3>2. HomeOf(l) < index[t] /\ HomeOf(l) < num /\ table[HomeOf(l)] = l
        BY <1>0, <2>1, <3>1
      <3> QED  BY <1>0, <1>4, <1>k, <3>1, <3>2 DEF LoggerTypeOK
    <2>5. ASSUME t \in Kept'
          PROVE  /\ table'[HomeOf(t)] = t
                 /\ HomeOf(t) < num'
                 /\ ~(HomeOf(t) < i)
                 /\ \A u \in Thread : place'[u] # "loaded"
      <3>1. place'[t] = "opening" /\ t \notin raced
        BY <1>0, <2>1, <2>5 DEF Kept, HasLogger, PlaceInv, LoggerTypeOK
      <3>2. todo[t] \ {what} = {} /\ \A u \in Thread \ {t} : place'[u] = place[u]
        BY <1>0, <1>4, <3>1 DEF Store, LoggerTypeOK
      <3>3. t \in Creating \ raced
        BY <2>1, <3>1 DEF Creating
      <3>4. Creating = {t} /\ main = "serving"
        BY <1>0, <3>3 DEF AloneInv
      <3>5. i = 0 /\ HomeOf(t) = index[t] /\ index[t] \in Slot
        BY <1>0, <3>4, Homes DEF FreedInv, LoggerTypeOK
      <3>6. table'[index[t]] = t /\ index[t] < num'
        BY <1>0, <1>4, <2>1, <3>2, <3>3, <3>5 DEF AloneInv, LoggerTypeOK
      <3>7. \A u \in Thread : place'[u] # "loaded"
        BY <3>1, <3>2, <3>4 DEF Creating
      <3> QED  BY <3>5, <3>6, <3>7
    <2> QED
      BY <1>0, <2>1, <2>2, <2>3, <2>4, <2>5 DEF Kept
  <1>5. ASSUME NEW t \in Thread,
               fopen_succeeds(t) \/ fopen_fails(t) \/ end(t)
        PROVE  KeptInv'
    <2>1. Kept' \subseteq Kept
      BY <1>0, <1>5
         DEF fopen_succeeds, fopen_fails, end, Kept, HasLogger, LoggerTypeOK
    <2>2. \A l \in Loggers : freed'[l] >= freed[l]
      <3>1. CASE freed' = freed
        BY <1>0, <3>1, Freeings DEF LoggerTypeOK
      <3>2. CASE freed' = [freed EXCEPT ![t] = @ + 1]
        <4> SUFFICES ASSUME NEW l \in Loggers PROVE freed'[l] >= freed[l]
          OBVIOUS
        <4>1. freed[l] \in Nat
          BY <1>0, Freeings DEF LoggerTypeOK
        <4>2. freed'[l] = IF l = t THEN freed[l] + 1 ELSE freed[l]
          BY <1>0, <3>2 DEF LoggerTypeOK
        <4> HIDE DEF KeptInv
        <4> QED  BY <4>1, <4>2
      <3> QED  BY <1>5, <3>1, <3>2 DEF fopen_succeeds, fopen_fails, end
    <2>3. UNCHANGED <<main, i, num, table, index>>
      BY <1>5 DEF fopen_succeeds, fopen_fails, end
    <2>4. \A u \in Thread : place'[u] = "loaded" => place[u] = "loaded"
      BY <1>0, <1>5 DEF fopen_succeeds, fopen_fails, end, LoggerTypeOK
    <2> QED  BY <1>1, <2>1, <2>2, <2>3, <2>4
  <1>6. CASE main_ends
    <2>1. Kept' \subseteq Kept
      BY <1>6 DEF main_ends, Kept, HasLogger
    <2>2. \A l \in Kept' : HomeOf(l)' = HomeOf(l)
      BY <1>6 DEF main_ends, HomeOf
    <2>3. main # "exited" /\ main' # "exited"
      BY <1>6 DEF main_ends
    <2>4. UNCHANGED <<i, num, table, index, place, freed>>
      BY <1>6 DEF main_ends
    <2> QED  BY <1>0, <2>1, <2>2, <2>3, <2>4
  <1>7. CASE free_logger
    <2>1. Kept' = Kept /\ \A l \in Kept : HomeOf(l)' = HomeOf(l)
      BY <1>7 DEF free_logger, Kept, HasLogger, HomeOf
    <2>2. /\ UNCHANGED <<main, num, table, index, place>>
          /\ main = "freeing" /\ i' = i + 1
      BY <1>7 DEF free_logger
    <2>3. ASSUME NEW l \in Kept, HomeOf(l) < i + 1 PROVE freed'[l] >= 1
      <3>1. CASE HomeOf(l) = i
        BY <1>0, <1>7, <1>k, <3>1 DEF free_logger, LoggerTypeOK
      <3>2. CASE HomeOf(l) # i
        <4>1. freed[l] >= 1
          BY <1>0, <1>k, <2>3, <3>2 DEF LoggerTypeOK
        <4>2. table[i] # NULL => table[i] \in Loggers
          BY <1>7, NextIsNew
        <4> QED  BY <1>0, <1>7, <1>k, <4>1, <4>2 DEF free_logger, LoggerTypeOK
      <3> QED  BY <3>1, <3>2
    <2> QED  BY <1>0, <2>1, <2>2, <2>3
  <1>8. CASE exit
    <2>1. Kept' = Kept /\ \A l \in Kept : HomeOf(l)' = HomeOf(l)
      BY <1>8 DEF exit, Kept, HasLogger, HomeOf
    <2>2. UNCHANGED <<i, table, index, place, freed>> /\ main = "freeing"
          /\ main' = "exited" /\ i >= num
      BY <1>8 DEF exit
    <2>3. \A l \in Kept : HomeOf(l) < i
      BY <1>0, <1>k, <2>2 DEF LoggerTypeOK
    <2> QED  BY <1>0, <2>1, <2>2, <2>3
  <1>9. CASE UNCHANGED loggerVars
    BY <1>0, <1>1, <1>9, <1>k DEF loggerVars, Kept, HasLogger, LoggerTypeOK
  <1> QED
    BY <1>2, <1>3, <1>4, <1>5, <1>6, <1>7, <1>8, <1>9
       DEF LoggerNext, store_count, store_entry

LEMMA LoggerInvariant == LoggerSpec => []LoggerInv
  <1>1. LoggerInv /\ [LoggerNext]_loggerVars => LoggerInv'
    BY LoggerTypeStep, PlaceStep, CountInvStep, AtHomeStep, FreedStep,
       AloneStep, KeptStep
       DEF LoggerInv
  <1> QED  BY <1>1, LoggerInitInv, PTL DEF LoggerSpec

(* The count may pass the end of the table when threads race, but by less  *)
(* than there are threads; and no logger is freed more than twice.         *)
THEOREM LoggerTypeCorrect == LoggerSpec => []LoggerTypeOK
  <1>1. LoggerInv => LoggerTypeOK
    BY DEF LoggerInv
  <1> QED  BY <1>1, LoggerInvariant, PTL

(* As long as main serves, no thread logs through memory that was freed. *)
THEOREM NoUseAfterFree == LoggerSpec => []LiveWhileServing
  <1>1. LoggerInv => LiveWhileServing
    <2> SUFFICES ASSUME LoggerInv, main = "serving",
                        NEW t \in Thread, NEW l \in Uses(t)
                 PROVE  freed[l] = 0
      BY DEF LiveWhileServing
    <2>1. l \in Loggers /\ l \notin failed
      BY LoggerFacts DEF Uses, LoggerInv, PlaceInv
    <2>2. i = 0 /\ HomeOf(l) \in Nat
      BY <2>1 DEF LoggerInv, FreedInv, LoggerTypeOK, HomeOf, Loggers, Slot
    <2>3. freed[l] <= 0
      BY <2>1, <2>2 DEF LoggerInv, FreedInv
    <2> QED  BY <2>1, <2>3 DEF LoggerInv, LoggerTypeOK
  <1> QED  BY <1>1, LoggerInvariant, PTL

(* A logger whose file could be opened is freed once at most, whatever the *)
(* threads do to the table while main goes through it.                     *)
THEOREM NoDoubleFree == LoggerSpec => []FreedOnce
  <1>1. LoggerInv => FreedOnce
    BY DEF LoggerInv, FreedInv, LoggerTypeOK, FreedOnce
  <1> QED  BY <1>1, LoggerInvariant, PTL

(* When the process ends main has freed the loggers of all threads that    *)
(* did not race with another, however those that did have left the table.  *)
THEOREM NothingLeaks == LoggerSpec => []AllFreed
  <1>1. LoggerInv => AllFreed
    <2> SUFFICES ASSUME LoggerInv, main = "exited",
                        NEW l \in Loggers \ raced, freed[l] = 0
                 PROVE  l \in Thread /\ own[l] = NULL
      BY DEF AllFreed
    <2>1. l \notin Kept
      BY DEF LoggerInv, KeptInv
    <2>2. l \in Thread /\ own[l] # l
      BY <2>1 DEF Kept, HasLogger, Loggers
    <2> QED  BY <2>2 DEF LoggerInv, PlaceInv
  <1> QED  BY <1>1, LoggerInvariant, PTL

(* A thread that is alone at the table stores within it. *)
THEOREM NoOverrunAlone == LoggerSpec => []WithinTable
  <1>1. LoggerInv => WithinTable
    <2> SUFFICES ASSUME LoggerInv, NEW t \in Thread \ raced, "entry" \in todo[t]
                 PROVE  index[t] < MAX_LOGGERS
      BY DEF WithinTable
    <2>1. place[t] = "loaded"
      BY DEF LoggerInv, PlaceInv
    <2> QED  BY <2>1 DEF LoggerInv, AloneInv, Creating
  <1> QED  BY <1>1, LoggerInvariant, PTL
=============================================================================
