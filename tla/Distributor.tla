----------------------------- MODULE Distributor -----------------------------
(***************************************************************************)
(* The threads that accept clients (serve_pop3_concurrent_blocking in      *)
(* server_utils.c, one for IPv4 in main and one for IPv6) and the life of  *)
(* a connection around its session: the count of concurrent clients, the   *)
(* limit, the threads, the descriptors, and the end of the server.         *)
(*                                                                         *)
(* g_stat->concurrent_clients++ and -- are a load and a store, which the   *)
(* threads interleave.  A session is one phase here, see Pop3Session; it   *)
(* may close its descriptor in QUIT, and it closes it at its end.  The     *)
(* counts of clients and of bytes, which nothing but an answer depends on, *)
(* the loggers and the memory of the Connections are left out.             *)
(***************************************************************************)
EXTENDS Integers, FiniteSets

CONSTANTS
    Listener,              \* the threads that accept
    Main,                  \* the one that runs in main
    Client,                \* the clients, that connect once each
    Home,                  \* [Client -> Listener], where a client connects
    Fd,                    \* descriptor numbers there are for connections
    NoFd,                  \* no descriptor
    MAX_CONCURRENT_USERS,
    Size,                  \* the number of values of a size_t
    MayRunOut              \* TRUE: malloc or pthread_create may fail

ASSUME DistributorAssumption ==
    /\ Main \in Listener
    /\ IsFiniteSet(Client)
    /\ Home \in [Client -> Listener]
    /\ NoFd \notin Fd
    /\ MAX_CONCURRENT_USERS \in Nat
    /\ Size \in Nat
    /\ Cardinality(Client) < Size
    /\ MayRunOut \in BOOLEAN

VARIABLES
    done,                \* set by the handler of SIGTERM and SIGINT
    exited,              \* main has returned: the process is gone
    at,                  \* [Listener -> where its loop is]
    phase,               \* [Client -> what has become of the connection]
    unthreaded,          \* the clients that a listener serves itself
    fd,                  \* [Client -> c->fd]
    open,                \* the descriptors that are open
    concurrent_clients,  \* g_stat->concurrent_clients
    loaded,              \* [Client -> the count its thread has loaded and
                         \*            not yet stored, or 0]
    lost                 \* history: an update of the count was overwritten

distVars == <<done, exited, at, phase, unthreaded, fd, open,
              concurrent_clients, loaded, lost>>

Place == {"loop", "accept", "limit", "serving", "over"}

Phase == {"away", "waiting", "accepted", "refused", "entering", "counting",
          "serving", "leaving", "discounting", "closing_again", "over"}

Init ==
    /\ done = FALSE
    /\ exited = FALSE
    /\ at = [l \in Listener |-> "loop"]
    /\ phase = [c \in Client |-> "away"]
    /\ unthreaded = {}
    /\ fd = [c \in Client |-> NoFd]
    /\ open = {}
    /\ concurrent_clients = 0
    /\ loaded = [c \in Client |-> 0]
    /\ lost = FALSE

Step(c, from, to) ==
    /\ ~ exited
    /\ phase[c] = from
    /\ phase' = [phase EXCEPT ![c] = to]

Turn(l, from, to) ==
    /\ ~ exited
    /\ at[l] = from
    /\ at' = [at EXCEPT ![l] = to]

-----------------------------------------------------------------------------
(* The surroundings *)

connect(c) ==
    /\ Step(c, "away", "waiting")
    /\ UNCHANGED <<done, exited, at, unthreaded, fd, open, concurrent_clients,
                   loaded, lost>>

(* signal() restarts the accept it interrupts, so only `done' changes *)
sigterm_handler ==
    /\ ~ exited
    /\ ~ done
    /\ done' = TRUE
    /\ UNCHANGED <<exited, at, phase, unthreaded, fd, open,
                   concurrent_clients, loaded, lost>>

-----------------------------------------------------------------------------
(* The listeners *)

(* Mutant: the loop is for ever. *)
AfterTest_never == "accept"

(* Where the test of done, at the head of the loop, leads *)
AfterTest == IF done THEN "over" ELSE "accept"

test_done(l) ==
    /\ Turn(l, "loop", AfterTest)
    /\ UNCHANGED <<done, exited, phase, unthreaded, fd, open,
                   concurrent_clients, loaded, lost>>

accept_client(l, c, d) ==
    /\ Home[c] = l
    /\ Turn(l, "accept", "limit")
    /\ Step(c, "waiting", "accepted")
    /\ d \notin open
    /\ open' = open \cup {d}
    /\ fd' = [fd EXCEPT ![c] = d]
    /\ UNCHANGED <<done, exited, unthreaded, concurrent_clients, loaded, lost>>

(* accept returns -1, as it does at once, whoever waits, when no descriptor *)
(* is left, and may for other reasons; the listener, which does nothing but *)
(* log it, tests done and tries again.                                      *)
accept_fails(l) ==
    /\ Turn(l, "accept", AfterTest)
    /\ UNCHANGED <<done, exited, phase, unthreaded, fd, open,
                   concurrent_clients, loaded, lost>>

(* Listener l, that has accepted client c, decides on it. *)
Decide(l, c, place, to) ==
    /\ Home[c] = l
    /\ Turn(l, "limit", place)
    /\ Step(c, "accepted", to)

HighDemand == concurrent_clients > MAX_CONCURRENT_USERS

(* ERR_HIGH_DEMAND is sent, and that is all: nothing is closed or freed *)
refuse(l, c) ==
    /\ HighDemand
    /\ Decide(l, c, "loop", "refused")
    /\ UNCHANGED <<done, exited, unthreaded, fd, open, concurrent_clients,
                   loaded, lost>>

(* Mutant: nobody looks at what pthread_create returns. *)
create_thread_unseen(l, c) ==
    /\ ~ HighDemand
    /\ \E to \in {"entering", "accepted"} : Decide(l, c, "loop", to)
    /\ UNCHANGED <<done, exited, unthreaded, fd, open, concurrent_clients,
                   loaded, lost>>

create_thread(l, c) ==
    /\ ~ HighDemand
    /\ Decide(l, c, "loop", "entering")
    /\ UNCHANGED <<done, exited, unthreaded, fd, open, concurrent_clients,
                   loaded, lost>>

(* malloc fails, before the limit is looked at, or pthread_create fails: *)
(* the listener serves the client itself                                 *)
handle_client_without_threading(l, c) ==
    /\ MayRunOut
    /\ Decide(l, c, "serving", "entering")
    /\ unthreaded' = unthreaded \cup {c}
    /\ UNCHANGED <<done, exited, fd, open, concurrent_clients, loaded, lost>>

-----------------------------------------------------------------------------
(* pop3_handle_connection, for client c *)

load(c, from, to) ==
    /\ Step(c, from, to)
    /\ loaded' = [loaded EXCEPT ![c] = concurrent_clients]
    /\ UNCHANGED <<done, exited, at, unthreaded, fd, open, concurrent_clients,
                   lost>>

(* Mutant: the count is taken for a number that nothing wraps. *)
Wrapped_not(n) == n

Wrapped(n) == n % Size

(* The store of a count loaded before: an update made meanwhile is lost *)
Overwrite(c, n) ==
    /\ concurrent_clients' = Wrapped(n)
    /\ lost' = (lost \/ concurrent_clients # loaded[c])
    /\ loaded' = [loaded EXCEPT ![c] = 0]

(* g_stat->concurrent_clients++, then the greeting *)
increment(c) ==
    /\ Step(c, "counting", "serving")
    /\ Overwrite(c, loaded[c] + 1)
    /\ UNCHANGED <<done, exited, at, unthreaded, fd, open>>

(* QUIT closes the descriptor, and the session goes on *)
quit_close(c) ==
    /\ Step(c, "serving", "serving")
    /\ open' = open \ {fd[c]}
    /\ UNCHANGED <<done, exited, at, unthreaded, fd, concurrent_clients,
                   loaded, lost>>

(* Mutant: only a listener closes. *)
hang_up_open(c) ==
    /\ Step(c, "serving", "leaving")
    /\ open' = IF c \in unthreaded THEN open \ {fd[c]} ELSE open
    /\ UNCHANGED <<done, exited, at, unthreaded, fd, concurrent_clients,
                   loaded, lost>>

(* The Connection of a client that a listener serves has buffers that      *)
(* nobody initialised: the first use of one may be the end of the process  *)
unthreaded_crash(c) ==
    /\ ~ exited
    /\ phase[c] = "serving" /\ c \in unthreaded
    /\ exited' = TRUE
    /\ UNCHANGED <<done, at, phase, unthreaded, fd, open, concurrent_clients,
                   loaded, lost>>

(* The loop over the commands ends, and the number is closed, again if     *)
(* QUIT did it, whoever it belongs to by now                               *)
hang_up(c) ==
    /\ Step(c, "serving", "leaving")
    /\ open' = open \ {fd[c]}
    /\ UNCHANGED <<done, exited, at, unthreaded, fd, concurrent_clients,
                   loaded, lost>>

(* Mutant: a listener does not count the client out. *)
decrement_threads(c) ==
    /\ Step(c, "discounting", IF c \in unthreaded THEN "closing_again" ELSE "over")
    /\ IF c \in unthreaded THEN UNCHANGED <<concurrent_clients, loaded, lost>>
                           ELSE Overwrite(c, loaded[c] - 1)
    /\ fd' = IF c \in unthreaded THEN fd ELSE [fd EXCEPT ![c] = NoFd]
    /\ UNCHANGED <<done, exited, at, unthreaded, open>>

(* g_stat->concurrent_clients--, with which a thread ends *)
decrement(c) ==
    /\ Step(c, "discounting", IF c \in unthreaded THEN "closing_again" ELSE "over")
    /\ Overwrite(c, loaded[c] - 1)
    /\ fd' = IF c \in unthreaded THEN fd ELSE [fd EXCEPT ![c] = NoFd]
    /\ UNCHANGED <<done, exited, at, unthreaded, open>>

(* handle_client_without_threading closes the number once more, whoever it *)
(* belongs to by now, and the listener goes on                             *)
close_again(l, c) ==
    /\ Home[c] = l
    /\ Turn(l, "serving", "loop")
    /\ Step(c, "closing_again", "over")
    /\ open' = open \ {fd[c]}
    /\ fd' = [fd EXCEPT ![c] = NoFd]
    /\ unthreaded' = unthreaded \ {c}
    /\ UNCHANGED <<done, exited, concurrent_clients, loaded, lost>>

-----------------------------------------------------------------------------
(* main returns once its listener has: the process ends with all threads *)
main_returns ==
    /\ ~ exited
    /\ at[Main] = "over"
    /\ exited' = TRUE
    /\ UNCHANGED <<done, at, phase, unthreaded, fd, open, concurrent_clients,
                   loaded, lost>>

ListenerStep(l) ==
    \/ test_done(l)
    \/ open = Fd /\ accept_fails(l)
    \/ \E c \in Client :
         \/ \E d \in Fd : accept_client(l, c, d)
         \/ refuse(l, c) \/ create_thread(l, c)
         \/ handle_client_without_threading(l, c)
         \/ close_again(l, c)

SessionStep(c) ==
    \/ load(c, "entering", "counting") \/ increment(c)
    \/ hang_up(c)
    \/ load(c, "leaving", "discounting") \/ decrement(c)

Next ==
    \/ \E c \in Client : connect(c) \/ quit_close(c) \/ unthreaded_crash(c)
                         \/ SessionStep(c)
    \/ \E l \in Listener : ListenerStep(l) \/ accept_fails(l)
    \/ sigterm_handler
    \/ main_returns

Spec == Init /\ [][Next]_distVars

(* Every thread that can run does, and no client stays for ever (the code  *)
(* has no timeouts, so that is an assumption about clients).  accept fails *)
(* for sure when no descriptor is left; else it need not, and it does not  *)
(* fail for ever while a client waits.                                     *)
FairSpec ==
    /\ Spec
    /\ \A l \in Listener : WF_distVars(ListenerStep(l))
    /\ \A c \in Client : WF_distVars(SessionStep(c))
    /\ WF_distVars(main_returns)

-----------------------------------------------------------------------------
(* Properties *)

(* The types; in particular the count stays a size_t, it wraps and is      *)
(* never a number outside it.                                              *)
TypeOK ==
    /\ done \in BOOLEAN /\ exited \in BOOLEAN /\ lost \in BOOLEAN
    /\ at \in [Listener -> Place]
    /\ phase \in [Client -> Phase]
    /\ unthreaded \subseteq Client
    /\ fd \in [Client -> Fd \cup {NoFd}]
    /\ open \subseteq Fd
    /\ concurrent_clients \in 0 .. Size - 1
    /\ loaded \in [Client -> 0 .. Size - 1]

(* The clients a correct count would count *)
Counted == {c \in Client : phase[c] \in {"serving", "leaving", "discounting"}}

(* The count is that of the sessions, through refusals, failures and ends  *)
(* of all kinds, until two threads update it at once: no path of the code  *)
(* begins or ends a session without counting it.                           *)
CountIsExact == ~ lost => concurrent_clients = Cardinality(Counted)

(* A descriptor is open only for a client that is not through with the     *)
(* server, or that was refused: a session leaves none behind, even when    *)
(* QUIT had closed its number and it went to another.                      *)
OnlyRefusedLeak ==
    \A d \in open : \E c \in Client : fd[c] = d

Answered(c) == phase[c] \notin {"away", "waiting", "accepted", "entering",
                                "counting"}

KeptByRefused ==
    \A d \in Fd : d \in open /\ \E c \in Client : fd[c] = d /\ phase[c] = "refused"

(* Every client that connects is given a session or refused, in the end,   *)
(* unless the server stops or refused clients keep every descriptor.       *)
ClientsAnswered ==
    \A c \in Client :
        phase[c] = "waiting" ~> Answered(c) \/ done \/ exited \/ []KeptByRefused

(* "Signal, cleaning up and exiting": a server that was told to stop does, *)
(* unless the thread that runs in main is never given another client; one  *)
(* that has no descriptors left to accept with stops all the same.         *)
StopsAtNextClient == done ~> exited \/ [](at[Main] = "accept" /\ open # Fd)
=============================================================================
