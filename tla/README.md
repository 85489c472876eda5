# A formal model of the POP3 server

This directory holds TLA+ modules that model the POP3 server of this
repository (`src/src`), TLC configurations that check them on small instances,
and TLAPS proofs of the theorems that matter most for every instance.
`PROJECT.json` maps every definition to the lines it models and lists the runs,
the mutants that show each property can fail, the hazards and the theorems.

Paths below are relative to `src/src`.

## The system

| Component | State | Operations | Talks to |
|---|---|---|---|
| Distributor (`server_utils.c`, `main.c`): two threads, IPv4 and IPv6 | the listening sockets, the global counters | accept, refuse, create a session thread, serve a client itself | sessions, through the `Connection` it allocates |
| Session thread (`server_utils.c`) | `Connection`: descriptor, status, name, mail list, three buffers | receive, frame commands, dispatch, post and close at the end | handlers, semaphores, counters |
| Command handlers (`parser/pop3_parserADT.c`) | the session's `Connection`, the users' semaphores, Maildir files | USER PASS STAT LIST RETR DELE NOOP RSET QUIT CAPA | file system, other sessions through the semaphore of a mailbox |
| Mail list (`pop3_functions.c`) | `conn->mails`, Maildir `cur` and `new` | list both folders, delete, move from new to cur | file system, delivery agent |
| I/O buffer (`buffer.c`) | four pointers into an array | read, write, advance, compact, reset | session, configuration server |
| Transfer and transformation of a mail (`retr_action`, `transform_completion`) | file position, pipe, child process | stuff dots, send, fork, write, wait | socket, external script |
| Parser engine and grammars (`parser/parserADT.c`, `parser/parser_automaton`) | automaton state, token fields | feed, reset, destroy | session, configuration server |
| Configuration server (`parser/config_parserADT.c`, `server_utils.c`): one thread on UDP | the global configuration, one shared answer buffer | GET and SET of configuration and statistics | sessions, which read the configuration with no lock |
| Logger (`logger.c`) | a table of loggers | create, log, free all | every thread |
| Start-up and shutdown (`main.c`, `args.c`) | users, sockets | parse arguments, open sockets, free | all |

What makes this code hard is that one thread runs per connection and that the
threads share more than the mailbox semaphores: descriptor numbers, freed
`Connection` memory, the Maildir files, descriptors inherited by forked
children, the counters, the configuration and the table of loggers. There are no
timeouts: a thread that blocks waits for as long as the other side likes.
`PROJECT.json` lists each hazard with its line.

What makes each component correct:

* *Sessions.* A mailbox is one session's at a time; a taken semaphore is given
  back; whoever waits for a mailbox gets it; numbers are stable while a session
  lasts; only the QUIT of a client that asked removes a mail.
* *Framing.* The commands that run are the lines that were sent, however TCP cuts
  them; nothing is written past the array, and what is read of it as a string ends at
  the NUL behind the bytes received (but for the log of a too long text, below).
* *Buffer.* Bytes leave in the order they came, and space that was drained can be
  used again.
* *Transfer.* The terminator ends the answer and does not occur before its end;
  the client gets back the mail.
* *Transformation.* The final dot follows the script's output; a transfer ends;
  the server survives.
* *Parser.* The tables of transitions accept the grammar and nothing else; a
  handler is given the text that was received, and only whole commands.
* *Distributor.* The count that decides who is refused is the number of sessions;
  every client is served or refused; no descriptor is lost; the server stops when
  it is told to.
* *Configuration.* A setting that was answered with success was made, and a refused
  one was not; an answer comes whole; a thread that reads a setting while it changes
  stays within it; the server comes back for the next request.
* *Logger.* No thread logs through a logger that was freed, none is freed twice, the
  table is not overrun, and all of it is freed at the end.

## Modules

| Module | Models | Notes |
|---|---|---|
| `Maildrop` | what the server promises about mail | the abstract specification |
| `Pop3Session` | session threads, handlers, semaphores, Maildir | the core; refines `Maildrop` |
| `CommandFraming` | the receive loop | one connection |
| `CommandParser` | parser engine, both automata, both callers | one thread, any number of texts |
| `Buffer` | `buffer.c` | |
| `MailTransfer` | the loop that sends a mail | one RETR |
| `Transform` | `transform_completion` | several threads, processes and pipes |
| `Distributor` | accept loops, session threads around their sessions, end of the server | a session is one phase |
| `ConfigServer` | the thread that serves UDP, its handlers, the settings | one thread, and sessions that read |
| `Logger` | the table of loggers | all threads, and the end of main |
| `MC*` | instances for TLC | |
| `*Proofs` | theorems and proofs | extend the component and `TLAPS`; `ThreadProofs` extends both `Distributor` and `Logger`, which is why the names of `Logger` are its own (`LoggerInit`, `LoggerNext`, `LoggerTypeOK`) |

Definitions whose comment begins with "Mutant" are plausible bugs: nothing uses
them, and `PROJECT.json` says which definition each would replace and which
property then fails.

### Pop3Session

A handler is one action when it touches shared state once. PASS blocks in
`sem_wait` and reads two directories; QUIT updates one file at a time, closes the
socket and posts; the end of a session posts and closes. Those are split at
their shared accesses, and `phase` is the program counter:

    free -Accept-> ready -pass_trywait-> list_cur -> list_new -> ready
                   ready -pass_busy-> waiting -pass_granted-> ready
                   ready -quit_begin-> updating -> closing -> posting -> ready
                   ready -hang_up-> ending -end_post-> leaving -end_close-> free

`status`, `name` and `mails` are the fields of the `Connection`; `sem` the users'
semaphores; `disk` where each mail file is; `open` the descriptors that are open
in the process and `fd` the number each session uses, which may be the number of
another session once QUIT has closed it. `freed` is what freed `Connection`
memory holds. `holds` is a history variable: the semaphores a session took and
has not posted. The file system may fail: a listing may stop early or find nothing
(`opendir`, `readdir`), and RETR, a removal and a move may fail on a file that is there as
on one that is gone; a removal that fails is ignored, a move that fails ends QUIT
(`quit_move_fails`). Answers, sizes and contents of mails are left out; the commands
that only answer are one action, `query_action`.

`maildir` is the setting that SETMDF of the configuration server changes: `Torn` from
the first byte of its `strcpy` to the last, since a session may read it then.
`pass_action` makes the path of both listings once (`path`), the other handlers make
theirs anew. `Place` says which folder the Maildir of a file really has, and file
names are unique over all Maildirs, as those of mail transfer agents are; a torn name
is taken to name no Maildir. RETR sizes its path buffer with the wrong folder
(`pop3_parserADT.c` 352), which for a short folder name cuts the end off: `Short`.

`visit` is a history variable too. A session's visit is its `"own"` from a login with an
empty list while nobody else held the mailbox or was trespassing in it, until the session
is given USER, a wrong PASS or QUIT, another session takes the semaphore or trespasses,
or the folder is set. It is a `"trespass"` in the update of a QUIT that began without the
semaphore of the session's name. While a visit is the session's own, the list must be
true (`ListedIsThere`); what ends one early are the things the code really lets happen:
a double post, USER after a login, SETMDF.

Two constants choose how hostile the surroundings are.

* `Clients`. `"any"`: any command at any time. The handlers of USER and PASS do not
  look at the state of the session, and commands that are in the buffer when QUIT
  runs are still run. `"no_relogin"`: no USER or PASS while the session holds a
  semaphore. `"rfc1939"`: moreover none after a login, and nothing after QUIT.
* `Recycled`. TRUE: `malloc` may return the memory of a `Connection` that was
  freed, with what it held (the code initialises none of status, name and mail
  list). FALSE: memory comes zeroed, as when the allocator takes it fresh from
  the system or holds freed blocks back, which is what the address sanitizer the
  Makefile builds with does. All runs take FALSE, and of the theorems only
  `SessionsImplementMaildrop` needs it.

### CommandFraming

`received` and `executed` are the bytes the buffer was advanced by and the commands that
ran; `write`, `base`, `total` and `bytes_read` are the variables of the loop. Bytes are
of four kinds, enough to tell CR, LF, other text and a NUL apart. `Residue` is
what the uninitialised array may hold (`before` keeps it): `recv` overwrites it and the
NUL that follows stops `strstr` from finding it, and that is one of the things the run and
the theorem show. When the total is above the limit, what `recv` returned is in the array
and no NUL is put behind it (`too_long`, `server_utils.c` 137-145): it is logged as a
string first and refused then. `StringsEnd` says where the strings that are read in either
case end. `Excess` are the too long texts: any set of them for the theorems.

### CommandParser

The states of an automaton are the numbers of its enum and its table is a function
from states to rows (characters matched, next state, action), as in the source; so
`is_any` before another row would shadow it, here as there. A character is the
class the predicates of `parser_automaton.h` can tell it by. `data` are the fields
the actions fill. `parser_init` may return NULL, when `calloc` fails or `errno` is left at
ENOMEM, and its callers do not look: `crashed` is the end of the process. After the text, `parse_input` and `config_parse_input` look the
fields up and answer; a name is compared by length only (`CanBeName`), and which
command of the table it is stays open. The reference definition, `Grammatical`, says
what a text of the grammar is by the place of each of its characters and knows
nothing of states.

### Buffer, MailTransfer, Transform

`Buffer` numbers the bytes in the order they are written, so that a byte that is
lost, repeated or moved shows. `MailTransfer` sends a file byte by byte; `Chunk` is
the size of the `fread` buffer, which decides where the test of the byte before
looks over the edge. `Transform` has the descriptor tables of the server and of
its children: a forked child has all that the server has at that moment, closes
only the two ends of its own pipe, and a pipe is at its end for its reader only
when no process has its write end. A script reads to the end of its input, or one
stops early (`stops`).

### Distributor

One variable per loop (`at`) and one per connection (`phase`). Everything between
the greeting and the end of a session is the phase `serving`, which is where
`Pop3Session` takes over; what the two share is the descriptor that QUIT closes and
the end closes again. `g_stat->concurrent_clients++` and `--` are a load and a store
in two steps, and the count wraps as a `size_t` does. `lost` is a history variable:
two updates have overlapped. `MayRunOut` lets `malloc` and `pthread_create` fail, and
the listener then serves the client itself, with a `Connection` whose buffers nobody
initialised: the process may end there, or the session go on. `accept` may fail at any
time; the listener then tests `done` and accepts again, which is one step
(`accept_fails`), and none to be seen while `done` is unset.

### ConfigServer

`at` is where the thread is and `parts` the datagrams of the answer it still has to
send: `send_data_udp` is one action per outcome (too long for a datagram, no room in
the buffer, sent, not sent), and its result is looked at by nobody. `write` is the write
pointer of the shared buffer. A string setting is its array (`text`); `strcpy` writes
its cells in any order, which is all that C promises, and a session reads cell after
cell until it finds a NUL. Which bytes are a request is `CommandParser`'s matter. The
history variables `reached`, `unsent`, `trouble` and `before` say what became of the
answer under way, and what the settings were when the request came.

### Logger

`initializedLoggers[numInitializedLoggers++] = logger` is a load and two stores that
other threads may see in either order. A logger is named for the thread that made it,
so that memory which `malloc` returns again counts as new. `freed` counts how often each
was freed; `own` is what the thread got. A logger whose file did not open is freed, and
in the table all the same. Threads are the sessions, the second listener and the
configuration server. `raced` is a history variable: the threads that made their logger
while another did, or while main freed them all.

## Runs

All bounds are constants of the configurations; none replaces a definition.

| Run | Instance | Shows |
|---|---|---|
| `Session_lock` | 2 users, no files, 2 connections at a time, 3 in all, `no_relogin`, fair | `LockHasLiveHolder`, `WaiterGranted`, no deadlock |
| `Session_maildrop` | 1 user, 1 file, list of 2, 2 connections, `any`, SETMDF to another folder and back, no unregistered names (after a wrong PASS the name is the empty one, which behaves alike) | `TypeOK`, `ListedIsThere`, refinement of `Maildrop` |
| `Buffer` | 4 bytes of space, 7 written | `TypeOK`, `PointersOrdered`, `Contents`, `EmptyOffersAll` |
| `Framing` | array of 8, limit of 6, every input and every cut; four residues, too long texts of letters or of line ends (`Floods`) | `TypeOK`, `StringsEnd`, `ExecutedAreLines` |
| `Transfer` | every mail of up to 8 bytes, chunks of 3 | `TypeOK`, `NoEarlyTerminator`, `MailArrives` |
| `Transform` | 2 threads, 3 transfers of 2 bytes, pipe of 1, vanishing mails, scripts that may stop, fair | `TypeOK`, `DotAfterOutput`, `ServerSurvives`, `OnlyOthersBlock`, `TransferEnds` |
| `Parser` | fields of 3 and 4 characters, every text up to its first error | `TypeOK`, `RecognisesGrammar`, `FieldsHoldInput`, `OnlyWholeCommandsRun`, no deadlock |
| `Distributor` | 2 listeners, 3 clients, 2 descriptors, limit 0, failures, fair | `TypeOK`, `CountIsExact`, `OnlyRefusedLeak`, `ClientsAnswered`, `StopsAtNextClient` |
| `ConfigServer` | a script of up to 3 characters and the token, datagrams of 2, a buffer of 4, one reader | `TypeOK`, `ReadersStop`, `AnswersTrue`, `AnswersWhole`, `StaysInService` |
| `Logger` | 4 threads, a table of 4 of which main has 2 | `LoggerTypeOK`, `LiveWhileServing`, `FreedOnce`, `AllFreed`, `WithinTable` |

Why the bounds are enough: the third connection is what a post too many needs to
show (one session posts what it did not take, or posts twice, and the other two share
the mailbox), and two at a time are what a wait needs; the second user is what a post under another name needs. One
file can be listed, deleted, moved, found gone by another session and, with PASS
given twice, listed twice, which fills a list of two. Four bytes of buffer give every
relative position of the pointers. The framing array is longer than the limit, as
32768 is than 255, and both are long enough for two commands and a cut one; what is in a too long text matters
to nothing but where its log ends, and the residues have a NUL behind it, only at the
last place, and nowhere. A terminator has five bytes, so mails of eight have it at every
place and across every chunk boundary. Two transfers are what inherited descriptors need, a third follows one
that was abandoned. Fields of three and four characters have a first, a middle and a
last place, and different lengths show a limit taken for another's. Two listeners and
a third client are what a lost update together with an unthreaded client needs; two
descriptors run out when two clients are refused. The buffer of the configuration
server holds two datagrams, so that two failures fill it and one leaves room for a part
of an answer only; the setting that `-t` gives may be longer than a datagram and one
that SET gives may not, as 9999, 255 and 128 are. Four threads for two places: two fill
the table, and two more race for its last place or past it.

Deadlock is checked in the runs where the modelled program never stops by itself
(`all_served` is the model's own end of the world: all connections the bound
allows have been served). It is off where the modelled program ends, and in
`Session_maildrop`, where a session that sends PASS twice waits for itself.

### Disagreements with what the code says

Each of these runs checks one statement of a comment, a message or a constant's
comment, and TLC shows a behaviour of the code that breaks it; `findings` quotes
the statement.

| Run | Statement | What happens |
|---|---|---|
| `Bug_shared_mailbox` | a second login waits for clearance | the end of a session posts the semaphore of its name, taken or not (`server_utils.c` 190-196): in the trace one session gives USER and hangs up, and the other two share its mailbox. A session that QUITs posts twice (`pop3_parserADT.c` 582), with the same effect |
| `Bug_wait_deadlock` | closing the write end signals the end of input | a child forked meanwhile keeps that end: two transfers wait for each other |

### Observations without a run

Met while modelling; the models have this behaviour, and no property claims otherwise.

* PASS given twice takes the session's own semaphore a second time and waits for
  itself (`pop3_parserADT.c` 107); USER after a login makes QUIT post another user's.
* A session that waited in PASS gets "Permission granted" but stays in AUTHORIZATION,
  without a list (103-112).
* RETR of a mail whose file is gone sends nothing (375), and RETR after DELE drops
  the mark (421).
* A fresh `Connection` has the status, name and list the memory had.
* A mail that cannot be opened by `transform_completion` leaves the write end open and
  its script running (261-266).
* A dot inside a line is doubled at a chunk boundary; a line that ends in LF alone is
  sent with LF CR (397-410).
* A refused client's descriptor is never closed (`server_utils.c` 62-66). One that QUIT
  closed is closed again at the end of the session (198), and once more if a listener
  served it (259), and may by then be another client's.
* `done` is read between two accepts only, and `signal` restarts an interrupted
  `accept`, so SIGTERM takes effect at the next client (27).
* `total_bytes_read` is compared with the maximum length of a command and never reset:
  255 bytes of short commands end a session (`server_utils.c` 137).
* The text that exceeds the limit is logged with %s before a NUL is put behind it
  (`server_utils.c` 141): the log reads on into what the array held before, and past the
  array if there is no NUL in that. `StringsEnd` says so.
* `parser_init` takes an `errno` that is ENOMEM from an earlier call for a failure of its
  own, and neither caller tests for the NULL it returns (`parser/parserADT.c` 20).
* A decrement of `concurrent_clients` can be lost, and a client is then refused "due to
  high demand" though there is room (200).
* Failed sends fill the answer buffer of the configuration server for good, since only a
  send that succeeds resets it; then a line end of one byte may still fit and be sent
  alone, which frees it again (`server_utils.c` 338-355).
* A setting of more than 255 bytes, as `-t` may give, is left out of the answer (332).
* SETTRF with another argument than true and false is answered "+SUC" with false and
  then "-ERR", and nothing is set (`config_parserADT.c` 181).
* With a Maildir folder whose name is shorter than the mail root, RETR cuts its path and
  opens nothing (`pop3_parserADT.c` 352).
* A PASS after QUIT appends to the list that is still there (102); a session that keeps
  going after a SETMDF looks for its listed mails in the other folder.
* A logger whose file did not open is freed twice at the end of main, and sessions that
  still run then use freed ones (`logger.c` 77, 99; `main.c` 259). Threads that race for
  the last entry of the table store past its end (37, 69).
* `total_clients` counts failed accepts, and an error in the set-up of the sockets
  closes descriptors that were not yet initialised (`main.c`, `goto finally`).
* GET with an argument is answered "invalid object code" although there is a message
  for it, and GETBTF answers the concurrent clients (`config_parserADT.c` 161).

## Fairness

* `Pop3Session`: weak fairness of what a thread does by itself (the operating system
  runs every thread that can run) and strong fairness of `hang_up`. The latter is
  an assumption about clients and not a property of the code: without a timeout a
  client that stays connected keeps its mailbox for ever. Strong, because a session
  that keeps sending commands is again and again between two of them.
* `Transform`: weak fairness of each thread and of each child; none of
  `script_stops`, as no script has to stop early.
* `Distributor`: weak fairness of each listener, each session and the return of
  main. Again a session ends only because its client leaves. None of `connect`, of
  the signal, or of a failure, but that `accept` fails for sure when no descriptor is
  left. Since a failing `accept` changes nothing while `done` is unset, weak fairness of
  a listener also says that `accept` does not fail for ever while a client waits and
  descriptors are left. So `ClientsAnswered` excuses a server that was told
  to stop and one whose descriptors all belong to refused clients, and
  `StopsAtNextClient` one whose main thread is never given another client though it
  has descriptors for one (without, `accept` fails and it stops): these are the two ways in which the code really waits for ever.
* `ConfigServer`: weak fairness of `Work`, what the thread does by itself once it has a
  request. Nothing makes a client ask, so `StaysInService` says that the thread comes
  back to `recvfrom`, and has as its excuses the ends the code has: a signal, a failed
  `recvfrom`, a datagram that is too long.

The other runs check safety only.

## Proofs

Every theorem is proved for all values of the constants that the named assumptions
of the modules allow; TLC evaluates the assumptions in the runs.

* `Pop3SessionProofs`. `TypeCorrect` is inductive by itself with the clause that a
  waiting session has the name of a registered user; its core is that reading a
  directory stops at the end of the list. `LockNeverOrphaned` needs more: that a
  semaphore is zero says nothing about who took it. `LockInv` adds that a taken
  semaphore is in some session's `holds` (`TakenIsHeld`: posts only ever shrink
  `holds` together with a growing count), that a session only holds what has its
  present name (`HeldIsNamed`: this is where `Clients # "any"` is used, as USER while
  holding breaks it), and that who holds is in a phase from which it will post
  (`HolderRuns`; PASS while holding breaks it). For `"any"` it is false.
  `SessionsImplementMaildrop`: the initial states map to `DropInit` and every step to a
  step or a stutter of `Maildrop`, whatever the clients send. Needs `Recycled = FALSE`:
  a session that starts with another's list takes numbers from nowhere.
  `ListStaysTrue` (`ListedIsThere`) holds for every discipline of the clients and any
  `Recycled`. `OwnInv` says where the sessions of each kind of visit are, that an update
  goes with the semaphore or is a trespass (`UpdateInv`), that a session with its mailbox
  for itself shares it with no holder and no trespasser (`AloneInv`), that the folder it
  reads is the one that is set (`PathInv`), and that what it has listed *so far* is there
  (`ThereInv`), since the listing is of two folders with steps of others in between.
  Then the only step that moves or removes a file is one of an update, which no other
  session can be in for this mailbox.
* `BufferProofs`. The contents, mapped through the pointers, are an interval of the
  byte numbers; compaction keeps it because it shifts by the distance of the read
  pointer.
* `CommandFramingProofs`. The invariant ties the array to what was received: from `base`
  on, the bytes up to `write` are that, then there is a NUL while commands are looked for,
  and behind it lies what was there before the session, untouched. It says
  that `base` is where the last complete line ended, and that no complete line
  lies before the place the search starts at. `ReadsOfBufferEnd` (`StringsEnd`) follows:
  with the NUL the strings end inside the array, and without it, for a too long text, they
  end where the untouched memory has one, if it has.
* `MailTransferProofs`. Wherever the terminator occurs in what was sent, it has a dot
  after LF and before CR. A dot from the file after LF has been doubled; LF at the
  end of a chunk is followed by a dot that starts a chunk, which is doubled as well:
  the doubling inside a line is the price of that. `ClientGetsTheMail` (`MailArrives`)
  is about the reader as well, a recursive function over all that was sent: it is the
  one function that satisfies its recursion (`UndotsExists`, `UndotsAgree`, by the least
  place where that would fail), so one byte more changes what it has made by that byte or
  not at all (`UnstuffedAppend`). `ArriveInv` then says that the reader has, up to every
  byte, the mail up to there, and that what was sent ends a line exactly where the file
  does; `WellCut` is what makes the test for the start of a line see the same thing.
* `TransformProofs`. A transfer belongs to one thread; up to `close_write` the server
  has its write end, so the script has not seen the end of its input and still has
  the read end; written bytes are in the pipe or eaten; after a script has exited
  nobody has a write end of its pipe, and no later fork can give it one.
  `OnlyOthersKeep` (`OnlyOthersBlock`) is the safety half of `TransferEnds`: who has an
  end that keeps a blocked transfer blocked. `EndsInv` adds that only living children
  have ends, that what is closed stays closed, and that whoever has the read end of
  another's pipe has its write end too (`ReaderHasWriter`), because the server closes
  the read end first and a fork copies both or the write end alone. So a thread that
  writes to a full pipe of a script that stopped early waits for the same children as
  one that waits for a script without end of input.
* `CommandParserProofs`. `ParserInv` adds to the four properties that the state of an
  automaton is the number of characters fed, up to the state of its last field
  (`StateCounts`), and that a caller has not answered before its text ended. The
  tables are looked up once, in `Pop3Step` and `ConfigStep`, which say what each
  state does with each character; the grammar is laid out by place in `Pop3Layout`
  and `ConfigLayout`; and `FeedStep` shows that the two agree on one more character.
* `ThreadProofs`, on `Distributor`. `CountExact` is inductive once the types are known: `lost` is set
  by the second of two overlapping updates, so that without it the value a thread
  stores is the present count and one, or less one, and the step is the one that brings
  the client among the counted or takes it away; `Size` being more than the clients,
  the count does not wrap. `NoDescriptorOrphaned` needs `OpenIsOwned`: a session keeps
  its number after the close and drops it at its end, so the owner of an open
  descriptor has to be one before its close. A second close may take another client's
  descriptor (that is an observation above), but never leaves one without an owner.
* `ThreadProofs`, on `Logger`. A logger lies at the index its thread loaded and nowhere
  else (`AtHome`): two threads that race may load the same, and then one of the two is
  not in the table at all, but none is in it twice. So it was freed once if its file did
  not open, and once more if the loop of main has passed its place (`FreedInv`), which
  is `FreedOnce` for those that opened. `AllFreed` and `WithinTable` excuse threads that
  raced: `AloneInv` says that one which did not is alone between its test of the count
  and its store, and `KeptInv` that its logger is still in its place, below the count,
  until the loop has freed it. The count passes the end of the table by less than the
  number of threads, since each thread passes on at most one increment (`CountInv`).
* `ConfigServerProofs`. The last cell of an array is never written with anything but NUL
  (`EndsInv`), because what `strcpy` copies was found shorter than the array (`CopyInv`);
  a reader that has met no NUL yet is therefore short of the end, in whatever order the
  cells are written. `SetInv` ties the answer "success" to the cells already copied,
  `SameInv` an error or a GET to unchanged settings. `WholeInv` says that until a datagram
  fails what was sent and what is to be sent make up an answer and the buffer is empty.
  For that the longest datagram has to fit the empty buffer, an assumption on the
  constants (`MAX_COMMAND_LENGTH <= BUFFER_SIZE`: 255 and 1024 in `server_utils.h`
  32-33): otherwise a part of an answer could be dropped though nothing had failed.

The invariants of `Buffer`, `CommandFraming`, `MailTransfer` and `Transform` include the
types, which are theorems as well (`BufferTypes`, `FramingTypes`, `TransferTypes`,
`TransformTypes`).

Every safety property that a run checks is a theorem. Only model-checked: liveness
(`WaiterGranted`, `TransferEnds`, `ClientsAnswered`, `StopsAtNextClient`,
`StaysInService`), since the prover does not do fairness or ENABLED; the absence of
deadlock in the runs that check it, which is ENABLED too; and what the `Bug_` runs
refute, which is false.

## Not modelled, and why

Sizes and contents of mails in
`Pop3Session`; the text of answers and logs; the path buffers; `total_clients` and
`bytes_transfered`, which nothing but an answer depends on; socket set-up and
arguments (`main.c`, `args.c`) and the write loop of `netutils.c`, which are I/O
without control worth checking; the scripts of `bash_scripts` and the hand-outs of
`Patches`, which are not the server. `PROJECT.json` "components" has the whole list.

## Plan

Done: `Pop3Session` and `Maildrop`, `Buffer`, `CommandFraming`, `MailTransfer`,
`Transform`, `CommandParser`, `Distributor`, `ConfigServer` and `Logger`, the
configuration that changes under the sessions in `Pop3Session`, and the proofs of all
safety properties.

Next, in this order:

1. Properties of `Maildrop` itself, so that what the refinement gives is stated in its
   terms: a message that is gone was asked for by a session that committed.
2. Composition: framing, parser and sessions, so that "commands buffered behind QUIT"
   comes from the receive loop and not from the discipline `any`.
