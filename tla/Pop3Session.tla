----------------------------- MODULE Pop3Session -----------------------------
(***************************************************************************)
(* The POP3 side of the server: the threads that serve the connections,    *)
(* the per-user semaphores that PASS takes and that QUIT and the end of a  *)
(* session post, the mail list each session loads, and the Maildir files.  *)
(*                                                                         *)
(* One thread runs per connection (server_utils.c) and calls one handler   *)
(* per command (parser/pop3_parserADT.c).  A handler is one action, except *)
(* where it touches state that other threads share more than once: PASS    *)
(* blocks in sem_wait and reads two directories, QUIT updates one file at  *)
(* a time, closes the socket and posts the semaphore, and the end of a     *)
(* session posts and closes.  Those are split at the shared accesses, and  *)
(* `phase' is the program counter.                                         *)
(*                                                                         *)
(* Any command may come at any point, after QUIT too: commands already in  *)
(* the read buffer are still run, and the descriptor QUIT closed may by    *)
(* then belong to another connection.  Sizes and contents of mails are     *)
(* left out.                                                               *)
(***************************************************************************)
EXTENDS Integers, Sequences, FiniteSets

CONSTANTS
    Conn,         \* connection slots: the Connection struct and its thread
    User,         \* the registered users (-u name:pass)
    Stranger,     \* names that are not registered, if clients use any
    NoName,       \* the empty user name
    File,         \* mail files that may exist in some Maildir
    Owner,        \* [File -> User], whose Maildir a file is in
    Fd,           \* descriptor numbers that accept may return
    NoFd,         \* conn->fd of a slot not in use
    Maildir,      \* folder names, those a Maildir may have below its user's
    FirstMaildir, \* the one the server starts with (main, or -d)
    NewMaildir,   \* those a SETMDF may give
    Short,        \* names too short for the path buffer of RETR
    Torn,         \* a folder name read in the middle of a strcpy
    Place,        \* [File -> Maildir], the folder its Maildir has
    MaxEmails,    \* MAX_EMAILS
    MaxSessions,  \* bound: connections accepted in a behaviour
    Clients,      \* what the clients send, see Discipline
    Recycled      \* TRUE: malloc may return the chunk of a freed Connection

(* What may reach a session.  "any": any command at any time, the handlers *)
(* of USER and PASS do not check conn->status.  "no_relogin": no USER or   *)
(* PASS while the session holds a semaphore.  "rfc1939": moreover none     *)
(* after a login, and nothing after QUIT.                                  *)
Discipline == {"any", "no_relogin", "rfc1939"}

ASSUME ConfigAssumption ==
    /\ Stranger \cap User = {}
    /\ NoName \notin User \cup Stranger
    /\ NoFd \notin Fd
    /\ IsFiniteSet(File)
    /\ Owner \in [File -> User]
    /\ Place \in [File -> Maildir]
    /\ FirstMaildir \in Maildir
    /\ NewMaildir \subseteq Maildir
    /\ Short \subseteq Maildir
    /\ Torn \notin Maildir
    /\ MaxEmails \in Nat
    /\ MaxSessions \in Nat
    /\ Clients \in Discipline
    /\ Recycled \in BOOLEAN

Name   == User \cup Stranger \cup {NoName}
Status == {"AUTHORIZATION", "TRANSACTION", "UPDATE"}
Mark   == {"UNCHANGED", "DELETED", "RETRIEVED"}
Folder == {"cur", "new"}
Mail   == [file : File, folder : Folder, mark : Mark]

(* The mails array and num_emails: an array of MAX_EMAILS entries *)
MailList == {l \in Seq(Mail) : Len(l) <= MaxEmails}

(* Where a thread is.  "ready": in recv, or between two buffered commands. *)
Phase == {"free", "ready", "waiting", "list_cur", "list_new", "updating",
          "closing", "posting", "ending", "leaving"}

(* What a Connection keeps between two uses of its memory. *)
Chunk == [status : Status, name : Name, mails : MailList]
Zeroed == [status |-> "AUTHORIZATION", name |-> NoName, mails |-> <<>>]

(* A session that has its mailbox for itself, one that updates a mailbox   *)
(* whose semaphore it does not hold, and any other                         *)
Visit == {"own", "trespass", "none"}

VARIABLES
    phase,     \* [Conn -> Phase]
    status,    \* conn->status
    name,      \* conn->username
    mails,     \* conn->mails[0 .. num_emails - 1]
    at,        \* index of quit_action's loop, 1 outside it
    fd,        \* conn->fd, NoFd in a free slot
    open,      \* descriptors that are open in the process
    sem,       \* users[u].semaphore
    maildir,   \* maildir_folder of the configuration, Torn while it is set
    path,      \* the folder in pass_action's filePath, the first one outside
    disk,      \* [File -> {"unborn", "new", "cur", "gone"}]
    freed,     \* contents of freed Connection chunks malloc may return
    accepted,  \* connections accepted so far (bounded by MaxSessions)
    holds,     \* history: users whose semaphore the session took, not posted
    visit      \* history: [Conn -> Visit]

vars == <<phase, status, name, mails, at, fd, open, sem, maildir, path, disk,
          freed, accepted, holds, visit>>

folders == <<maildir, path>>
history == <<holds, visit>>

Init ==
    /\ phase  = [c \in Conn |-> "free"]
    /\ status = [c \in Conn |-> Zeroed.status]
    /\ name   = [c \in Conn |-> Zeroed.name]
    /\ mails  = [c \in Conn |-> Zeroed.mails]
    /\ at     = [c \in Conn |-> 1]
    /\ fd     = [c \in Conn |-> NoFd]
    /\ open   = {}
    /\ sem    = [u \in User |-> 1]
    /\ maildir = FirstMaildir
    /\ path   = [c \in Conn |-> FirstMaildir]
    /\ disk   \in [File -> {"unborn", "new", "cur"}]
    /\ freed  = {}
    /\ accepted = 0
    /\ holds  = [c \in Conn |-> {}]
    /\ visit  = [c \in Conn |-> "none"]

-----------------------------------------------------------------------------
(* Helpers *)

Goto(c, p) == phase' = [phase EXCEPT ![c] = p]

(* The files in mailroot/username/root/folder.  A torn root is no folder. *)
Dir(c, root, folder) ==
    {f \in File : Owner[f] = name[c] /\ Place[f] = root /\ disk[f] = folder}

(* mailroot/username/maildir/folder/filename exists, by the setting of now. *)
(* Mail transfer agents give no two mails the same file name.               *)
Exists(c, m) == m.file \in Dir(c, maildir, m.folder)

(* Mutant: the test of num_emails against MAX_EMAILS is dropped. *)
Listings_unlimited(c, folder) ==
    LET found == Dir(c, path[c], folder)
    IN  UNION {{s \in [1..n -> found] :
                   \A i, j \in 1..n : s[i] = s[j] => i = j} :
               n \in 0..Cardinality(found)}

(* readdir returns the files of a directory in any order, and only as many *)
(* as there is room for in conn->mails.  When opendir fails, or readdir on *)
(* the way, the listing ends there and PASS goes on.                       *)
Listings(c, folder) ==
    LET found == Dir(c, path[c], folder)
        room  == MaxEmails - Len(mails[c])
        taken == IF Cardinality(found) < room THEN Cardinality(found) ELSE room
    IN  UNION {{s \in [1..n -> found] :
                   \A i, j \in 1..n : s[i] = s[j] => i = j} : n \in 0..taken}

Loaded(s, folder) ==
    [i \in 1..Len(s) |->
        [file |-> s[i], folder |-> folder, mark |-> "UNCHANGED"]]

(* What history keeps of a visit.  It is a session's own from a login that *)
(* starts with an empty list, while nobody else holds the mailbox or       *)
(* trespasses in it, until the session is given USER, a wrong PASS or      *)
(* QUIT, another one comes into the mailbox, or the folder is set.         *)
OwnFrom(c) ==
    /\ mails[c] = <<>>
    /\ \A d \in Conn \ {c} :
         /\ name[c] \notin holds[d]
         /\ name[d] = name[c] => visit[d] # "trespass"

VisitEnds(c) == visit' = [visit EXCEPT ![c] = "none"]

(* Session c comes into its mailbox; its own visit becomes v. *)
ComesIn(c, v) ==
    visit' = [d \in Conn |->
                 IF d = c THEN v
                 ELSE IF visit[d] = "own" /\ name[d] = name[c] THEN "none"
                 ELSE visit[d]]

(* The clients' discipline *)
MayLogin(c) ==
    /\ Clients # "any" => holds[c] = {}
    /\ Clients = "rfc1939" => status[c] = "AUTHORIZATION"

(* The thread takes a command from its buffer or from the socket. *)
Command(c) ==
    /\ phase[c] = "ready"
    /\ Clients = "rfc1939" => status[c] # "UPDATE" /\ fd[c] \in open

-----------------------------------------------------------------------------
(* Acceptance: malloc, then the thread is created and sends the greeting. *)
(* Of the Connection only fd and the buffers are set.                     *)

Accept(c) ==
    /\ phase[c] = "free"
    /\ accepted < MaxSessions
    /\ \E d \in Fd \ open :
         /\ fd' = [fd EXCEPT ![c] = d]
         /\ open' = open \cup {d}
    /\ \E chunk \in {Zeroed} \cup freed :
         /\ status' = [status EXCEPT ![c] = chunk.status]
         /\ name'   = [name EXCEPT ![c] = chunk.name]
         /\ mails'  = [mails EXCEPT ![c] = chunk.mails]
         /\ freed'  = freed \ {chunk}
    /\ accepted' = accepted + 1
    /\ Goto(c, "ready")
    /\ UNCHANGED <<at, sem, folders, disk, history>>

-----------------------------------------------------------------------------
(* Commands *)

user_action(c) ==
    /\ Command(c)
    /\ MayLogin(c)
    /\ \E n \in Name \ {NoName} : name' = [name EXCEPT ![c] = n]
    /\ VisitEnds(c)
    /\ UNCHANGED <<phase, status, mails, at, fd, open, sem, folders, disk,
                   freed, accepted, holds>>

(* PASS without USER, or for a name that is not registered *)
pass_unknown(c) ==
    /\ Command(c)
    /\ MayLogin(c)
    /\ name[c] \notin User
    /\ UNCHANGED vars

(* PASS with the wrong password of a registered user *)
pass_wrong(c) ==
    /\ Command(c)
    /\ MayLogin(c)
    /\ name[c] \in User
    /\ name' = [name EXCEPT ![c] = NoName]
    /\ VisitEnds(c)
    /\ UNCHANGED <<phase, status, mails, at, fd, open, sem, folders, disk,
                   freed, accepted, holds>>

TakeSemaphore(c) ==
    /\ sem[name[c]] > 0
    /\ sem' = [sem EXCEPT ![name[c]] = @ - 1]
    /\ holds' = [holds EXCEPT ![c] = @ \cup {name[c]}]

(* PASS with the right password: sem_trywait succeeds *)
pass_trywait(c) ==
    /\ Command(c)
    /\ MayLogin(c)
    /\ name[c] \in User
    /\ TakeSemaphore(c)
    /\ status' = [status EXCEPT ![c] = "TRANSACTION"]
    /\ ComesIn(c, IF OwnFrom(c) THEN "own" ELSE visit[c])
    /\ path' = [path EXCEPT ![c] = maildir]
    /\ Goto(c, "list_cur")
    /\ UNCHANGED <<name, mails, at, fd, open, maildir, disk, freed, accepted>>

(* PASS with the right password: sem_trywait fails, the client is told to *)
(* wait for clearance and the thread blocks in sem_wait                   *)
pass_busy(c) ==
    /\ Command(c)
    /\ MayLogin(c)
    /\ name[c] \in User
    /\ sem[name[c]] = 0
    /\ Goto(c, "waiting")
    /\ VisitEnds(c)
    /\ UNCHANGED <<status, name, mails, at, fd, open, sem, folders, disk,
                   freed, accepted, holds>>

(* sem_wait returns: "Permission granted", and nothing else is set *)
pass_granted(c) ==
    /\ phase[c] = "waiting"
    /\ TakeSemaphore(c)
    /\ ComesIn(c, "none")
    /\ Goto(c, "ready")
    /\ UNCHANGED <<status, name, mails, at, fd, open, folders, disk, freed,
                   accepted>>

(* retrieve_emails appends the mails of cur, then those of new *)
retrieve_emails(c, folder, here, next) ==
    /\ phase[c] = here
    /\ \E s \in Listings(c, folder) :
         mails' = [mails EXCEPT ![c] = @ \o Loaded(s, folder)]
    /\ path' = IF next = "ready" THEN [path EXCEPT ![c] = FirstMaildir] ELSE path
    /\ Goto(c, next)
    /\ UNCHANGED <<status, name, at, fd, open, sem, maildir, disk, freed,
                   accepted, history>>

(* STAT, LIST, NOOP and CAPA only answer; and so does a command that is    *)
(* not known, has a bad argument, or names no mail.                        *)
query_action(c) ==
    /\ Command(c)
    /\ UNCHANGED vars

(* RETR makes the path anew, in room for the Maildir folder twice instead  *)
(* of the mail root and the folder, so that for a short one the end of the *)
(* path is cut off.  When the file cannot be opened, there or not, the     *)
(* handler returns without an answer; otherwise the mail is sent and       *)
(* marked, whatever its mark was.                                          *)
retr_action(c) ==
    /\ Command(c)
    /\ status[c] # "AUTHORIZATION"
    /\ \E i \in DOMAIN mails[c] :
         \/ /\ Exists(c, mails[c][i]) /\ maildir \notin Short
            /\ mails' = [mails EXCEPT ![c][i].mark = "RETRIEVED"]
         \/ UNCHANGED mails
    /\ UNCHANGED <<phase, status, name, at, fd, open, sem, folders, disk,
                   freed, accepted, history>>

dele_action(c) ==
    /\ Command(c)
    /\ status[c] # "AUTHORIZATION"
    /\ \E i \in DOMAIN mails[c] :
         mails' = [mails EXCEPT ![c][i].mark = "DELETED"]
    /\ UNCHANGED <<phase, status, name, at, fd, open, sem, folders, disk,
                   freed, accepted, history>>

rset_action(c) ==
    /\ Command(c)
    /\ status[c] # "AUTHORIZATION"
    /\ mails' = [mails EXCEPT ![c] =
                    [i \in DOMAIN @ |-> [@[i] EXCEPT !.mark = "UNCHANGED"]]]
    /\ UNCHANGED <<phase, status, name, at, fd, open, sem, folders, disk,
                   freed, accepted, history>>

-----------------------------------------------------------------------------
(* QUIT *)

(* sem_post for every registered user with the session's name, whether the *)
(* session took that semaphore or not                                      *)
PostSemaphores(c) ==
    /\ sem' = [u \in User |-> IF u = name[c] THEN sem[u] + 1 ELSE sem[u]]
    /\ holds' = [holds EXCEPT ![c] = @ \ {name[c]}]

(* In AUTHORIZATION the socket is closed (again, perhaps) and that is all *)
quit_authorization(c) ==
    /\ Command(c)
    /\ status[c] = "AUTHORIZATION"
    /\ open' = open \ {fd[c]}
    /\ UNCHANGED <<phase, status, name, mails, at, fd, sem, folders, disk,
                   freed, accepted, history>>

(* Mutant: QUIT posts the semaphore first and updates the mailbox then. *)
quit_begin_posts(c) ==
    /\ Command(c)
    /\ status[c] # "AUTHORIZATION"
    /\ status' = [status EXCEPT ![c] = "UPDATE"]
    /\ PostSemaphores(c)
    /\ Goto(c, "updating")
    /\ IF name[c] \in holds[c] THEN VisitEnds(c) ELSE ComesIn(c, "trespass")
    /\ UNCHANGED <<name, mails, at, fd, open, folders, disk, freed, accepted>>

quit_begin(c) ==
    /\ Command(c)
    /\ status[c] # "AUTHORIZATION"
    /\ status' = [status EXCEPT ![c] = "UPDATE"]
    /\ Goto(c, "updating")
    /\ IF name[c] \in holds[c] THEN VisitEnds(c) ELSE ComesIn(c, "trespass")
    /\ UNCHANGED <<name, mails, at, fd, open, sem, folders, disk, freed,
                   accepted, holds>>

(* Mutant: the loop removes every mail that was not retrieved. *)
quit_delete_unread(c) ==
    /\ phase[c] = "updating"
    /\ at[c] \in DOMAIN mails[c]
    /\ mails[c][at[c]].mark # "RETRIEVED"
    /\ disk' = IF Exists(c, mails[c][at[c]])
               THEN [disk EXCEPT ![mails[c][at[c]].file] = "gone"]
               ELSE disk
    /\ mails' = [mails EXCEPT ![c][at[c]].mark = "UNCHANGED"]
    /\ at' = [at EXCEPT ![c] = @ + 1]
    /\ UNCHANGED <<phase, status, name, fd, open, sem, folders, freed,
                   accepted, history>>

(* One turn of the loop for a DELETED mail: a removal that fails, on a file *)
(* that is there too, is ignored                                            *)
quit_delete(c) ==
    /\ phase[c] = "updating"
    /\ at[c] \in DOMAIN mails[c]
    /\ mails[c][at[c]].mark = "DELETED"
    /\ \/ /\ Exists(c, mails[c][at[c]])
          /\ disk' = [disk EXCEPT ![mails[c][at[c]].file] = "gone"]
       \/ UNCHANGED disk
    /\ mails' = [mails EXCEPT ![c][at[c]].mark = "UNCHANGED"]
    /\ at' = [at EXCEPT ![c] = @ + 1]
    /\ UNCHANGED <<phase, status, name, fd, open, sem, folders, freed,
                   accepted, history>>

(* One turn of the loop for a mail RETRIEVED from new: it moves to cur *)
quit_move(c) ==
    /\ phase[c] = "updating"
    /\ at[c] \in DOMAIN mails[c]
    /\ mails[c][at[c]].mark = "RETRIEVED"
    /\ mails[c][at[c]].folder = "new"
    /\ Exists(c, mails[c][at[c]])
    /\ disk' = [disk EXCEPT ![mails[c][at[c]].file] = "cur"]
    /\ mails' = [mails EXCEPT ![c][at[c]].mark = "UNCHANGED",
                              ![c][at[c]].folder = "cur"]
    /\ at' = [at EXCEPT ![c] = @ + 1]
    /\ UNCHANGED <<phase, status, name, fd, open, sem, folders, freed,
                   accepted, history>>

(* The move fails, as it must when the file is not there: QUIT returns,    *)
(* without closing or posting, and the thread goes back to its commands    *)
quit_move_fails(c) ==
    /\ phase[c] = "updating"
    /\ at[c] \in DOMAIN mails[c]
    /\ mails[c][at[c]].mark = "RETRIEVED"
    /\ mails[c][at[c]].folder = "new"
    /\ at' = [at EXCEPT ![c] = 1]
    /\ Goto(c, "ready")
    /\ VisitEnds(c)
    /\ UNCHANGED <<status, name, mails, fd, open, sem, folders, disk, freed,
                   accepted, holds>>

(* One turn of the loop for any other mail *)
quit_keep(c) ==
    /\ phase[c] = "updating"
    /\ at[c] \in DOMAIN mails[c]
    /\ \/ mails[c][at[c]].mark = "UNCHANGED"
       \/ mails[c][at[c]].mark = "RETRIEVED" /\ mails[c][at[c]].folder = "cur"
    /\ mails' = [mails EXCEPT ![c][at[c]].mark = "UNCHANGED"]
    /\ at' = [at EXCEPT ![c] = @ + 1]
    /\ UNCHANGED <<phase, status, name, fd, open, sem, folders, disk, freed,
                   accepted, history>>

quit_updated(c) ==
    /\ phase[c] = "updating"
    /\ at[c] \notin DOMAIN mails[c]
    /\ at' = [at EXCEPT ![c] = 1]
    /\ Goto(c, "closing")
    /\ VisitEnds(c)
    /\ UNCHANGED <<status, name, mails, fd, open, sem, folders, disk, freed,
                   accepted, holds>>

(* close fails when the number is not open, and then QUIT does not post *)
quit_close(c) ==
    /\ phase[c] = "closing"
    /\ Goto(c, IF fd[c] \in open THEN "posting" ELSE "ready")
    /\ open' = open \ {fd[c]}
    /\ UNCHANGED <<status, name, mails, at, fd, sem, folders, disk, freed,
                   accepted, history>>

quit_post(c) ==
    /\ phase[c] = "posting"
    /\ PostSemaphores(c)
    /\ Goto(c, "ready")
    /\ UNCHANGED <<status, name, mails, at, fd, open, folders, disk, freed,
                   accepted, visit>>

-----------------------------------------------------------------------------
(* The end of a session *)

(* recv returns 0 or -1, or the session has sent too many bytes *)
hang_up(c) ==
    /\ phase[c] = "ready"
    /\ Goto(c, "ending")
    /\ VisitEnds(c)
    /\ UNCHANGED <<status, name, mails, at, fd, open, sem, folders, disk,
                   freed, accepted, holds>>

(* Mutant: only a session that is logged in posts when it ends. *)
end_post_logged_in(c) ==
    /\ phase[c] = "ending"
    /\ IF status[c] = "TRANSACTION"
       THEN PostSemaphores(c)
       ELSE UNCHANGED <<sem, holds>>
    /\ Goto(c, "leaving")
    /\ UNCHANGED <<status, name, mails, at, fd, open, folders, disk, freed,
                   accepted, visit>>

(* Mutant: a session that was told to QUIT does not post again. *)
end_post_unless_quit(c) ==
    /\ phase[c] = "ending"
    /\ IF status[c] = "UPDATE"
       THEN UNCHANGED <<sem, holds>>
       ELSE PostSemaphores(c)
    /\ Goto(c, "leaving")
    /\ UNCHANGED <<status, name, mails, at, fd, open, folders, disk, freed,
                   accepted, visit>>

(* sem_post for the users with the session's name, again if QUIT did it *)
end_post(c) ==
    /\ phase[c] = "ending"
    /\ PostSemaphores(c)
    /\ Goto(c, "leaving")
    /\ UNCHANGED <<status, name, mails, at, fd, open, folders, disk, freed,
                   accepted, visit>>

(* close(conn->fd), its result unused, and free of the Connection.  The    *)
(* slot's fields are reset so that a free slot has one representation;     *)
(* what the chunk held goes to `freed'.                                    *)
end_close(c) ==
    /\ phase[c] = "leaving"
    /\ open' = open \ {fd[c]}
    /\ freed' = IF Recycled
                THEN freed \cup {[status |-> status[c], name |-> name[c],
                                  mails |-> mails[c]]}
                ELSE freed
    /\ status' = [status EXCEPT ![c] = Zeroed.status]
    /\ name'   = [name EXCEPT ![c] = Zeroed.name]
    /\ mails'  = [mails EXCEPT ![c] = Zeroed.mails]
    /\ fd'     = [fd EXCEPT ![c] = NoFd]
    /\ holds'  = [holds EXCEPT ![c] = {}]
    /\ Goto(c, "free")
    /\ UNCHANGED <<at, sem, folders, disk, accepted, visit>>

-----------------------------------------------------------------------------
(* SETMDF, by the thread of the configuration server: the sessions may read *)
(* the folder while strcpy is under way (module ConfigServer).              *)

setmdf_begins ==
    /\ NewMaildir # {}
    /\ maildir # Torn
    /\ maildir' = Torn
    /\ visit' = [c \in Conn |-> IF visit[c] = "own" THEN "none" ELSE visit[c]]
    /\ UNCHANGED <<phase, status, name, mails, at, fd, open, sem, path, disk,
                   freed, accepted, holds>>

setmdf_ends(m) ==
    /\ maildir = Torn
    /\ maildir' = m
    /\ visit' = [c \in Conn |-> IF visit[c] = "own" THEN "none" ELSE visit[c]]
    /\ UNCHANGED <<phase, status, name, mails, at, fd, open, sem, path, disk,
                   freed, accepted, holds>>

(* A mail arrives in new: done by the mail transfer agent, not the server *)
deliver(f) ==
    /\ disk[f] = "unborn"
    /\ disk' = [disk EXCEPT ![f] = "new"]
    /\ UNCHANGED <<phase, status, name, mails, at, fd, open, sem, folders,
                   freed, accepted, history>>

(* Every connection the bound allows has been served: the model stops. *)
all_served ==
    /\ accepted = MaxSessions
    /\ \A c \in Conn : phase[c] = "free"
    /\ UNCHANGED vars

-----------------------------------------------------------------------------
ClientStep(c) ==
    \/ Accept(c)
    \/ user_action(c)
    \/ pass_unknown(c) \/ pass_wrong(c) \/ pass_trywait(c) \/ pass_busy(c)
    \/ query_action(c)
    \/ retr_action(c) \/ dele_action(c) \/ rset_action(c)
    \/ quit_authorization(c) \/ quit_begin(c)
    \/ hang_up(c)

(* What a thread does by itself, once the command is read *)
ThreadStep(c) ==
    \/ pass_granted(c)
    \/ retrieve_emails(c, "cur", "list_cur", "list_new")
    \/ retrieve_emails(c, "new", "list_new", "ready")
    \/ quit_delete(c) \/ quit_move(c) \/ quit_move_fails(c) \/ quit_keep(c)
    \/ quit_updated(c) \/ quit_close(c) \/ quit_post(c)
    \/ end_post(c) \/ end_close(c)

Next ==
    \/ \E c \in Conn : ClientStep(c) \/ ThreadStep(c)
    \/ \E f \in File : deliver(f)
    \/ setmdf_begins \/ \E m \in NewMaildir : setmdf_ends(m)
    \/ all_served

Spec == Init /\ [][Next]_vars

(* A thread that can run does; no client stays connected for ever (the     *)
(* code has no timeouts, so this is an assumption about clients).          *)
Fairness ==
    /\ \A c \in Conn : WF_vars(ThreadStep(c))
    /\ \A c \in Conn : SF_vars(hang_up(c))

FairSpec == Spec /\ Fairness

-----------------------------------------------------------------------------
(* Properties *)

(* The types; in particular PASS, which may be given again and then appends *)
(* to the list, never writes past the mails array, and a session blocks     *)
(* only on the semaphore of a registered user.                              *)
TypeOK ==
    /\ phase  \in [Conn -> Phase]
    /\ status \in [Conn -> Status]
    /\ name   \in [Conn -> Name]
    /\ mails  \in [Conn -> MailList]
    /\ at     \in [Conn -> Nat \ {0}]
    /\ fd     \in [Conn -> Fd \cup {NoFd}]
    /\ open   \subseteq Fd
    /\ sem    \in [User -> Nat]
    /\ maildir \in Maildir \cup {Torn}
    /\ path   \in [Conn -> Maildir \cup {Torn}]
    /\ disk   \in [File -> {"unborn", "new", "cur", "gone"}]
    /\ freed  \subseteq Chunk
    /\ accepted \in Nat
    /\ holds  \in [Conn -> SUBSET User]
    /\ visit  \in [Conn -> Visit]
    /\ \A c \in Conn : phase[c] = "waiting" => name[c] \in User

(* Phases from which a thread goes on to post the semaphore of its name. *)
Running == Phase \ {"free", "waiting", "leaving"}

(* A mailbox lock is never orphaned: when the semaphore of a user is taken *)
(* there is a session with that name, not itself blocked, that has yet to  *)
(* post it.  PASS takes the semaphore of the name at that moment; QUIT and *)
(* the end of the session post that of the name at theirs.                 *)
LockHasLiveHolder ==
    \A u \in User : sem[u] = 0 =>
        \E c \in Conn : phase[c] \in Running /\ name[c] = u

(* "Waiting for clearance...": a session waiting in PASS is let in, if the *)
(* clients ahead of it leave.                                              *)
WaiterGranted ==
    \A c \in Conn : phase[c] = "waiting" ~> phase[c] # "waiting"

(* The mail list is one session's at a time: no two sessions that logged   *)
(* in as the same user are in the TRANSACTION state together.              *)
OneSessionPerMailbox ==
    \A c, d \in Conn :
        /\ phase[c] = "ready" /\ status[c] = "TRANSACTION"
        /\ phase[d] = "ready" /\ status[d] = "TRANSACTION"
        /\ name[c] = name[d] /\ name[c] \in User
        => c = d

(* The semaphore protects the list: as long as a session has its mailbox   *)
(* for itself, each mail it has listed is in the folder it was listed in,  *)
(* and RETR and QUIT find it there.  So PASS must not list before it has   *)
(* the semaphore, and QUIT not post it before its update is done.          *)
ListedIsThere ==
    \A c \in Conn : phase[c] = "ready" /\ visit[c] = "own" =>
        \A i \in DOMAIN mails[c] : Exists(c, mails[c][i])

(* The abstract store of mail of Maildrop, seen in this state *)
Present    == {f \in File : disk[f] \in Folder}
View       == [c \in Conn |-> [i \in DOMAIN mails[c] |-> mails[c][i].file]]
Doomed     == [c \in Conn |->
                  {i \in DOMAIN mails[c] : mails[c][i].mark = "DELETED"}]
Committing == {c \in Conn : phase[c] = "updating"}

Drop == INSTANCE Maildrop WITH
    Room <- MaxEmails, present <- Present, view <- View, doomed <- Doomed,
    committing <- Committing

(* The sessions implement the store of mail of module Maildrop: numbers    *)
(* are stable, and a mail is lost only to the QUIT of a client that asked. *)
ImplementsMaildrop == Drop!DropSpec

=============================================================================
