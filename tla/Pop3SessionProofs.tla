-------------------------- MODULE Pop3SessionProofs --------------------------
(***************************************************************************)
(* Proofs about Pop3Session, for any number of connections, users, files   *)
(* and descriptors.                                                        *)
(***************************************************************************)
EXTENDS Pop3Session, TLAPS, SequenceTheorems, FiniteSetTheorems

USE DEF folders, history

-----------------------------------------------------------------------------
(* Mail lists *)

(* Setting the mark of one entry leaves a mail list a mail list. *)
LEMMA Remark ==
    ASSUME NEW l \in MailList, NEW i \in DOMAIN l, NEW k \in Mark
    PROVE  [l EXCEPT ![i].mark = k] \in MailList
  <1>1. l \in Seq(Mail) /\ Len(l) <= MaxEmails /\ DOMAIN l = 1..Len(l)
        /\ l[i] \in Mail
    BY ElementOfSeq DEF MailList
  <1>2. [l[i] EXCEPT !.mark = k] \in Mail
    BY <1>1 DEF Mail
  <1>3. [l EXCEPT ![i] = [l[i] EXCEPT !.mark = k]] \in Seq(Mail)
    BY <1>1, <1>2, ExceptSeq
  <1>4. Len([l EXCEPT ![i] = [l[i] EXCEPT !.mark = k]]) = Len(l)
    BY <1>1, <1>2, ExceptSeq
  <1> QED  BY <1>1, <1>3, <1>4 DEF MailList

(* So does moving an entry to cur while clearing its mark. *)
LEMMA Refile ==
    ASSUME NEW l \in MailList, NEW i \in DOMAIN l
    PROVE  [l EXCEPT ![i].mark = "UNCHANGED", ![i].folder = "cur"]
             \in MailList
  <1> DEFINE m == [l[i] EXCEPT !.mark = "UNCHANGED"]
             n == [m EXCEPT !.folder = "cur"]
             once == [l EXCEPT ![i] = m]
  <1>1. l \in Seq(Mail) /\ Len(l) <= MaxEmails /\ DOMAIN l = 1..Len(l)
        /\ l[i] \in Mail
    BY ElementOfSeq DEF MailList
  <1>2. m \in Mail /\ n \in Mail
    BY <1>1 DEF Mail, Mark, Folder
  <1>3. [l EXCEPT ![i] = n] \in Seq(Mail) /\ Len([l EXCEPT ![i] = n]) = Len(l)
    BY <1>1, <1>2, ExceptSeq
  <1>4. [l EXCEPT ![i].mark = "UNCHANGED", ![i].folder = "cur"]
          = [l EXCEPT ![i] = n]
    BY <1>1
  <1> QED  BY <1>1, <1>3, <1>4 DEF MailList

(* RSET clears every mark. *)
LEMMA ClearMarks ==
    ASSUME NEW l \in MailList
    PROVE  [i \in DOMAIN l |-> [l[i] EXCEPT !.mark = "UNCHANGED"]] \in MailList
  <1> DEFINE r == [i \in DOMAIN l |-> [l[i] EXCEPT !.mark = "UNCHANGED"]]
  <1>1. l \in Seq(Mail) /\ Len(l) \in Nat /\ Len(l) <= MaxEmails
        /\ DOMAIN l = 1..Len(l)
    BY DEF MailList
  <1>2. \A i \in 1..Len(l) : l[i] \in Mail
    BY <1>1, ElementOfSeq
  <1>4. \A i \in 1..Len(l) : r[i] \in Mail
    BY <1>1, <1>2 DEF Mail, Mark
  <1>3. r \in Seq(Mail) /\ Len(r) = Len(l)
    BY <1>1, <1>4, IsASeq
  <1> QED  BY <1>1, <1>3 DEF MailList

(* Reading a directory never writes past the mails array. *)
LEMMA ListingFits ==
    ASSUME TypeOK, NEW c \in Conn, NEW folder \in Folder,
           NEW s \in Listings(c, folder)
    PROVE  mails[c] \o Loaded(s, folder) \in MailList
  <1> DEFINE found == Dir(c, path[c], folder)
             room  == MaxEmails - Len(mails[c])
             limit == IF Cardinality(found) < room
                      THEN Cardinality(found) ELSE room
  <1>1. mails[c] \in Seq(Mail) /\ Len(mails[c]) \in Nat /\ room \in Nat
    BY ConfigAssumption DEF TypeOK, MailList
  <1>2. IsFiniteSet(found) /\ found \subseteq File
    BY ConfigAssumption, FS_Subset DEF Dir
  <1>3. Cardinality(found) \in Nat
    BY <1>2, FS_CardinalityType
  <1>4. PICK taken \in 0..limit : s \in [1..taken -> found]
    BY DEF Listings
  <1>5. taken \in Nat /\ taken <= room
    BY <1>1, <1>3
  <1>6. s \in Seq(File) /\ Len(s) = taken
    BY <1>2, <1>5, <1>4
  <1>7. Loaded(s, folder) \in Seq(Mail) /\ Len(Loaded(s, folder)) = taken
    <2>1. \A i \in 1..taken :
            [file |-> s[i], folder |-> folder, mark |-> "UNCHANGED"] \in Mail
      BY <1>2, <1>4 DEF Mail, Mark
    <2> QED  BY <1>5, <1>6, <2>1, IsASeq DEF Loaded
  <1>8. /\ mails[c] \o Loaded(s, folder) \in Seq(Mail)
        /\ Len(mails[c] \o Loaded(s, folder)) = Len(mails[c]) + taken
    <2> DEFINE t == Loaded(s, folder)
    <2>1. t \in Seq(Mail) /\ Len(t) = taken
      BY <1>7
    <2> HIDE DEF t
    <2>2. mails[c] \o t \in Seq(Mail) /\ Len(mails[c] \o t) = Len(mails[c]) + taken
      BY <1>1, <2>1, ConcatProperties
    <2> QED  BY <2>2 DEF t
  <1> QED  BY <1>1, <1>5, <1>8, ConfigAssumption DEF MailList

-----------------------------------------------------------------------------
(* Type correctness *)

(* An update of one session's mail list keeps the type of mails. *)
LEMMA MailsTyped ==
    ASSUME TypeOK, NEW c \in Conn, NEW l \in MailList
    PROVE  [mails EXCEPT ![c] = l] \in [Conn -> MailList]
  BY DEF TypeOK

(* Whatever befalls a visit, it keeps its type. *)
LEMMA VisitTyped ==
    ASSUME TypeOK, NEW c \in Conn
    PROVE  /\ VisitEnds(c) => visit' \in [Conn -> Visit]
           /\ \A v \in Visit : ComesIn(c, v) => visit' \in [Conn -> Visit]
  BY DEF TypeOK, Visit, VisitEnds, ComesIn

(* Every step of every thread, of the clients and of the mail transfer     *)
(* agent keeps the types, and the mail lists within their array.           *)
LEMMA TypeStep == TypeOK /\ [Next]_vars => TypeOK'
  <1> SUFFICES ASSUME TypeOK, [Next]_vars PROVE TypeOK'
    OBVIOUS
  <1> USE ConfigAssumption
  <1>1. ASSUME NEW c \in Conn, Accept(c) PROVE TypeOK'
    <2>1. Zeroed \in Chunk
      BY EmptySeq DEF Zeroed, Chunk, Status, Name, MailList
    <2>2. PICK chunk \in {Zeroed} \cup freed :
            /\ status' = [status EXCEPT ![c] = chunk.status]
            /\ name'   = [name EXCEPT ![c] = chunk.name]
            /\ mails'  = [mails EXCEPT ![c] = chunk.mails]
            /\ freed'  = freed \ {chunk}
      BY <1>1 DEF Accept
    <2>3. chunk.status \in Status /\ chunk.name \in Name
          /\ chunk.mails \in MailList
      BY <2>1, <2>2 DEF TypeOK, Chunk
    <2>4. status' \in [Conn -> Status] /\ name' \in [Conn -> Name]
          /\ mails' \in [Conn -> MailList] /\ freed' \subseteq Chunk
      BY <2>2, <2>3 DEF TypeOK
    <2> QED  BY <1>1, <2>4 DEF Accept, TypeOK, Goto, Phase
  <1>2. ASSUME NEW c \in Conn, user_action(c) PROVE TypeOK'
    BY <1>2, VisitTyped DEF user_action, TypeOK, Command, Name
  <1>3. ASSUME NEW c \in Conn, pass_unknown(c) PROVE TypeOK'
    BY <1>3 DEF pass_unknown, vars, TypeOK, Command
  <1>4. ASSUME NEW c \in Conn, pass_wrong(c) PROVE TypeOK'
    BY <1>4, VisitTyped DEF pass_wrong, TypeOK, Command, Name
  <1>5. ASSUME NEW c \in Conn, pass_trywait(c) PROVE TypeOK'
    <2>1. PICK v \in Visit : ComesIn(c, v)
      BY <1>5 DEF pass_trywait, TypeOK, Visit
    <2>2. visit' \in [Conn -> Visit]
      BY <2>1, VisitTyped
    <2>3. /\ sem' \in [User -> Nat]
          /\ holds' \in [Conn -> SUBSET User]
      BY <1>5 DEF pass_trywait, TypeOK, TakeSemaphore
    <2>4. /\ phase' \in [Conn -> Phase]
          /\ status' \in [Conn -> Status]
          /\ path' \in [Conn -> Maildir \cup {Torn}]
          /\ \A d \in Conn : phase'[d] = "waiting" => name[d] \in User
      BY <1>5 DEF pass_trywait, TypeOK, Goto, Phase, Status
    <2> QED
      BY <1>5, <2>2, <2>3, <2>4 DEF pass_trywait, TypeOK
  <1>6. ASSUME NEW c \in Conn, pass_busy(c) PROVE TypeOK'
    BY <1>6, VisitTyped DEF pass_busy, TypeOK, Command, Goto, Phase
  <1>7. ASSUME NEW c \in Conn, query_action(c) PROVE TypeOK'
    BY <1>7 DEF query_action, vars, TypeOK, Command
  <1>9. ASSUME NEW c \in Conn, retr_action(c) PROVE TypeOK'
    <2>1. PICK i \in DOMAIN mails[c] :
            \/ mails' = [mails EXCEPT ![c][i].mark = "RETRIEVED"]
            \/ mails' = mails
      BY <1>9 DEF retr_action
    <2>2. [mails[c] EXCEPT ![i].mark = "RETRIEVED"] \in MailList
      BY Remark DEF TypeOK, Mark
    <2>3. mails' \in [Conn -> MailList]
      BY <2>1, <2>2, MailsTyped DEF TypeOK
    <2> QED  BY <1>9, <2>3 DEF retr_action, TypeOK
  <1>10. ASSUME NEW c \in Conn, dele_action(c) PROVE TypeOK'
    <2>1. PICK i \in DOMAIN mails[c] :
            \/ mails' = [mails EXCEPT ![c][i].mark = "DELETED"]
            \/ mails' = mails
      BY <1>10 DEF dele_action
    <2>2. [mails[c] EXCEPT ![i].mark = "DELETED"] \in MailList
      BY Remark DEF TypeOK, Mark
    <2>3. mails' \in [Conn -> MailList]
      BY <2>1, <2>2, MailsTyped DEF TypeOK
    <2> QED  BY <1>10, <2>3 DEF dele_action, TypeOK
  <1>11. ASSUME NEW c \in Conn, rset_action(c) PROVE TypeOK'
    <2>1. [i \in DOMAIN mails[c] |-> [mails[c][i] EXCEPT !.mark = "UNCHANGED"]]
            \in MailList
      BY ClearMarks DEF TypeOK
    <2>2. mails' \in [Conn -> MailList]
      BY <1>11, <2>1, MailsTyped DEF rset_action
    <2> QED  BY <1>11, <2>2 DEF rset_action, TypeOK
  <1>12. ASSUME NEW c \in Conn, quit_authorization(c) PROVE TypeOK'
    BY <1>12 DEF quit_authorization, TypeOK, Command
  <1>13. ASSUME NEW c \in Conn, quit_begin(c) PROVE TypeOK'
    <2>1. VisitEnds(c) \/ ComesIn(c, "trespass")
      BY <1>13 DEF quit_begin
    <2>2. visit' \in [Conn -> Visit]
      BY <2>1, VisitTyped DEF Visit
    <2> QED
      BY <1>13, <2>2 DEF quit_begin, TypeOK, Command, Goto, Phase, Status
  <1>14. ASSUME NEW c \in Conn, hang_up(c) PROVE TypeOK'
    BY <1>14, VisitTyped DEF hang_up, TypeOK, Goto, Phase
  <1>15. ASSUME NEW c \in Conn, pass_granted(c) PROVE TypeOK'
    <2>1. ComesIn(c, "none") /\ "none" \in Visit
      BY <1>15 DEF pass_granted, Visit
    <2>2. visit' \in [Conn -> Visit]
      BY <2>1, VisitTyped
    <2>3. /\ sem' \in [User -> Nat]
          /\ holds' \in [Conn -> SUBSET User]
      BY <1>15 DEF pass_granted, TypeOK, TakeSemaphore
    <2>4. /\ phase' \in [Conn -> Phase]
          /\ \A d \in Conn : phase'[d] = "waiting" => name[d] \in User
      BY <1>15 DEF pass_granted, TypeOK, Goto, Phase
    <2> QED
      BY <1>15, <2>2, <2>3, <2>4 DEF pass_granted, TypeOK
  <1>16. ASSUME NEW c \in Conn,
               retrieve_emails(c, "cur", "list_cur", "list_new")
        PROVE  TypeOK'
    <2>1. PICK s \in Listings(c, "cur") :
            mails' = [mails EXCEPT ![c] = mails[c] \o Loaded(s, "cur")]
      BY <1>16 DEF retrieve_emails
    <2>2. mails[c] \o Loaded(s, "cur") \in MailList
      BY ListingFits DEF Folder
    <2>3. mails' \in [Conn -> MailList]
      BY <2>1, <2>2, MailsTyped
    <2> QED  BY <1>16, <2>3 DEF retrieve_emails, TypeOK, Goto, Phase
  <1>17. ASSUME NEW c \in Conn,
               retrieve_emails(c, "new", "list_new", "ready")
        PROVE  TypeOK'
    <2>1. PICK s \in Listings(c, "new") :
            mails' = [mails EXCEPT ![c] = mails[c] \o Loaded(s, "new")]
      BY <1>17 DEF retrieve_emails
    <2>2. mails[c] \o Loaded(s, "new") \in MailList
      BY ListingFits DEF Folder
    <2>3. mails' \in [Conn -> MailList]
      BY <2>1, <2>2, MailsTyped
    <2> QED  BY <1>17, <2>3 DEF retrieve_emails, TypeOK, Goto, Phase
  <1>18. ASSUME NEW c \in Conn, quit_delete(c) PROVE TypeOK'
    <2>1. [mails[c] EXCEPT ![at[c]].mark = "UNCHANGED"]
            \in MailList
      BY <1>18, Remark DEF quit_delete, TypeOK, Mark
    <2>2. mails' \in [Conn -> MailList]
      BY <1>18, <2>1, MailsTyped DEF quit_delete, TypeOK
    <2>3. at' \in [Conn -> Nat \ {0}]
      BY <1>18 DEF quit_delete, TypeOK
    <2>4. disk' \in [File -> {"unborn", "new", "cur", "gone"}]
      BY <1>18 DEF quit_delete, TypeOK
    <2> QED  BY <1>18, <2>2, <2>3, <2>4 DEF quit_delete, TypeOK
  <1>19. ASSUME NEW c \in Conn, quit_move(c) PROVE TypeOK'
    <2>1. [mails[c] EXCEPT ![at[c]].mark = "UNCHANGED",
                             ![at[c]].folder = "cur"]
            \in MailList
      BY <1>19, Refile DEF quit_move, TypeOK, Mark
    <2>2. mails' \in [Conn -> MailList]
      BY <1>19, <2>1, MailsTyped DEF quit_move, TypeOK
    <2>3. at' \in [Conn -> Nat \ {0}]
      BY <1>19 DEF quit_move, TypeOK
    <2>4. disk' \in [File -> {"unborn", "new", "cur", "gone"}]
      BY <1>19 DEF quit_move, TypeOK
    <2> QED  BY <1>19, <2>2, <2>3, <2>4 DEF quit_move, TypeOK
  <1>20. ASSUME NEW c \in Conn, quit_move_fails(c) PROVE TypeOK'
    BY <1>20, VisitTyped DEF quit_move_fails, TypeOK, Goto, Phase
  <1>21. ASSUME NEW c \in Conn, quit_keep(c) PROVE TypeOK'
    <2>1. [mails[c] EXCEPT ![at[c]].mark = "UNCHANGED"]
            \in MailList
      BY <1>21, Remark DEF quit_keep, TypeOK, Mark
    <2>2. mails' \in [Conn -> MailList]
      BY <1>21, <2>1, MailsTyped DEF quit_keep, TypeOK
    <2>3. at' \in [Conn -> Nat \ {0}]
      BY <1>21 DEF quit_keep, TypeOK
    <2>4. disk' \in [File -> {"unborn", "new", "cur", "gone"}]
      BY <1>21 DEF quit_keep, TypeOK
    <2> QED  BY <1>21, <2>2, <2>3, <2>4 DEF quit_keep, TypeOK
  <1>22. ASSUME NEW c \in Conn, quit_updated(c) PROVE TypeOK'
    BY <1>22, VisitTyped DEF quit_updated, TypeOK, Goto, Phase
  <1>23. ASSUME NEW c \in Conn, quit_close(c) PROVE TypeOK'
    BY <1>23 DEF quit_close, TypeOK, Goto, Phase
  <1>24. ASSUME NEW c \in Conn, quit_post(c) PROVE TypeOK'
    BY <1>24 DEF quit_post, TypeOK, Goto, PostSemaphores, Phase
  <1>25. ASSUME NEW c \in Conn, end_post(c) PROVE TypeOK'
    BY <1>25 DEF end_post, TypeOK, Goto, PostSemaphores, Phase
  <1>26. ASSUME NEW c \in Conn, end_close(c) PROVE TypeOK'
    <2>1. Zeroed \in Chunk
      BY EmptySeq DEF Zeroed, Chunk, Status, Name, MailList
    <2>2. [status |-> status[c], name |-> name[c], mails |-> mails[c]] \in Chunk
      BY DEF TypeOK, Chunk
    <2>3. freed' \subseteq Chunk
      BY <1>26, <2>2 DEF end_close, TypeOK
    <2>4. status' \in [Conn -> Status] /\ name' \in [Conn -> Name]
          /\ mails' \in [Conn -> MailList]
      BY <1>26, <2>1 DEF end_close, TypeOK, Chunk
    <2> QED  BY <1>26, <2>3, <2>4 DEF end_close, TypeOK, Goto, Phase
  <1>27. ASSUME NEW f \in File, deliver(f) PROVE TypeOK'
    BY <1>27 DEF deliver, TypeOK
  <1>28. CASE UNCHANGED vars
    BY <1>28 DEF vars, TypeOK
  <1>29. CASE setmdf_begins
    BY <1>29 DEF setmdf_begins, TypeOK, Visit
  <1>30. ASSUME NEW m \in NewMaildir, setmdf_ends(m) PROVE TypeOK'
    BY <1>30 DEF setmdf_ends, TypeOK, Visit
  <1> QED
    BY <1>1, <1>2, <1>3, <1>4, <1>5, <1>6, <1>7, <1>9, <1>10,
       <1>11, <1>12, <1>13, <1>14, <1>15, <1>16, <1>17, <1>18,
       <1>19, <1>20, <1>21, <1>22, <1>23, <1>24, <1>25, <1>26,
       <1>27, <1>28, <1>29, <1>30
       DEF Next, ClientStep, ThreadStep, all_served

(* Every state of every behaviour is well typed; in particular no mail list *)
(* outgrows the mails array.                                                *)
THEOREM TypeCorrect == Spec => []TypeOK
  <1>1. Init => TypeOK
    BY ConfigAssumption, EmptySeq
       DEF Init, TypeOK, Zeroed, Status, Name, MailList, Phase, Visit
  <1> QED  BY <1>1, TypeStep, PTL DEF Spec

-----------------------------------------------------------------------------
(***************************************************************************)
(* The mailbox lock is never orphaned.                                     *)
(*                                                                         *)
(* LockHasLiveHolder speaks of names only, and names change; it is not     *)
(* inductive.  What is: the sessions that took a semaphore and have not    *)
(* posted it (the history variable `holds') account for every semaphore at *)
(* zero, hold at most the semaphore of the name they have now, and are at  *)
(* a point from which they go on to post it.  The middle conjunct is where *)
(* the clients' discipline is needed: USER, or PASS with a wrong password, *)
(* from a session that holds a semaphore would change the name.            *)
(***************************************************************************)
TakenIsHeld == \A u \in User : sem[u] = 0 => \E c \in Conn : u \in holds[c]
HeldIsNamed == \A c \in Conn : holds[c] \subseteq {name[c]}
HolderRuns  == \A c \in Conn : holds[c] # {} => phase[c] \in Running

LockInv == TypeOK /\ TakenIsHeld /\ HeldIsNamed /\ HolderRuns

(* A step that takes no semaphore and posts none, and renames and blocks   *)
(* only sessions that hold nothing, keeps the lock invariant.              *)
LEMMA LockFrame ==
    ASSUME LockInv, TypeOK', sem' = sem, holds' = holds,
           \A c \in Conn : holds[c] # {} =>
               name'[c] = name[c] /\ phase'[c] \in Running
    PROVE  LockInv'
  <1>1. TakenIsHeld'
    BY DEF LockInv, TakenIsHeld
  <1>2. HeldIsNamed'
    BY DEF LockInv, HeldIsNamed
  <1>3. HolderRuns'
    BY DEF LockInv, HolderRuns
  <1> QED  BY <1>1, <1>2, <1>3 DEF LockInv

(* Taking a semaphore, from a session that holds none. *)
LEMMA LockTaken ==
    ASSUME LockInv, TypeOK', NEW c \in Conn, holds[c] = {}, name[c] \in User,
           TakeSemaphore(c), name' = name,
           NEW p \in Running, phase' = [phase EXCEPT ![c] = p]
    PROVE  LockInv'
  <1>1. TakenIsHeld'
    <2> SUFFICES ASSUME NEW u \in User, sem'[u] = 0
                 PROVE  \E d \in Conn : u \in holds'[d]
      BY DEF TakenIsHeld
    <2>1. CASE u = name[c]
      BY <2>1 DEF TakeSemaphore, LockInv, TypeOK
    <2>2. CASE u # name[c]
      <3>1. sem[u] = 0
        BY <2>2 DEF TakeSemaphore, LockInv, TypeOK
      <3>2. PICK d \in Conn : u \in holds[d]
        BY <3>1 DEF LockInv, TakenIsHeld
      <3> QED  BY <3>2 DEF TakeSemaphore, LockInv, TypeOK
    <2> QED  BY <2>1, <2>2
  <1>2. HeldIsNamed'
    BY DEF LockInv, HeldIsNamed, TakeSemaphore, TypeOK
  <1>3. HolderRuns'
    BY DEF LockInv, HolderRuns, TakeSemaphore, TypeOK
  <1> QED  BY <1>1, <1>2, <1>3 DEF LockInv

(* Posting the semaphore of the session's name, whether it was held or not. *)
LEMMA LockPosted ==
    ASSUME LockInv, TypeOK', NEW c \in Conn, PostSemaphores(c), name' = name,
           \A d \in Conn \ {c} : phase'[d] = phase[d]
    PROVE  LockInv'
  <1>1. holds'[c] = {} /\ \A d \in Conn \ {c} : holds'[d] = holds[d]
    BY DEF LockInv, HeldIsNamed, PostSemaphores, TypeOK
  <1>2. TakenIsHeld'
    <2> SUFFICES ASSUME NEW u \in User, sem'[u] = 0
                 PROVE  \E d \in Conn : u \in holds'[d]
      BY DEF TakenIsHeld
    <2>1. u # name[c] /\ sem[u] = 0
      BY DEF PostSemaphores, LockInv, TypeOK
    <2>2. PICK d \in Conn : u \in holds[d]
      BY <2>1 DEF LockInv, TakenIsHeld
    <2>3. d # c
      BY <2>1, <2>2 DEF LockInv, HeldIsNamed
    <2> QED  BY <1>1, <2>2, <2>3
  <1>3. HeldIsNamed'
    BY <1>1 DEF LockInv, HeldIsNamed
  <1>4. HolderRuns'
    BY <1>1 DEF LockInv, HolderRuns
  <1> QED  BY <1>2, <1>3, <1>4 DEF LockInv

LEMMA LockStep == Clients # "any" => (LockInv /\ [Next]_vars => LockInv')
  <1> SUFFICES ASSUME Clients # "any", LockInv, [Next]_vars PROVE LockInv'
    OBVIOUS
  <1> TypeOK'
    BY TypeStep DEF LockInv
  <1>1. ASSUME NEW c \in Conn, Accept(c) PROVE LockInv'
    <2>1. holds[c] = {}
      BY <1>1 DEF Accept, LockInv, HolderRuns, Running
    <2>2. \A d \in Conn \ {c} : name'[d] = name[d] /\ phase'[d] = phase[d]
      BY <1>1 DEF Accept, Goto, LockInv, TypeOK
    <2> QED  BY <1>1, <2>1, <2>2, LockFrame DEF Accept, LockInv, HolderRuns
  <1>2. ASSUME NEW c \in Conn, user_action(c) PROVE LockInv'
    BY <1>2, LockFrame DEF user_action, Command, MayLogin, LockInv, HolderRuns, TypeOK
  <1>3. ASSUME NEW c \in Conn, pass_unknown(c) PROVE LockInv'
    BY <1>3, LockFrame DEF pass_unknown, vars, LockInv, HolderRuns, TypeOK
  <1>4. ASSUME NEW c \in Conn, pass_wrong(c) PROVE LockInv'
    BY <1>4, LockFrame DEF pass_wrong, Command, MayLogin, LockInv, HolderRuns, TypeOK
  <1>5. ASSUME NEW c \in Conn, pass_busy(c) PROVE LockInv'
    BY <1>5, LockFrame
       DEF pass_busy, Command, MayLogin, Goto, Running, Phase, LockInv, HolderRuns,
           TypeOK
  <1>6. ASSUME NEW c \in Conn, query_action(c) PROVE LockInv'
    BY <1>6, LockFrame DEF query_action, vars, LockInv, HolderRuns, TypeOK
  <1>8. ASSUME NEW c \in Conn, retr_action(c) PROVE LockInv'
    BY <1>8, LockFrame DEF retr_action, LockInv, HolderRuns, TypeOK
  <1>9. ASSUME NEW c \in Conn, dele_action(c) PROVE LockInv'
    BY <1>9, LockFrame DEF dele_action, LockInv, HolderRuns, TypeOK
  <1>10. ASSUME NEW c \in Conn, rset_action(c) PROVE LockInv'
    BY <1>10, LockFrame DEF rset_action, LockInv, HolderRuns, TypeOK
  <1>11. ASSUME NEW c \in Conn, quit_authorization(c) PROVE LockInv'
    BY <1>11, LockFrame DEF quit_authorization, LockInv, HolderRuns, TypeOK
  <1>12. ASSUME NEW c \in Conn, quit_begin(c) PROVE LockInv'
    BY <1>12, LockFrame DEF quit_begin, Goto, Running, Phase, LockInv, HolderRuns, TypeOK
  <1>13. ASSUME NEW c \in Conn, quit_delete(c) PROVE LockInv'
    BY <1>13, LockFrame DEF quit_delete, LockInv, HolderRuns, TypeOK
  <1>14. ASSUME NEW c \in Conn, quit_move(c) PROVE LockInv'
    BY <1>14, LockFrame DEF quit_move, LockInv, HolderRuns, TypeOK
  <1>15. ASSUME NEW c \in Conn, quit_move_fails(c) PROVE LockInv'
    BY <1>15, LockFrame
       DEF quit_move_fails, Goto, Running, Phase, LockInv, HolderRuns, TypeOK
  <1>16. ASSUME NEW c \in Conn, quit_keep(c) PROVE LockInv'
    BY <1>16, LockFrame DEF quit_keep, LockInv, HolderRuns, TypeOK
  <1>17. ASSUME NEW c \in Conn, quit_updated(c) PROVE LockInv'
    BY <1>17, LockFrame
       DEF quit_updated, Goto, Running, Phase, LockInv, HolderRuns, TypeOK
  <1>18. ASSUME NEW c \in Conn, quit_close(c) PROVE LockInv'
    BY <1>18, LockFrame DEF quit_close, Goto, Running, Phase, LockInv, HolderRuns, TypeOK
  <1>19. ASSUME NEW c \in Conn, hang_up(c) PROVE LockInv'
    BY <1>19, LockFrame DEF hang_up, Goto, Running, Phase, LockInv, HolderRuns, TypeOK
  <1>20. ASSUME NEW c \in Conn, pass_trywait(c) PROVE LockInv'
    <2>1. holds[c] = {} /\ "list_cur" \in Running
      BY <1>20 DEF pass_trywait, MayLogin, Running, Phase
    <2> QED  BY <1>20, <2>1, LockTaken DEF pass_trywait, Goto
  <1>21. ASSUME NEW c \in Conn, pass_granted(c) PROVE LockInv'
    <2>1. holds[c] = {} /\ name[c] \in User /\ "ready" \in Running
      BY <1>21 DEF pass_granted, LockInv, HolderRuns, TypeOK, Running, Phase
    <2> QED  BY <1>21, <2>1, LockTaken DEF pass_granted, Goto
  <1>22. ASSUME NEW c \in Conn, retrieve_emails(c, "cur", "list_cur", "list_new")
        PROVE  LockInv'
    BY <1>22, LockFrame
       DEF retrieve_emails, LockInv, HolderRuns, TypeOK, Goto, Running, Phase
  <1>23. ASSUME NEW c \in Conn, retrieve_emails(c, "new", "list_new", "ready")
        PROVE  LockInv'
    BY <1>23, LockFrame
       DEF retrieve_emails, LockInv, HolderRuns, TypeOK, Goto, Running, Phase
  <1>24. ASSUME NEW c \in Conn, quit_post(c) PROVE LockInv'
    BY <1>24, LockPosted DEF quit_post, Goto, LockInv, TypeOK
  <1>25. ASSUME NEW c \in Conn, end_post(c) PROVE LockInv'
    BY <1>25, LockPosted DEF end_post, Goto, LockInv, TypeOK
  <1>26. ASSUME NEW c \in Conn, end_close(c) PROVE LockInv'
    <2>1. holds[c] = {}
      BY <1>26 DEF end_close, LockInv, HolderRuns, Running
    <2>2. sem' = sem /\ holds' = holds
      BY <1>26, <2>1 DEF end_close, LockInv, TypeOK
    <2>3. \A d \in Conn \ {c} : name'[d] = name[d] /\ phase'[d] = phase[d]
      BY <1>26 DEF end_close, Goto, LockInv, TypeOK
    <2> QED  BY <2>1, <2>2, <2>3, LockFrame DEF LockInv, HolderRuns
  <1>27. ASSUME NEW f \in File, deliver(f) PROVE LockInv'
    BY <1>27, LockFrame DEF deliver, LockInv, HolderRuns
  <1>28. CASE UNCHANGED vars
    BY <1>28, LockFrame DEF vars, LockInv, HolderRuns
  <1>29. CASE setmdf_begins
    BY <1>29, LockFrame DEF setmdf_begins, LockInv, HolderRuns
  <1>30. ASSUME NEW m \in NewMaildir, setmdf_ends(m) PROVE LockInv'
    BY <1>30, LockFrame DEF setmdf_ends, LockInv, HolderRuns
  <1> QED
    BY <1>1, <1>2, <1>3, <1>4, <1>5, <1>6, <1>8, <1>9, <1>10,
       <1>11, <1>12, <1>13, <1>14, <1>15, <1>16, <1>17, <1>18,
       <1>19, <1>20, <1>21, <1>22, <1>23, <1>24, <1>25, <1>26,
       <1>27, <1>28, <1>29, <1>30
       DEF Next, ClientStep, ThreadStep, all_served

(* A lock that is taken has a running session of that name, which will post *)
(* it, as long as no client logs in again or renames itself while it holds  *)
(* one.                                                                     *)
THEOREM LockNeverOrphaned == Clients # "any" => (Spec => []LockHasLiveHolder)
  <1>1. Init => LockInv
    <2> SUFFICES ASSUME Init PROVE LockInv
      OBVIOUS
    <2>1. TypeOK
      BY ConfigAssumption, EmptySeq
         DEF Init, TypeOK, Zeroed, Status, Name, MailList, Phase, Visit
    <2> QED  BY <2>1 DEF Init, LockInv, TakenIsHeld, HeldIsNamed, HolderRuns
  <1>2. LockInv => LockHasLiveHolder
    BY DEF LockInv, TakenIsHeld, HeldIsNamed, HolderRuns, LockHasLiveHolder
  <1>3. CASE Clients # "any"
    <2>1. LockInv /\ [Next]_vars => LockInv'
      BY <1>3, LockStep
    <2>2. Spec => []LockInv
      BY <1>1, <2>1, PTL DEF Spec
    <2> QED  BY <1>2, <2>2, PTL
  <1> QED  BY <1>3

-----------------------------------------------------------------------------
(***************************************************************************)
(* The sessions implement the store of mail of Maildrop: every step maps   *)
(* to a step of the store or leaves it as it is.                           *)
(***************************************************************************)

(* The refinement mapping, one session at a time *)

Files(l) == [i \in DOMAIN l |-> l[i].file]
Marked(l) == {i \in DOMAIN l : l[i].mark = "DELETED"}

ListBecomes(c, l) == mails' = [mails EXCEPT ![c] = l]

(* The mapping of View and Doomed after one list has changed. *)
LEMMA OneListChanges ==
    ASSUME TypeOK, NEW c \in Conn, NEW l, ListBecomes(c, l)
    PROVE  /\ View' = [View EXCEPT ![c] = Files(l)]
           /\ Doomed' = [Doomed EXCEPT ![c] = Marked(l)]
           /\ View[c] = Files(mails[c]) /\ Doomed[c] = Marked(mails[c])
           /\ DOMAIN View[c] = DOMAIN mails[c]
  BY DEF ListBecomes, TypeOK, View, Doomed, Files, Marked

LEMMA SameStore ==
    ASSUME mails' = mails, disk' = disk, Committing' = Committing
    PROVE  UNCHANGED Drop!dropVars
  BY DEF Drop!dropVars, View, Doomed, Present

(* Setting one mark changes no file of the list and one number at most. *)
LEMMA RemarkMapped ==
    ASSUME NEW l \in MailList, NEW i \in DOMAIN l, NEW k \in Mark
    PROVE  /\ Files([l EXCEPT ![i].mark = k]) = Files(l)
           /\ Marked([l EXCEPT ![i].mark = k])
                = IF k = "DELETED" THEN Marked(l) \cup {i} ELSE Marked(l) \ {i}
  <1>1. l[i] \in Mail /\ \A j \in DOMAIN l : l[j] \in Mail
    BY ElementOfSeq DEF MailList
  <1>2. \A j \in DOMAIN l :
          [l EXCEPT ![i].mark = k][j].file = l[j].file
    BY <1>1 DEF Mail
  <1>3. \A j \in DOMAIN l :
          [l EXCEPT ![i].mark = k][j].mark = IF j = i THEN k ELSE l[j].mark
    BY <1>1 DEF Mail
  <1> QED  BY <1>2, <1>3 DEF Files, Marked

(* Concatenation, by position. *)
LEMMA ConcatParts ==
    ASSUME NEW S, NEW a \in Seq(S), NEW b \in Seq(S), NEW n \in Nat,
           Len(b) = n
    PROVE  /\ a \o b \in Seq(S) /\ Len(a \o b) = Len(a) + n
           /\ \A i \in 1..Len(a) : (a \o b)[i] = a[i]
           /\ \A i \in 1..(Len(a) + n) :
                 i > Len(a) => (a \o b)[i] = b[i - Len(a)]
  <1>1. Len(a) \in Nat
    OBVIOUS
  <1>2. \A i \in 1..Len(a) : i \in 1..(Len(a) + Len(b)) /\ i <= Len(a)
    BY <1>1
  <1>3. \A i \in 1..(Len(a) + n) : i > Len(a) => ~(i <= Len(a))
    BY <1>1
  <1> QED  BY <1>2, <1>3, ConcatProperties

(* Appending a listing appends its files and marks nothing. *)
LEMMA ListingMapped ==
    ASSUME NEW l \in MailList, NEW n \in Nat, NEW folder \in Folder,
           NEW s \in [1..n -> File]
    PROVE  /\ Files(l \o Loaded(s, folder)) = Files(l) \o s
           /\ Marked(l \o Loaded(s, folder)) = Marked(l)
  <1> DEFINE t == Loaded(s, folder)
  <1>1. l \in Seq(Mail) /\ Len(l) \in Nat /\ DOMAIN l = 1..Len(l)
        /\ \A i \in 1..Len(l) : l[i] \in Mail
    BY ElementOfSeq DEF MailList
  <1>2. s \in Seq(File) /\ Len(s) = n
    OBVIOUS
  <1>3. /\ t \in Seq(Mail) /\ Len(t) = n
        /\ \A i \in 1..n : t[i].file = s[i] /\ t[i].mark = "UNCHANGED"
    <2>1. \A i \in 1..n :
            [file |-> s[i], folder |-> folder, mark |-> "UNCHANGED"] \in Mail
      BY DEF Mail, Mark
    <2> QED  BY <1>2, <2>1, IsASeq DEF Loaded
  <1> HIDE DEF t
  <1>4. /\ l \o t \in Seq(Mail) /\ Len(l \o t) = Len(l) + n
        /\ \A i \in 1..Len(l) : (l \o t)[i] = l[i]
        /\ \A i \in 1..(Len(l) + n) : i > Len(l) => (l \o t)[i] = t[i - Len(l)]
    BY <1>1, <1>3, ConcatParts
  <1>5. DOMAIN (l \o t) = 1..(Len(l) + n)
    BY <1>4
  <1>6. Files(l) \in Seq(File) /\ Len(Files(l)) = Len(l)
        /\ \A i \in 1..Len(l) : Files(l)[i] = l[i].file
    <2>1. \A i \in 1..Len(l) : l[i].file \in File
      BY <1>1 DEF Mail
    <2> QED  BY <1>1, <2>1, IsASeq DEF Files
  <1>7. /\ Files(l) \o s \in Seq(File) /\ Len(Files(l) \o s) = Len(l) + n
        /\ \A i \in 1..Len(l) : (Files(l) \o s)[i] = l[i].file
        /\ \A i \in 1..(Len(l) + n) :
              i > Len(l) => (Files(l) \o s)[i] = s[i - Len(l)]
    <2> DEFINE f == Files(l)
    <2>1. f \in Seq(File) /\ Len(f) = Len(l)
          /\ \A i \in 1..Len(l) : f[i] = l[i].file
      BY <1>6
    <2> HIDE DEF f
    <2>2. /\ f \o s \in Seq(File) /\ Len(f \o s) = Len(f) + n
          /\ \A i \in 1..Len(f) : (f \o s)[i] = f[i]
          /\ \A i \in 1..(Len(f) + n) :
                i > Len(f) => (f \o s)[i] = s[i - Len(f)]
      BY <1>2, <2>1, ConcatParts
    <2> QED  BY <2>1, <2>2 DEF f
  <1>8. \A i \in 1..(Len(l) + n) : i > Len(l) =>
          i - Len(l) \in 1..n
    BY <1>1
  <1>9. Files(l \o t) = Files(l) \o s
    <2>1. \A i \in 1..(Len(l) + n) : Files(l \o t)[i] = (Files(l) \o s)[i]
      BY <1>1, <1>3, <1>4, <1>5, <1>7, <1>8 DEF Files
    <2>2. DOMAIN Files(l \o t) = 1..(Len(l) + n)
      BY <1>5 DEF Files
    <2>3. Files(l \o t) \in Seq(File) /\ Len(Files(l \o t)) = Len(l) + n
      <3>1. \A i \in 1..(Len(l) + n) : (l \o t)[i] \in Mail
        BY <1>4, ElementOfSeq
      <3>2. \A i \in 1..(Len(l) + n) : (l \o t)[i].file \in File
        BY <3>1 DEF Mail
      <3> DEFINE k == Len(l) + n
                 f(i) == (l \o t)[i].file
      <3>3. k \in Nat /\ \A i \in 1..k : f(i) \in File
        <4>1. k \in Nat
          BY <1>1
        <4>2. \A i \in 1..k : f(i) \in File
          BY <3>2
        <4> QED  BY <4>1, <4>2
      <3>4. Files(l \o t) = [i \in 1..k |-> f(i)]
        BY <1>5 DEF Files
      <3> HIDE DEF k, f
      <3>5. Files(l \o t) \in Seq(File) /\ Len(Files(l \o t)) = k
        BY <3>3, <3>4, IsASeq
      <3> QED  BY <3>5 DEF k
    <2> QED  BY <2>1, <2>3, <1>7, SeqEqual
  <1>10. Marked(l \o t) = Marked(l)
    <2>1. \A i \in 1..(Len(l) + n) : i > Len(l) =>
            (l \o t)[i].mark = "UNCHANGED"
      BY <1>3, <1>4, <1>8
    <2>2. \A i \in 1..(Len(l) + n) : i <= Len(l) <=> i \in 1..Len(l)
      BY <1>1
    <2> QED  BY <1>1, <1>4, <1>5, <2>1, <2>2 DEF Marked
  <1> QED  BY <1>9, <1>10 DEF t

(* Reading a directory enlists messages of the store. *)
LEMMA ListingEnlists ==
    ASSUME TypeOK, NEW c \in Conn, NEW folder \in Folder, NEW here, NEW next,
           here # "updating", next # "updating",
           retrieve_emails(c, folder, here, next)
    PROVE  Drop!Enlist(c)
  <1> DEFINE found == Dir(c, path[c], folder)
             room  == MaxEmails - Len(mails[c])
             limit == IF Cardinality(found) < room
                      THEN Cardinality(found) ELSE room
  <1>1. PICK s \in Listings(c, folder) :
          mails' = [mails EXCEPT ![c] = mails[c] \o Loaded(s, folder)]
    BY DEF retrieve_emails
  <1>2. IsFiniteSet(found) /\ found \subseteq File /\ found \subseteq Present
    BY ConfigAssumption, FS_Subset DEF Dir, Present
  <1>3. Cardinality(found) \in Nat
    BY <1>2, FS_CardinalityType
  <1>4. room \in 0..MaxEmails
    BY ConfigAssumption DEF TypeOK, MailList
  <1>5. PICK taken \in 0..limit : s \in [1..taken -> found]
    BY DEF Listings
  <1>6. taken \in 0..MaxEmails
    BY <1>3, <1>4, ConfigAssumption
  <1> HIDE DEF found
  <1>7. s \in [1..taken -> Present] /\ s \in [1..taken -> File] /\ taken \in Nat
    BY <1>2, <1>3, <1>6, <1>5
  <1>9. /\ Files(mails[c] \o Loaded(s, folder)) = Files(mails[c]) \o s
        /\ Marked(mails[c] \o Loaded(s, folder)) = Marked(mails[c])
    BY <1>7, ListingMapped DEF TypeOK
  <1> DEFINE l == mails[c] \o Loaded(s, folder)
  <1>l. ListBecomes(c, l) /\ Files(l) = View[c] \o s /\ Marked(l) = Doomed[c]
    BY <1>1, <1>9 DEF ListBecomes, View, Doomed, Files, Marked
  <1> HIDE DEF l
  <1>10. /\ View' = [View EXCEPT ![c] = View[c] \o s]
         /\ Doomed' = [Doomed EXCEPT ![c] = Doomed[c]]
    BY <1>l, OneListChanges
  <1>11. Doomed' = Doomed
    BY <1>10 DEF Doomed
  <1>12. c \notin Committing /\ Committing' = Committing
    BY DEF retrieve_emails, Goto, Committing, TypeOK
  <1>13. Present' = Present
    BY DEF retrieve_emails, Present
  <1>14. \E n \in 0..MaxEmails : \E r \in [1..n -> Present] :
            View' = [View EXCEPT ![c] = View[c] \o r]
    BY <1>6, <1>7, <1>10
  <1> QED  BY <1>11, <1>12, <1>13, <1>14 DEF Drop!Enlist

-----------------------------------------------------------------------------
(* Every step maps to a step of Maildrop or to none.  Chunks of memory are *)
(* not recycled, so that every new session starts with an empty list: with *)
(* a recycled one it would start with the numbers of another session.      *)
FreshMemory == TypeOK /\ freed = {}

LEMMA FreshStep ==
    Recycled = FALSE => (FreshMemory /\ [Next]_vars => FreshMemory')
  <1> SUFFICES ASSUME Recycled = FALSE, FreshMemory, [Next]_vars
               PROVE  FreshMemory'
    OBVIOUS
  <1>1. TypeOK'
    BY TypeStep DEF FreshMemory
  <1>2. freed' = {}
    BY DEF FreshMemory, Next, ClientStep, ThreadStep, Accept, user_action,
           pass_unknown, pass_wrong, pass_trywait, pass_busy, query_action,
           retr_action, dele_action, rset_action,
           quit_authorization, quit_begin, hang_up, pass_granted,
           retrieve_emails, quit_delete, quit_move, quit_move_fails, quit_keep,
           quit_updated, quit_close, quit_post, end_post, end_close, deliver,
           setmdf_begins, setmdf_ends, all_served, vars
  <1> QED  BY <1>1, <1>2 DEF FreshMemory

LEMMA StoreStep == FreshMemory /\ [Next]_vars => [Drop!DropNext]_(Drop!dropVars)
  <1> SUFFICES ASSUME FreshMemory, [Next]_vars
               PROVE  Drop!DropNext \/ UNCHANGED Drop!dropVars
    BY DEF Drop!dropVars
  <1> TypeOK
    BY DEF FreshMemory
  <1> USE ConfigAssumption
  <1>1. ASSUME NEW c \in Conn, Accept(c) PROVE Drop!Leave(c)
    <2>1. ListBecomes(c, <<>>)
      <3>1. PICK chunk \in {Zeroed} : mails' = [mails EXCEPT ![c] = chunk.mails]
        BY <1>1 DEF Accept, FreshMemory
      <3>2. Zeroed.mails = <<>>
        BY DEF Zeroed
      <3> QED  BY <3>1, <3>2 DEF ListBecomes
    <2>2. Files(<<>>) = <<>> /\ Marked(<<>>) = {}
      BY DEF Files, Marked
    <2>3. Committing' = Committing /\ c \notin Committing
      BY <1>1 DEF Accept, Goto, Committing, TypeOK
    <2>4. Present' = Present
      BY <1>1 DEF Accept, Present
    <2>5. View' = [View EXCEPT ![c] = <<>>] /\ Doomed' = [Doomed EXCEPT ![c] = {}]
      BY <2>1, <2>2, OneListChanges
    <2> QED  BY <2>3, <2>4, <2>5 DEF Drop!Leave
  <1>2. ASSUME NEW c \in Conn,
               retrieve_emails(c, "cur", "list_cur", "list_new")
        PROVE  Drop!Enlist(c)
    BY <1>2, ListingEnlists DEF Folder
  <1>3. ASSUME NEW c \in Conn,
               retrieve_emails(c, "new", "list_new", "ready")
        PROVE  Drop!Enlist(c)
    BY <1>3, ListingEnlists DEF Folder
  <1>4. ASSUME NEW c \in Conn, retr_action(c)
        PROVE  \/ \E N \in SUBSET DOMAIN View[c] : Drop!Withdraw(c, N)
               \/ UNCHANGED Drop!dropVars
    <2>1. Committing' = Committing /\ Present' = Present /\ c \notin Committing
      BY <1>4 DEF retr_action, Command, Committing, Present
    <2>2. PICK i \in DOMAIN mails[c] :
            \/ mails' = [mails EXCEPT ![c] = [mails[c] EXCEPT ![i].mark = "RETRIEVED"]]
            \/ mails' = mails
      BY <1>4 DEF retr_action
    <2>3. CASE mails' = mails
      BY <1>4, <2>1, <2>3, SameStore DEF retr_action
    <2>4. CASE mails' = [mails EXCEPT ![c] =
                           [mails[c] EXCEPT ![i].mark = "RETRIEVED"]]
      <3> DEFINE l == [mails[c] EXCEPT ![i].mark = "RETRIEVED"]
      <3>1. Files(l) = Files(mails[c]) /\ Marked(l) = Marked(mails[c]) \ {i}
        BY RemarkMapped DEF TypeOK, Mark
      <3>l. ListBecomes(c, l)
        BY <2>4 DEF ListBecomes
      <3> HIDE DEF l
      <3>2. /\ View' = [View EXCEPT ![c] = View[c]]
            /\ Doomed' = [Doomed EXCEPT ![c] = Doomed[c] \ {i}]
            /\ i \in DOMAIN View[c]
        BY <3>l, <3>1, OneListChanges
      <3>3. View' = View
        BY <3>2 DEF View
      <3>4. Drop!Withdraw(c, {i})
        BY <2>1, <3>2, <3>3 DEF Drop!Withdraw
      <3> QED  BY <3>2, <3>4
    <2> QED  BY <2>2, <2>3, <2>4
  <1>5. ASSUME NEW c \in Conn, dele_action(c)
        PROVE  \E n \in DOMAIN View[c] : Drop!Ask(c, n)
    <2>1. Committing' = Committing /\ Present' = Present /\ c \notin Committing
      BY <1>5 DEF dele_action, Command, Committing, Present
    <2>2. PICK i \in DOMAIN mails[c] :
            mails' = [mails EXCEPT ![c] = [mails[c] EXCEPT ![i].mark = "DELETED"]]
      BY <1>5 DEF dele_action
    <2> DEFINE l == [mails[c] EXCEPT ![i].mark = "DELETED"]
    <2>3. Files(l) = Files(mails[c]) /\ Marked(l) = Marked(mails[c]) \cup {i}
      BY RemarkMapped DEF TypeOK, Mark
    <2>l. ListBecomes(c, l)
      BY <2>2 DEF ListBecomes
    <2> HIDE DEF l
    <2>4. /\ View' = [View EXCEPT ![c] = View[c]]
          /\ Doomed' = [Doomed EXCEPT ![c] = Doomed[c] \cup {i}]
          /\ i \in DOMAIN View[c]
      BY <2>l, <2>3, OneListChanges
    <2>5. View' = View
      BY <2>4 DEF View
    <2> QED  BY <2>1, <2>4, <2>5 DEF Drop!Ask
  <1>6. ASSUME NEW c \in Conn, rset_action(c)
        PROVE  \E N \in SUBSET DOMAIN View[c] : Drop!Withdraw(c, N)
    <2>1. Committing' = Committing /\ Present' = Present /\ c \notin Committing
      BY <1>6 DEF rset_action, Command, Committing, Present
    <2> DEFINE l == [i \in DOMAIN mails[c] |->
                       [mails[c][i] EXCEPT !.mark = "UNCHANGED"]]
    <2>2. mails' = [mails EXCEPT ![c] = l]
      BY <1>6 DEF rset_action
    <2>3. Files(l) = Files(mails[c]) /\ Marked(l) = {}
      <3>1. \A i \in DOMAIN mails[c] : mails[c][i] \in Mail
        BY ElementOfSeq DEF TypeOK, MailList
      <3> QED  BY <3>1 DEF Files, Marked, Mail
    <2>l. ListBecomes(c, l)
      BY <2>2 DEF ListBecomes
    <2> HIDE DEF l
    <2>4. /\ View' = [View EXCEPT ![c] = View[c]]
          /\ Doomed' = [Doomed EXCEPT ![c] = {}]
      BY <2>l, <2>3, OneListChanges
    <2>5. View' = View
      BY <2>4 DEF View
    <2>6. Doomed[c] \ DOMAIN View[c] = {}
      BY OneListChanges DEF Doomed, View
    <2>7. Drop!Withdraw(c, DOMAIN View[c])
      BY <2>1, <2>4, <2>5, <2>6 DEF Drop!Withdraw
    <2> QED  BY <2>7
  <1>7. ASSUME NEW c \in Conn, quit_begin(c) PROVE Drop!Quit(c)
    <2>1. c \notin Committing /\ Committing' = Committing \cup {c}
      BY <1>7 DEF quit_begin, Command, Goto, Committing, TypeOK
    <2>2. View' = View /\ Doomed' = Doomed /\ Present' = Present
      BY <1>7 DEF quit_begin, View, Doomed, Present
    <2> QED  BY <2>1, <2>2 DEF Drop!Quit
  <1>8. ASSUME NEW c \in Conn, quit_delete(c)
        PROVE  \E n \in DOMAIN View[c] : Drop!Commit(c, n)
    <2> DEFINE i == at[c]
               l == [mails[c] EXCEPT ![i].mark = "UNCHANGED"]
    <2>1. i \in DOMAIN mails[c] /\ mails[c][i].mark = "DELETED"
          /\ mails' = [mails EXCEPT ![c] = l]
      BY <1>8 DEF quit_delete
    <2>2. Files(l) = Files(mails[c]) /\ Marked(l) = Marked(mails[c]) \ {i}
      BY <2>1, RemarkMapped DEF TypeOK, Mark
    <2>l. ListBecomes(c, l)
      BY <2>1 DEF ListBecomes
    <2> HIDE DEF l
    <2>3. /\ View' = [View EXCEPT ![c] = View[c]]
          /\ Doomed' = [Doomed EXCEPT ![c] = Doomed[c] \ {i}]
          /\ i \in DOMAIN View[c]
      BY <2>1, <2>l, <2>2, OneListChanges
    <2>m. View[c][i] = mails[c][i].file
      BY <2>1 DEF View
    <2>4. View' = View
      BY <2>3 DEF View
    <2>5. i \in Doomed[c]
      BY <2>1 DEF Doomed
    <2>6. c \in Committing /\ Committing' = Committing
      BY <1>8 DEF quit_delete, Committing
    <2>7. Present' \in {Present, Present \ {View[c][i]}}
      BY <1>8, <2>m DEF quit_delete, Present, TypeOK, Folder
    <2>8. Drop!Commit(c, i)
      BY <2>3, <2>4, <2>5, <2>6, <2>7 DEF Drop!Commit
    <2> QED  BY <2>3, <2>8
  <1>9. ASSUME NEW c \in Conn, quit_move(c) PROVE UNCHANGED Drop!dropVars
    <2> DEFINE i == at[c]
               l == [mails[c] EXCEPT ![i].mark = "UNCHANGED", ![i].folder = "cur"]
    <2>1. i \in DOMAIN mails[c] /\ mails[c][i].mark = "RETRIEVED"
          /\ mails' = [mails EXCEPT ![c] = l]
      BY <1>9 DEF quit_move
    <2>2. Files(l) = Files(mails[c]) /\ Marked(l) = Marked(mails[c])
      <3>1. \A j \in DOMAIN mails[c] : mails[c][j] \in Mail
        BY ElementOfSeq DEF TypeOK, MailList
      <3> QED  BY <2>1, <3>1 DEF Files, Marked, Mail
    <2>l. ListBecomes(c, l)
      BY <2>1 DEF ListBecomes
    <2> HIDE DEF l
    <2>3. /\ View' = [View EXCEPT ![c] = View[c]]
          /\ Doomed' = [Doomed EXCEPT ![c] = Doomed[c]]
      BY <2>l, <2>2, OneListChanges
    <2>4. View' = View /\ Doomed' = Doomed
      BY <2>3 DEF View, Doomed
    <2>5. Committing' = Committing
      BY <1>9 DEF quit_move, Committing
    <2>6. Present' = Present
      BY <1>9 DEF quit_move, Exists, Dir, Present, TypeOK, Folder
    <2> QED  BY <2>4, <2>5, <2>6 DEF Drop!dropVars
  <1>10. ASSUME NEW c \in Conn, quit_keep(c) PROVE UNCHANGED Drop!dropVars
    <2> DEFINE i == at[c]
               l == [mails[c] EXCEPT ![i].mark = "UNCHANGED"]
    <2>1. i \in DOMAIN mails[c] /\ mails[c][i].mark # "DELETED"
          /\ mails' = [mails EXCEPT ![c] = l]
      BY <1>10 DEF quit_keep
    <2>2. Files(l) = Files(mails[c]) /\ Marked(l) = Marked(mails[c])
      <3>1. i \notin Marked(mails[c])
        BY <2>1 DEF Marked
      <3>2. Files(l) = Files(mails[c]) /\ Marked(l) = Marked(mails[c]) \ {i}
        BY <2>1, RemarkMapped DEF TypeOK, Mark
      <3> QED  BY <3>1, <3>2
    <2>l. ListBecomes(c, l)
      BY <2>1 DEF ListBecomes
    <2> HIDE DEF l
    <2>3. /\ View' = [View EXCEPT ![c] = View[c]]
          /\ Doomed' = [Doomed EXCEPT ![c] = Doomed[c]]
      BY <2>l, <2>2, OneListChanges
    <2>4. View' = View /\ Doomed' = Doomed
      BY <2>3 DEF View, Doomed
    <2>5. Committing' = Committing /\ Present' = Present
      BY <1>10 DEF quit_keep, Committing, Present
    <2> QED  BY <2>4, <2>5 DEF Drop!dropVars
  <1>11. ASSUME NEW c \in Conn, quit_move_fails(c) PROVE Drop!EndCommit(c)
    <2>1. c \in Committing /\ Committing' = Committing \ {c}
      BY <1>11 DEF quit_move_fails, Goto, Committing, TypeOK
    <2>2. View' = View /\ Doomed' = Doomed /\ Present' = Present
      BY <1>11 DEF quit_move_fails, View, Doomed, Present
    <2> QED  BY <2>1, <2>2 DEF Drop!EndCommit
  <1>12. ASSUME NEW c \in Conn, quit_updated(c) PROVE Drop!EndCommit(c)
    <2>1. c \in Committing /\ Committing' = Committing \ {c}
      BY <1>12 DEF quit_updated, Goto, Committing, TypeOK
    <2>2. View' = View /\ Doomed' = Doomed /\ Present' = Present
      BY <1>12 DEF quit_updated, View, Doomed, Present
    <2> QED  BY <2>1, <2>2 DEF Drop!EndCommit
  <1>13. ASSUME NEW c \in Conn, end_close(c) PROVE Drop!Leave(c)
    <2>1. ListBecomes(c, <<>>)
      BY <1>13 DEF end_close, Zeroed, ListBecomes
    <2>2. Files(<<>>) = <<>> /\ Marked(<<>>) = {}
      BY DEF Files, Marked
    <2>3. Committing' = Committing /\ c \notin Committing
      BY <1>13 DEF end_close, Goto, Committing, TypeOK
    <2>4. Present' = Present
      BY <1>13 DEF end_close, Present
    <2>5. View' = [View EXCEPT ![c] = <<>>] /\ Doomed' = [Doomed EXCEPT ![c] = {}]
      BY <2>1, <2>2, OneListChanges
    <2> QED  BY <2>3, <2>4, <2>5 DEF Drop!Leave
  <1>14. ASSUME NEW f \in File, deliver(f) PROVE Drop!Arrive(f)
    <2>1. f \notin Present /\ Present' = Present \cup {f}
      BY <1>14 DEF deliver, Present, Folder, TypeOK
    <2>2. View' = View /\ Doomed' = Doomed /\ Committing' = Committing
      BY <1>14 DEF deliver, View, Doomed, Committing
    <2> QED  BY <2>1, <2>2 DEF Drop!Arrive
  <1>15. ASSUME NEW c \in Conn, user_action(c) PROVE UNCHANGED Drop!dropVars
    BY <1>15, SameStore DEF user_action, Command, Goto, Committing, TypeOK
  <1>16. ASSUME NEW c \in Conn, pass_unknown(c) PROVE UNCHANGED Drop!dropVars
    BY <1>16, SameStore DEF pass_unknown, vars, Command, Goto, Committing, TypeOK
  <1>17. ASSUME NEW c \in Conn, pass_wrong(c) PROVE UNCHANGED Drop!dropVars
    BY <1>17, SameStore DEF pass_wrong, Command, Goto, Committing, TypeOK
  <1>18. ASSUME NEW c \in Conn, pass_trywait(c) PROVE UNCHANGED Drop!dropVars
    BY <1>18, SameStore DEF pass_trywait, Command, Goto, Committing, TypeOK
  <1>19. ASSUME NEW c \in Conn, pass_busy(c) PROVE UNCHANGED Drop!dropVars
    BY <1>19, SameStore DEF pass_busy, Command, Goto, Committing, TypeOK
  <1>20. ASSUME NEW c \in Conn, query_action(c) PROVE UNCHANGED Drop!dropVars
    BY <1>20, SameStore DEF query_action, vars, Command, Goto, Committing, TypeOK
  <1>22. ASSUME NEW c \in Conn, quit_authorization(c) PROVE UNCHANGED Drop!dropVars
    BY <1>22, SameStore DEF quit_authorization, Command, Goto, Committing, TypeOK
  <1>23. ASSUME NEW c \in Conn, hang_up(c) PROVE UNCHANGED Drop!dropVars
    BY <1>23, SameStore DEF hang_up, Command, Goto, Committing, TypeOK
  <1>24. ASSUME NEW c \in Conn, pass_granted(c) PROVE UNCHANGED Drop!dropVars
    BY <1>24, SameStore DEF pass_granted, Command, Goto, Committing, TypeOK
  <1>25. ASSUME NEW c \in Conn, quit_close(c) PROVE UNCHANGED Drop!dropVars
    BY <1>25, SameStore DEF quit_close, Command, Goto, Committing, TypeOK
  <1>26. ASSUME NEW c \in Conn, quit_post(c) PROVE UNCHANGED Drop!dropVars
    BY <1>26, SameStore DEF quit_post, Command, Goto, Committing, TypeOK
  <1>27. ASSUME NEW c \in Conn, end_post(c) PROVE UNCHANGED Drop!dropVars
    BY <1>27, SameStore DEF end_post, Command, Goto, Committing, TypeOK
  <1>28. CASE UNCHANGED vars
    BY <1>28, SameStore DEF vars, Committing
  <1>29. CASE setmdf_begins
    BY <1>29, SameStore DEF setmdf_begins, Committing
  <1>30. ASSUME NEW m \in NewMaildir, setmdf_ends(m)
         PROVE  UNCHANGED Drop!dropVars
    BY <1>30, SameStore DEF setmdf_ends, Committing
  <1> QED
    BY <1>1, <1>2, <1>3, <1>4, <1>5, <1>6, <1>7, <1>8, <1>9, <1>10,
       <1>11, <1>12, <1>13, <1>14, <1>15, <1>16, <1>17, <1>18,
       <1>19, <1>20, <1>22, <1>23, <1>24, <1>25, <1>26,
       <1>27, <1>28, <1>29, <1>30
       DEF Next, ClientStep, ThreadStep, all_served, Drop!DropNext

(* As long as malloc does not hand out the chunk of an earlier Connection,  *)
(* the sessions implement the store: numbers are stable and mail is lost    *)
(* only to a session that asked, whatever clients send and however the      *)
(* sessions of a mailbox interleave.                                        *)
THEOREM SessionsImplementMaildrop ==
    Recycled = FALSE => (Spec => ImplementsMaildrop)
  <1>1. Init => FreshMemory /\ Drop!DropInit
    <2> SUFFICES ASSUME Init PROVE FreshMemory /\ Drop!DropInit
      OBVIOUS
    <2>1. TypeOK
      BY ConfigAssumption, EmptySeq
         DEF Init, TypeOK, Zeroed, Status, Name, MailList, Phase, Visit
    <2>2. View = [c \in Conn |-> <<>>] /\ Doomed = [c \in Conn |-> {}]
      BY DEF Init, Zeroed, View, Doomed
    <2>3. Committing = {} /\ Present \subseteq File
      BY DEF Init, Committing, Present
    <2> QED  BY <2>1, <2>2, <2>3 DEF FreshMemory, Init, Drop!DropInit
  <1>2. CASE Recycled = FALSE
    <2>1. FreshMemory /\ [Next]_vars => FreshMemory'
      BY <1>2, FreshStep
    <2> QED
      BY <1>1, <2>1, StoreStep, PTL DEF Spec, ImplementsMaildrop, Drop!DropSpec
  <1> QED  BY <1>2

-----------------------------------------------------------------------------
(***************************************************************************)
(* The semaphore protects the list.                                        *)
(*                                                                         *)
(* A session that updates a mailbox either holds its semaphore or is a     *)
(* trespasser; so as long as nobody else holds the semaphore of a mailbox  *)
(* and nobody trespasses in it, no file of it changes, but for those that  *)
(* arrive.  A session that has its mailbox for itself reads the folder of  *)
(* the setting of now, and adds to its list what is there.                 *)
(***************************************************************************)
Listing == {"list_cur", "list_new"}

(* An update goes with the semaphore, or is that of a trespasser. *)
UpdateInv ==
    \A c \in Conn : phase[c] = "updating" =>
        name[c] \in holds[c] \/ visit[c] = "trespass"

(* Where the sessions of each kind of visit can be *)
VisitPlace ==
    \A c \in Conn :
        /\ visit[c] = "trespass" => phase[c] = "updating"
        /\ visit[c] = "own" => phase[c] \in Listing \cup {"ready"}

(* Nobody else is in the mailbox of a session that has it for itself. *)
AloneInv ==
    \A c \in Conn : visit[c] = "own" =>
        \A d \in Conn \ {c} :
            /\ name[c] \notin holds[d]
            /\ name[d] = name[c] => visit[d] # "trespass"

(* The folder that is being read is the one that is set. *)
PathInv ==
    \A c \in Conn : visit[c] = "own" /\ phase[c] \in Listing =>
        path[c] = maildir

(* What has been listed, so far too, is there. *)
ThereInv ==
    \A c \in Conn : visit[c] = "own" =>
        \A i \in DOMAIN mails[c] : Exists(c, mails[c][i])

VisitInv == UpdateInv /\ VisitPlace /\ AloneInv
OwnInv   == TypeOK /\ VisitInv /\ PathInv /\ ThereInv

(* What a step of session c may do to the visits: those of the others, its *)
(* own, and how it comes near to those that have their mailbox alone       *)
OthersStep(c) ==
    \A d \in Conn \ {c} :
        /\ phase'[d] = phase[d] /\ name'[d] = name[d] /\ holds'[d] = holds[d]
        /\ visit'[d] = visit[d] \/ (visit[d] = "own" /\ visit'[d] = "none")

ItselfStep(c) ==
    /\ phase'[c] = "updating" =>
          name'[c] \in holds'[c] \/ visit'[c] = "trespass"
    /\ visit'[c] = "trespass" => phase'[c] = "updating"
    /\ visit'[c] = "own" =>
          /\ phase'[c] \in Listing \cup {"ready"}
          /\ name'[c] = name[c] /\ (visit[c] = "own" \/ OwnFrom(c))

NearbyStep(c) ==
    \A d \in Conn \ {c} : visit'[d] = "own" =>
        /\ name[d] \in holds'[c] => name[d] \in holds[c]
        /\ name'[c] = name[d] /\ visit'[c] = "trespass" =>
              name[c] = name[d] /\ visit[c] = "trespass"

SessionStep(c) == OthersStep(c) /\ ItselfStep(c) /\ NearbyStep(c)

LEMMA VisitKept ==
    ASSUME VisitInv, NEW c \in Conn, SessionStep(c)
    PROVE  VisitInv'
  <1>1. UpdateInv'
    BY DEF VisitInv, UpdateInv, SessionStep, OthersStep, ItselfStep
  <1>2. VisitPlace'
    BY DEF VisitInv, VisitPlace, SessionStep, OthersStep, ItselfStep
  <1>3. AloneInv'
    <2> SUFFICES ASSUME NEW a \in Conn, visit'[a] = "own", NEW d \in Conn \ {a}
                 PROVE  /\ name'[a] \notin holds'[d]
                        /\ name'[d] = name'[a] => visit'[d] # "trespass"
      BY DEF AloneInv
    <2>1. CASE a = c
      <3>1. name[c] \notin holds[d] /\ (name[d] = name[c] => visit[d] # "trespass")
        BY <2>1 DEF SessionStep, ItselfStep, VisitInv, AloneInv, OwnFrom
      <3> QED  BY <2>1, <3>1 DEF SessionStep, OthersStep, ItselfStep
    <2>2. CASE a # c
      <3>1. visit[a] = "own" /\ name'[a] = name[a]
        BY <2>2 DEF SessionStep, OthersStep
      <3>2. name[a] \notin holds[d] /\ (name[d] = name[a] => visit[d] # "trespass")
        BY <3>1 DEF VisitInv, AloneInv
      <3>3. CASE d = c
        BY <2>2, <3>1, <3>2, <3>3 DEF SessionStep, NearbyStep
      <3>4. CASE d # c
        BY <2>2, <3>1, <3>2, <3>4 DEF SessionStep, OthersStep
      <3> QED  BY <3>3, <3>4
    <2> QED  BY <2>1, <2>2
  <1> QED  BY <1>1, <1>2, <1>3 DEF VisitInv

(* The semaphore is taken in the moment the session comes in. *)
LEMMA ComingIn ==
    ASSUME TypeOK, NEW c \in Conn, NEW v \in Visit, ComesIn(c, v)
    PROVE  /\ visit'[c] = v
           /\ \A d \in Conn \ {c} :
                 /\ visit'[d] = visit[d] \/ (visit[d] = "own" /\ visit'[d] = "none")
                 /\ visit'[d] = "own" => name[d] # name[c]
  BY DEF ComesIn

(* A step that changes the phase of the session, and takes from its holds *)
LEMMA VisitFrame ==
    ASSUME TypeOK, VisitInv, NEW c \in Conn, NEW p \in Phase,
           phase' = [phase EXCEPT ![c] = p],
           \A d \in Conn \ {c} : name'[d] = name[d] /\ holds'[d] = holds[d],
           holds'[c] \subseteq holds[c],
           \A d \in Conn \ {c} : visit'[d] = visit[d],
           ItselfStep(c), visit'[c] # "trespass"
    PROVE  SessionStep(c)
  <1>1. OthersStep(c)
    BY DEF OthersStep, TypeOK
  <1>2. NearbyStep(c)
    BY DEF NearbyStep
  <1> QED  BY <1>1, <1>2 DEF SessionStep

LEMMA SessionSteps ==
    ASSUME TypeOK, VisitInv, NEW c \in Conn, ClientStep(c) \/ ThreadStep(c)
    PROVE  SessionStep(c)
  <1> USE DEF Goto, Listing
  <1>0. TypeOK /\ VisitInv /\ UpdateInv /\ VisitPlace
    BY DEF VisitInv
  <1>1. CASE UNCHANGED <<phase, name, holds, visit>>
    <2>1. OthersStep(c) /\ NearbyStep(c)
      BY <1>1 DEF OthersStep, NearbyStep
    <2>2. ItselfStep(c)
      BY <1>0, <1>1 DEF ItselfStep, UpdateInv, VisitPlace
    <2> QED  BY <2>1, <2>2 DEF SessionStep
  <1>2. pass_unknown(c) \/ query_action(c) \/ retr_action(c) \/ dele_action(c)
          \/ rset_action(c) \/ quit_authorization(c) \/ quit_delete(c)
          \/ quit_move(c) \/ quit_keep(c)
        => UNCHANGED <<phase, name, holds, visit>>
    BY DEF pass_unknown, query_action, retr_action, dele_action, rset_action,
           quit_authorization, quit_delete, quit_move, quit_keep, vars
  <1>3. CASE Accept(c)
    <2>1. visit[c] = "none"
      BY <1>0, <1>3 DEF Accept, VisitPlace, TypeOK, Visit
    <2>2. /\ phase' = [phase EXCEPT ![c] = "ready"] /\ holds' = holds
          /\ visit' = visit /\ \A d \in Conn \ {c} : name'[d] = name[d]
      BY <1>0, <1>3 DEF Accept, TypeOK
    <2>3. phase'[c] = "ready" /\ visit'[c] = "none" /\ "ready" \in Phase
      BY <1>0, <2>1, <2>2 DEF TypeOK, Phase
    <2>4. ItselfStep(c)
      BY <2>3 DEF ItselfStep
    <2> QED  BY <1>0, <2>2, <2>3, <2>4, VisitFrame
  <1>4. ASSUME NEW p \in Phase, phase' = [phase EXCEPT ![c] = p], p # "updating",
               VisitEnds(c),
               \A d \in Conn \ {c} : name'[d] = name[d] /\ holds'[d] = holds[d],
               holds'[c] \subseteq holds[c]
        PROVE  SessionStep(c)
    <2>1. /\ phase'[c] = p /\ visit'[c] = "none"
          /\ \A d \in Conn \ {c} : visit'[d] = visit[d]
      BY <1>0, <1>4 DEF VisitEnds, TypeOK
    <2>2. ItselfStep(c)
      BY <1>4, <2>1 DEF ItselfStep
    <2> QED  BY <1>0, <1>4, <2>1, <2>2, VisitFrame
  <1>5. CASE user_action(c) \/ pass_wrong(c)
    <2>1. /\ phase' = [phase EXCEPT ![c] = "ready"] /\ holds' = holds
          /\ VisitEnds(c)
      BY <1>0, <1>5 DEF user_action, pass_wrong, Command, TypeOK
    <2>3. "ready" \in Phase
      BY DEF Phase
    <2>2. \A d \in Conn \ {c} : name'[d] = name[d]
      BY <1>0, <1>5 DEF user_action, pass_wrong, TypeOK
    <2> QED  BY <1>4, <2>1, <2>2, <2>3
  <1>6. CASE pass_busy(c) \/ quit_move_fails(c) \/ quit_updated(c) \/ hang_up(c)
    BY <1>4, <1>6 DEF pass_busy, quit_move_fails, quit_updated, hang_up, Phase
  <1>7. CASE pass_trywait(c) \/ pass_granted(c)
    <2>1. PICK v \in Visit :
             /\ ComesIn(c, v)
             /\ v = "own" => pass_trywait(c) /\ (visit[c] = "own" \/ OwnFrom(c))
             /\ v # "trespass"
      <3>1. phase[c] # "updating" /\ visit[c] \in Visit
        BY <1>0, <1>7 DEF pass_trywait, pass_granted, Command, TypeOK
      <3>2. visit[c] # "trespass"
        BY <1>0, <3>1 DEF VisitPlace
      <3> QED
        BY <1>7, <3>1, <3>2 DEF pass_trywait, pass_granted, Visit
    <2>2. /\ visit'[c] = v
          /\ \A d \in Conn \ {c} :
                /\ visit'[d] = visit[d] \/ (visit[d] = "own" /\ visit'[d] = "none")
                /\ visit'[d] = "own" => name[d] # name[c]
      BY <1>0, <2>1, ComingIn
    <2>3. /\ name' = name /\ holds' = [holds EXCEPT ![c] = @ \cup {name[c]}]
          /\ \/ phase' = [phase EXCEPT ![c] = "list_cur"]
             \/ phase' = [phase EXCEPT ![c] = "ready"] /\ ~ pass_trywait(c)
      BY <1>7 DEF pass_trywait, pass_granted, TakeSemaphore, Command
    <2>4. OthersStep(c)
      BY <1>0, <2>2, <2>3 DEF OthersStep, TypeOK
    <2>5. holds'[c] = holds[c] \cup {name[c]}
          /\ phase'[c] \in {"list_cur", "ready"}
      BY <1>0, <2>3 DEF TypeOK
    <2>6. ItselfStep(c)
      BY <2>1, <2>2, <2>3, <2>5 DEF ItselfStep
    <2>7. NearbyStep(c)
      BY <2>1, <2>2, <2>5 DEF NearbyStep
    <2> QED  BY <2>4, <2>6, <2>7 DEF SessionStep
  <1>8. CASE quit_begin(c)
    <2>1. /\ name' = name /\ holds' = holds
          /\ phase' = [phase EXCEPT ![c] = "updating"]
      BY <1>8 DEF quit_begin
    <2>2. CASE name[c] \in holds[c]
      <3>1. VisitEnds(c)
        BY <1>8, <2>2 DEF quit_begin
      <3>2. /\ phase'[c] = "updating" /\ visit'[c] = "none"
            /\ "updating" \in Phase
            /\ \A d \in Conn \ {c} : visit'[d] = visit[d]
        BY <1>0, <2>1, <3>1 DEF VisitEnds, TypeOK, Phase
      <3>3. ItselfStep(c)
        BY <2>1, <2>2, <3>2 DEF ItselfStep
      <3> QED  BY <1>0, <2>1, <3>2, <3>3, VisitFrame
    <2>3. CASE name[c] \notin holds[c]
      <3>1. "trespass" \in Visit /\ ComesIn(c, "trespass")
        BY <1>8, <2>3 DEF quit_begin, Visit
      <3>2. /\ visit'[c] = "trespass"
            /\ \A d \in Conn \ {c} :
                  /\ visit'[d] = visit[d] \/ (visit[d] = "own" /\ visit'[d] = "none")
                  /\ visit'[d] = "own" => name[d] # name[c]
        BY <1>0, <3>1, ComingIn
      <3>3. OthersStep(c)
        BY <1>0, <2>1, <3>2 DEF OthersStep, TypeOK
      <3>4. ItselfStep(c)
        BY <1>0, <2>1, <3>2 DEF ItselfStep, TypeOK
      <3>5. NearbyStep(c)
        BY <2>1, <3>2 DEF NearbyStep
      <3> QED  BY <3>3, <3>4, <3>5 DEF SessionStep
    <2> QED  BY <2>2, <2>3
  <1>9. ASSUME phase[c] # "updating",
               NEW p \in Phase, phase' = [phase EXCEPT ![c] = p],
               p # "updating",
               visit[c] = "own" => p \in Listing \cup {"ready"} /\ name'[c] = name[c],
               visit' = visit, holds'[c] \subseteq holds[c],
               \A d \in Conn \ {c} : name'[d] = name[d] /\ holds'[d] = holds[d]
        PROVE  SessionStep(c)
    <2>1. phase'[c] = p /\ visit[c] # "trespass"
      BY <1>0, <1>9 DEF VisitPlace, TypeOK
    <2>2. ItselfStep(c)
      BY <1>9, <2>1 DEF ItselfStep
    <2> QED  BY <1>0, <1>9, <2>1, <2>2, VisitFrame
  <1>10. ASSUME NEW folder, NEW here \in Listing, NEW next \in {"list_new", "ready"},
                retrieve_emails(c, folder, here, next)
         PROVE  SessionStep(c)
    BY <1>9, <1>10 DEF retrieve_emails, Phase
  <1>11. CASE quit_close(c) \/ quit_post(c) \/ end_post(c) \/ end_close(c)
    <2>1. visit[c] = "none" /\ phase[c] # "updating"
      BY <1>0, <1>11
         DEF quit_close, quit_post, end_post, end_close, VisitPlace, TypeOK, Visit
    <2>2. /\ visit' = visit /\ holds'[c] \subseteq holds[c]
          /\ \A d \in Conn \ {c} : name'[d] = name[d] /\ holds'[d] = holds[d]
      BY <1>0, <1>11
         DEF quit_close, quit_post, end_post, end_close, PostSemaphores, TypeOK
    <2>3. \E p \in Phase \ {"updating"} : phase' = [phase EXCEPT ![c] = p]
      BY <1>11 DEF quit_close, quit_post, end_post, end_close, Phase
    <2> QED  BY <1>9, <2>1, <2>2, <2>3
  <1> QED
    BY <1>1, <1>2, <1>3, <1>5, <1>6, <1>7, <1>8, <1>10, <1>11
       DEF ClientStep, ThreadStep

(* What a step of session c may do to the lists and the files *)
ListStep(c) ==
    /\ maildir' = maildir
    /\ \A d \in Conn \ {c} : path'[d] = path[d] /\ mails'[d] = mails[d]
    /\ \/ disk' = disk
       \/ /\ phase[c] = "updating" /\ visit' = visit
          /\ \A f \in File : Owner[f] # name[c] => disk'[f] = disk[f]
    /\ visit'[c] = "own" =>
          /\ phase'[c] \in Listing => path'[c] = maildir
          /\ \A i \in DOMAIN mails'[c] : Exists(c, mails'[c][i])

(* The files of a session that has its mailbox for itself keep their places. *)
LEMMA ThereKept ==
    ASSUME OwnInv, TypeOK', NEW c \in Conn, SessionStep(c), ListStep(c)
    PROVE  PathInv' /\ ThereInv'
  <1>1. PathInv'
    <2> SUFFICES ASSUME NEW a \in Conn, visit'[a] = "own", phase'[a] \in Listing
                 PROVE  path'[a] = maildir'
      BY DEF PathInv
    <2> QED  BY DEF OwnInv, PathInv, SessionStep, OthersStep, ListStep
  <1>2. ThereInv'
    <2> SUFFICES ASSUME NEW a \in Conn, visit'[a] = "own",
                        NEW i \in DOMAIN mails'[a]
                 PROVE  Exists(a, mails[a][i])'
      BY DEF ThereInv
    <2> DEFINE m == mails'[a][i]
    <2>1. Exists(a, m) /\ name'[a] = name[a]
      <3>1. CASE a = c
        BY <3>1 DEF SessionStep, ItselfStep, ListStep
      <3>2. CASE a # c
        BY <3>2 DEF OwnInv, ThereInv, SessionStep, OthersStep, ListStep
      <3> QED  BY <3>1, <3>2
    <2>2. m.file \in File /\ Owner[m.file] = name[a]
      BY <2>1 DEF Exists, Dir
    <2>3. disk'[m.file] = disk[m.file]
      <3> SUFFICES ASSUME disk' # disk PROVE disk'[m.file] = disk[m.file]
        OBVIOUS
      <3>1. phase[c] = "updating" /\ visit[a] = "own"
            /\ \A f \in File : Owner[f] # name[c] => disk'[f] = disk[f]
        BY DEF ListStep
      <3>2. a # c
        BY <3>1 DEF OwnInv, VisitInv, VisitPlace, Listing
      <3>3. name[c] \in holds[c] \/ visit[c] = "trespass"
        BY <3>1 DEF OwnInv, VisitInv, UpdateInv
      <3>4. name[a] # name[c]
        BY <3>1, <3>2, <3>3 DEF OwnInv, VisitInv, AloneInv
      <3> QED  BY <2>2, <3>1, <3>4
    <2> QED  BY <2>1, <2>3 DEF Exists, Dir, ListStep
  <1> QED  BY <1>1, <1>2

(* What a session reads in a folder is in the folder. *)
LEMMA ReadIsThere ==
    ASSUME TypeOK, NEW c \in Conn, NEW folder \in Folder, path[c] = maildir,
           NEW s \in Listings(c, folder),
           \A i \in DOMAIN mails[c] : Exists(c, mails[c][i])
    PROVE  LET l == mails[c] \o Loaded(s, folder)
           IN  \A i \in DOMAIN l : Exists(c, l[i])
  <1> DEFINE t == Loaded(s, folder)
  <1>1. /\ mails[c] \in Seq(Mail) /\ Len(mails[c]) \in Nat
        /\ DOMAIN mails[c] = 1..Len(mails[c])
    BY DEF TypeOK, MailList
  <1>2. PICK n \in Nat : s \in [1..n -> Dir(c, path[c], folder)]
    <2>1. IsFiniteSet(Dir(c, path[c], folder))
      BY ConfigAssumption, FS_Subset DEF Dir
    <2>2. /\ Cardinality(Dir(c, path[c], folder)) \in Nat
          /\ MaxEmails - Len(mails[c]) \in Nat
      BY <1>1, <2>1, FS_CardinalityType, ConfigAssumption DEF TypeOK, MailList
    <2>3. \A k \in Nat : 0..k \subseteq Nat
      OBVIOUS
    <2> QED  BY <2>2, <2>3 DEF Listings
  <1>3. Dir(c, path[c], folder) \subseteq File
    BY DEF Dir
  <1>4. s \in Seq(File) /\ Len(s) = n
    BY <1>2, <1>3
  <1>5. \A j \in 1..n : /\ t[j] \in Mail /\ t[j].file = s[j]
                        /\ t[j].folder = folder
    BY <1>2, <1>3, <1>4 DEF Loaded, Mail, Mark
  <1>6. \A j \in 1..n : Exists(c, t[j])
    BY <1>2, <1>5 DEF Exists
  <1>7. t \in Seq(Mail) /\ Len(t) = n
    <2>1. t = [j \in 1..n |-> [file |-> s[j], folder |-> folder,
                               mark |-> "UNCHANGED"]]
      BY <1>4 DEF Loaded
    <2>2. \A j \in 1..n : [file |-> s[j], folder |-> folder,
                           mark |-> "UNCHANGED"] \in Mail
      BY <1>2, <1>3 DEF Mail, Mark
    <2> QED  BY <1>2, <2>1, <2>2, IsASeq
  <1> HIDE DEF t
  <1>8. /\ DOMAIN (mails[c] \o t) = 1..(Len(mails[c]) + n)
        /\ \A i \in 1..(Len(mails[c]) + n) :
              (mails[c] \o t)[i] = IF i <= Len(mails[c]) THEN mails[c][i]
                                   ELSE t[i - Len(mails[c])]
    <2>1. mails[c] \o t \in Seq(Mail) /\ Len(mails[c] \o t) = Len(mails[c]) + n
      BY <1>1, <1>7, ConcatProperties
    <2>2. DOMAIN (mails[c] \o t) = 1..(Len(mails[c]) + n)
      BY <2>1, LenProperties
    <2> QED  BY <1>1, <1>7, <2>2, ConcatProperties
  <1>9. ASSUME NEW i \in 1..(Len(mails[c]) + n)
        PROVE  Exists(c, (mails[c] \o t)[i])
    <2>1. CASE i <= Len(mails[c])
      BY <1>1, <1>8, <2>1
    <2>2. CASE ~ (i <= Len(mails[c]))
      <3>1. i - Len(mails[c]) \in 1..n
        BY <1>1, <1>2, <2>2
      <3> QED  BY <1>6, <1>8, <2>2, <3>1
    <2> QED  BY <2>1, <2>2
  <1> QED  BY <1>8, <1>9 DEF t

(* Marks do not matter for where a mail is. *)
LEMMA RemarkedIsThere ==
    ASSUME NEW c \in Conn, NEW l, NEW k, DOMAIN k = DOMAIN l,
           \A i \in DOMAIN l :
              k[i].file = l[i].file /\ k[i].folder = l[i].folder,
           \A i \in DOMAIN l : Exists(c, l[i])
    PROVE  \A i \in DOMAIN k : Exists(c, k[i])
  BY DEF Exists

LEMMA ListSteps ==
    ASSUME OwnInv, NEW c \in Conn, ClientStep(c) \/ ThreadStep(c)
    PROVE  ListStep(c)
  <1> USE DEF Goto, Listing
  <1>0. TypeOK /\ VisitPlace /\ PathInv /\ ThereInv /\ SessionStep(c)
    BY SessionSteps DEF OwnInv, VisitInv
  <1>1. ASSUME maildir' = maildir, disk' = disk, visit'[c] # "own",
               \A d \in Conn \ {c} : path'[d] = path[d] /\ mails'[d] = mails[d]
        PROVE  ListStep(c)
    BY <1>1 DEF ListStep
  <1>2. CASE UNCHANGED <<phase, maildir, path, mails, disk, visit>>
    BY <1>0, <1>2 DEF ListStep, PathInv, ThereInv
  <1>3. pass_unknown(c) \/ query_action(c) \/ quit_authorization(c)
        => UNCHANGED <<phase, maildir, path, mails, disk, visit>>
    BY DEF pass_unknown, query_action, quit_authorization, vars
  <1>4. CASE user_action(c) \/ pass_wrong(c) \/ pass_busy(c) \/ hang_up(c)
               \/ quit_move_fails(c) \/ quit_updated(c)
    <2>1. VisitEnds(c) /\ UNCHANGED <<maildir, path, mails, disk>>
      BY <1>4 DEF user_action, pass_wrong, pass_busy, hang_up, quit_move_fails,
                  quit_updated
    <2> QED  BY <1>0, <1>1, <2>1 DEF VisitEnds, TypeOK
  <1>5. CASE Accept(c) \/ end_close(c)
    <2>1. /\ visit' = visit /\ UNCHANGED <<maildir, path, disk>>
          /\ visit[c] # "own"
          /\ \A d \in Conn \ {c} : mails'[d] = mails[d]
      BY <1>0, <1>5 DEF Accept, end_close, VisitPlace, TypeOK
    <2> QED  BY <1>1, <2>1
  <1>6. CASE quit_close(c) \/ quit_post(c) \/ end_post(c)
    <2>1. visit' = visit /\ visit[c] # "own" /\ UNCHANGED <<maildir, path, mails, disk>>
      BY <1>0, <1>6 DEF quit_close, quit_post, end_post, VisitPlace
    <2> QED  BY <1>1, <2>1
  <1>7. CASE quit_begin(c) \/ pass_granted(c)
    <2>1. UNCHANGED <<maildir, path, mails, disk>>
      BY <1>7 DEF quit_begin, pass_granted
    <2>2. visit'[c] # "own"
      BY <1>0, <1>7, ComingIn
         DEF quit_begin, pass_granted, VisitEnds, TypeOK, Visit
    <2> QED  BY <1>1, <2>1, <2>2
  <1>8. CASE pass_trywait(c)
    <2>1. /\ UNCHANGED <<maildir, mails, disk>>
          /\ path' = [path EXCEPT ![c] = maildir]
      BY <1>8 DEF pass_trywait
    <2>2. visit'[c] = "own" => visit[c] = "own" \/ mails[c] = << >>
      BY <1>0 DEF SessionStep, ItselfStep, OwnFrom
    <2> QED  BY <1>0, <2>1, <2>2 DEF ListStep, ThereInv, TypeOK
  <1>9. ASSUME NEW folder \in Folder, NEW here \in Listing,
               NEW next \in {"list_new", "ready"},
               retrieve_emails(c, folder, here, next)
        PROVE  ListStep(c)
    <2>1. PICK s \in Listings(c, folder) :
             mails' = [mails EXCEPT ![c] = @ \o Loaded(s, folder)]
      BY <1>9 DEF retrieve_emails
    <2>2. /\ UNCHANGED <<maildir, disk, visit>> /\ phase[c] \in Listing
          /\ phase' = [phase EXCEPT ![c] = next]
          /\ \A d \in Conn \ {c} : path'[d] = path[d] /\ mails'[d] = mails[d]
          /\ next # "ready" => path' = path
          /\ mails'[c] = mails[c] \o Loaded(s, folder)
      BY <1>0, <1>9, <2>1 DEF retrieve_emails, TypeOK
    <2>3. CASE visit[c] = "own"
      <3>1. path[c] = maildir
        BY <1>0, <2>2, <2>3 DEF PathInv
      <3>2. \A i \in DOMAIN mails'[c] : Exists(c, mails'[c][i])
        BY <1>0, <2>2, <2>3, <3>1, ReadIsThere DEF ThereInv
      <3>3. phase'[c] \in Listing => path'[c] = maildir
        BY <1>0, <2>2, <3>1 DEF TypeOK
      <3> QED  BY <2>2, <3>2, <3>3 DEF ListStep
    <2>4. CASE visit[c] # "own"
      BY <1>1, <2>2, <2>4
    <2> QED  BY <2>3, <2>4
  <1>10. CASE retr_action(c) \/ dele_action(c) \/ rset_action(c)
    <2>1. UNCHANGED <<phase, maildir, path, disk, visit>>
      BY <1>10 DEF retr_action, dele_action, rset_action
    <2>2. \A d \in Conn \ {c} : mails'[d] = mails[d]
      BY <1>0, <1>10 DEF retr_action, dele_action, rset_action, TypeOK
    <2>3. /\ DOMAIN mails'[c] = DOMAIN mails[c]
          /\ \A i \in DOMAIN mails[c] :
                /\ mails'[c][i].file = mails[c][i].file
                /\ mails'[c][i].folder = mails[c][i].folder
      <3>1. mails[c] \in MailList /\ \A i \in DOMAIN mails[c] : mails[c][i] \in Mail
        BY <1>0, ElementOfSeq DEF TypeOK, MailList
      <3>2. ASSUME NEW j \in DOMAIN mails[c], NEW k,
                   mails' = [mails EXCEPT ![c][j].mark = k]
            PROVE  /\ DOMAIN mails'[c] = DOMAIN mails[c]
                   /\ \A i \in DOMAIN mails[c] :
                         /\ mails'[c][i].file = mails[c][i].file
                         /\ mails'[c][i].folder = mails[c][i].folder
        <4>1. mails'[c] = [mails[c] EXCEPT ![j] = [mails[c][j] EXCEPT !.mark = k]]
          BY <1>0, <3>2 DEF TypeOK
        <4> QED  BY <3>1, <4>1 DEF Mail
      <3>3. CASE retr_action(c) \/ dele_action(c)
        BY <3>2, <3>3 DEF retr_action, dele_action
      <3>4. CASE rset_action(c)
        <4>1. mails'[c] = [i \in DOMAIN mails[c] |->
                              [mails[c][i] EXCEPT !.mark = "UNCHANGED"]]
          BY <1>0, <3>4 DEF rset_action, TypeOK
        <4> QED  BY <3>1, <4>1 DEF Mail
      <3> QED  BY <1>10, <3>3, <3>4
    <2>4. visit[c] = "own" => \A i \in DOMAIN mails'[c] : Exists(c, mails'[c][i])
      BY <1>0, <2>3, RemarkedIsThere DEF ThereInv
    <2> QED  BY <1>0, <2>1, <2>2, <2>4 DEF ListStep, PathInv
  <1>11. CASE quit_delete(c) \/ quit_move(c) \/ quit_keep(c)
    <2>1. phase[c] = "updating" /\ UNCHANGED <<maildir, path, visit>>
      BY <1>11 DEF quit_delete, quit_move, quit_keep
    <2>2. visit'[c] # "own"
      BY <1>0, <2>1 DEF VisitPlace
    <2>3. \A d \in Conn \ {c} : mails'[d] = mails[d]
      BY <1>0, <1>11 DEF quit_delete, quit_move, quit_keep, TypeOK
    <2>4. \A f \in File : Owner[f] # name[c] => disk'[f] = disk[f]
      BY <1>0, <1>11 DEF quit_delete, quit_move, quit_keep, Exists, Dir, TypeOK
    <2> QED  BY <2>1, <2>2, <2>3, <2>4 DEF ListStep
  <1> QED
    BY <1>2, <1>3, <1>4, <1>5, <1>6, <1>7, <1>8, <1>9, <1>10, <1>11
       DEF ClientStep, ThreadStep, Folder

LEMMA OwnStep == OwnInv /\ [Next]_vars => OwnInv'
  <1> SUFFICES ASSUME OwnInv, [Next]_vars PROVE OwnInv'
    OBVIOUS
  <1>0. TypeOK /\ VisitInv /\ PathInv /\ ThereInv /\ TypeOK'
    BY TypeStep DEF OwnInv
  <1>1. ASSUME NEW c \in Conn, ClientStep(c) \/ ThreadStep(c) PROVE OwnInv'
    <2>1. SessionStep(c) /\ ListStep(c)
      BY <1>0, <1>1, SessionSteps, ListSteps
    <2> QED  BY <1>0, <2>1, VisitKept, ThereKept DEF OwnInv
  <1>2. ASSUME NEW f \in File, deliver(f) PROVE OwnInv'
    <2>1. VisitInv' /\ PathInv'
      BY <1>0, <1>2
         DEF deliver, VisitInv, UpdateInv, VisitPlace, AloneInv, PathInv
    <2>2. ThereInv'
      <3> SUFFICES ASSUME NEW c \in Conn, visit[c] = "own",
                          NEW i \in DOMAIN mails[c]
                   PROVE  Exists(c, mails[c][i])'
        BY <1>2 DEF deliver, ThereInv
      <3>1. Exists(c, mails[c][i]) /\ mails[c][i].folder \in Folder
        <4>1. mails[c] \in Seq(Mail) /\ DOMAIN mails[c] = 1..Len(mails[c])
          BY <1>0 DEF TypeOK, MailList
        <4>2. mails[c][i] \in Mail
          BY <4>1, ElementOfSeq
        <4> QED  BY <1>0, <4>2 DEF ThereInv, Mail
      <3>2. mails[c][i].file # f
        BY <1>2, <3>1 DEF deliver, Exists, Dir, Folder
      <3> QED  BY <1>0, <1>2, <3>1, <3>2 DEF deliver, Exists, Dir, TypeOK
    <2> QED  BY <1>0, <2>1, <2>2 DEF OwnInv
  <1>3. ASSUME NEW m \in NewMaildir, setmdf_begins \/ setmdf_ends(m)
        PROVE  OwnInv'
    <2>1. /\ UNCHANGED <<phase, name, holds>>
          /\ \A c \in Conn : /\ visit'[c] # "own"
                             /\ visit'[c] = "trespass" <=> visit[c] = "trespass"
      BY <1>0, <1>3 DEF setmdf_begins, setmdf_ends, TypeOK
    <2>2. VisitInv'
      BY <1>0, <2>1 DEF VisitInv, UpdateInv, VisitPlace, AloneInv
    <2> QED  BY <1>0, <2>1, <2>2 DEF OwnInv, PathInv, ThereInv
  <1>4. CASE UNCHANGED vars
    BY <1>0, <1>4
       DEF vars, OwnInv, VisitInv, UpdateInv, VisitPlace, AloneInv, PathInv,
           ThereInv, Exists, Dir
  <1> QED
    BY <1>1, <1>2, <1>3, <1>4 DEF Next, all_served, setmdf_begins

(* Whatever the clients send and however often a semaphore is posted that  *)
(* was not taken, a session that has its mailbox for itself finds what it  *)
(* has listed where it was listed.                                         *)
THEOREM ListStaysTrue == Spec => []ListedIsThere
  <1>1. Init => OwnInv
    <2> SUFFICES ASSUME Init PROVE OwnInv
      OBVIOUS
    <2>1. TypeOK
      BY ConfigAssumption, EmptySeq
         DEF Init, TypeOK, Zeroed, Status, Name, MailList, Phase, Visit
    <2> QED
      BY <2>1 DEF Init, OwnInv, VisitInv, UpdateInv, VisitPlace, AloneInv,
                  PathInv, ThereInv
  <1>2. OwnInv => ListedIsThere
    BY DEF OwnInv, ThereInv, ListedIsThere
  <1> QED  BY <1>1, <1>2, OwnStep, PTL DEF Spec

=============================================================================
