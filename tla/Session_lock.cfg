\* Two mailboxes, three connections, clients that leave in the end.
CONSTANTS
    c1 = c1  c2 = c2  u1 = u1  u2 = u2  f1 = f1  d1 = d1  d2 = d2
    Conn = {c1, c2}
    User = {u1, u2}
    Stranger = {stranger}
    NoName = noname
    File = {}
    Owner <- OneOwner
    m1 = m1  m2 = m2
    Maildir = {m1}
    FirstMaildir = m1
    NewMaildir = {}
    Short = {}
    Torn = torn
    Place <- OnePlace
    Fd = {d1, d2}
    NoFd = nofd
    MaxEmails = 1
    MaxSessions = 3
    Clients = "no_relogin"
    Recycled = FALSE
SPECIFICATION FairSpec
INVARIANT LockHasLiveHolder
PROPERTY WaiterGranted
