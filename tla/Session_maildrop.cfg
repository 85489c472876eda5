\* Two connections, one mailbox, clients that send anything, SETMDF.
CONSTANTS
    c1 = c1  c2 = c2  u1 = u1  u2 = u2  f1 = f1  d1 = d1  d2 = d2
    Conn = {c1, c2}
    User = {u1}
    Stranger = {}
    NoName = noname
    File = {f1}
    Owner <- OneOwner
    m1 = m1  m2 = m2
    Maildir = {m1, m2}
    FirstMaildir = m1
    NewMaildir = {m1, m2}
    Short = {}
    Torn = torn
    Place <- OnePlace
    Fd = {d1, d2}
    NoFd = nofd
    MaxEmails = 2
    MaxSessions = 2
    Clients = "any"
    Recycled = FALSE
SYMMETRY ConnFdSymmetry
SPECIFICATION Spec
INVARIANT TypeOK
INVARIANT ListedIsThere
PROPERTY ImplementsMaildrop
\* A session that sends PASS twice waits for itself.
CHECK_DEADLOCK FALSE
