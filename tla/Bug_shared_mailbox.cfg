\* One mailbox, three connections, clients that keep to RFC 1939 and leave when
\* they like.
CONSTANTS
    c1 = c1  c2 = c2  u1 = u1  u2 = u2  f1 = f1  d1 = d1  d2 = d2
    Conn = {c1, c2}
    User = {u1}
    Stranger = {stranger}
    NoName = noname
    File = {f1}
    Owner <- OneOwner
    m1 = m1  m2 = m2
    Maildir = {m1}
    FirstMaildir = m1
    NewMaildir = {}
    Short = {}
    Torn = torn
    Place <- OnePlace
    Fd = {d1, d2}
    NoFd = nofd
    MaxEmails = 1
    MaxSessions = 3
    Clients = "rfc1939"
    Recycled = FALSE
SPECIFICATION Spec
INVARIANTS OneSessionPerMailbox
