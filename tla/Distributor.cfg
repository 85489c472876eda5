\* Two listeners, three clients, two descriptors; with a limit of 0 a
\* client is refused when one is being served.
CONSTANTS
    l4 = l4  l6 = l6  c1 = c1  c2 = c2  c3 = c3  d1 = d1  d2 = d2  d3 = d3
    Listener = {l4, l6}
    Main = l4
    Client = {c1, c2, c3}
    Home <- Homes
    Fd = {d1, d2}
    NoFd = nofd
    MAX_CONCURRENT_USERS = 0
    Size = 8
    MayRunOut = TRUE
SPECIFICATION FairSpec
INVARIANT TypeOK
INVARIANT CountIsExact
INVARIANT OnlyRefusedLeak
PROPERTY ClientsAnswered
PROPERTY StopsAtNextClient
\* The server may stop.
CHECK_DEADLOCK FALSE
