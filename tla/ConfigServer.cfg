\* A script and the token, and one session that reads the script.
CONSTANTS
    a = a  b = b
    Char = {a, b}
    NUL = nul
    String <- Strings
    Counter = {"HTU"}
    Size <- Sizes
    Initial <- AtStart
    Session = {s1}
    MAX_BYTES_NAMES = 2
    AUTHTOKEN_LENGTH = 1
    ARGUMENT_LENGTH = 3
    MAX_COMMAND_LENGTH = 2
    BUFFER_SIZE = 4
    MessageLength = 2
SPECIFICATION Spec
INVARIANT TypeOK
INVARIANT ReadersStop
INVARIANT AnswersTrue
INVARIANT AnswersWhole
PROPERTY StaysInService
\* The thread ends.
CHECK_DEADLOCK FALSE
