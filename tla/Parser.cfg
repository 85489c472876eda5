\* Both automata on every text they can be given, up to the first error.
SPECIFICATION Spec
CONSTANTS
    CMD_LENGTH = 4
    ARG_MAX_LENGTH = 3
    TOKEN_LENGTH = 4
    OPERATION_LENGTH = 3
    OBJECT_CODE_LENGTH = 3
    ARGUMENT_LENGTH = 4
INVARIANT TypeOK
INVARIANT RecognisesGrammar
INVARIANT FieldsHoldInput
INVARIANT OnlyWholeCommandsRun
