\* Commands of at most six bytes in a buffer of eight, over four residues.
CONSTANTS
    Capacity = 8
    MaxCommand = 6
    Residue <- Residues
    Excess <- Floods
SPECIFICATION Spec
INVARIANTS TypeOK StringsEnd ExecutedAreLines
\* The session may end.
CHECK_DEADLOCK FALSE
