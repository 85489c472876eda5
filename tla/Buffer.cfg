\* A buffer of four bytes, through which seven go.
CONSTANTS
    Size = 4
    MaxBytes = 7
SPECIFICATION Spec
INVARIANTS TypeOK PointersOrdered Contents EmptyOffersAll
