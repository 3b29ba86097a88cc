SPECIFICATION Spec

INVARIANTS
    RowsAreReadable

CHECK_DEADLOCK FALSE
