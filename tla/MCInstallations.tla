--------------------------- MODULE MCInstallations ---------------------------
(***************************************************************************)
(* Model-checking instance of the installations: one row, the program of   *)
(* which a scan finds or misses, and users who choose to start it.         *)
(***************************************************************************)
VARIABLES libraryRow, held, rowCalls, tornRows

Found == [code |-> "W1", items |-> {"game"}, launch |-> "game", suggested |-> "ready",
          package |-> FALSE]
Missed == [Found EXCEPT !.items = {}, !.launch = "none", !.suggested = "needs_review"]

Chosen == [identity |-> "none", action |-> "game", ignored |-> {}, title |-> "none",
           reviewed |-> TRUE]

I == INSTANCE Installations WITH
    RowIds <- {"i1"}, RowCallers <- {"c1", "c2"}, RowPaths <- {"game"}, RowCodes <- {"W1"},
    CatalogCodes <- {"W1"}, Detections <- {Found, Missed}, UserChoices <- {Chosen}, MaxRowCalls <- 3

Spec == I!RowsSpec

\* No row is ever stored that the readers refuse.
RowsAreReadable == I!RowsAreReadable
=============================================================================
