----------------------------- MODULE MCReceipts -----------------------------
(* Model-checking instances of Receipts.                                   *)
EXTENDS Receipts

CONSTANTS c1, c2, c3, photo, entry, food, travel

ThreeCalls    == {c1, c2, c3}
OfBothKinds   == {photo, entry}
Entries       == {entry}
TwoCategories == {food, travel}

=============================================================================
