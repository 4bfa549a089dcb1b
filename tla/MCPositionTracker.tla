------------------------- MODULE MCPositionTracker -------------------------
(* Instances of PositionTracker for TLC. *)
EXTENDS PositionTracker

\* Lots whose weighted averages round both up to and away from zero.
Quantities == 1..3
TickPrices == {-7, 10, 12}

\* A narrow i64, so that products of small lots and prices leave it.
NarrowPrices == 1..4
=============================================================================
