------------------------------ MODULE Requests ------------------------------
(***************************************************************************)
(* What a caller may ask of a book: the methods of src/src/book.rs and     *)
(* src/src/post_only.rs that change it, with their arguments.              *)
(***************************************************************************)
EXTENDS Orders

\* Outside a call.
NoRequest == [method |-> "none"]

Insertion(o, t) == [method |-> "insert_with_time", order |-> o, now_ns |-> t]
Cancellation(id) == [method |-> "cancel", order_id |-> id]
Purge(t) == [method |-> "purge_expired", now_ns |-> t]
SideCancellation(side) == [method |-> "cancel_all_side", side |-> side]
FullCancellation == [method |-> "cancel_all"]
=============================================================================
