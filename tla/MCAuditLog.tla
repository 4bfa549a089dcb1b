------------------------------ MODULE MCAuditLog ------------------------------
(* Instances of AuditLog for TLC. *)
EXTENDS AuditLog, TLC

\* Two payloads whose strings, run together, are the same bytes.
PayloadOf(trader_id, instrument) ==
    [order_id |-> 1, trader_id |-> trader_id, instrument |-> instrument, side |-> "Buy",
     quantity |-> 2, limit_price_micros |-> 1, timestamp_unix |-> 1, venue |-> <<>>]
Payloads == {PayloadOf(<<1>>, <<2, 1>>), PayloadOf(<<1, 2>>, <<1>>)}

Kinds == {"OrderAccepted"}
Times == {0}

SymmetricTraders == Permutations(Trader)
===============================================================================
