----------------------------- MODULE SignedOrders -----------------------------
(***************************************************************************)
(* The order envelope of src/src/signed_order.rs: what bytes are signed and *)
(* hashed, and what a signature vouches for.                               *)
(*                                                                         *)
(* SHA-256 and Ed25519 belong to the crate alice-sign and are ideal here:  *)
(* a hash is the term of the bytes it was taken of, a signature the term   *)
(* of its key and its bytes.  The bytes themselves are concrete, because   *)
(* fields of different lengths are laid end to end in them.                *)
(***************************************************************************)
EXTENDS Integers, Sequences

CONSTANTS
    Base,       \* values of a byte: 256
    Trader,     \* the key pairs; the public key of a pair is named like the pair
    Submission  \* the payloads traders may sign

Byte == 0..(Base - 1)
U64  == 0..(Base * Base - 1)                  \* a u64 is two bytes wide here, not eight
Str  == {s \in Seq(Byte) : Len(s) \in U64}
OrderSide == {"Buy", "Sell"}

OrderPayload == [ order_id : U64, trader_id : Str, instrument : Str, side : OrderSide,
                  quantity : U64, limit_price_micros : U64, timestamp_unix : U64,
                  venue : Str ]

ASSUME BaseAssumption == Base \in Nat \ {0}
ASSUME SubmissionAssumption == Submission \subseteq OrderPayload

SideTag(side) == IF side = "Buy" THEN 1 ELSE 2

\* to_le_bytes.
Word(n) == <<n % Base, n \div Base>>

\* push_len: a string is preceded by its length.
PushBare(s) == s
PushLen(s) == Word(Len(s)) \o s

CanonicalBytes(p) ==
    Word(p.order_id) \o PushLen(p.trader_id) \o PushLen(p.instrument)
        \o <<SideTag(p.side)>>
        \o Word(p.quantity) \o Word(p.limit_price_micros) \o Word(p.timestamp_unix)
        \o PushLen(p.venue)

HashData(bytes) == [sha256 |-> bytes]
ZeroHash == [zeros |-> 32]
Digest(p) == HashData(CanonicalBytes(p))

KeySign(trader, bytes) == [key |-> trader, over |-> bytes]

SignOrder(p, trader) ==
    [payload |-> p, trader_public |-> trader,
     signature |-> KeySign(trader, CanonicalBytes(p))]

VerifyOrder(order) ==
    order.signature = KeySign(order.trader_public, CanonicalBytes(order.payload))

VerifyBy(order, expected) == order.trader_public = expected /\ VerifyOrder(order)
=============================================================================
