------------------------------ MODULE Arithmetic ------------------------------
(***************************************************************************)
(* The i64 arithmetic of position.rs and risk.rs: modulo 2 * Half (Half is *)
(* 2^63 in the code), which is what `as i64` does in every build and + - * *)
(* in a release build.                                                     *)
(***************************************************************************)
EXTENDS Integers

CONSTANT Half    \* i64 holds -Half .. Half - 1

ASSUME WidthAssumption == Half \in Nat \ {0}

I64 == (-Half)..(Half - 1)

\* The i64 a mathematical integer is truncated to.
WrapNever(x) == x
Wrap(x) == ((x + Half) % (2 * Half)) - Half

Abs(x) == IF x < 0 THEN -x ELSE x

\* Rust's integer division: truncated towards zero.
Div(a, b) ==
    LET quotient == Abs(a) \div Abs(b)
    IN  IF (a < 0) = (b < 0) THEN quotient ELSE -quotient

\* The change of a position by a fill: a Bid adds to it, an Ask subtracts.
Signed(side, quantity) == IF side = "Bid" THEN quantity ELSE -quantity
=============================================================================
