# Verification of ALICE-Ledger

TLA+ models of the order book, the matching engine, the post-only check, the position tracker,
the pre-trade risk limits, the batch validator, the signed orders and their audit log, the FIX codec
and the C interface of ALICE-Ledger (`src/src/*.rs`), of book, risk and positions used together, the
TLC runs that check them on small instances, and TLAPS proofs of the most important invariants for every
value of the constants. `PROJECT.json` maps every definition to the lines it stands for.

    tlc -workers 2 -config BookStructure.cfg MCOrderBook.tla     # one run
    tlapm OrderBookProofs.tla                                    # one module of proofs

## 1. The system

The crate is a synchronous library. There are no threads, locks, async code, network or
persistence: every method takes `&mut self` (or `&self`) and runs to completion, so what is hard is
not interleaving but *loops over structures that change under them, several structures that must
stay in step, cached values, rounding and width, bytes laid end to end, and long sequences of legal
calls*. Three parts are there to meet a hostile environment: signatures meet altered orders, the audit
log a store that edits it, the FIX checksum a wire that damages it.

| Component | State | Operations | Talks to |
|---|---|---|---|
| Order vocabulary, `order.rs` | `Order` with its fill progress | `remaining`, `is_filled` | everything |
| Order book, `book.rs` | two `BTreeMap`s of levels (FIFO queue, cached total); `order_index` | `insert`, `insert_with_time`, `cancel`, `purge_expired`; `best_bid/ask`, `spread`, `depth` | returns fills and cancelled orders to its caller |
| Post-only and mass cancel, `post_only.rs` | none | `check_post_only`, `cancel_all_side`, `cancel_all` | reads the book, calls `cancel` |
| Position tracker, `position.rs` | symbol -> net, average entry, realized, unrealized, count | `apply_fill`, `mark_to_market`, `get` | fed by its caller with the book's fills |
| Risk manager, `risk.rs` | limits, orders counted in the period | `check_order`, `record_order`, `reset_period` | is given an order and a position |
| Bulk validator, `bulk.rs` | none that outlives a call; a loop with its own running state | `validate`, `check_batch_size` | borrows the risk manager |
| Signed orders and audit log, `signed_order.rs` | events, head hash | `sign`, `verify`, `append`, `verify` of the chain | external crate for hashes and signatures |
| FIX codec, `fix.rs` | none | `parse`, `serialize`, field access | none |
| C interface, `ffi.rs`; bindings | handles and arrays handed to C | 20 functions | forwards to book and tracker |

Nothing in the crate connects the book, the tracker and the risk manager: their caller does
(README and `lib.rs` show it), checking first, submitting, applying each fill, marking.

### What is hard, and what makes each part correct

* **Book.** Queue, index and cached total are three copies of one fact, updated in five places
  (`fill_level_bid`, `fill_level_ask`, `rest_order`, `cancel`, `remove_from_level`). The matching
  loop walks a list of keys collected before it started, `unwrap`s each, and prunes levels as it
  goes. A fill-or-kill order trusts the cached totals. Correct means: cancel finds exactly what
  rests; nothing filled or empty is quoted; the book never stands crossed; every trade is with the
  oldest order at the best price; a fill-or-kill order is atomic; every call returns; and all of it
  together behaves like one price-time queue per side.
* **Post-only.** The verdict is taken from the two best prices only, and must foretell what the
  matching loop will do.
* **Tracker.** The average entry price is truncated at every addition and used for every later
  profit; one fill can close a position and open the opposite one; profits are cast to `i64`.
  Correct means: the truncation is the only error, and it is bounded; a flat position is clean.
* **Risk and batches.** The loop of `validate` judges each order against what it remembers of the
  earlier ones (ids, one best price per side, a running position), some of which moves before the
  order has been accepted. Correct means: each order gets one verdict; the accepted ones do not
  cross; together they keep to the position cap.
* **Book, risk and positions together.** Fills are given to the taker; the maker's side has to be
  turned round for its own position. `check_order` sees a position, not the orders already resting.
  Correct means: positions are what the orders traded, and the order just checked never breaks the cap.
* **Signed orders and audit log.** Strings of free length are laid end to end in what is signed and
  hashed. The last event of the chain is pinned by the head alone, a whole log by a published head.
  Correct means: an envelope that verifies carries what its trader signed; the chain verifies just
  if it is undamaged; a published head stands for one history.
* **FIX.** The scopes of BodyLength and CheckSum are found by prefix tests on raw bytes, each on its
  own. Correct means: what is accepted is what was sent, whatever the values look like.
* **C interface.** Bytes become enums, arrays belong to the client until it frees them with their
  exact count, cancelled orders come back with what they have traded and may be submitted again.
  Correct means: every array has one owner; no execution is lost or counted twice; what depth shows is
  what an order gets.

The full list of hazards, each at its line with the properties that cover it, is in
`PROJECT.json`.

## 2. Modules

| Module | Models | How it corresponds to the code |
|---|---|---|
| `Orders` | `order.rs` | one flat record per order; `stop_price` and `expiry_ns` are the payloads of `StopLimit` and `GTD`. `timestamp_ns` is left out: it is copied and never compared. `Crosses` is the range a matching loop collects keys from, `Better` the key order of the two maps |
| `OrderBook` | `book.rs`, mass cancel of `post_only.rs` | `levels` is the pair of maps, `order_index` the index; `pc`, `taker`, `keys`, `fills`, `to_remove`, `removed` are the frame of the running method. One step is one iteration of a loop: `InsertWithTime` enters, `TradeWithFront` is one turn of `fill_level_*`, `LeaveLevel` one turn of `match_*`, `RestRemainder`/`DropRemainder` end the submission; `CancelOrder` is the body of `cancel`, `CancelNext` one cancellation of `purge_expired`/`cancel_all*`. The mirrored bid and ask functions are one definition with the side as a parameter |
| `PostOnly` | `check_post_only` | a verdict on an order and a book, read next to what the submission then did |
| `Requests` | the signatures of the methods that change a book | what a caller asks: a method with its arguments |
| `PriceTimeBook` | *(abstract)* | what the engine promises: each side is one sequence of orders, a call changes both in one step and its answer stands next to its request. No levels, index, totals or loops |
| `BookRefinement` | *(mapping)* | `OrderBook` with a variable that records each request as it is made (`RequestSpec`); concatenates the levels of a side, best first; the abstract call happens, with that request, when the method returns |
| `Arithmetic` | integer width | `as i64` and release-build `+ - *`, division that truncates towards zero |
| `PositionTracker` | `position.rs` | `ApplyFill` with the three branches open/add/reduce; `MarkToMarket`. `cash` and `mark` are auxiliary and only read by properties |
| `RiskManager` | `risk.rs` | `CheckOrder` names the first limit broken, in the code's order; `RecordOrder`, `ResetPeriod` |
| `BulkValidator` | `bulk.rs` over `RiskManager` | one step is one iteration of the loop of `validate`; the next order is chosen when the loop reaches it, so every batch is covered. `Verdict` is the first test failed; `BestAfter` moves the best price before the risk check has its say, as the code does |
| `Ledger` | the worked example of `lib.rs`, with `RiskManager` | extends `OrderBook` and `RiskManager`, instantiates `PositionTracker` with one symbol per account. The desk passes `check_order` and is counted before it submits; each fill is applied twice, to taker and maker (`SettleNext`), before the next call. `latest` is auxiliary: each order as the book knew it last |
| `SignedOrders` | `OrderPayload`, `SignedOrder` | `CanonicalBytes` lays out the very fields, tags and length prefixes of the code, with a `u64` of two bytes in base `Base`; SHA-256 and Ed25519 (crate `alice-sign`) are terms: equal only if taken of the same bytes, and key |
| `AuditLog` | `AuditEvent`, `OrderAuditLog` | `AppendEvent` is `append`, `VerifyLog` is `verify`. The rest is the environment: a client that appends only what `verify_by` accepted (`AppendFor`); envelopes put together from any payload, key and signature made so far; a store that edits a field, drops or exchanges events, or restores an older copy; a head that is published. `history` is auxiliary: what `append` wrote |
| `Fix` | `fix.rs` | bytes are concrete. `ParseFields`, `BodyStart`, `ChecksumStart`, `Verify`, `Parse`, `Serialize` translate the functions; a message is a function from tags to values. `ChangeByte`, `DropByte` and `ExchangeFields` are the wire, `Forward` sends on what was parsed. A slice that starts behind its end is the result "panic" |
| `CInterface` | `ffi.rs`, `spread` and `depth` of `book.rs`, the wrappers of `bindings/` | extends `OrderBook`, instantiates `PositionTracker`. `FfiToOrder` and `OrderToFfi` convert bytes as the `match`es do, unknown ones included. A call is `Insert`/`CCancel`/`CPurgeExpired`, the steps of the method, and `CReturn`, which boxes the result (`heap`) and hands it over (`held`). The client applies every fill to the position of either order, frees an array once, keeps the orders given back (`tickets`) and submits them again at any price; it may close and reopen the book |
| `MCOrderBook` and `MCBookRefinement`, `MCPositionTracker`, `MCBulkValidator`, `MCLedger`, `MCAuditLog`, `MCFix`, `MCCInterface` | *(instances)* | the sets of orders, prices and quantities of the runs |
| `OrderBookProofs` (with `PostOnly`), `RefinementProofs` (of `BookRefinement`), `TrackerProofs`, `BulkProofs`, `LedgerProofs`, `AuditProofs`, `CInterfaceProofs` | *(proofs)* | section 6 |
| `ArithmeticProofs` | *(lemmas)* | what sums over finite sets, wrapping and truncating arithmetic do; cited by the modules above |

Definitions such as `KeyReversed`, `PruneForgotten` or `BestLatest`, just before the definition they
resemble, are that definition with a plausible bug: each shows that some property would notice it
(`"mutants"` in `PROJECT.json`). No specification uses them.

### Assumptions on callers

* `OrderId` is unique (`order.rs:12`): a submission whose id still rests is not made. An id may come
  back once its order has left, which is when a stale index entry would bite.
* A submitted order has no more filled than its quantity (else `remaining` underflows). It may come
  with something filled, as an order given back by `cancel` does.
* Fills have a positive quantity that fits an `i64` (the book emits no other).
* A batch has at most `max_batch_size` orders: `validate` does not ask `check_batch_size` itself.
* `max_order_size + max_position` fits an `i64` (`LimitAssumption`): the defaults are 10^6 and 10^7.
* `append` checks no signature: its caller calls `verify_by` with the trader it expects.
* FIX values hold no separator, and `BeginString` is not empty and holds no `9=`: `serialize` writes
  values as they are (`MessageAssumption`).
* Calls through the C interface with one book do not overlap, and pointers are used until they are
  freed and not after. The wrappers set a freed pointer to null; calls with null do nothing.
* The risk manager is not changed while `validate` borrows it, so its counter moves between calls.

Width: totals and notionals are unbounded integers in the models. `i64` positions and profits wrap
as in a release build; a debug build panics where a sum wraps.

## 3. Runs

| Run | Instance | Question |
|---|---|---|
| `book_structure` | 4 ids, 3 prices, 1..3 lots, limit GTC and a 4-lot FOK, no clock | Between any two loop iterations: index and queues agree, only live orders rest, totals are exact, the book is uncrossed, the collected keys are exactly the levels left, every trade is with the oldest order at the best price |
| `book_promises` | 3 ids, 2 prices, GTC/IOC/FOK/GTD, Market, StopLimit, zero lots, clock 0..2 | FOK is atomic; the post-only verdict foretells the matching loop; every call is implemented by the same call, with the same arguments, of `PriceTimeBook` |
| `pnl_rounding` | 5 fills and any marks, prices -7, 10, 12, lots 1..3, `i64` of 5 bits | the truncated average is the only error, bounded by a tick per lot, and profits that wrap do not add to it; a flat position has no entry price and no open profit |
| `bulk_verdicts` | batches of up to 3 of 90 orders, ids repeated, sizes 0..4 against limits 2..3, start at 0, 3, -15, `i64` of 5 bits | one verdict per order; no accepted cross; the projected position is exact and capped |
| `ledger` | 4 ids, two of the desk, 2 prices, 1..2 lots, cap 2, one order counted per period, `i64` of 5 bits | both accounts hold what their orders traded; only fills of resting orders carry the desk beyond the cap; every submission is matched and settled in the end |
| `audit_log` | 2 traders, 2 payloads whose strings run together alike, 3 events, one damage, any restores | what verifies was signed; `verify` accepts just the undamaged log; a published head pins a history; an append changes no verdict |
| `fix_wire` | 50 messages with values such as the empty one, `9=`, `10=1`, `+0`; a byte lost, or changed to one of 11, or two fields exchanged | what an intact wire carries arrives; what a faulty one carries is refused or is what was sent |
| `c_interface` | 3 ids, 2 prices (0 among them), 1..2 lots, unknown bytes, market FOK, stop-limit, dated orders, clock 0..1, 2 arrays alive | arrays have one owner and are freed whole; tracker and book agree on every order through cancel and resubmission; depth foretells executions; quotes agree |

Runs that end in a counterexample, each a place where the code does not do what it says:

| Run | What the repository says | What the code does |
|---|---|---|
| `stop_limit` | `order.rs:33`: becomes a limit order once `stop_price` is touched | a StopLimit order trades or rests at once; `stop_price` is never read |
| `pnl_width` | `position.rs:161`: `i128` to avoid overflow on large positions | the `i128` is cast back with `as i64` and changes sign |
| `fix_field_order` | `fix.rs:96`: errors are `FixError`s; `fix.rs:157`: the body ends before `10=` | a CheckSum field before the BodyLength field makes `parse` slice backwards and panic |
| `order_count` | `ffi.rs:374`: total number of resting orders | the quantities of all levels are added up: one order of two lots counts as two |

Other places where text and code part, not turned into runs: a resting GTD order past its date is
traded with until somebody purges (`order.rs:49`); an IOC order is told `WouldRest` and is discarded
(`post_only.rs:17`); a fill leaves the unrealized profit of the position before it (`position.rs:34`); a
batch is checked against an order count that does not move (`risk.rs:72`); a market order in a batch is
compared by its meaningless price (`bulk.rs:31`); `al_ldg_book_insert` leaves `*out_count` as it was
when the book is null, where the depth and purge functions set it to 0; the `sequence` of an audit
event is hashed but never compared (an altered one changes the head, so `VerifyExact` covers it).

### Bounds, and why they are enough

* Four orders on three prices give: two orders in one queue with a third behind another price, a
  taker that sweeps several levels and rests, a cancel in the middle of a queue, a level emptied
  and rebuilt, an id that returns. Three-lot orders give partial fills of makers and takers over
  several calls. The invariants of `book_structure` are proved for all sizes.
* Two prices and three orders are enough for each kind of order to meet a level it crosses and one
  it does not, and to be killed, dated, purged or left over. The clock has the value 0 (check
  disabled), an instant before, at, and after each date.
* Five fills are enough to open, add twice, reduce and flip, close, with a mark between any two; the
  lots and prices are chosen so that averages truncate in both directions. At 16 the width holds
  the position (15 lots) but not its profits.
* Three orders per batch let a rejected order stand between two accepted ones on both sides. The
  cap (4) is less than two orders of the largest size (3); 3 starts within the cap and -15 so far
  beyond it that the projection wraps.
* In `ledger`, one order of the desk may rest while its other one trades with the street or with
  it: that is what the check cannot see. The street's two orders sweep and are swept. Seven trades of
  two lots stay within the 5 bits, as `HeldCorrect` asks (`LotsFit`).
* Three events are enough for a first, a middle and a last one to be damaged and for a log to be
  restored and regrown differently. Two traders and two payloads give every forged combination.
* In `fix_wire` one fault is what a sum of bytes and a length can be asked to find; the bytes a
  damaged one may become include the separator, `=`, digits that make other tags, NUL and bytes beyond
  ASCII. Tags 49 and 110 end in what the prefix tests look for.
* In `c_interface` three orders give a partly filled maker that is cancelled and submitted again while
  two others trade; two arrays can be alive in either order of their release.
* Symmetry is used over ids, traders and addresses only, which are compared for equality only, and never with liveness.
* `MaxTrades`, `MaxCount` and `MaxBatch` bound `trade_count`, `orders_in_period` and the batch.

### Fairness

`LedgerSpec` assumes weak fairness of `LedgerRun`: the steps of a method in progress and the settlement
of its fills up to the return. The code justifies it: a call is ordinary synchronous code that nothing
can preempt or block, and the client applies what it was given before it calls again. No fairness is
assumed of submissions, cancellations or new periods: a client need never call. Under it `CallReturns`
says that the loops over queues, keys, ids and fills all end. (`OrderBook` has the same as `FairSpec`
for the book alone.) The other specifications are checked for safety only: nothing in a store, on a
wire or in a C client is bound to happen. Deadlock is checked in every run.

## 4. Refinement

`PriceTimeBook` answers a submission in one step, position by position in the opposite queue: the taker
may trade with the orders in its `Reach`; it takes from each what is left after the ones ahead (`Wanted`,
`Take`); a fill-or-kill order that cannot be served takes nothing (`Killed`); the exhausted makers leave
(`Served`); the remainder joins behind every order that is at least as good (`Enqueue`). A cancellation
leaves of each queue the orders not named (`Only`).

What the book was asked is part of both specifications. In `PriceTimeBook` a call answers a `request` and leaves
it next to the reply until that has been taken (`Answer`). In `BookRefinement` each action that enters a method
is conjoined with the request it serves, which stands until the method's result has been taken; nothing of the
book reads it.

`ImplementsPriceTime` (a temporal property of `book_promises`) says that `RequestSpec` under the mapping of
`BookRefinement` is a behaviour of `PriceTimeBook`: same requests, same fills in the same order, same
remainders, same cancelled orders in the same order. Because the requests are the same, a call can only be
explained by that very call: a fill-or-kill order that trades in part is not an immediate-or-cancel one, one
that is killed while its lots are there is not a cancellation that found nothing, and a purge that takes a live
order or leaves a dead one is neither. Mutants of each kind (a fill-or-kill check left out, one that kills an
order that just fits, a purge that misses the instant itself, a remainder that jumps the queue) are refuted by
the run. While a method runs the mapping shows the book it was called on (`entry`) and no request, so the
iterations are stuttering steps. The run shows it for three ids at two prices; `RefinementCorrect` proves it for
any offers, prices, dates and books (section 6).

## 5. The inductive invariant of the book

`BookInv == TypeOK /\ IndexExact /\ OnlyLiveRests /\ KeysExact /\ Uncrossed` is inductive as it stands,
and each part needs the others:

* that a remainder may rest without crossing (`Uncrossed`) follows from `KeysExact`: the keys are
  exhausted and were *all* crossing levels;
* that the loop leaves no crossing level behind needs `OnlyLiveRests`: a level is left with the taker
  unfilled only when its queue is empty, because a resting order always has lots to trade;
* that an exhausted maker leaves the index for good needs `IndexExact`: its id is at one place;
* that two sides can be pruned independently needs every order to stand on the side and at the
  price it is indexed by.

`LevelTotals` is not needed: only the fill-or-kill check reads a total, and the proof that such an
order is atomic uses both.

## 6. What is proved

All for any ids, any set of integer prices of bounded size (`MaxPrice`), any instants, any orders offered and
any width of the integers. The assumptions are the named `ASSUME`s of `Orders`, `OrderBook`, `Arithmetic`,
`RiskManager`, `BulkValidator`, `Ledger`, `CInterface`, `SignedOrders` and `AuditLog`, which the runs evaluate. A
hypothesis in the third column is part of the theorem and true of the instance of the run.

| Theorem | States | If |
|---|---|---|
| `BookCorrect` | `Spec => []BookInv` | |
| `TypesCorrect`, `IndexCorrect`, `LiveCorrect`, `KeysCorrect`, `NeverCrossed` | its parts, each a property of `book_structure` | |
| `PriorityCorrect` | `PriceTimePriority`: every trade is with the front of the best non-empty level, within the taker's limit | |
| `TotalsCorrect` | `LevelTotals`: a cached total is the sum of its queue | |
| `FOKCorrect` | `FOKAtomic`: a fill-or-kill order trades in full or leaves the book untouched | |
| `VerdictCorrect` | `VerdictForetells`: the post-only verdict is what the loop then does | |
| `RefinementCorrect` | `RequestSpec => ImplementsPriceTime`: each call to the engine is implemented by the same call to one price-time queue per side | |
| `TrackerCorrect`; `TrackerTypes`, `FlatIsCleanCorrect` | the tracker's invariant and its parts | |
| `DriftCorrect` | `DriftBounded`: a tick per lot held is all the truncated average can cost | the lots ever traded fit an `i64` (`VolumeFits`) |
| `BulkCorrect` | `Spec => []BulkInv`: what the loop of `validate` remembers is true of its batch | |
| `JudgedOnceCorrect`, `NoCrossCorrect` | one verdict per order, no id accepted twice; accepted bids below accepted asks | |
| `ExposureCorrect` | `ExposureCapped`: the running position is the start moved by the accepted orders, and capped | |
| `LedgerHasBook` | `LedgerSpec => Spec`: the composition implements the book alone | |
| `LedgerCorrect` | its inductive invariant | |
| `HeldCorrect` | `TradedIsHeld`: both accounts hold what their orders traded | offers unfilled, an account's lots fit an `i64` (`LotsFit`) |
| `CapCorrect` | `TakerKeepsCap`: an order the check passed never carries the account beyond the cap as taker | the limits are switched on |
| `CBookCorrect` | `CSpec => []BookInv`: the book behind the pointer | |
| `OwnershipCorrect` | `OwnershipExact`: every array has one owner, with its kind and count | |
| `QuotesCorrect` | `QuotesAgree`: depth, best prices, spread and sentinels agree | `2 * MaxPrice < Half`: a spread fits an `i64` |
| `PositionsCorrect` | `PositionsFollowFills`: the tracker knows of each order what the book counts as filled | offers unfilled, each fits an `i64` (`Fits`) |
| `DepthCorrect` | `DepthForetells`: each level trades what the depth shown before leaves for the order | |
| `CanonicalInjective` | the canonical bytes of an order determine it: for strings of any length, any base | |
| `SameHead` | two logs that verify under one head are the same, for any lengths | |
| `ChainCorrect` | `Spec => []ChainInv`: what append wrote verifies, and what was published did | |
| `VerifiedIsSignedCorrect`, `VerifyExactCorrect`, `AnchorPinsCorrect`, `AppendKeepsVerdictCorrect` | the properties of `audit_log`, for any traders, payloads, lengths and numbers of faults | |

The hypotheses are needed. Without `VolumeFits`, `LotsFit` or `Fits` a net position wraps and changes sign; an
order offered as partly filled already is ahead of its position from the start; at prices more than
`i64::MAX` apart a spread wraps and may meet its own sentinel.

*Argument for the book.* `InitInv` and one lemma per action (`TradeKeeps`, `LeaveKeeps`, `RestKeeps`,
`CancelOrderKeeps`, ...), each with a step per conjunct the action can disturb, combined in `NextKeeps`.
Underneath are lemmas on sequences (`RemoveAtProperties`), on maps (`PutType`, `WithoutFacts`,
`PruneFacts`) and on prices: `BestExists` shows that a non-empty set of prices has a best one whichever
side sorts it, from the bound on prices and a well-founded order. `PriorityCorrect` then needs
`KeyIsBest`: the key the loop stands on is the best price that has an order.

*Argument for totals and fill-or-kill.* A sum over a queue is a function of the position, a sum over prices
a fold over a set. Both are reached by induction over a *set of numbers* or a *set of subsets*
(`NatSetInduction`, `FiniteSetInduction` in `ArithmeticProofs`), which needs no operator parameter: the claim is
membership in a set that the lemma defines. `TotalsCorrect` then follows a queue through append, removal
and a change of its front. For `FOKCorrect`, the invariant `FOKInv` says that a fill-or-kill order under way has at
least as many lots left on the keys not yet visited as it still wants, and that once no key is left it is
filled or was never begun: no fills, the book as found, the liquidity short. Every trade takes the same from both
sides of the inequality, a key is only left when its level is empty, and so the last key cannot be left
with something wanted.

*Argument for post-only.* `VerdictInv` remembers what the call found (`entry`). While nothing has traded every
opposite level still has orders, so a level the loop stands on with a "rests" verdict would contradict the
emptiness of the crossing keys; and after a "matches" verdict of any order but a fill-or-kill, something has
traded, or the taker arrived filled, or there are keys left to visit.

*Argument for the refinement.* A side of `OrderBook` is a map of prices to queues, a side of `PriceTimeBook` one
queue. Both write out one set of orders, those that stand on the side (`Standing`), in one order: by price, then
by turn (`Before`). A finite set has just one such listing (`ListingUnique`), so two queues are equal once they
hold the same orders and order them alike; no induction over sequences is needed. `RefInv` says how far the
levels have come from the book the call was made on. *Cancelling*: what is in `removed` is the orders cancelled
so far, in queue order and ahead of those to come, and the levels list the others. *Matching*: the fills are
with the first orders of the queue the taker met, all of them taken whole except perhaps the last, which is the
front of what the levels still list. A trade moves that point by one order (the front of the best level *is* the
next in the queue: `KeyIsBest`, and levels left behind are empty); leaving a level moves nothing. When the loop
ends, the point is where `Take` becomes zero: because the taker is filled, because nothing left is in reach
(`KeysExact`), or because a fill-or-kill order was never begun, and then the sum of the cached totals that
refused it is the sum over the queue (`LevelTotals`). `FillsMeet`, `ServedMeets` and `EnqueueMeets` turn this
into the three definitions of the abstract submission. `StepSimulates` has one lemma per action: each keeps
`RefInv` and is a step of `PriceTimeBook` or leaves its variables as they were. `Accepted` and `Target` tie the
running method to what was asked: the submission begun is the order of the request, and what is cancelled is
what stood in the book under the request's date or side, so the abstract step is that of the recorded call.
Recording changes nothing of the book (`RequestsOnly`), so its invariants carry over. What the refinement says
nothing about is that a call ends: that is `CallReturns`.

*Argument for the tracker.* Types and cleanness are inductive as they stand, wraps included. The drift is
bounded by a lemma about one step (`DriftOfStep`): an addition is off by less than a tick for each lot held
after it, because the average is truncated; reducing, closing, flipping and marking move both accounts by the
same amount, modulo the width, and add nothing. Profits may wrap, then, but lots may not (`NetWithin`), which
`VolumeFits` gives.

*Argument for the ledger.* `LedgerHasBook` is a step simulation: a step of the composition is a step of the book
or leaves its variables alone, so all theorems about the book apply. `HeldCorrect` is about an instant
when nothing is owed; its invariant holds at all times: net position plus what the settlements still to
come will move (`Ahead`) is what the orders of the account have traded (`Balanced`). A trade adds to
both sides, a settlement moves from one summand to the other, and the wrap is exact because the sum
never exceeds the lots traded so far. `CapCorrect` follows the desk's order
as taker (`CapInv`): while it runs, the net position, the lots its settlements still bring and the lots it still wants
add up to at most the cap, and a maker of the desk's own gives back what the taker has just brought.

*Argument for the C interface.* Orders leave the book, become bytes and come back. `OrdersGiven` and
`TicketsKnown` say that every order in the book has the form in which the two conversions are inverse
(`ThereAndBack`), so a ticket submitted again is the order that left, at another price. That keeps `BookInv` although
`Next` of the book never offers such an order. `OwnershipExact` is inductive by itself: the allocator gives a
fresh address, a free removes one owner. `QuotesCorrect` shows that `Ranked` exists and is unique for a
finite set of prices (`ListExists`), that the first of it is the best price, and that a level with an order has lots.
`PositionsCorrect` needs the strongest invariant (`PosInv`): for every order that rests, is being matched, waits in
`removed`, lies in an array of orders or is a ticket, the position is its filled quantity *less what is
owed to it*: the lots in fills not returned yet and in entries of arrays not applied yet. Each such order is in
one place only (`OutsideOnce`), so that a trade raises filled quantity and debt of exactly two orders; delivering an
array moves debt from the call to the heap (`DeliverOwed`), applying an entry pays it (`ApplyOwed`), freeing an
array owes nothing to anybody (`FreeOwed`). `DepthCorrect` follows the loop against the book it found
(`DepthRunning`): no level gets more than it had, none gets any before all better ones are full (`InTurn`), what
is not traded of a key still stands there, and while the order wants more all levels behind the loop are full
(`Accounted`). `Poured` says that these determine what each level got; the rest counts the same lots by
price, as the loop does, and by place in the array, as the client does (`SumReindex`, `ShownInReach`).

*Argument for batches.* `BestsBound` is the strengthening: the two best prices bound all accepted
orders of their side and never meet, although rejected orders may have moved them. Two
accepted orders that crossed would put an accepted bid at or above an accepted ask, hence the best
bid at or above the best ask. The cap follows because `check_order` tested the very value the
running position takes.

*Argument for the audit log.* `CanonicalInjective` peels the bytes from the left: a fixed-width word
splits off (`WordSplit`), then a string by the length before it (`StringSplit`), and so on to the venue;
without the length prefixes no such step exists. `SameHead` compares two logs from their ends: equal
heads give equal last events, hence equal links, until one log is exhausted, and then so is the other
because no event hashes to zero (`HeadNotZero`); the descent is a least-counterexample argument on the
distance from the end. `ChainInv` then is enough: the damaged log and the history both verify under the same
stored head only if they are equal, which is `VerifyExact`, and likewise for a published one.

### Only model-checked

* `CallReturns`: liveness under fairness is beyond the prover.
* `RoundTrip` and `NeverMisread` of `Fix`: its parser and checksums are recursive operators over bytes.

## 7. Not modelled

* `timestamp_ns`, symbols' hashing, formatting and `Debug` text of reasons: no decision reads them.
* Overflow of a level's `u64` total, and duplicate ids (see the assumptions).
* The hash and the signature scheme: the external crate `alice-sign`, taken as ideal. Hash collisions
  and forged signatures are outside the model.
* Overflow of FIX numbers, and values that are not ASCII. Faults beyond one: a sum of bytes cannot
  find two that cancel out.
* `al_ldg_version`; calls with null pointers (they change nothing); overlapping calls and pointers used
  after they are freed (undefined behaviour the client must avoid). `al_ldg_book_order_count` with totals
  beyond `i32`.
* `prelude.rs` and the declarations of the bindings: re-exports and signatures.

## 8. Plan

Every component that keeps state is modelled, and every safety property of a run that the provers can reach
is proved, the refinement included. What is left is `RoundTrip` and `NeverMisread`: `Fix` declares `RECURSIVE`
operators, which keep the provers out of the module; written as recursive functions, what they compute is still
an induction over data, so only the parts of the argument that need no induction could be proved.
