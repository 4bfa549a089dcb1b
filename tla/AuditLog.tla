------------------------------- MODULE AuditLog -------------------------------
(***************************************************************************)
(* The hash chain of order events: OrderAuditLog of                        *)
(* src/src/signed_order.rs, fed with signed orders that may be altered on  *)
(* the way, kept in a store that may damage events or hand back an older   *)
(* copy, and anchored by publishing its head now and then.                 *)
(***************************************************************************)
EXTENDS SignedOrders, SequencesExt

CONSTANTS
    Kind,       \* the event kinds in use
    Time,       \* the timestamps in use
    MaxEvents,  \* bound on the length of the log, for TLC
    MaxFaults   \* bound on the number of damages, for TLC

KindTag == [ OrderAccepted |-> 1, OrderRejected |-> 2, OrderPartiallyFilled |-> 3,
             OrderFullyFilled |-> 4, OrderCancelled |-> 5, OrderExpired |-> 6 ]

ASSUME AuditAssumption ==
    /\ Kind \subseteq DOMAIN KindTag
    /\ Time \subseteq Nat
    /\ MaxEvents \in Nat /\ MaxFaults \in Nat

VARIABLES
    signed,         \* what each trader has signed: pairs of a trader and a payload
    events, head,   \* the OrderAuditLog
    history,        \* auxiliary: the events append has written, as it wrote them
    anchor,         \* the last published head, and (auxiliary) the history behind it
    faults          \* damages so far

vars == <<signed, events, head, history, anchor, faults>>

-----------------------------------------------------------------------------
(* The chain *)

\* The head of an event hashes all its fields, each at its fixed place.
HeadOfUnlinked(e) ==
    HashData(<<e.sequence, KindTag[e.kind], e.order_digest, e.timestamp_unix>>)
HeadOf(e) ==
    HashData(<<e.sequence, KindTag[e.kind], e.order_digest, e.prev_hash, e.timestamp_unix>>)

\* The hash that the event at place i has to link to.
PrevHash(es, i) == IF i = 1 THEN ZeroHash ELSE HeadOf(es[i - 1])

\* verify: the events are linked from the zero hash on, and the last one has the
\* head of the log.
VerifyLinks(es, h) == \A i \in 1..Len(es) : es[i].prev_hash = PrevHash(es, i)
VerifyLog(es, h) ==
    /\ \A i \in 1..Len(es) : es[i].prev_hash = PrevHash(es, i)
    /\ h = PrevHash(es, Len(es) + 1)

Init ==
    /\ signed = {}
    /\ events = <<>> /\ head = ZeroHash
    /\ history = <<>>
    /\ anchor = [hash |-> ZeroHash, upto |-> <<>>]
    /\ faults = 0

(***************************************************************************)
(* Orders                                                                  *)
(***************************************************************************)
Sign(trader, p) ==
    /\ signed' = signed \cup {<<trader, p>>}
    /\ UNCHANGED <<events, head, history, anchor, faults>>

\* What may arrive: any payload and any public key, under a signature made by a
\* trader for whatever it signed.
Envelopes ==
    {[payload |-> p, trader_public |-> trader,
      signature |-> SignOrder(s[2], s[1]).signature] :
        p \in Submission, trader \in Trader, s \in signed}

\* append: the event joins the chain.
EventAfterLast(order, kind, t) ==
    [sequence |-> Len(events), kind |-> kind, order_digest |-> Digest(order.payload),
     prev_hash |-> PrevHash(events, Len(events) + 1), timestamp_unix |-> t]
EventFor(order, kind, t) ==
    [sequence |-> Len(events), kind |-> kind, order_digest |-> Digest(order.payload),
     prev_hash |-> head, timestamp_unix |-> t]

\* append: whatever it is given, it checks no signature.
AppendEvent(order, kind, t) ==
    /\ LET event == EventFor(order, kind, t)
       IN  /\ events' = Append(events, event)
           /\ head' = HeadOf(event)
           /\ history' = Append(history, event)
    /\ UNCHANGED <<signed, anchor, faults>>

\* The client knows the trader to expect, and appends what verify_by accepts.
AppendFor(order, expected, kind, t) ==
    /\ Len(events) < MaxEvents
    /\ VerifyBy(order, expected)
    /\ AppendEvent(order, kind, t)

(***************************************************************************)
(* Anchors and damage                                                      *)
(***************************************************************************)
Publish ==
    /\ events = history
    /\ anchor' = [hash |-> head, upto |-> history]
    /\ UNCHANGED <<signed, events, head, history, faults>>

\* An older copy of the log is put back in its place, an empty one if n = 0.
Restore(n) ==
    /\ history' = SubSeq(history, 1, n)
    /\ events' = history'
    /\ head' = PrevHash(history, n + 1)
    /\ UNCHANGED <<signed, anchor, faults>>

Damage(es) ==
    /\ faults < MaxFaults
    /\ faults' = faults + 1
    /\ events' = es
    /\ UNCHANGED <<signed, head, history, anchor>>

\* The event with one field changed.
Edits(e) ==
    {[e EXCEPT !.sequence = n] : n \in 0..MaxEvents}
    \cup {[e EXCEPT !.kind = k] : k \in DOMAIN KindTag}
    \cup {[e EXCEPT !.order_digest = Digest(p)] : p \in Submission}
    \cup {[e EXCEPT !.prev_hash = PrevHash(history, i)] : i \in 1..(Len(history) + 1)}
    \cup {[e EXCEPT !.timestamp_unix = @ + 1]}

EditEvent(i) == \E e \in Edits(events[i]) : Damage([events EXCEPT ![i] = e])
DropEvent(i) == Damage(RemoveAt(events, i))
SwapEvents(i, j) == Damage([events EXCEPT ![i] = events[j], ![j] = events[i]])

Next ==
    \/ \E trader \in Trader, p \in Submission : Sign(trader, p)
    \/ \E order \in Envelopes, trader \in Trader, kind \in Kind, t \in Time :
          AppendFor(order, trader, kind, t)
    \/ Publish
    \/ \E n \in 0..Len(history) : Restore(n)
    \/ \E i \in DOMAIN events : EditEvent(i)
    \/ \E i \in DOMAIN events : DropEvent(i)
    \/ \E i, j \in DOMAIN events : SwapEvents(i, j)

Spec == Init /\ [][Next]_vars
-----------------------------------------------------------------------------
(***************************************************************************)
(* Properties                                                              *)
(***************************************************************************)

\* An audit event (of its link, only that there is one) and a sequence of them.
IsEvent(e) ==
    /\ e = [sequence |-> e.sequence, kind |-> e.kind, order_digest |-> e.order_digest,
            prev_hash |-> e.prev_hash, timestamp_unix |-> e.timestamp_unix]
    /\ e.sequence \in Nat /\ e.kind \in DOMAIN KindTag /\ e.timestamp_unix \in Nat
    /\ \E p \in Submission : e.order_digest = Digest(p)
IsLog(es) == es \in Seq(Range(es)) /\ \A e \in Range(es) : IsEvent(e)

\* Type invariant.
TypeOK ==
    /\ signed \subseteq Trader \X Submission
    /\ IsLog(events) /\ IsLog(history) /\ IsLog(anchor.upto)
    /\ anchor = [hash |-> anchor.hash, upto |-> anchor.upto]
    /\ faults \in 0..MaxFaults

\* The inductive invariant: what append wrote verifies, and what was published did.
ChainInv ==
    /\ TypeOK
    /\ VerifyLog(history, head)
    /\ VerifyLog(anchor.upto, anchor.hash)

\* An envelope that passes verify_by(trader) carries a payload that this very trader
\* signed, whatever payloads, keys and signatures have been combined: no two
\* payloads share their canonical bytes, although their strings are laid end to end.
VerifiedIsSigned ==
    \A order \in Envelopes, trader \in Trader :
        VerifyBy(order, trader) => <<trader, order.payload>> \in signed

\* verify() accepts exactly the undamaged log: every edit, removal and exchange of
\* events is found, the last event included, and nothing else is refused.
VerifyExact == VerifyLog(events, head) <=> events = history

\* A log that verifies and whose head was published holds exactly the events it
\* held then, even if it was restored from an older copy and grown anew since.
AnchorPins == VerifyLog(events, head) /\ head = anchor.hash => events = anchor.upto

\* Appending neither heals a damaged log nor harms a good one: the new event links
\* to the stored head, not to the last stored event.
AppendKeepsVerdict ==
    [][ Len(history') > Len(history) =>
          (VerifyLog(events', head') <=> VerifyLog(events, head)) ]_vars
=============================================================================
