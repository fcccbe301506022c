---------------------------- MODULE ReceiptFolds ----------------------------
(***************************************************************************)
(* The receipt folds of the metadata reporter (src/receipt-fold.ts): denials    *)
(* that cannot stay in the event queue are added up by run and price, handed    *)
(* back after a clean cycle as replay events that fit the wire, and folded      *)
(* again when those are evicted in their turn.                                 *)
(*                                                                         *)
(* An event is a record of its run, of the price it is replayed at (None for    *)
(* an aggregate of several prices) and of its quantities: how many denials it   *)
(* stands for, their input tokens, and a second discrete quantity that stands   *)
(* for the output bound and the media counts.                                   *)
(***************************************************************************)
EXTENDS Integers, FiniteSets, FiniteSetsExt, Functions, Bags

CONSTANTS
  Run,                  \* agent runs
  PriceMax,             \* the largest pricing input of one denial
  ExactLimit,           \* RECEIPT_FOLD_RUN_EXACT_LIMIT
  FoldLimit,            \* RECEIPT_FOLD_LIMIT
  WireMax,              \* ORDINARY_TOKEN_COUNT_MAX, at least PriceMax
  MaxDenials            \* bound: denials of one behaviour

None == PriceMax + 1    \* receiptPricingInputTokens = null
Price == 0..PriceMax
Quantity == {"count", "tokens", "bound"}

VARIABLES
  folds,                \* #folds: [key -> quantities], keys are <<run, price>>
  exactKeys,            \* #runExactKeys
  succeeded,            \* #previousCycleSucceeded
  terminal,             \* #terminal
  queued,               \* bag of the replay events in the event queue
  settled,              \* history: the events delivered or counted as dropped
  denied                \* history: the denials folded, as a bag of events

vars == <<folds, exactKeys, succeeded, terminal, queued, settled, denied>>

Init ==
  /\ folds = <<>>
  /\ exactKeys = [r \in Run |-> 0]
  /\ succeeded = FALSE
  /\ terminal = FALSE
  /\ queued = EmptyBag
  /\ settled = EmptyBag
  /\ denied = EmptyBag

-----------------------------------------------------------------------------
(* Folding.                                                                *)

\* The identity an event is first folded under, and what it adds.
ExactKey(e) == <<e.run, e.price>>
Contribution(e) == [q \in Quantity |-> e[q]]

CoarseKey(key) == <<key[1], None>>

Accumulate(fold, incoming) == [q \in Quantity |-> fold[q] + incoming[q]]

\* The key an event is kept under: an exact key gives way to the run's coarse key
\* when the run or the whole state has no room for another exact one.
KeyFor(e) ==
  LET key == ExactKey(e) IN
  IF /\ key \notin DOMAIN folds
     /\ e.price # None
     /\ exactKeys[e.run] >= ExactLimit \/ Cardinality(DOMAIN folds) >= FoldLimit
    THEN CoarseKey(key) ELSE key

Fold(e) ==
  LET key == KeyFor(e) IN
  IF terminal \/ (key \notin DOMAIN folds /\ Cardinality(DOMAIN folds) >= FoldLimit)
    THEN /\ settled' = settled (+) SetToBag({e})          \* "terminal", "overflow"
         /\ UNCHANGED <<folds, exactKeys>>
    ELSE /\ folds' = IF key \in DOMAIN folds
                       THEN [folds EXCEPT ![key] = Accumulate(@, Contribution(e))]
                       ELSE [k \in DOMAIN folds \union {key} |->
                               IF k = key THEN Contribution(e) ELSE folds[k]]
         /\ exactKeys' = IF key \in DOMAIN folds \/ key[2] = None THEN exactKeys
                           ELSE [exactKeys EXCEPT ![key[1]] = @ + 1]
         /\ UNCHANGED settled

\* A denial leaves the event queue before it was delivered.
FoldDenial ==
  \E r \in Run, p \in Price, b \in {0, WireMax} :
    LET e == [run |-> r, price |-> p, count |-> 1, tokens |-> p, bound |-> b] IN
    /\ BagCardinality(denied) < MaxDenials
    /\ Fold(e)
    /\ denied' = denied (+) SetToBag({e})
    /\ UNCHANGED <<succeeded, terminal, queued>>

\* So does an aggregate that was replayed.
FoldReplay ==
  \E e \in BagToSet(queued) :
    /\ Fold(e)
    /\ queued' = queued (-) SetToBag({e})
    /\ UNCHANGED <<succeeded, terminal, denied>>

-----------------------------------------------------------------------------
(* Replay.                                                                 *)

\* Chunks a quantity needs, and the share the i-th chunk takes of it.
ChunksOf(n) == IF n = 0 THEN 1 ELSE (n + WireMax - 1) \div WireMax
TakeWireInteger(n, i) ==
  IF n <= (i - 1) * WireMax THEN 0
  ELSE IF n - (i - 1) * WireMax < WireMax THEN n - (i - 1) * WireMax ELSE WireMax

SplitChunkCount(fold) == Max({ChunksOf(fold[q]) : q \in Quantity})

\* A plausible bug: the first chunks take all they can carry.
LeftGreedily(count, n) ==
  LET left[i \in 0..n] ==
        IF i = 0 THEN count
        ELSE left[i - 1] - Max({1, Min({WireMax, left[i - 1]})})
  IN left

\* Denials that are left after i chunks of n: each takes as many as fit while every
\* later chunk keeps one for itself.
LeftAfter(count, n) ==
  LET left[i \in 0..n] ==
        IF i = 0 THEN count
        ELSE left[i - 1] - Min({WireMax, Max({1, left[i - 1] - (n - i)})})
  IN left

\* The chunks of an aggregate, each within what one event of the wire may carry.
Split(fold) ==
  LET n == SplitChunkCount(fold)
      left == LeftAfter(fold.count, n) IN
  [i \in 1..n |->
     [count  |-> left[i - 1] - left[i],
      tokens |-> TakeWireInteger(fold.tokens, i),
      bound  |-> TakeWireInteger(fold.bound, i)]]

\* One fresh event for every chunk.
ReplayEvents(key, fold) ==
  LET chunks == Split(fold)
      event(i) == [run |-> key[1], price |-> key[2], count |-> chunks[i].count,
                   tokens |-> chunks[i].tokens, bound |-> chunks[i].bound]
      events == {event(i) : i \in DOMAIN chunks} IN
  [e \in events |-> Cardinality({i \in DOMAIN chunks : event(i) = e})]

Replayed == BagUnion({ReplayEvents(k, folds[k]) : k \in DOMAIN folds})

\* Opens the gate of the next take: the last cycle was clean throughout.
NoteCycleSuccess ==
  /\ ~terminal
  /\ ~succeeded
  /\ succeeded' = TRUE
  /\ UNCHANGED <<folds, exactKeys, terminal, queued, settled, denied>>

\* The start of a cycle hands every aggregate to the event queue, if the cycle
\* before succeeded; the last one does whatever happened, and nothing folds after.
TakeForCycle(final) ==
  /\ ~terminal
  /\ terminal' = final
  /\ succeeded' = FALSE
  /\ IF final \/ succeeded
       THEN /\ queued' = queued (+) Replayed
            /\ folds' = <<>>
            /\ exactKeys' = [r \in Run |-> 0]
       ELSE UNCHANGED <<queued, folds, exactKeys>>
  /\ UNCHANGED <<settled, denied>>

\* The server takes a replayed event, or it is dropped and counted.
Deliver ==
  \E e \in BagToSet(queued) :
    /\ queued' = queued (-) SetToBag({e})
    /\ settled' = settled (+) SetToBag({e})
    /\ UNCHANGED <<folds, exactKeys, succeeded, terminal, denied>>

Next ==
  \/ FoldDenial \/ FoldReplay
  \/ NoteCycleSuccess
  \/ TakeForCycle(FALSE) \/ TakeForCycle(TRUE)
  \/ Deliver

Spec == Init /\ [][Next]_vars

-----------------------------------------------------------------------------
(* Properties.                                                             *)

InBag(B, Test(_), q) == MapThenSumSet(LAMBDA e : B[e] * e[q], {e \in BagToSet(B) : Test(e)})
InFolds(Test(_), q) == MapThenSumSet(LAMBDA k : folds[k][q], {k \in DOMAIN folds : Test(k)})

(* However often denials are folded, split, replayed, evicted and folded again,   *)
(* every run's denials, input tokens and other quantities stay what they were.    *)
NothingGainedOrLost ==
  \A r \in Run, q \in Quantity :
    InBag(denied, LAMBDA e : e.run = r, q) =
      InFolds(LAMBDA k : k[1] = r, q)
        + InBag(queued (+) settled, LAMBDA e : e.run = r, q)

(* An aggregate that carries a price stands for denials of that price only, and   *)
(* what gave its price up never gets it back.                                     *)
PricedAtTheirOwn ==
  \A r \in Run, p \in Price :
    InFolds(LAMBDA k : k = <<r, p>>, "count")
      + InBag(queued (+) settled, LAMBDA e : e.run = r /\ e.price = p, "count")
    <= InBag(denied, LAMBDA e : e.run = r /\ e.price = p, "count")

(* No replayed event stands for less than one denial, or carries more than the    *)
(* wire takes.                                                                    *)
FitsTheWire ==
  \A e \in BagToSet(queued) : e.count >= 1 /\ \A q \in Quantity : e[q] <= WireMax

(* The limits hold: aggregates in all, exact ones of a run.                       *)
WithinLimits ==
  /\ Cardinality(DOMAIN folds) <= FoldLimit
  /\ \A r \in Run : /\ exactKeys[r] = Cardinality({k \in DOMAIN folds : k[1] = r /\ k[2] # None})
                    /\ exactKeys[r] <= ExactLimit

ReceiptsAreSound ==
  NothingGainedOrLost /\ PricedAtTheirOwn /\ FitsTheWire /\ WithinLimits
=============================================================================
