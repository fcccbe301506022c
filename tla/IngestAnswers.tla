--------------------------- MODULE IngestAnswers ---------------------------
(***************************************************************************)
(* What the metadata reporter reads out of the answer to a batch of events     *)
(* (src/reporter.ts): which of them the control plane rejected.  An answer that *)
(* breaks its contract is used as far as it is unambiguous.                    *)
(***************************************************************************)
EXTENDS Integers, Sequences, FiniteSets, FiniteSetsExt, SequencesExt

CONSTANTS
  BatchSize,            \* events of the batch
  Weights               \* denials an event may stand for

VARIABLES
  weights,              \* of the batch's events
  answer,               \* the body of the 202
  verdict,              \* IngestRejections
  disposed,             \* indexes of the events folded or counted as drops
  unparseable           \* consecutiveUnparseableResponses, as far as it is zero or not

vars == <<weights, answer, verdict, disposed, unparseable>>

Index == 0..(BatchSize - 1)

\* An entry is a value that is no object, an object without an index, or its index,
\* which may be out of range.
Junk == -3
NoIndex == -2
Entry == {Junk, NoIndex, -1} \union 0..BatchSize

\* The body: no object with a list of rejections at all, or that list.  "strict" says
\* whether the rest of the contract holds, the list of duplicates included.
Answer == [listed: BOOLEAN, strict: BOOLEAN, rejected: UNION {[1..n -> Entry] : n \in 0..(BatchSize + 1)}]

NoRejections(kind) == [kind |-> kind, indexes |-> {}, count |-> 0]
Malformed == NoRejections("malformed")

Init ==
  /\ weights \in [Index -> Weights]
  /\ answer = [listed |-> TRUE, strict |-> TRUE, rejected |-> <<>>]
  /\ verdict = NoRejections("none")
  /\ disposed = {}
  /\ unparseable = FALSE

-----------------------------------------------------------------------------
Named(a) == {a.rejected[i] : i \in DOMAIN a.rejected} \intersect Index

\* An index out of range, or one that is named twice.
ShapeError(a) ==
  \/ \E i \in DOMAIN a.rejected : a.rejected[i] \in {-1, BatchSize}
  \/ \E i, j \in DOMAIN a.rejected : i # j /\ a.rejected[i] = a.rejected[j]
                                       /\ a.rejected[i] \in Index
Has(a, entry) == \E i \in DOMAIN a.rejected : a.rejected[i] = entry

\* The contract is broken somewhere.
Drift(a) ==
  \/ ~a.listed \/ ~a.strict
  \/ Len(a.rejected) > BatchSize
  \/ Has(a, Junk) \/ Has(a, NoIndex) \/ ShapeError(a)

ParseIngestRejections(a) ==
  LET n == Len(a.rejected)
      legacy == [kind |-> "legacy", indexes |-> {}, count |-> n] IN
  IF ~a.listed THEN Malformed
  ELSE IF n = 0 THEN NoRejections(IF Drift(a) THEN "malformed" ELSE "clean")
  ELSE IF n > BatchSize THEN Malformed
  ELSE IF Has(a, Junk) /\ (ShapeError(a) \/ Has(a, NoIndex) \/ Named(a) = {}) THEN Malformed
  ELSE IF ShapeError(a) \/ Has(a, NoIndex) THEN legacy
  ELSE [kind |-> "exact", indexes |-> Named(a), count |-> Cardinality(Named(a))]

\* The n heaviest events, the earlier of two that weigh the same.
Heavier(i, j) == weights[i] > weights[j] \/ (weights[i] = weights[j] /\ i < j)

Heaviest(n) == {i \in Index : Cardinality({j \in Index : Heavier(j, i)}) < n}

DispositionIndexes(v) ==
  IF v.kind = "exact" THEN v.indexes
  ELSE IF v.kind # "legacy" THEN {}
  ELSE IF v.count >= BatchSize THEN Index
  ELSE Heaviest(v.count)

\* The answer to the batch arrives.
Receive ==
  /\ verdict.kind = "none"
  /\ \E a \in Answer :
    /\ answer' = a
    /\ verdict' = ParseIngestRejections(a)
    /\ disposed' = DispositionIndexes(ParseIngestRejections(a))
    /\ unparseable' = Drift(a)
    /\ UNCHANGED weights

Next == Receive

Spec == Init /\ [][Next]_vars

-----------------------------------------------------------------------------
(* Properties.                                                             *)

Weigh(S) == MapThenSumSet(LAMBDA i : weights[i], S)

(* Where every entry names an event of its own, those and no others are given up. *)
TheNamedAreDisposed ==
  /\ answer.listed
  /\ \A i \in DOMAIN answer.rejected : answer.rejected[i] \in Index
  /\ IsInjective(answer.rejected)
  => disposed = Range(answer.rejected)

(* No answer, however broken, gives up more events than it has entries.           *)
NeverMoreThanListed ==
  Cardinality(disposed) <= (IF answer.listed THEN Len(answer.rejected) ELSE 0)

(* When only the number of the rejected is known, the denials counted as dropped  *)
(* are no fewer than those of the events that were really rejected.               *)
NeverUndercounted ==
  verdict.kind = "legacy" =>
    \A S \in kSubset(IF verdict.count > BatchSize THEN BatchSize ELSE verdict.count, Index) :
      Weigh(S) <= Weigh(disposed)

(* A cycle is clean only after an answer that rejected nothing and broke nothing. *)
CleanMeansClean ==
  verdict.kind = "clean" => ~unparseable /\ disposed = {} /\ answer.rejected = <<>>

DispositionsAreSound ==
  TheNamedAreDisposed /\ NeverMoreThanListed /\ NeverUndercounted /\ CleanMeansClean
=============================================================================
