------------------------------ MODULE MCReports ------------------------------
(***************************************************************************)
(* What a client reports in the background, for TLC: the control stages of the *)
(* metadata reporter (events are in MCReporterEvents.cfg), its receipt folds or *)
(* its breaker reports, or the reporter of untracked surfaces.                  *)
(***************************************************************************)
EXTENDS Reporter, TLC

CONSTANTS
  k1, k2,
  Surface, KeyLimit, MaxReport, MaxReported, MaxAttempts, Interval, MaxSeen, MaxTime

Symmetry == Permutations(Surface)

MCFoldKey == [e \in Denied |-> 1]

VARIABLES
  part,                                        \* which of them this behaviour is about
  seen, clock, worker, ending, history,        \* of UntrackedReporter
  folds, exactKeys, succeeded, terminal, queued, settled, denied,  \* of ReceiptFolds
  now, health, lastSent, stamp, rateLimits, holdUntil, failedCycles, retryAt,
  heartbeatAt, cycle, stage, expired, lost, told, gaveUp,          \* of BreakerReports
  weights, answer, verdict, disposed, unparseable                  \* of IngestAnswers

untrackedVars == <<seen, clock, worker, ending, history>>
foldVars == <<folds, exactKeys, succeeded, terminal, queued, settled, denied>>
breakerVars == <<now, health, lastSent, stamp, rateLimits, holdUntil, failedCycles, retryAt,
                 heartbeatAt, cycle, stage, expired, lost, told, gaveUp>>
answerVars == <<weights, answer, verdict, disposed, unparseable>>

Untracked == INSTANCE UntrackedReporter WITH BatchSize <- MaxReport, closing <- ending
Folds == INSTANCE ReceiptFolds WITH
  Run <- {1, 2}, PriceMax <- 1, ExactLimit <- 1, FoldLimit <- 2, WireMax <- 2, MaxDenials <- 3
Breaker == INSTANCE BreakerReports WITH
  Provider <- {1, 2}, Health <- {"closed", "open"}, Heartbeat <- 2, MaxRateLimits <- 2,
  Delay <- {1}, MaxTime <- 3, MaxWall <- 2, MaxStamp <- 2
Answers == INSTANCE IngestAnswers WITH BatchSize <- 3, Weights <- {1, 2}

PartsInit ==
  /\ part \in {"reporter", "untracked", "folds", "breaker", "answers"}
  /\ Init /\ Untracked!Init /\ Folds!Init /\ Breaker!Init /\ Answers!Init
  /\ part # "answers" => \A i \in DOMAIN weights : weights[i] = 1

PartsNext ==
  \/ part = "reporter" /\ Next /\ UNCHANGED <<part, untrackedVars, foldVars, breakerVars, answerVars>>
  \/ part = "untracked" /\ Untracked!Next /\ UNCHANGED <<part, vars, foldVars, breakerVars, answerVars>>
  \/ part = "folds" /\ Folds!Next /\ UNCHANGED <<part, vars, untrackedVars, breakerVars, answerVars>>
  \/ part = "breaker" /\ Breaker!Next /\ UNCHANGED <<part, vars, untrackedVars, foldVars, answerVars>>
  \/ part = "answers" /\ Answers!Next
     /\ UNCHANGED <<part, vars, untrackedVars, foldVars, breakerVars>>

PartsSpec == PartsInit /\ [][PartsNext]_<<part, vars, untrackedVars, foldVars, breakerVars, answerVars>>

(* Every occurrence of an untracked surface is in one report at most, and what is *)
(* not reported yet comes due again (UntrackedReporter).                          *)
OccurrencesReportedOnce == Untracked!OccurrencesReportedOnce /\ Untracked!UnreportedComesDue

(* What is summed up on the way stays true: folded denials keep their number,     *)
(* quantities and prices and fit the wire (ReceiptFolds), the answer to a batch   *)
(* gives up what it names and no more (IngestAnswers), a change of a provider's   *)
(* health is due until the control plane was told (BreakerReports), and an        *)
(* occurrence is reported once.                                                   *)
SummariesAreTrue ==
  OccurrencesReportedOnce /\ Folds!ReceiptsAreSound /\ Breaker!HealthIsReported
  /\ Answers!DispositionsAreSound

(* A batch that fails does not hold up the other batches of its flush             *)
(* (UntrackedReporter).                                                           *)
SiblingBatchesGoOn == Untracked!SiblingBatchesGoOn
=============================================================================
