--------------------------- MODULE VelocityMonitor ---------------------------
(***************************************************************************)
(* The velocity of agent runs (src/velocity.ts): per run a bounded history  *)
(* of its calls, from which each call is flagged, and what is remembered of  *)
(* a run whose history had to go, so that a shortened history is not taken   *)
(* for a sudden acceleration.  Time is in half minutes.                      *)
(***************************************************************************)
EXTENDS Integers, Sequences, FiniteSets, SequencesExt

CONSTANTS
  Run, Size, Model,       \* runs, estimated sizes and models that are observed
  RunLimit,               \* RUN_LIMIT
  HistoryLimit,           \* VELOCITY_HISTORY_LIMIT
  RateMemory,             \* RATE_MEMORY_LIMIT
  WarningMemory,          \* WARNING_MEMORY_LIMIT
  RepeatCount, RepeatWindow, GrowthStreak, GrowthFactor, AccelFloor, AccelFactor,  \* the config
  MaxCalls,               \* bound: calls of all runs
  MaxClock                \* bound: the clock

(* In half minutes: a minute, RATE_HORIZON_S, WARNING_INTERVAL_S, the gap of a growth. *)
Minute == 2
RateHorizon == 4
WarningInterval == 1
GrowthGap == 1
Tolerance == 0   \* the sizes observed here are equal or apart

Never == -1      \* of a time that is not set

Largest(a, b) == IF a > b THEN a ELSE b

HistoryHorizon == Largest(RateHorizon, Largest(RepeatWindow, GrowthStreak - 1))

VARIABLES
  now,
  runs,         \* the Map of histories, least recently observed first
  runIds,       \* the array evictions sample from; runs[r].slot points into it
  tombstones,   \* per run: until when its rate is not judged, or Never
  suppress,     \* until when no rate is judged, no warning given: the two overflows
  warnings,     \* the remembered [run, rule, at]
  record,       \* history: every call of a run, and whether its history was evicted
  last          \* history: the latest call, its flags, and whether it warned too soon

vars == <<now, runs, runIds, tombstones, suppress, warnings, record, last>>

Init ==
  /\ now = 0 /\ runs = <<>> /\ runIds = <<>>
  /\ tombstones = [r \in Run |-> Never]
  /\ suppress = [rate |-> Never, warning |-> Never]
  /\ warnings = {}
  /\ record = [r \in Run |-> [calls |-> <<>>, evicted |-> FALSE]]
  /\ last = [run |-> "none", flags |-> {}, soon |-> FALSE]

-----------------------------------------------------------------------------
(* Histories. M is the monitor's map with its array: [runs, runIds].         *)

Known(M)      == {M.runs[i].run : i \in DOMAIN M.runs}
IndexOf(M, r) == CHOOSE i \in DOMAIN M.runs : M.runs[i].run = r
HistoryOf(M, r) == M.runs[IndexOf(M, r)]
LastTime(h)   == h.calls[Len(h.calls)].at
Expired(h)    == now - LastTime(h) > HistoryHorizon

(* A plausible bug: the run moved into the gap keeps its old slot. *)
DeleteHistoryUnmoved(M, r) ==
  LET slot == HistoryOf(M, r).slot
      tail == M.runIds[Len(M.runIds)]
      ids  == Front(M.runIds)
  IN  [runs   |-> SelectSeq(M.runs, LAMBDA h : h.run # r),
       runIds |-> IF slot <= Len(ids) THEN [ids EXCEPT ![slot] = tail] ELSE ids]

(* #deleteHistory: the last run of the array takes the deleted one's place. *)
DeleteHistory(M, r) ==
  LET slot  == HistoryOf(M, r).slot
      tail  == M.runIds[Len(M.runIds)]
      ids   == Front(M.runIds)
      moved == slot <= Len(ids)
      Place(h) == IF moved /\ h.run = tail THEN [h EXCEPT !.slot = slot] ELSE h
      left  == SelectSeq(M.runs, LAMBDA h : h.run # r)
  IN  [runs   |-> [i \in DOMAIN left |-> Place(left[i])],
       runIds |-> IF moved THEN [ids EXCEPT ![slot] = tail] ELSE ids]

(* The expired histories at the head of the Map. *)
SweepExpired(M) ==
  LET fresh == {i \in DOMAIN M.runs : ~Expired(M.runs[i])}
      head  == IF fresh = {} THEN Len(M.runs) ELSE (CHOOSE i \in fresh : \A j \in fresh : i <= j) - 1
  IN  FoldLeft(LAMBDA N, h : DeleteHistory(N, h.run), M, SubSeq(M.runs, 1, head))

(* The histories with r's, which takes its place at the end of the Map; T are  *)
(* the tombstones and the suppression of the rate after an eviction.           *)
Admitted(M, r) ==
  [runs |-> Append(M.runs, [run |-> r, slot |-> Len(M.runIds) + 1, calls |-> <<>>]),
   runIds |-> Append(M.runIds, r)]

Touched(M, r) ==
  LET h == HistoryOf(M, r)
  IN  [M EXCEPT !.runs = Append(SelectSeq(@, LAMBDA g : g.run # r),
                                IF Expired(h) THEN [h EXCEPT !.calls = <<>>] ELSE h)]

Pushed(calls, call) ==
  IF Len(calls) = HistoryLimit THEN Append(Tail(calls), call) ELSE Append(calls, call)

DroppedAt(calls) == IF Len(calls) = HistoryLimit THEN calls[1].at ELSE Never

-----------------------------------------------------------------------------
(* Rates. T is [tombstones, rate]. *)

(* A plausible bug: what the rate memory cannot hold is only forgotten. *)
RememberUnsuppressed(T, r, h) ==
  LET deadline == LastTime(h) + RateHorizon
      others   == {q \in Run \ {r} : T.tombstones[q] # Never}
  IN  IF now > deadline THEN T
      ELSE IF Cardinality(others) >= RateMemory
      THEN [T EXCEPT !.tombstones = [q \in Run |-> Never]]
      ELSE [T EXCEPT !.tombstones[r] = deadline]

(* #rememberRateEviction *)
RememberRateEviction(T, r, h) ==
  LET deadline == LastTime(h) + RateHorizon
      others   == {q \in Run \ {r} : T.tombstones[q] # Never}
  IN  IF now > deadline THEN T
      ELSE IF Cardinality(others) >= RateMemory
      THEN [tombstones |-> [q \in Run |-> Never],
            rate |-> Largest(T.rate, Largest(now + RateHorizon, deadline))]
      ELSE [T EXCEPT !.tombstones[r] = deadline]

(* A tombstone past its deadline goes when its run is judged. *)
LiveTombstone(T, r) == T.tombstones[r] # Never /\ now <= T.tombstones[r]
Judged(T, r) == IF LiveTombstone(T, r) THEN T ELSE [T EXCEPT !.tombstones[r] = Never]

-----------------------------------------------------------------------------
(* Flags of the latest of the calls. *)

Latest(calls) == calls[Len(calls)]
Age(c) == now - c.at

RepeatMatches(calls) ==
  {i \in DOMAIN calls :
     /\ Age(calls[i]) \in 0..RepeatWindow
     /\ calls[i].model = Latest(calls).model
     /\ calls[i].size - Latest(calls).size \in -Tolerance..Tolerance}

RepeatSize(calls) == Cardinality(RepeatMatches(calls)) >= RepeatCount

(* Twice the median of a sequence, to stay in the integers. *)
MedianTwice(s) ==
  LET ordered == SortSeq(s, <)
      middle  == Len(s) \div 2
  IN  IF Len(s) % 2 = 1 THEN 2 * ordered[middle + 1] ELSE ordered[middle] + ordered[middle + 1]

MonotonicGrowth(calls) ==
  LET first == Len(calls) - GrowthStreak + 1
      steps == first + 1..Len(calls)
      gaps  == [i \in 1..GrowthStreak - 1 |-> calls[first + i].at - calls[first + i - 1].at]
  IN  /\ first >= 1
      /\ \A i \in steps : calls[i].size > calls[i - 1].size
      /\ Latest(calls).size >= GrowthFactor * calls[first].size
      /\ MedianTwice(gaps) < 2 * GrowthGap

CurrentMinute(calls) == Cardinality({i \in DOMAIN calls : Age(calls[i]) \in 0..Minute})
PriorMinute(calls)   == Cardinality({i \in DOMAIN calls : Age(calls[i]) \in Minute + 1..RateHorizon})

Accelerates(calls) ==
  /\ CurrentMinute(calls) >= AccelFloor
  /\ CurrentMinute(calls) >= AccelFactor * PriorMinute(calls)

RateWindowComplete(T, r, droppedAt) ==
  /\ droppedAt = Never \/ now - droppedAt > RateHorizon
  /\ ~LiveTombstone(T, r)
  /\ T.rate = Never

Flags(calls, complete) ==
  {f \in {"repeat_size", "monotonic_growth", "rate_acceleration"} :
     CASE f = "repeat_size"       -> RepeatSize(calls)
       [] f = "monotonic_growth"  -> MonotonicGrowth(calls)
       [] f = "rate_acceleration" -> complete /\ Accelerates(calls)}

-----------------------------------------------------------------------------
(* Warnings. W is [warnings, suppress, said]: said is what was logged so far. *)

(* shouldWarn, for one flag. *)
ShouldWarn(W, r, rule) ==
  LET held  == W.suppress # Never /\ now < W.suppress
      U     == IF held THEN W ELSE [W EXCEPT !.suppress = Never]
      mine  == {w \in U.warnings : w.run = r /\ w.rule = rule}
      entry == [run |-> r, rule |-> rule, at |-> now]
      again == [U EXCEPT !.warnings = (@ \ mine) \union {entry}, !.said = @ \union {rule}]
  IN  CASE held -> W
        [] mine # {} /\ (\A w \in mine : now - w.at < WarningInterval) -> U
        [] mine # {} -> again
        [] Cardinality(U.warnings) >= WarningMemory ->
             [U EXCEPT !.warnings = {}, !.suppress = now + WarningInterval]
        [] OTHER -> again

InOrder(flags) == SelectSeq(<<"repeat_size", "monotonic_growth", "rate_acceleration">>,
                            LAMBDA f : f \in flags)

-----------------------------------------------------------------------------
(* A call of a run is observed, and its flags are logged (the client's         *)
(* precheck). M and T are what the choice of an evicted run, if one is needed,  *)
(* left of the histories and of the rate memory.                               *)

Judge(r, call, M, T) ==
  LET h        == HistoryOf(M, r)
      calls    == Pushed(h.calls, call)
      flags    == Flags(calls, RateWindowComplete(T, r, DroppedAt(h.calls)))
      judged   == IF DroppedAt(h.calls) = Never \/ now - DroppedAt(h.calls) > RateHorizon
                    THEN Judged(T, r) ELSE T
      W        == FoldLeft(LAMBDA w, f : ShouldWarn(w, r, f),
                           [warnings |-> warnings, suppress |-> suppress.warning, said |-> {}],
                           InOrder(flags))
      recent   == {f \in W.said : record[r].calls # <<>> /\
                     \E i \in DOMAIN record[r].calls :
                       f \in record[r].calls[i].said /\ now - record[r].calls[i].at < WarningInterval}
  IN  /\ runs' = [M.runs EXCEPT ![IndexOf(M, r)].calls = calls]
      /\ runIds' = M.runIds
      /\ tombstones' = judged.tombstones
      /\ suppress' = [rate |-> judged.rate, warning |-> W.suppress]
      /\ warnings' = W.warnings
      /\ record' = [q \in Run |->
           [calls   |-> IF q = r THEN Append(record[r].calls, [call EXCEPT !.said = W.said])
                        ELSE record[q].calls,
            evicted |-> record[q].evicted \/ \E i \in DOMAIN runs :
                          runs[i].run = q /\ q \notin Known(M) /\ ~Expired(runs[i])]]
      /\ last' = [run |-> r, flags |-> flags, soon |-> recent # {}]

SumOfCalls == FoldFunction(LAMBDA g, n : n + Len(g.calls), 0, record)

Observe(r, size, model) ==
  LET call == [at |-> now, size |-> size, model |-> model, said |-> {}]
      M    == [runs |-> runs, runIds |-> runIds]
      T    == [tombstones |-> tombstones,
               rate |-> IF suppress.rate # Never /\ now > suppress.rate THEN Never ELSE suppress.rate]
      S    == SweepExpired(M)
  IN  /\ SumOfCalls < MaxCalls
      /\ \/ r \in Known(M) /\ Judge(r, call, Touched(M, r), T)
         \/ r \notin Known(M) /\ Len(S.runs) < RunLimit /\ Judge(r, call, Admitted(S, r), T)
         \/ /\ r \notin Known(M) /\ Len(S.runs) >= RunLimit
            /\ \E slot \in DOMAIN S.runIds :
                 LET evicted == S.runIds[slot]
                 IN  Judge(r, call, Admitted(DeleteHistory(S, evicted), r),
                           RememberRateEviction(T, evicted, HistoryOf(S, evicted)))
      /\ UNCHANGED now

Tick ==
  /\ now < MaxClock /\ now' = now + 1
  /\ last' = [run |-> "none", flags |-> {}, soon |-> FALSE]
  /\ UNCHANGED <<runs, runIds, tombstones, suppress, warnings, record>>

Next ==
  \/ Tick
  \/ \E r \in Run, size \in Size, model \in Model : Observe(r, size, model)

Spec == Init /\ [][Next]_vars

-----------------------------------------------------------------------------
(* What a flag says of a run is true of all its calls, not only of those that   *)
(* are kept: an eviction, a full history or an overflow of the rate memory       *)
(* never turns a steady run into an accelerating one (velocity.ts:141).           *)
FlagsAreJustified ==
  last.run \in Run =>
    LET calls == record[last.run].calls IN
      /\ "repeat_size" \in last.flags => RepeatSize(calls)
      /\ "monotonic_growth" \in last.flags => MonotonicGrowth(calls)
      /\ "rate_acceleration" \in last.flags => Accelerates(calls)

(* A loop of a run whose history was never evicted is flagged, as long as its    *)
(* history holds the calls of the window.                                        *)
LoopsAreFlagged ==
  last.run \in Run /\ ~record[last.run].evicted =>
    LET calls == record[last.run].calls IN
      Cardinality(RepeatMatches(calls)) >= RepeatCount /\ RepeatCount <= HistoryLimit
        /\ (\A i \in RepeatMatches(calls) : i > Len(calls) - HistoryLimit)
        => "repeat_size" \in last.flags

(* The array that evictions sample from holds every run with a history, at the   *)
(* place its history names.                                                     *)
SlotsAreRight ==
  /\ Len(runIds) = Len(runs) /\ Len(runs) <= RunLimit
  /\ \A i \in DOMAIN runs : runs[i].slot \in DOMAIN runIds /\ runIds[runs[i].slot] = runs[i].run

(* The same flag of the same run is not logged twice within the interval,        *)
(* whatever the warning memory forgot.                                           *)
WarningsAreSpaced == ~last.soon

(* All of it. *)
VelocityIsSound == FlagsAreJustified /\ LoopsAreFlagged /\ SlotsAreRight /\ WarningsAreSpaced
=============================================================================
