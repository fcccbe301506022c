------------------------- MODULE ClientCall_proofs -------------------------
(***************************************************************************)
(* Proofs about ClientCall, for every set of calls, every chain, every way *)
(* a provider may fail and any number of retries.                          *)
(*                                                                         *)
(* Calls do not touch one another, so the invariant says of each call's    *)
(* frame what its phase promises.  The steps are compositions of a few     *)
(* ledger and breaker operations: each of those is shown to keep the books *)
(* of a call, and a step is then read off what the operations leave.       *)
(***************************************************************************)
EXTENDS MCClientCall, FiniteSetTheorems, TLAPS

Fields ==
  {"kind", "mode", "phase", "tried", "at", "ledger", "funding", "readmission", "maybeBilled",
   "ownConfirms", "admission", "failed", "blames", "retries", "error", "handle", "transferred",
   "settled", "registered", "wrapper", "connected", "late", "events", "receipts"}

ClaimKinds == {"lease", "uncounted"}
Refunds == {"released", "zeroed"}

Lines == [kind: {"none", "per_call", "lease", "uncounted"}, hard: BOOLEAN,
          ending: {"held", "released", "floored", "measured", "zeroed"}, billed: BOOLEAN,
          confirms: Nat]

Typed(r) ==
  /\ DOMAIN r = Fields
  /\ r.ledger \in Seq(Lines) /\ r.funding \in 0 .. Len(r.ledger)
  /\ r.at \in Entry

(* A line whose claim is not held any more. *)
Closed(g) == g.kind \in ClaimKinds => g.ending # "held"

(* What no line of a ledger may be, whatever happens to it. *)
Lawful(g) ==
  /\ g.confirms <= 1
  /\ g.hard /\ g.billed => g.ending \notin Refunds
  /\ g.kind = "uncounted" => ~g.hard

(* Only the current line can be open. *)
Lawfuls(r) ==
  \A n \in DOMAIN r.ledger : Lawful(r.ledger[n]) /\ (n # r.funding => Closed(r.ledger[n]))
AllClosed(r) == \A n \in DOMAIN r.ledger : Closed(r.ledger[n])

(* The current line, before anything was confirmed or given back.  One under   *)
(* hard deny has been billed for at most what the step at hand is about.        *)
Funds(r) ==
  /\ r.funding # 0 /\ Line(r).ending = "held" /\ Line(r).confirms = 0
  /\ HardDeny(r) <=> Line(r).hard
Unbilled(r) == Line(r).hard => ~Line(r).billed

(* Who was counted against is in `failed`, as long as the walk goes on. *)
Counted(r) == r.blames \in [Provider -> 0 .. 1]
Remembered(r) == \A p \in Provider : r.blames[p] # 0 => p \in r.failed

(* What was billed was told. *)
Told(r) == (\E n \in DOMAIN r.ledger : r.ledger[n].billed) => r.receipts # {}

(* A call that has not ended. *)
Alive(r) ==
  /\ ~r.settled /\ r.ownConfirms = 0 /\ r.events = 0 /\ r.receipts \subseteq {"error"}
  /\ Lawfuls(r) /\ Counted(r) /\ Remembered(r)

(* A call without a stream. *)
Idle(r) == ~r.transferred /\ ~r.registered /\ r.wrapper = "none"

WellBegun(r) ==
  /\ Alive(r) /\ Idle(r)
  /\ r.ledger = <<>> /\ r.funding = 0 /\ ~r.admission /\ ~r.handle /\ ~r.maybeBilled
  /\ r.receipts = {}

(* On its way between admission and end. *)
UnderWay(r) ==
  /\ Alive(r) /\ Idle(r)
  /\ r.handle => Streaming(r)
  /\ r.kind = "media" => ~r.admission /\ ~r.maybeBilled /\ (r.funding # 0 => Line(r).kind \notin ClaimKinds)
  /\ r.maybeBilled => HardDeny(r)

WellWalking(r) ==
  /\ UnderWay(r) /\ Told(r) /\ ~r.admission /\ r.funding # 0
  /\ ~r.maybeBilled => Funds(r) /\ Unbilled(r)

WellReadmitting(r) == UnderWay(r) /\ Told(r) /\ r.funding = 0 /\ r.kind # "media"

WellAttempting(r) == UnderWay(r) /\ Told(r) /\ ~r.maybeBilled /\ Funds(r) /\ Unbilled(r)

WellSleeping(r) ==
  /\ WellAttempting(r) /\ r.kind # "media"
  /\ r.error \in Errors /\ ~r.error.billed

(* What an end leaves behind. *)
Final1(said) == \E x : said \cap Final \subseteq {x}
Finished(r) ==
  /\ Lawfuls(r) /\ AllClosed(r) /\ Counted(r)
  /\ r.ownConfirms \in 0 .. 1 /\ r.events \in 0 .. 1
  /\ Final1(r.receipts) /\ Told(r)
  /\ ~r.admission /\ ~r.handle /\ ~r.registered

WellStreaming(r) ==
  /\ Streaming(r) /\ r.funding # 0
  /\ HardDeny(r) <=> Line(r).hard
  /\ ~r.settled => /\ Alive(r) /\ Funds(r) /\ ~r.maybeBilled
                   /\ r.wrapper = "live" /\ r.registered
                   /\ ~r.connected => Unbilled(r)
  /\ r.settled => /\ Finished(r) /\ r.receipts # {}
                  /\ r.wrapper = "live" /\ Line(r).hard => Line(r).ending \notin Refunds

WellOver(r) == Finished(r) /\ r.wrapper = "none"

Well(r) ==
  /\ Typed(r)
  /\ \/ r.phase \in {"new", "checking"} /\ WellBegun(r)
     \/ r.phase = "walking" /\ WellWalking(r)
     \/ r.phase = "readmitting" /\ WellReadmitting(r)
     \/ r.phase = "attempting" /\ WellAttempting(r)
     \/ r.phase = "sleeping" /\ WellSleeping(r)
     \/ r.phase = "streaming" /\ WellStreaming(r)
     \/ r.phase = "over" /\ WellOver(r)

(* A closed client leaves no stream unsettled but one that opened too late. *)
Swept(r, how) == r.phase = "streaming" /\ ~r.settled /\ how = "done" => r.late

CallInv ==
  /\ DOMAIN call = Call
  /\ \A c \in Call : Well(call[c]) /\ Swept(call[c], closing)
-----------------------------------------------------------------------------
(* The books of a call. *)

(* s is r but for what its books say. *)
SameFrame(r, s) ==
  /\ DOMAIN s = Fields
  /\ s.kind = r.kind /\ s.mode = r.mode /\ s.phase = r.phase /\ s.tried = r.tried /\ s.at = r.at
  /\ s.funding = r.funding /\ s.readmission = r.readmission /\ s.maybeBilled = r.maybeBilled
  /\ s.admission = r.admission /\ s.failed = r.failed /\ s.blames = r.blames
  /\ s.retries = r.retries /\ s.error = r.error /\ s.handle = r.handle
  /\ s.transferred = r.transferred /\ s.settled = r.settled /\ s.registered = r.registered
  /\ s.wrapper = r.wrapper /\ s.connected = r.connected /\ s.late = r.late
  /\ s.events = r.events /\ s.receipts = r.receipts

(* s is r but for its current line, which is `line`. *)
Rewritten(r, s, line) ==
  /\ Typed(s) /\ SameFrame(r, s) /\ s.ownConfirms = r.ownConfirms
  /\ DOMAIN s.ledger = DOMAIN r.ledger /\ r.funding \in DOMAIN r.ledger
  /\ Line(s) = line
  /\ \A n \in DOMAIN r.ledger : n # r.funding => s.ledger[n] = r.ledger[n]

LEMMA CurrentLine ==
  ASSUME NEW r, Typed(r), r.funding # 0
  PROVE  r.funding \in DOMAIN r.ledger /\ Line(r) \in Lines
<1>1. r.ledger \in Seq(Lines) /\ r.funding \in 1 .. Len(r.ledger)
  BY DEF Typed
<1>2. QED BY <1>1 DEF Line

LEMMA BookedLine ==
  ASSUME NEW r, Typed(r), r.funding # 0, NEW line \in Lines
  PROVE  Rewritten(r, Booked(r, line), line)
<1> DEFINE s == Booked(r, line)
           l == [r.ledger EXCEPT ![r.funding] = line]
<1>1. r.ledger \in Seq(Lines) /\ r.funding \in DOMAIN r.ledger
  BY CurrentLine DEF Typed
<1>2. /\ l \in Seq(Lines) /\ Len(l) = Len(r.ledger) /\ DOMAIN l = DOMAIN r.ledger
      /\ l[r.funding] = line /\ \A n \in DOMAIN r.ledger : n # r.funding => l[n] = r.ledger[n]
  BY <1>1
<1>3. s = [r EXCEPT !.ledger = l]  BY DEF Booked
<1> HIDE DEF l, s
<1>4. s.ledger = l /\ SameFrame(r, s) /\ s.ownConfirms = r.ownConfirms
  BY <1>3 DEF SameFrame, Typed, Fields
<1>5. Typed(s)  BY <1>2, <1>4 DEF Typed, SameFrame
<1>6. Rewritten(r, s, line)  BY <1>1, <1>2, <1>4, <1>5 DEF Rewritten, Line, SameFrame
<1>7. QED BY <1>6 DEF s

(* What ends a call's funding leaves every line closed, and changes nothing but *)
(* how the current line ended and what was confirmed under it.                   *)
Keeps(r, s) ==
  /\ Typed(s) /\ SameFrame(r, s)
  /\ DOMAIN s.ledger = DOMAIN r.ledger
  /\ \A n \in DOMAIN r.ledger :
       /\ s.ledger[n].kind = r.ledger[n].kind /\ s.ledger[n].hard = r.ledger[n].hard
       /\ s.ledger[n].billed = r.ledger[n].billed
Settles(r, s) == Keeps(r, s) /\ Lawfuls(s) /\ AllClosed(s)

(* No refund of the current line. *)
Charged(r) == r.funding # 0 => Line(r).ending \notin Refunds

LEMMA RewrittenSettles ==
  ASSUME NEW r, NEW s, NEW line, Typed(r), Lawfuls(r), Rewritten(r, s, line),
         line.kind = Line(r).kind, line.hard = Line(r).hard, line.billed = Line(r).billed,
         Lawful(line), Closed(line)
  PROVE  Settles(r, s)
<1>1. s.funding = r.funding /\ s.ledger[r.funding] = line
  BY DEF Rewritten, SameFrame, Line
<1>2. Keeps(r, s)  BY <1>1 DEF Keeps, Rewritten, Line
<1>3. Lawfuls(s) /\ AllClosed(s)
  BY <1>1 DEF Lawfuls, AllClosed, Rewritten
<1>4. QED BY <1>2, <1>3 DEF Settles

(* Nothing is held: the ending is a stutter. *)
LEMMA SettledAlready ==
  ASSUME NEW r, Typed(r), Lawfuls(r), ~Claimed(r)
  PROVE  Settles(r, r)
<1>1. AllClosed(r)
 <2>1. ASSUME NEW n \in DOMAIN r.ledger PROVE Closed(r.ledger[n])
  <3>1. CASE n = r.funding
    BY <3>1 DEF Typed, Closed, Claimed, Held, Line, ClaimKinds
  <3>2. CASE n # r.funding
    BY <3>2 DEF Lawfuls
  <3>3. QED BY <3>1, <3>2
 <2>2. QED BY <2>1 DEF AllClosed
<1>2. Keeps(r, r)  BY DEF Keeps, SameFrame, Typed
<1>3. QED BY <1>1, <1>2 DEF Settles

LEMMA EndSettles ==
  ASSUME NEW r, Typed(r), Lawfuls(r), r.funding # 0,
         NEW how \in {"released", "floored", "measured", "zeroed"},
         how \in Refunds => Unbilled(r)
  PROVE  /\ Settles(r, End(r, how)) /\ End(r, how).ownConfirms = r.ownConfirms
         /\ Line(End(r, how)).confirms = Line(r).confirms
         /\ how \notin Refunds /\ Charged(r) => Charged(End(r, how))
<1>1. Line(r) \in Lines /\ Lawful(Line(r))
  BY CurrentLine DEF Lawfuls, Line
<1>2. CASE ~Held(r)
  BY <1>2, SettledAlready DEF End, Claimed
<1>3. CASE Held(r)
  BY <1>1, <1>3, BookedLine, RewrittenSettles DEF Lines, End, Lawful, Closed, Unbilled, Refunds, Rewritten, Charged
<1>4. QED BY <1>2, <1>3

LEMMA KeepsTwice ==
  ASSUME NEW r, NEW s, NEW t, Keeps(r, s), Settles(s, t)
  PROVE  Settles(r, t)
<1>1. SameFrame(r, t)  BY DEF Settles, Keeps, SameFrame
<1>2. QED BY <1>1 DEF Settles, Keeps

(* A confirm counts once, so there must have been none under the current line. *)
LEMMA ConfirmSettles ==
  ASSUME NEW r, Typed(r), Lawfuls(r), r.funding # 0, Line(r).confirms = 0,
         NEW how \in {"floored", "measured", "zeroed"}, how \in Refunds => Unbilled(r), NEW own \in BOOLEAN
  PROVE  /\ Settles(r, Confirm(r, how, own))
         /\ Confirm(r, how, own).ownConfirms = IF own THEN r.ownConfirms + 1 ELSE r.ownConfirms
         /\ how \notin Refunds /\ Charged(r) => Charged(Confirm(r, how, own))
<1> DEFINE s == End(r, how)
           line == [Line(s) EXCEPT !.confirms = @ + 1]
           t == Booked(s, line)
           u == [t EXCEPT !.ownConfirms = IF own THEN @ + 1 ELSE @]
<1>1. /\ Settles(r, s) /\ s.ownConfirms = r.ownConfirms /\ Line(s).confirms = 0
      /\ how \notin Refunds /\ Charged(r) => Charged(s)
  BY EndSettles
<1>2. Typed(s) /\ Lawfuls(s) /\ s.funding = r.funding /\ AllClosed(s)
  BY <1>1 DEF Settles, Keeps, SameFrame
<1>3. Line(s) \in Lines /\ Lawful(Line(s)) /\ Closed(Line(s))
  BY <1>2, CurrentLine DEF Lawfuls, AllClosed, Line
<1>4. /\ line \in Lines /\ line.kind = Line(s).kind /\ line.hard = Line(s).hard
      /\ line.billed = Line(s).billed /\ line.ending = Line(s).ending /\ line.confirms = 1
  BY <1>1, <1>3 DEF Lines
<1>5. u = Confirm(r, how, own)  BY DEF Confirm
<1> HIDE DEF line, s
<1>6. Lawful(line) /\ Closed(line)
  BY <1>3, <1>4 DEF Lawful, Closed
<1>7. Rewritten(s, t, line)  BY <1>2, <1>4, BookedLine
<1>8. Settles(s, t)  BY <1>2, <1>4, <1>6, <1>7, RewrittenSettles
<1>9. t.ownConfirms = r.ownConfirms /\ Line(t) = line /\ t.funding = s.funding /\ DOMAIN t = Fields
  BY <1>1, <1>7 DEF Rewritten, SameFrame
<1> HIDE DEF t
<1>10. /\ u.ledger = t.ledger /\ SameFrame(t, u)
       /\ u.ownConfirms = IF own THEN r.ownConfirms + 1 ELSE r.ownConfirms
  BY <1>9 DEF SameFrame, Fields
<1> HIDE DEF u
<1>11. Settles(t, u)  BY <1>8, <1>10 DEF Settles, Keeps, Typed, SameFrame, Lawfuls, AllClosed
<1>12. Settles(r, u)  BY <1>1, <1>8, <1>11, KeepsTwice DEF Settles
<1>13. Charged(s) => Charged(u)  BY <1>4, <1>9, <1>10 DEF Charged, Line, SameFrame
<1>14. QED BY <1>1, <1>5, <1>10, <1>12, <1>13

(* A claim that is given back, or kept at its floor. *)
LEMMA FreeSettles ==
  ASSUME NEW r, Typed(r), Lawfuls(r), Claimed(r) => Unbilled(r)
  PROVE  /\ Settles(r, ReleaseFunding(r)) /\ ReleaseFunding(r).ownConfirms = r.ownConfirms
         /\ r.funding # 0 => Line(ReleaseFunding(r)).confirms = Line(r).confirms
<1>1. CASE Claimed(r)
  BY <1>1, EndSettles DEF ReleaseFunding, Claimed, Held
<1>2. CASE ~Claimed(r)
  BY <1>2, SettledAlready DEF ReleaseFunding
<1>3. QED BY <1>1, <1>2

LEMMA FloorSettles ==
  ASSUME NEW r, Typed(r), Lawfuls(r)
  PROVE  /\ Settles(r, ConsumeUnknownUsage(r)) /\ ConsumeUnknownUsage(r).ownConfirms = r.ownConfirms
         /\ r.funding # 0 => Line(ConsumeUnknownUsage(r)).confirms = Line(r).confirms
         /\ Charged(r) => Charged(ConsumeUnknownUsage(r))
<1>1. CASE Claimed(r)
  BY <1>1, EndSettles DEF ConsumeUnknownUsage, Claimed, Held, Refunds
<1>2. CASE ~Claimed(r)
  BY <1>2, SettledAlready DEF ConsumeUnknownUsage
<1>3. QED BY <1>1, <1>2

(* s is r with its funding ended, and with no more than n confirms of its own. *)
Pays(r, s, n) ==
  /\ Settles(r, s)
  /\ s.ownConfirms = r.ownConfirms \/ s.ownConfirms = r.ownConfirms + n

LEMMA EndFundingPays ==
  ASSUME NEW r, Typed(r), Lawfuls(r), r.funding # 0, Line(r).confirms = 0,
         NEW floor \in BOOLEAN, ~floor /\ Claimed(r) => Unbilled(r), NEW own \in BOOLEAN,
         NEW s \in EndFunding(r, floor, own)
  PROVE  /\ Pays(r, s, IF own THEN 1 ELSE 0)
         /\ floor /\ Charged(r) => Charged(s)
<1>1. CASE ~floor
  BY <1>1, FreeSettles DEF EndFunding, Pays
<1>2. CASE floor
 <2> DEFINE kept == ConsumeUnknownUsage(r)
 <2>1. /\ Settles(r, kept) /\ kept.ownConfirms = r.ownConfirms /\ Line(kept).confirms = 0
       /\ Charged(r) => Charged(kept)
   BY FloorSettles
 <2>2. s = kept \/ s = Confirm(kept, "floored", own)
   BY <1>2 DEF EndFunding
 <2> HIDE DEF kept
 <2>3. Typed(kept) /\ Lawfuls(kept) /\ kept.funding = r.funding
   BY <2>1 DEF Settles, Keeps, SameFrame
 <2>4. CASE s = kept
   BY <2>1, <2>4 DEF Pays
 <2>5. CASE s = Confirm(kept, "floored", own)
   BY <2>1, <2>3, <2>5, ConfirmSettles, KeepsTwice DEF Refunds, Settles, Pays
 <2>6. QED BY <2>2, <2>4, <2>5
<1>3. QED BY <1>1, <1>2

LEMMA SettlePaidPays ==
  ASSUME NEW r, Typed(r), Lawfuls(r), r.funding # 0, Line(r).confirms = 0,
         NEW s \in SettlePaidCall(r, "measured")
  PROVE  Pays(r, s, 1) /\ (Charged(r) => Charged(s))
<1>1. CASE s = Confirm(r, "measured", TRUE)
  BY <1>1, ConfirmSettles DEF Refunds, Pays
<1>2. CASE s = ConsumeUnknownUsage(r)
  BY <1>2, FloorSettles DEF Pays
<1>3. QED BY <1>1, <1>2 DEF SettlePaidCall

(* A hop's funding is closed before the next hop is funded, or the call is thrown. *)
LEMMA CloseFundingSettles ==
  ASSUME NEW r, Typed(r), Lawfuls(r),
         r.funding # 0 /\ ~r.maybeBilled => Line(r).confirms = 0 /\ Unbilled(r)
  PROVE  \E q : /\ Settles(r, q) /\ q.ownConfirms = r.ownConfirms
               /\ CloseFunding(r) = [q EXCEPT !.funding = 0]
<1>1. CASE r.maybeBilled
  BY <1>1, FloorSettles DEF CloseFunding
<1>2. CASE ~r.maybeBilled
 <2> DEFINE freed == ReleaseFunding(r)
            ended == IF Payable(freed) /\ ~Leased(freed) THEN Confirm(freed, "zeroed", FALSE) ELSE freed
 <2>1. CloseFunding(r) = [ended EXCEPT !.funding = 0]  BY <1>2 DEF CloseFunding
 <2>2. Claimed(r) => Unbilled(r)  BY <1>2 DEF Claimed, Held
 <2>3. /\ Settles(r, freed) /\ freed.ownConfirms = r.ownConfirms
       /\ r.funding # 0 => Line(freed).confirms = 0
   BY <1>2, <2>2, FreeSettles
 <2>4. Typed(freed) /\ Lawfuls(freed) /\ freed.funding = r.funding
   BY <2>3 DEF Settles, Keeps, SameFrame
 <2>5. r.funding # 0 => Unbilled(freed)
   BY <2>3, <2>4, CurrentLine, <1>2 DEF Settles, Keeps, Line, Unbilled
 <2> HIDE DEF freed
 <2>6. CASE Payable(freed) /\ ~Leased(freed)
   BY <2>6, <2>3, <2>4, <2>5, ConfirmSettles, KeepsTwice, <2>1 DEF Payable, Settles
 <2>7. CASE ~(Payable(freed) /\ ~Leased(freed))
   BY <2>7, <2>1, <2>3
 <2>8. QED BY <2>6, <2>7
<1>3. QED BY <1>1, <1>2

-----------------------------------------------------------------------------
(* The end of a walk. *)

(* What a call may be when it is thrown: whatever is still claimed was not billed, *)
(* or is known to have been.                                                         *)
Throwable(r) ==
  /\ Typed(r) /\ Lawfuls(r) /\ Counted(r) /\ Told(r)
  /\ r.ownConfirms \in 0 .. 1 /\ r.events \in 0 .. 1 /\ Final1(r.receipts)
  /\ ~r.admission /\ Idle(r) /\ ~r.settled
  /\ ~r.maybeBilled /\ Claimed(r) => Unbilled(r)

(* s is what is left of q when its frame is gone. *)
Leaves(q, s) ==
  /\ DOMAIN s = Fields /\ s.phase = "over" /\ s.at = Primary
  /\ s.ledger = q.ledger /\ s.funding = q.funding /\ s.ownConfirms = q.ownConfirms
  /\ s.blames = q.blames /\ s.events = q.events /\ s.receipts = q.receipts
  /\ s.admission = q.admission /\ s.registered = q.registered /\ s.wrapper = q.wrapper

LEMMA LeavesWell ==
  ASSUME NEW q, NEW s, Typed(q), Lawfuls(q), AllClosed(q), Counted(q), Told(q),
         q.ownConfirms \in 0 .. 1, q.events \in 0 .. 1, Final1(q.receipts),
         ~q.admission, ~q.registered, q.wrapper = "none", Leaves(q, s), ~s.handle
  PROVE  Well(s)
<1>1. Typed(s)  BY ClientCallAssumption DEF Typed, Leaves
<1>2. Finished(s)  BY DEF Finished, Leaves, Lawfuls, AllClosed, Counted, Told
<1>3. QED BY <1>1, <1>2 DEF Well, WellOver, Leaves

LEMMA KeepsTold ==
  ASSUME NEW r, NEW s, Keeps(r, s), Told(r)
  PROVE  Told(s)
BY DEF Keeps, Told, SameFrame

LEMMA ThrownWell ==
  ASSUME NEW r, Throwable(r)
  PROVE  Well(Thrown(r)) /\ Thrown(r).phase = "over"
<1> DEFINE q == IF r.maybeBilled THEN ConsumeUnknownUsage(r) ELSE ReleaseFunding(r)
           s == Thrown(r)
<1>1. Settles(r, q) /\ q.ownConfirms = r.ownConfirms
  BY FloorSettles, FreeSettles DEF Throwable
<1>2. s = [Over(q) EXCEPT !.handle = @ /\ r.transferred]
  BY DEF Thrown, Throwable
<1> HIDE DEF q, s
<1>3. DOMAIN q = Fields  BY <1>1 DEF Settles, Keeps, Typed
<1>4. Leaves(q, s) /\ ~s.handle
  BY <1>2, <1>3 DEF Leaves, Over, Fields, Throwable, Idle
<1>5. /\ Typed(q) /\ Lawfuls(q) /\ AllClosed(q) /\ Told(q)
      /\ q.blames = r.blames /\ q.events = r.events /\ q.receipts = r.receipts
      /\ q.admission = r.admission /\ q.registered = r.registered /\ q.wrapper = r.wrapper
  BY <1>1, KeepsTold DEF Settles, Keeps, SameFrame, Throwable
<1>6. Counted(q)  BY <1>5 DEF Counted, Throwable
<1>7. Well(s)  BY <1>1, <1>4, <1>5, <1>6, LeavesWell DEF Throwable, Idle
<1>8. QED BY <1>4, <1>7 DEF Leaves, s

(* A call under way has told no end yet, so it may be thrown. *)
LEMMA UnderWayThrowable ==
  ASSUME NEW r, Typed(r), UnderWay(r), Told(r), ~r.admission,
         ~r.maybeBilled /\ Claimed(r) => Unbilled(r)
  PROVE  Throwable(r)
<1>1. Final1(r.receipts)  BY DEF Final1, Final, UnderWay, Alive
<1>2. QED BY <1>1 DEF Throwable, UnderWay, Alive

(* s is r but for what the breaker and the receipts say. *)
SameVerdict(r, s) ==
  /\ DOMAIN s = Fields
  /\ s.kind = r.kind /\ s.mode = r.mode /\ s.phase = r.phase /\ s.tried = r.tried /\ s.at = r.at
  /\ s.ledger = r.ledger /\ s.funding = r.funding /\ s.ownConfirms = r.ownConfirms
  /\ s.readmission = r.readmission /\ s.maybeBilled = r.maybeBilled
  /\ s.retries = r.retries /\ s.error = r.error /\ s.handle = r.handle
  /\ s.transferred = r.transferred /\ s.settled = r.settled /\ s.registered = r.registered
  /\ s.wrapper = r.wrapper /\ s.connected = r.connected /\ s.late = r.late /\ s.events = r.events

(* The provider of a hop is counted against unless it was before. *)
LEMMA JudgedVerdict ==
  ASSUME NEW r, Typed(r), Counted(r), Remembered(r),
         NEW s \in {Unadmitted(r), RecordBreakerFailureDedup(r)}
  PROVE  /\ SameVerdict(r, s) /\ s.receipts = r.receipts
         /\ ~s.admission /\ Counted(s) /\ Remembered(s)
<1>1. DOMAIN r = Fields  BY DEF Typed
<1>2. CASE s = Unadmitted(r)
  BY <1>1, <1>2 DEF Unadmitted, SameVerdict, Fields, Counted, Remembered
<1>3. CASE s = RecordBreakerFailureDedup(r)
 <2> DEFINE p == ProviderOf[r.at]
 <2>1. p \in Provider  BY DEF Provider, Typed
 <2> HIDE DEF p
 <2>2. CASE p \in r.failed \/ ~r.admission
   BY <1>3, <2>2, <1>1 DEF RecordBreakerFailureDedup, Unadmitted, p, SameVerdict, Fields, Counted, Remembered
 <2>3. CASE ~(p \in r.failed \/ ~r.admission)
   BY <1>3, <2>3, <2>1, <1>1 DEF RecordBreakerFailureDedup, Unadmitted, p, Blamed, Remembered, Counted, SameVerdict, Fields
 <2>4. QED BY <2>2, <2>3
<1>4. QED BY <1>2, <1>3

LEMMA ReportedVerdict ==
  ASSUME NEW r, DOMAIN r = Fields, NEW verdict
  PROVE  /\ SameVerdict(r, Reported(r, verdict))
         /\ Reported(r, verdict).receipts = r.receipts \union {verdict}
         /\ Reported(r, verdict).admission = r.admission
         /\ Reported(r, verdict).failed = r.failed /\ Reported(r, verdict).blames = r.blames
BY DEF Reported, SameVerdict, Fields

LEMMA VerdictTwice ==
  ASSUME NEW r, NEW s, NEW t, SameVerdict(r, s), SameVerdict(s, t)
  PROVE  SameVerdict(r, t)
BY DEF SameVerdict

(* A verdict does not touch the books. *)
LEMMA VerdictBooks ==
  ASSUME NEW r, NEW s, Typed(r), SameVerdict(r, s)
  PROVE  /\ Typed(s) /\ Line(s) = Line(r) /\ (HardDeny(s) <=> HardDeny(r))
         /\ (Lawfuls(r) => Lawfuls(s)) /\ (Funds(r) => Funds(s)) /\ (Unbilled(r) => Unbilled(s))
         /\ (Idle(r) => Idle(s))
         /\ (Claimed(s) <=> Claimed(r)) /\ (Payable(s) <=> Payable(r)) /\ (Leased(s) <=> Leased(r))
BY DEF SameVerdict, Typed, Line, HardDeny, Lawfuls, Funds, Unbilled, Idle, Claimed, Held, Payable, Leased

LEMMA VerdictUnderWay ==
  ASSUME NEW r, NEW s, Typed(r), UnderWay(r), SameVerdict(r, s),
         ~s.admission, Counted(s), Remembered(s), s.receipts \subseteq {"error"}
  PROVE  UnderWay(s)
<1>1. Lawfuls(s) /\ Idle(s) /\ Line(s) = Line(r) /\ (HardDeny(s) <=> HardDeny(r))
  BY VerdictBooks DEF UnderWay, Alive
<1>2. Alive(s)  BY <1>1 DEF Alive, UnderWay, SameVerdict
<1>3. QED BY <1>1, <1>2 DEF UnderWay, SameVerdict, Streaming

(* s is r at another place of the walk. *)
Moved(r, s) ==
  /\ DOMAIN s = Fields /\ s.at \in Entry /\ s.kind = r.kind
  /\ s.ledger = r.ledger /\ s.funding = r.funding /\ s.ownConfirms = r.ownConfirms
  /\ s.readmission = r.readmission /\ (s.maybeBilled <=> r.maybeBilled)
  /\ s.admission = r.admission /\ s.failed = r.failed /\ s.blames = r.blames
  /\ s.handle = r.handle /\ s.transferred = r.transferred /\ s.settled = r.settled
  /\ s.registered = r.registered /\ s.wrapper = r.wrapper /\ s.connected = r.connected
  /\ s.late = r.late /\ s.events = r.events /\ s.receipts = r.receipts

LEMMA MovedKeeps ==
  ASSUME NEW r, NEW s, Typed(r), Moved(r, s)
  PROVE  /\ Typed(s) /\ Line(s) = Line(r) /\ (HardDeny(s) <=> HardDeny(r))
         /\ (UnderWay(r) => UnderWay(s)) /\ (Told(r) => Told(s))
         /\ (Funds(r) => Funds(s)) /\ (Unbilled(r) => Unbilled(s))
<1>1. Typed(s) /\ Line(s) = Line(r) /\ (HardDeny(s) <=> HardDeny(r))
  BY DEF Typed, Moved, Line, HardDeny
<1>2. Told(r) => Told(s)  BY DEF Told, Moved
<1>3. (Funds(r) => Funds(s)) /\ (Unbilled(r) => Unbilled(s))
  BY <1>1 DEF Funds, Unbilled, Moved
<1>4. UnderWay(r) => UnderWay(s)
  BY <1>1 DEF Alive, Moved, Lawfuls, Counted, Remembered, UnderWay, Idle, Streaming
<1>5. QED BY <1>1, <1>2, <1>3, <1>4

(* Giving an admission back without a verdict. *)
LEMMA UnadmittedUnderWay ==
  ASSUME NEW r, Typed(r), UnderWay(r), Told(r)
  PROVE  /\ Typed(Unadmitted(r)) /\ UnderWay(Unadmitted(r)) /\ Told(Unadmitted(r))
         /\ ~Unadmitted(r).admission /\ SameVerdict(r, Unadmitted(r))
         /\ Unadmitted(r).receipts = r.receipts
<1> DEFINE s == Unadmitted(r)
<1>1. /\ SameVerdict(r, s) /\ s.receipts = r.receipts
      /\ ~s.admission /\ Counted(s) /\ Remembered(s)
  BY JudgedVerdict DEF UnderWay, Alive
<1> HIDE DEF s
<1>2. Typed(s) /\ UnderWay(s)
  BY <1>1, VerdictBooks, VerdictUnderWay DEF UnderWay, Alive
<1>3. Told(s)  BY <1>1 DEF Told, SameVerdict
<1>4. QED BY <1>1, <1>2, <1>3 DEF s

(* Closing a hop's funding leaves the walk without any. *)
LEMMA ClosedUnderWay ==
  ASSUME NEW r, Typed(r), UnderWay(r), Told(r), r.kind # "media",
         r.funding # 0 /\ ~r.maybeBilled => Line(r).confirms = 0 /\ Unbilled(r)
  PROVE  LET s == CloseFunding(r)
         IN  /\ Typed(s) /\ UnderWay(s) /\ Told(s) /\ s.funding = 0
             /\ s.phase = r.phase /\ s.kind = r.kind /\ s.admission = r.admission
<1>1. PICK q : /\ Settles(r, q) /\ q.ownConfirms = r.ownConfirms
               /\ CloseFunding(r) = [q EXCEPT !.funding = 0]
  BY CloseFundingSettles DEF UnderWay, Alive
<1> DEFINE s == CloseFunding(r)
<1>2. Typed(q) /\ Lawfuls(q) /\ AllClosed(q) /\ Told(q) /\ SameFrame(r, q)
  BY <1>1, KeepsTold DEF Settles, Keeps
<1>3. s = [q EXCEPT !.funding = 0]  BY <1>1
<1> HIDE DEF s
<1>4. /\ DOMAIN s = Fields /\ s.funding = 0 /\ s.ledger = q.ledger /\ s.ownConfirms = r.ownConfirms
      /\ s.at = r.at /\ s.phase = r.phase /\ s.kind = r.kind /\ s.admission = r.admission
      /\ s.maybeBilled = r.maybeBilled /\ s.readmission = r.readmission /\ s.handle = r.handle
      /\ s.transferred = r.transferred /\ s.settled = r.settled /\ s.registered = r.registered
      /\ s.wrapper = r.wrapper /\ s.failed = r.failed /\ s.blames = r.blames
      /\ s.events = r.events /\ s.receipts = r.receipts
  BY <1>1, <1>2, <1>3 DEF SameFrame, Fields
<1>5. Typed(s)  BY <1>2, <1>4 DEF Typed, SameFrame
<1>6. Told(s)  BY <1>2, <1>4 DEF Told, SameFrame
<1>7. Lawfuls(s)  BY <1>2, <1>4 DEF Lawfuls, AllClosed
<1>8. Alive(s)  BY <1>4, <1>7 DEF Alive, UnderWay, Counted, Remembered
<1>9. UnderWay(s)  BY <1>4, <1>8 DEF UnderWay, Idle, Streaming, HardDeny
<1>10. QED BY <1>4, <1>5, <1>6, <1>9 DEF s

(* No funding, no claim. *)
LEMMA ThrownUnfunded ==
  ASSUME NEW r, Typed(r), UnderWay(r), Told(r), ~r.admission, r.funding = 0
  PROVE  Well(Thrown(r)) /\ Thrown(r).phase = "over"
<1>1. Throwable(r)  BY UnderWayThrowable DEF Claimed, Held
<1>2. QED BY <1>1, ThrownWell

LEMMA DispatchedWell ==
  ASSUME NEW r, Typed(r), WellAttempting(r), r.kind # "media", NEW s \in Dispatched(r)
  PROVE  Well(s) /\ s.phase \in {"over", "attempting"}
<1>1. CASE s = Thrown(CloseFunding(Unadmitted(r)))
  BY UnadmittedUnderWay, VerdictBooks, ClosedUnderWay, <1>1, ThrownUnfunded DEF WellAttempting, Funds, SameVerdict
<1>2. CASE s = [r EXCEPT !.phase = "attempting"]
  BY <1>2, MovedKeeps DEF Moved, Typed, Fields, WellAttempting, Well
<1>3. QED BY <1>1, <1>2 DEF Dispatched

(* A hop that is about to be sent: it is sent, or the call is thrown. *)
LEMMA PreparedWell ==
  ASSUME NEW r, Typed(r), WellAttempting(r), r.kind # "media", NEW s \in Prepared(r)
  PROVE  Well(s) /\ s.phase \in {"over", "attempting"}
<1> DEFINE u == Unadmitted(r)
<1>1. Typed(u) /\ UnderWay(u) /\ Told(u) /\ ~u.admission /\ SameVerdict(r, u)
  BY UnadmittedUnderWay DEF WellAttempting
<1>2. Line(u).confirms = 0 /\ Unbilled(u) /\ u.kind # "media" /\ ~u.maybeBilled
  BY <1>1, VerdictBooks DEF WellAttempting, Funds, SameVerdict
<1>3. CASE s = Thrown(u)
  BY <1>1, <1>2, UnderWayThrowable, <1>3, ThrownWell
<1>4. CASE s = Thrown(CloseFunding(u))
  BY <1>1, <1>2, ClosedUnderWay, <1>4, ThrownUnfunded
<1>5. CASE s \in Dispatched([r EXCEPT !.retries = IF r.kind = "deferred" THEN 0 ELSE MaxRetries])
  BY MovedKeeps, <1>5, DispatchedWell DEF Moved, Typed, Fields, WellAttempting
<1>6. QED BY <1>3, <1>4, <1>5 DEF Prepared

-----------------------------------------------------------------------------
(* A failed attempt. *)

LEMMA BilledBooks ==
  ASSUME NEW r, Typed(r), Lawfuls(r), r.funding # 0, Line(r).hard => Line(r).ending \notin Refunds
  PROVE  LET s == Bill(r)
         IN  /\ Typed(s) /\ SameFrame(r, s) /\ s.ownConfirms = r.ownConfirms /\ Lawfuls(s)
             /\ Line(s).kind = Line(r).kind /\ Line(s).hard = Line(r).hard
             /\ Line(s).ending = Line(r).ending /\ Line(s).confirms = Line(r).confirms
             /\ AllClosed(r) => AllClosed(s)
             /\ HardDeny(s) <=> HardDeny(r)
<1> DEFINE line == [Line(r) EXCEPT !.billed = TRUE]
           s == Bill(r)
<1>1. Line(r) \in Lines /\ Lawful(Line(r))
  BY CurrentLine DEF Lawfuls, Line
<1>2. /\ line \in Lines /\ line.kind = Line(r).kind /\ line.hard = Line(r).hard
      /\ line.ending = Line(r).ending /\ line.confirms = Line(r).confirms
  BY <1>1 DEF Lines
<1>3. s = Booked(r, line)  BY DEF Bill
<1> HIDE DEF line, s
<1>4. Lawful(line)  BY <1>1, <1>2 DEF Lawful
<1>5. Rewritten(r, s, line)  BY <1>2, <1>3, BookedLine
<1>6. s.funding = r.funding /\ s.ledger[r.funding] = line /\ Line(s) = line
  BY <1>5 DEF Rewritten, SameFrame, Line
<1>7. Lawfuls(s)  BY <1>4, <1>5, <1>6 DEF Lawfuls, Rewritten
<1>8. AllClosed(r) => AllClosed(s)
 <2>1. ASSUME AllClosed(r), NEW n \in DOMAIN s.ledger PROVE Closed(s.ledger[n])
  <3>1. n \in DOMAIN r.ledger /\ Closed(r.ledger[n])
    BY <1>5, <2>1 DEF AllClosed, Rewritten
  <3>2. CASE n = r.funding
    BY <1>6, <3>2, <1>2, <3>1 DEF Line, Closed
  <3>3. CASE n # r.funding
    BY <1>5, <3>1, <3>3 DEF Rewritten
  <3>4. QED BY <3>2, <3>3
 <2>2. QED BY <2>1 DEF AllClosed
<1>9. HardDeny(s) <=> HardDeny(r)  BY <1>5 DEF HardDeny, Rewritten, SameFrame
<1>10. QED BY <1>2, <1>5, <1>6, <1>7, <1>8, <1>9 DEF Rewritten, s

(* An attempt under its funding failed with e, and what it may have billed is marked. *)
Struck(r, e) ==
  /\ Typed(r) /\ UnderWay(r) /\ Funds(r) /\ r.kind # "media"
  /\ r.maybeBilled <=> Billed(r, e)
  /\ Line(r).hard /\ Line(r).billed => e.billed

LEMMA MarkedStruck ==
  ASSUME NEW r, Typed(r), WellAttempting(r), r.kind # "media", NEW e \in Errors
  PROVE  /\ Struck(Marked(r, e), e) /\ Marked(r, e).phase = r.phase
         /\ ~e.billed => Moved(r, Marked(r, e))
         /\ Billed(Marked(r, e), e) <=> Billed(r, e)
<1> DEFINE m == [r EXCEPT !.maybeBilled = @ \/ Billed(r, e)]
           s == Marked(r, e)
<1>1. /\ DOMAIN m = Fields /\ SameVerdict([r EXCEPT !.maybeBilled = m.maybeBilled], m)
      /\ m.receipts = r.receipts /\ m.admission = r.admission /\ m.failed = r.failed
      /\ m.blames = r.blames /\ m.ledger = r.ledger /\ m.funding = r.funding
      /\ m.ownConfirms = r.ownConfirms /\ m.readmission = r.readmission /\ m.kind = r.kind
      /\ m.phase = r.phase /\ m.at = r.at /\ m.handle = r.handle /\ m.settled = r.settled
      /\ m.transferred = r.transferred /\ m.registered = r.registered /\ m.wrapper = r.wrapper
      /\ m.connected = r.connected /\ m.late = r.late /\ m.events = r.events
  BY DEF Typed, Fields, SameVerdict
<1>2. m.maybeBilled <=> Billed(r, e)  BY DEF Typed, Fields, WellAttempting
<1>3. s = IF e.billed /\ r.funding # 0 THEN Bill(m) ELSE m
  BY DEF Marked
<1> HIDE DEF m, s
<1>4. /\ Typed(m) /\ Line(m) = Line(r) /\ (HardDeny(m) <=> HardDeny(r)) /\ Funds(m) /\ Unbilled(m)
  BY <1>1 DEF Typed, Line, HardDeny, Funds, Unbilled, WellAttempting
<1>5. UnderWay(m)
  BY <1>1, <1>2, <1>4 DEF Alive, UnderWay, WellAttempting, Lawfuls, Counted, Remembered, Idle, Streaming, Billed
<1>6. Billed(m, e) <=> Billed(r, e)  BY <1>4 DEF Billed
<1>7. CASE ~e.billed
  BY <1>3, <1>7, <1>1, <1>2, <1>4, <1>5, <1>6 DEF Struck, Unbilled, Moved, WellAttempting, Billed, Typed, s
<1>8. CASE e.billed
  BY <1>4, <1>5, <1>1, <1>3, <1>8, BilledBooks, <1>2, <1>6 DEF Funds, UnderWay, Alive, Refunds, SameFrame, Counted, Remembered, Idle, Streaming, Billed, Struck, s
<1>9. QED BY <1>7, <1>8

(* What is told of a failed attempt, and its verdict. *)
LEMMA ToldStruck ==
  ASSUME NEW r, NEW e \in Errors, Struck(r, e), NEW judged \in {Unadmitted(r), RecordBreakerFailureDedup(r)},
         NEW verdict \in {"error", "uncertain"}
  PROVE  LET s == Reported(judged, verdict)
         IN  /\ SameVerdict(r, s) /\ Typed(s) /\ Lawfuls(s) /\ Funds(s) /\ Idle(s) /\ Told(s)
             /\ ~s.admission /\ ~s.settled /\ s.ownConfirms = 0 /\ s.events = 0 /\ Counted(s)
             /\ Final1(s.receipts) /\ s.receipts # {}
             /\ verdict = "error" => UnderWay(s)
             /\ ~Billed(r, e) => Unbilled(s)
<1> DEFINE s == Reported(judged, verdict)
<1>1. /\ SameVerdict(r, judged) /\ judged.receipts = r.receipts
      /\ ~judged.admission /\ Counted(judged) /\ Remembered(judged)
  BY JudgedVerdict DEF Struck, UnderWay, Alive
<1>2. /\ SameVerdict(judged, s) /\ s.receipts = r.receipts \union {verdict}
      /\ s.admission = judged.admission /\ s.failed = judged.failed /\ s.blames = judged.blames
  BY <1>1, ReportedVerdict DEF SameVerdict
<1> HIDE DEF s
<1>3. SameVerdict(r, s)  BY <1>1, <1>2, VerdictTwice
<1>4. Typed(s) /\ Lawfuls(s) /\ Funds(s) /\ Idle(s) /\ Line(s) = Line(r) /\ (HardDeny(s) <=> HardDeny(r))
  BY <1>3, VerdictBooks DEF Struck, UnderWay, Alive
<1>5. Counted(s) /\ Remembered(s) /\ ~s.admission
  BY <1>1, <1>2 DEF Counted, Remembered
<1>6. r.receipts \subseteq {"error"} /\ ~s.settled /\ s.ownConfirms = 0 /\ s.events = 0
  BY <1>3 DEF Struck, UnderWay, Alive, SameVerdict
<1>7. Final1(s.receipts) /\ s.receipts # {} /\ Told(s)
  BY <1>2, <1>6 DEF Final, Final1, Told
<1>8. verdict = "error" => UnderWay(s)  BY <1>2, <1>3, <1>5, <1>6, VerdictUnderWay DEF Struck
<1>9. ~Billed(r, e) => Unbilled(s)  BY <1>4 DEF Billed, Unbilled, Struck, Funds
<1>10. QED BY <1>3, <1>4, <1>5, <1>6, <1>7, <1>8, <1>9 DEF s

(* Funding that is ended under a told call leaves it to be thrown. *)
LEMMA PaidThrown ==
  ASSUME NEW s, Typed(s), Lawfuls(s), Idle(s), Told(s), ~s.admission, ~s.settled,
         s.ownConfirms = 0, s.events = 0, Counted(s), Final1(s.receipts),
         NEW p, NEW n \in 0 .. 1, Pays(s, p, n)
  PROVE  Well(Thrown(p)) /\ Thrown(p).phase = "over"
<1>1. /\ Typed(p) /\ Lawfuls(p) /\ AllClosed(p) /\ SameFrame(s, p) /\ Told(p)
      /\ p.ownConfirms \in 0 .. 1
  BY KeepsTold DEF Pays, Settles, Keeps
<1>2. ~Claimed(p)
  BY <1>1, CurrentLine DEF AllClosed, Line, Claimed, Held, Closed, ClaimKinds
<1>3. Throwable(p)  BY <1>1, <1>2 DEF Throwable, SameFrame, Idle, Counted
<1>4. QED BY <1>3, ThrownWell

LEMMA HopFailedWell ==
  ASSUME NEW r, NEW e \in Errors, Struck(r, e), NEW ends \in BOOLEAN, NEW s \in HopFailed(r, e, ends)
  PROVE  Well(s) /\ s.phase \in {"over", "walking"}
<1> DEFINE possibly == /\ e.disposition = "post_send_ambiguous"
                       /\ r.mode # "always" \/ r.kind = "deferred"
           advances == ~ends /\ e.disposition # "fail_fast" /\ ~possibly
           judged == IF e.disposition = "fail_fast" THEN Unadmitted(r) ELSE RecordBreakerFailureDedup(r)
           verdict == IF possibly THEN "uncertain" ELSE "error"
           t == Reported(judged, verdict)
<1>1. PICK p \in IF Billed(r, e) THEN EndFunding(t, TRUE, ~advances) ELSE {t} :
             s = IF advances THEN [p EXCEPT !.phase = "walking"] ELSE Thrown(p)
  BY DEF HopFailed
<1>2. judged \in {Unadmitted(r), RecordBreakerFailureDedup(r)} /\ verdict \in {"error", "uncertain"}
  OBVIOUS
<1>3. /\ SameVerdict(r, t) /\ Typed(t) /\ Lawfuls(t) /\ Funds(t) /\ Idle(t) /\ Told(t)
      /\ ~t.admission /\ ~t.settled /\ t.ownConfirms = 0 /\ t.events = 0 /\ Counted(t)
      /\ Final1(t.receipts) /\ t.receipts # {}
      /\ verdict = "error" => UnderWay(t)
      /\ ~Billed(r, e) => Unbilled(t)
  BY <1>2, ToldStruck
<1>4. advances \in BOOLEAN /\ (advances => verdict = "error")
  OBVIOUS
<1> HIDE DEF t, verdict, judged
<1>5. CASE Billed(r, e)
 <2>1. p \in EndFunding(t, TRUE, ~advances)  BY <1>1, <1>5
 <2>2. t.funding # 0 /\ Line(t).confirms = 0
   BY <1>3 DEF Funds
 <2>3. Pays(t, p, IF ~advances THEN 1 ELSE 0)
   BY <1>3, <2>1, <2>2, EndFundingPays
 <2>4. CASE advances
  <3>1. /\ Typed(p) /\ Lawfuls(p) /\ AllClosed(p) /\ SameFrame(t, p) /\ Told(p)
        /\ p.ownConfirms = 0 /\ UnderWay(t)
    BY <1>3, <1>4, <2>3, <2>4, KeepsTold DEF Pays, Settles, Keeps
  <3>2. t.kind # "media" /\ t.maybeBilled
    BY <1>3, <1>5 DEF SameVerdict, Struck
  <3>3. Alive(p)  BY <3>1 DEF Alive, UnderWay, SameFrame, Counted, Remembered
  <3>4. UnderWay(p)  BY <3>1, <3>2, <3>3 DEF UnderWay, SameFrame, Idle, Streaming, HardDeny
  <3>5. s = [p EXCEPT !.phase = "walking"]  BY <1>1, <2>4
  <3>6. Moved(p, s) /\ s.phase = "walking"
    BY <3>1, <3>5 DEF Moved, Typed, Fields
  <3>7. Typed(s) /\ UnderWay(s) /\ Told(s)
    BY <3>1, <3>4, <3>6, MovedKeeps
  <3>8. s.maybeBilled /\ ~s.admission /\ s.funding # 0
    BY <1>3, <2>2, <3>1, <3>2, <3>6 DEF SameFrame, Moved
  <3>9. QED BY <3>6, <3>7, <3>8 DEF Well, WellWalking
 <2>5. CASE ~advances
   BY <1>1, <2>3, <2>5, <1>3, PaidThrown
 <2>6. QED BY <2>4, <2>5
<1>6. CASE ~Billed(r, e)
 <2>1. p = t /\ ~t.maybeBilled /\ Unbilled(t)
   BY <1>1, <1>3, <1>6 DEF SameVerdict, Struck
 <2>2. CASE advances
   BY <1>1, <1>3, <1>4, <2>1, <2>2, MovedKeeps DEF Moved, Typed, Fields, Well, WellWalking, Funds
 <2>3. CASE ~advances
   BY <1>1, <2>1, <2>3, <1>3, ThrownWell DEF Throwable
 <2>4. QED BY <2>2, <2>3
<1>7. QED BY <1>5, <1>6

-----------------------------------------------------------------------------
(* The steps of a walk. *)

(* A frame that holds nothing is dropped. *)
LEMMA OverWell ==
  ASSUME NEW q, Typed(q), Lawfuls(q), AllClosed(q), Counted(q), Told(q),
         q.ownConfirms \in 0 .. 1, q.events \in 0 .. 1, Final1(q.receipts),
         ~q.admission, ~q.registered, q.wrapper = "none", ~q.handle
  PROVE  Well(Over(q)) /\ Over(q).phase = "over"
<1> DEFINE s == Over(q)
<1>1. Leaves(q, s) /\ ~s.handle
  BY DEF Leaves, Over, Typed, Fields
<1> HIDE DEF s
<1>2. Well(s)  BY <1>1, LeavesWell
<1>3. QED BY <1>1, <1>2 DEF Leaves, s

LEMMA OverBegun ==
  ASSUME NEW r, Typed(r), WellBegun(r), NEW s \in {Over(r), Over(Denied(r))}
  PROVE  Well(s) /\ s.phase = "over"
<1>1. DOMAIN r.ledger = {}  BY DEF WellBegun
<1>2. PICK q \in {r, Denied(r)} : s = Over(q)
  OBVIOUS
<1>3. SameVerdict(r, q) /\ q.admission = r.admission /\ q.blames = r.blames /\ q.receipts \subseteq {"denied"}
  BY ReportedVerdict DEF SameVerdict, Typed, WellBegun, Denied
<1>4. Typed(q) /\ DOMAIN q.ledger = {}
  BY <1>1, <1>3, VerdictBooks DEF SameVerdict
<1>5. Lawfuls(q) /\ AllClosed(q) /\ Told(q) /\ Counted(q) /\ Final1(q.receipts)
  BY <1>3, <1>4 DEF Lawfuls, AllClosed, Told, Counted, Final1, WellBegun, Alive
<1>6. /\ q.ownConfirms = 0 /\ q.events = 0 /\ ~q.admission /\ ~q.registered
      /\ q.wrapper = "none" /\ ~q.handle
  BY <1>3 DEF SameVerdict, WellBegun, Alive, Idle
<1>7. QED BY <1>2, <1>4, <1>5, <1>6, OverWell

(* The line a check or a re-admission adds. *)
NewLine(g) ==
  /\ g \in Lines /\ g.ending = "held" /\ ~g.billed /\ g.confirms = 0
  /\ g.kind = "uncounted" => ~g.hard

LEMMA GrantsNew ==
  /\ \A g \in Grants \union LeaseGrants : NewLine(g)
  /\ \A g \in Grants : g.kind \notin ClaimKinds
<1>1. \A k \in {"none", "per_call", "lease", "uncounted"}, h \in BOOLEAN :
        (k = "uncounted" => ~h) => NewLine(Grant(k, h))
  BY DEF Grant, NewLine, Lines
<1>2. \A k \in {"none", "per_call", "lease", "uncounted"}, h \in BOOLEAN : Grant(k, h).kind = k
  BY DEF Grant
<1>3. \A g \in Grants : NewLine(g) /\ g.kind \notin ClaimKinds
  BY <1>1, <1>2 DEF Grants, ClaimKinds
<1>4. \A g \in LeaseGrants : NewLine(g)
  BY <1>1, <1>2 DEF LeaseGrants
<1>5. QED BY <1>3, <1>4

(* r is funded by g, and all that it had before is closed. *)
LEMMA FundedUnderWay ==
  ASSUME NEW r, Typed(r), Alive(r), Idle(r), Told(r), AllClosed(r), r.handle => Streaming(r),
         NEW g, NewLine(g), r.kind = "media" => ~r.admission /\ g.kind \notin ClaimKinds,
         NEW s, DOMAIN s = Fields, s.at = r.at, s.kind = r.kind, s.admission = r.admission,
         s.ledger = Append(r.ledger, g), s.funding = Len(r.ledger) + 1,
         HardDeny(s) <=> g.hard, ~s.maybeBilled,
         s.handle => Streaming(s), s.ownConfirms = r.ownConfirms, s.events = r.events,
         s.receipts = r.receipts, s.settled = r.settled, s.transferred = r.transferred,
         s.registered = r.registered, s.wrapper = r.wrapper, s.failed = r.failed, s.blames = r.blames
  PROVE  Typed(s) /\ WellAttempting(s)
<1> DEFINE l == r.ledger
           k == Len(l) + 1
<1>1. /\ l \in Seq(Lines) /\ g \in Lines
      /\ s.ledger \in Seq(Lines) /\ Len(s.ledger) = k /\ DOMAIN s.ledger = 1 .. k
      /\ DOMAIN l = 1 .. (k - 1) /\ k \in Nat \ {0}
      /\ s.ledger[k] = g /\ \A n \in 1 .. (k - 1) : s.ledger[n] = l[n]
  BY DEF Typed, NewLine
<1>2. Typed(s)  BY <1>1 DEF Typed
<1>3. Line(s) = g /\ s.funding = k
  BY <1>1 DEF Line
<1> HIDE DEF k, l
<1>4. \A n \in DOMAIN s.ledger : n = k \/ (n \in 1 .. (k - 1) /\ s.ledger[n] = l[n])
  BY <1>1
<1>5. Lawfuls(s)
  BY <1>1, <1>3, <1>4 DEF NewLine, Lawful, Alive, Lawfuls, AllClosed, l
<1>6. Told(s)
 <2>1. ASSUME NEW n \in DOMAIN s.ledger, s.ledger[n].billed PROVE s.receipts # {}
   BY <1>1, <1>4, <2>1 DEF NewLine, Told, l
 <2>2. QED BY <2>1 DEF Told
<1>7. Alive(s)  BY <1>5 DEF Alive, Counted, Remembered
<1>8. UnderWay(s)  BY <1>3, <1>7 DEF UnderWay, Idle
<1>9. Funds(s) /\ Unbilled(s)
  BY <1>1, <1>3 DEF Funds, Unbilled, NewLine
<1>10. QED BY <1>2, <1>6, <1>8, <1>9 DEF WellAttempting

(* HardDeny is what the last grant said. *)
LEMMA HardReadmission ==
  ASSUME NEW s, NEW g, NEW e \in Entry, NEW priced,
         s.readmission = IF g.hard THEN [entry |-> e, chainPriced |-> priced] ELSE NotReadmitted
  PROVE  HardDeny(s) <=> g.hard
<1>1. [entry |-> e, chainPriced |-> priced] # NotReadmitted
  BY ClientCallAssumption DEF NotReadmitted
<1>2. QED BY <1>1 DEF HardDeny

LEMMA FundedWell ==
  ASSUME NEW r, Typed(r), WellBegun(r), NEW g, NewLine(g), r.kind = "media" => g.kind \notin ClaimKinds,
         NEW s \in {Over(Denied(ReleaseFunding(Funded(r, g)))),
                    [Funded(r, g) EXCEPT !.phase = "walking", !.handle = Streaming(Funded(r, g))]}
  PROVE  Well(s) /\ s.phase \in {"over", "walking"}
<1> DEFINE f == Funded(r, g)
<1>1. /\ DOMAIN f = Fields /\ f.at = r.at /\ f.kind = r.kind /\ f.admission = r.admission
      /\ f.ledger = Append(r.ledger, g) /\ f.funding = Len(r.ledger) + 1 /\ f.maybeBilled = r.maybeBilled
      /\ f.handle = r.handle /\ f.ownConfirms = r.ownConfirms /\ f.events = r.events
      /\ f.receipts = r.receipts /\ f.settled = r.settled /\ f.transferred = r.transferred
      /\ f.registered = r.registered /\ f.wrapper = r.wrapper /\ f.failed = r.failed /\ f.blames = r.blames
      /\ f.readmission = IF g.hard THEN [entry |-> Primary, chainPriced |-> g.kind = "lease"] ELSE NotReadmitted
  BY DEF Funded, Typed, Fields
<1> HIDE DEF f
<1>2. AllClosed(r) /\ Told(r)
  BY DEF WellBegun, AllClosed, Told
<1>3. HardDeny(f) <=> g.hard  BY <1>1, HardReadmission, ClientCallAssumption
<1>4. Typed(f) /\ WellAttempting(f)
  BY <1>1, <1>2, <1>3, FundedUnderWay DEF WellBegun
<1>5. CASE s = Over(Denied(ReleaseFunding(f)))
 <2> DEFINE q == ReleaseFunding(f)
            d == Denied(q)
 <2>1. Settles(f, q) /\ q.ownConfirms = f.ownConfirms
   BY <1>4, FreeSettles DEF WellAttempting, UnderWay, Alive
 <2> HIDE DEF q
 <2>2. Typed(q) /\ Lawfuls(q) /\ AllClosed(q) /\ SameFrame(f, q)
   BY <2>1 DEF Settles, Keeps
 <2>3. SameVerdict(q, d) /\ d.receipts = q.receipts \union {"denied"} /\ d.admission = q.admission /\ d.blames = q.blames
   BY <2>2, ReportedVerdict DEF Denied, Typed
 <2> HIDE DEF d
 <2>4. Typed(d) /\ Lawfuls(d) /\ AllClosed(d)
   BY <2>2, <2>3, VerdictBooks DEF AllClosed, SameVerdict
 <2>5. d.receipts = {"denied"} /\ Counted(d)
   BY <1>1, <2>2, <2>3 DEF SameFrame, WellBegun, Alive, Counted
 <2>6. Told(d) /\ Final1(d.receipts)
   BY <2>5 DEF Told, Final1
 <2>7. /\ d.ownConfirms = 0 /\ d.events = 0 /\ ~d.admission /\ ~d.registered
       /\ d.wrapper = "none" /\ ~d.handle
   BY <1>1, <2>1, <2>2, <2>3 DEF SameFrame, SameVerdict, WellBegun, Alive, Idle
 <2>8. QED BY <1>5, <2>4, <2>5, <2>6, <2>7, OverWell DEF d, q
<1>6. CASE s = [f EXCEPT !.phase = "walking", !.handle = Streaming(f)]
 <2>1. /\ DOMAIN s = Fields /\ s.at = f.at /\ s.kind = f.kind /\ s.admission = f.admission
       /\ s.ledger = f.ledger /\ s.funding = f.funding /\ s.maybeBilled = f.maybeBilled
       /\ s.handle = Streaming(f) /\ s.ownConfirms = f.ownConfirms /\ s.events = f.events
       /\ s.receipts = f.receipts /\ s.settled = f.settled /\ s.transferred = f.transferred
       /\ s.registered = f.registered /\ s.wrapper = f.wrapper /\ s.failed = f.failed /\ s.blames = f.blames
       /\ s.readmission = f.readmission /\ s.phase = "walking"
   BY <1>1, <1>6 DEF Fields
 <2>2. (HardDeny(s) <=> g.hard) /\ (s.handle => Streaming(s))
   BY <1>3, <2>1 DEF HardDeny, Streaming
 <2>3. Typed(s) /\ WellAttempting(s)
  <3>1. /\ s.at = r.at /\ s.kind = r.kind /\ s.admission = r.admission
        /\ s.ledger = Append(r.ledger, g) /\ s.funding = Len(r.ledger) + 1 /\ ~s.maybeBilled
        /\ s.ownConfirms = r.ownConfirms /\ s.events = r.events
        /\ s.receipts = r.receipts /\ s.settled = r.settled /\ s.transferred = r.transferred
        /\ s.registered = r.registered /\ s.wrapper = r.wrapper /\ s.failed = r.failed /\ s.blames = r.blames
    BY <1>1, <2>1 DEF WellBegun
  <3>2. Alive(r) /\ Idle(r) /\ ~r.handle /\ ~r.admission
    BY DEF WellBegun
  <3>3. QED BY <1>2, <2>1, <2>2, <3>1, <3>2, FundedUnderWay
 <2>4. ~s.admission /\ s.funding # 0
   BY <1>1, <2>1, <2>3 DEF WellBegun, WellAttempting, Funds
 <2>5. QED BY <2>1, <2>3, <2>4 DEF Well, WellWalking, WellAttempting
<1>7. QED BY <1>5, <1>6 DEF f

LEMMA WalkEndsWell ==
  ASSUME NEW r, Typed(r), WellWalking(r)
  PROVE  Well(Thrown(r)) /\ Thrown(r).phase = "over"
<1>1. Throwable(r)  BY UnderWayThrowable DEF WellWalking
<1>2. QED BY <1>1, ThrownWell

LEMMA SkippedWell ==
  ASSUME NEW r, Typed(r), WellWalking(r), r.phase = "walking", NEW e \in Entry
  PROVE  LET s == [r EXCEPT !.tried = @ \union {e}, !.at = e]
         IN  Typed(s) /\ WellWalking(s) /\ s.phase = "walking" /\ s.kind = r.kind
<1> DEFINE s == [r EXCEPT !.tried = @ \union {e}, !.at = e]
<1>1. Moved(r, s) /\ s.phase = "walking"
  BY DEF Moved, Typed, Fields
<1> HIDE DEF s
<1>2. Typed(s) /\ WellWalking(s) /\ s.kind = r.kind
  BY <1>1, MovedKeeps DEF WellWalking, Moved
<1>3. QED BY <1>1, <1>2 DEF s

LEMMA HopWell ==
  ASSUME NEW q, Typed(q), WellWalking(q), q.kind # "media",
         NEW s \in LET r == [q EXCEPT !.admission = TRUE]
                   IN  IF NeedsReadmission(r) THEN {[CloseFunding(r) EXCEPT !.phase = "readmitting"]}
                       ELSE Prepared(r)
  PROVE  Well(s) /\ s.phase \in {"over", "readmitting", "attempting"}
<1> DEFINE r == [q EXCEPT !.admission = TRUE]
<1>1. /\ DOMAIN r = Fields /\ r.kind = q.kind /\ r.at = q.at /\ r.ledger = q.ledger /\ r.funding = q.funding
      /\ r.ownConfirms = q.ownConfirms /\ r.readmission = q.readmission /\ r.maybeBilled = q.maybeBilled
      /\ r.failed = q.failed /\ r.blames = q.blames /\ r.handle = q.handle
      /\ r.transferred = q.transferred /\ r.settled = q.settled /\ r.registered = q.registered
      /\ r.wrapper = q.wrapper /\ r.events = q.events /\ r.receipts = q.receipts
  BY DEF Typed, Fields
<1> HIDE DEF r
<1>2. Typed(r) /\ Line(r) = Line(q) /\ (HardDeny(r) <=> HardDeny(q)) /\ Told(r)
  BY <1>1 DEF Typed, Line, HardDeny, WellWalking, Told
<1>3. Alive(r)  BY <1>1 DEF Alive, WellWalking, UnderWay, Lawfuls, Counted, Remembered
<1>4. UnderWay(r)  BY <1>1, <1>2, <1>3 DEF UnderWay, WellWalking, Idle, Streaming
<1>5. ~r.maybeBilled => Funds(r) /\ Unbilled(r)
  BY <1>1, <1>2 DEF WellWalking, Funds, Unbilled
<1>6. CASE NeedsReadmission(r)
 <2> DEFINE p == CloseFunding(r)
 <2>1. Typed(p) /\ UnderWay(p) /\ Told(p) /\ p.funding = 0 /\ p.kind # "media"
   BY <1>1, <1>2, <1>4, <1>5, ClosedUnderWay DEF Funds
 <2>2. s = [p EXCEPT !.phase = "readmitting"]  BY <1>6 DEF r
 <2> HIDE DEF p
 <2>3. Moved(p, s) /\ s.phase = "readmitting"
   BY <2>1, <2>2 DEF Moved, Typed, Fields
 <2>4. QED BY <2>1, <2>3, MovedKeeps DEF Well, WellReadmitting, Moved
<1>7. CASE ~NeedsReadmission(r)
  BY <1>4, <1>7, <1>2, <1>5, <1>1, PreparedWell DEF NeedsReadmission, UnderWay, WellAttempting, r
<1>8. QED BY <1>6, <1>7

(* A media call is sent once, if there is time. *)
LEMMA MediaHopWell ==
  ASSUME NEW r, Typed(r), WellWalking(r), r.kind = "media"
  PROVE  Well([r EXCEPT !.phase = "attempting"])
<1> DEFINE s == [r EXCEPT !.phase = "attempting"]
<1>1. Moved(r, s) /\ s.phase = "attempting"
  BY DEF Moved, Typed, Fields, WellWalking
<1> HIDE DEF s
<1>2. Typed(s) /\ WellAttempting(s)
  BY <1>1, MovedKeeps DEF WellWalking, WellAttempting, Moved, UnderWay
<1>3. QED BY <1>1, <1>2 DEF Well, s

LEMMA ReadmittedWell ==
  ASSUME NEW r, Typed(r), WellReadmitting(r), NEW g \in Grants, NEW s \in Prepared(Refunded(r, g))
  PROVE  Well(s) /\ s.phase \in {"over", "attempting"}
<1> DEFINE f == Refunded(r, g)
<1>1. /\ DOMAIN f = Fields /\ f.at = r.at /\ f.kind = r.kind /\ f.admission = r.admission
      /\ f.ledger = Append(r.ledger, g) /\ f.funding = Len(r.ledger) + 1 /\ ~f.maybeBilled
      /\ f.handle = r.handle /\ f.ownConfirms = r.ownConfirms /\ f.events = r.events
      /\ f.receipts = r.receipts /\ f.settled = r.settled /\ f.transferred = r.transferred
      /\ f.registered = r.registered /\ f.wrapper = r.wrapper /\ f.failed = r.failed /\ f.blames = r.blames
      /\ f.readmission = IF g.hard THEN [entry |-> r.at, chainPriced |-> FALSE] ELSE NotReadmitted
  BY DEF Refunded, Typed, Fields
<1> HIDE DEF f
<1>2. AllClosed(r)
  BY DEF Typed, AllClosed, WellReadmitting, UnderWay, Alive, Lawfuls
<1>3. HardDeny(f) <=> g.hard  BY <1>1, HardReadmission DEF Typed
<1>4. NewLine(g) /\ g.kind \notin ClaimKinds
  BY GrantsNew
<1>5. Alive(r) /\ Idle(r) /\ Told(r) /\ (r.handle => Streaming(r)) /\ r.kind # "media"
  BY DEF WellReadmitting, UnderWay
<1>6. f.handle => Streaming(f)  BY <1>1, <1>5 DEF Streaming
<1>7. Typed(f) /\ WellAttempting(f)
  BY <1>1, <1>2, <1>3, <1>4, <1>5, <1>6, FundedUnderWay
<1>8. f.kind # "media"  BY <1>1, <1>5
<1>9. QED BY <1>7, <1>8, PreparedWell DEF f

LEMMA DeniedHopWell ==
  ASSUME NEW r, Typed(r), WellReadmitting(r),
         NEW s \in {Thrown(Unadmitted(r)), Thrown(Denied([Unadmitted(r) EXCEPT !.maybeBilled = FALSE]))}
  PROVE  Well(s) /\ s.phase = "over"
<1> DEFINE u == Unadmitted(r)
           v == [u EXCEPT !.maybeBilled = FALSE]
           d == Denied(v)
<1>1. Typed(u) /\ UnderWay(u) /\ Told(u) /\ ~u.admission /\ SameVerdict(r, u)
  BY UnadmittedUnderWay DEF WellReadmitting
<1> HIDE DEF u
<1>2. u.funding = 0  BY <1>1 DEF SameVerdict, WellReadmitting
<1>3. CASE s = Thrown(u)
  BY <1>1, <1>2, <1>3, ThrownUnfunded
<1>4. CASE s = Thrown(d)
 <2>1. /\ DOMAIN v = Fields /\ v.at = u.at /\ v.ledger = u.ledger /\ v.funding = 0
       /\ v.ownConfirms = u.ownConfirms /\ v.admission = u.admission /\ v.blames = u.blames
       /\ v.transferred = u.transferred /\ v.settled = u.settled /\ v.registered = u.registered
       /\ v.wrapper = u.wrapper /\ v.events = u.events /\ v.receipts = u.receipts
   BY <1>1, <1>2 DEF Typed, Fields
 <2> HIDE DEF v
 <2>2. /\ SameVerdict(v, d) /\ d.receipts = v.receipts \union {"denied"}
       /\ d.admission = v.admission /\ d.blames = v.blames
   BY <2>1, ReportedVerdict DEF Denied
 <2> HIDE DEF d
 <2>3. Typed(d) /\ Lawfuls(d)
   BY <1>1, <1>2, <2>1, <2>2 DEF Typed, SameVerdict, Lawfuls, UnderWay, Alive
 <2>4. Final1(d.receipts) /\ Told(d)
   BY <1>1, <2>1, <2>2 DEF UnderWay, Alive, Final, Final1, Told
 <2>5. /\ Counted(d) /\ d.ownConfirms = 0 /\ d.events = 0 /\ ~d.admission /\ Idle(d) /\ ~d.settled
       /\ d.funding = 0
   BY <1>1, <2>1, <2>2 DEF SameVerdict, UnderWay, Alive, Idle, Counted
 <2>6. Throwable(d)  BY <2>3, <2>4, <2>5 DEF Throwable, Claimed, Held
 <2>7. QED BY <1>4, <2>6, ThrownWell
<1>5. QED BY <1>3, <1>4 DEF u

(* The ways an attempt may fail. *)
LEMMA AbortedWell ==
  ASSUME NEW r, Typed(r), WellAttempting(r), r.kind # "media", NEW e \in Errors,
         NEW p \in LET q == Reported(Unadmitted(Marked(r, e)), "uncertain")
                   IN  IF Billed(r, e) THEN EndFunding(q, TRUE, TRUE) ELSE {q}
  PROVE  Well(Thrown(p)) /\ Thrown(p).phase = "over"
<1> DEFINE m == Marked(r, e)
           q == Reported(Unadmitted(m), "uncertain")
<1>1. Struck(m, e) /\ (Billed(m, e) <=> Billed(r, e))
  BY MarkedStruck
<1> HIDE DEF m
<1>2. /\ SameVerdict(m, q) /\ Typed(q) /\ Lawfuls(q) /\ Funds(q) /\ Idle(q) /\ Told(q)
      /\ ~q.admission /\ ~q.settled /\ q.ownConfirms = 0 /\ q.events = 0 /\ Counted(q)
      /\ Final1(q.receipts) /\ q.receipts # {}
      /\ ~Billed(m, e) => Unbilled(q)
  BY <1>1, ToldStruck
<1>3. p \in IF Billed(r, e) THEN EndFunding(q, TRUE, TRUE) ELSE {q}
  BY DEF m
<1> HIDE DEF q
<1>4. CASE Billed(r, e)
 <2>1. Pays(q, p, 1)  BY <1>2, <1>3, <1>4, EndFundingPays DEF Funds
 <2>2. QED BY <1>2, <2>1, PaidThrown
<1>5. CASE ~Billed(r, e)
  BY <1>1, <1>2, <1>3, <1>5, ThrownWell DEF Throwable
<1>6. QED BY <1>4, <1>5

LEMMA GuardedWell ==
  ASSUME NEW r, Typed(r), WellAttempting(r),
         NEW p \in EndFunding(Bill(Reported(Unadmitted(r), "uncertain")), TRUE, TRUE)
  PROVE  Well(Thrown(p)) /\ Thrown(p).phase = "over"
<1> DEFINE u == Unadmitted(r)
           q == Reported(u, "uncertain")
           b == Bill(q)
<1>1. /\ SameVerdict(r, u) /\ ~u.admission /\ u.receipts = r.receipts
      /\ Counted(u)
  BY JudgedVerdict DEF WellAttempting, UnderWay, Alive
<1>2. /\ SameVerdict(u, q) /\ q.receipts = u.receipts \union {"uncertain"}
      /\ q.admission = u.admission /\ q.blames = u.blames
  BY <1>1, ReportedVerdict DEF SameVerdict
<1> HIDE DEF u
<1>3. SameVerdict(r, q)  BY <1>1, <1>2, VerdictTwice
<1> HIDE DEF q
<1>4. Typed(q) /\ Lawfuls(q) /\ Funds(q) /\ Idle(q)
  BY <1>3, VerdictBooks DEF WellAttempting, UnderWay, Alive
<1>5. /\ Typed(b) /\ SameFrame(q, b) /\ b.ownConfirms = q.ownConfirms /\ Lawfuls(b)
      /\ Line(b).confirms = 0
  BY <1>4, BilledBooks DEF Funds, Refunds
<1>6. p \in EndFunding(b, TRUE, TRUE)  BY DEF b, q, u
<1> HIDE DEF b
<1>7. b.receipts # {} /\ Final1(b.receipts) /\ Told(b)
  BY <1>1, <1>2, <1>5 DEF SameFrame, WellAttempting, UnderWay, Alive, Final, Final1, Told
<1>8. /\ Idle(b) /\ ~b.admission /\ ~b.settled /\ b.ownConfirms = 0 /\ b.events = 0 /\ Counted(b)
      /\ b.funding # 0
  BY <1>1, <1>2, <1>3, <1>4, <1>5
     DEF SameFrame, SameVerdict, Idle, Counted, Funds, WellAttempting, UnderWay, Alive
<1>9. Pays(b, p, 1)  BY <1>5, <1>6, <1>8, EndFundingPays
<1>10. QED BY <1>5, <1>7, <1>8, <1>9, PaidThrown

LEMMA RetriedWell ==
  ASSUME NEW r, Typed(r), WellAttempting(r), r.kind # "media",
         NEW e \in Errors, e.disposition = "failover", e.retry
  PROVE  Well([Marked(r, e) EXCEPT !.retries = @ - 1, !.error = e, !.phase = "sleeping"])
<1> DEFINE m == Marked(r, e)
           s == [m EXCEPT !.retries = @ - 1, !.error = e, !.phase = "sleeping"]
<1>1. ~e.billed  BY ClientCallAssumption
<1>2. Moved(r, m)  BY <1>1, MarkedStruck
<1> HIDE DEF m
<1>3. Typed(m) /\ WellAttempting(m) /\ m.kind # "media"
  BY <1>2, MovedKeeps DEF WellAttempting, Moved
<1>4. Moved(m, s) /\ s.phase = "sleeping" /\ s.error = e
  BY <1>3 DEF Moved, Typed, Fields
<1> HIDE DEF s
<1>5. Typed(s) /\ WellAttempting(s) /\ s.kind # "media"
  BY <1>3, <1>4, MovedKeeps DEF WellAttempting, Moved
<1>6. QED BY <1>1, <1>4, <1>5 DEF Well, WellSleeping, s, m

LEMMA WokenWell ==
  ASSUME NEW r, Typed(r), WellSleeping(r),
         NEW s \in UNION {Dispatched(r), HopFailed(r, r.error, TRUE), HopFailed(r, r.error, FALSE)}
  PROVE  Well(s) /\ s.phase \in {"over", "attempting", "walking"}
<1>1. CASE s \in Dispatched(r)
  BY <1>1, DispatchedWell DEF WellSleeping
<1>2. ASSUME NEW ends \in BOOLEAN, s \in HopFailed(r, r.error, ends)
      PROVE  Well(s) /\ s.phase \in {"over", "walking"}
  BY <1>2, HopFailedWell DEF Struck, WellSleeping, WellAttempting, Billed, Unbilled
<1>3. QED BY <1>1, <1>2

-----------------------------------------------------------------------------
(* A served attempt. *)

LEMMA BegunWell ==
  ASSUME NEW r, Typed(r), WellBegun(r), NEW s, DOMAIN s = Fields, s.phase = "checking",
         s.at = r.at, s.ledger = r.ledger, s.funding = r.funding, s.maybeBilled = r.maybeBilled,
         s.ownConfirms = r.ownConfirms, s.admission = r.admission, s.failed = r.failed,
         s.blames = r.blames, s.handle = r.handle, s.transferred = r.transferred,
         s.settled = r.settled, s.registered = r.registered, s.wrapper = r.wrapper,
         s.events = r.events, s.receipts = r.receipts
  PROVE  Well(s)
<1>1. Typed(s)  BY DEF Typed
<1>2. Alive(s)  BY DEF WellBegun, Alive, Lawfuls, Counted, Remembered
<1>3. WellBegun(s)  BY <1>2 DEF WellBegun, Idle
<1>4. QED BY <1>1, <1>3 DEF Well

(* q was served under its funding: it is billed, and its end is told. *)
Billing(q) ==
  /\ Typed(q) /\ Lawfuls(q) /\ q.funding # 0 /\ Line(q).confirms = 0
  /\ ~q.handle /\ Idle(q) /\ ~q.admission /\ ~q.settled /\ Counted(q)
  /\ q.ownConfirms = 0 /\ q.events = 1 /\ Final1(q.receipts) /\ Told(q)

LEMMA ServedBilling ==
  ASSUME NEW r, Typed(r), WellAttempting(r), ~Streaming(r), NEW verdict \in {"success", "error"}
  PROVE  LET q == Reported(Served(r), verdict)
         IN  Billing(q) /\ Line(q).kind = Line(r).kind /\ q.kind = r.kind
<1> DEFINE u == Unadmitted(r)
           b == Bill(u)
           v == Served(r)
           q == Reported(v, verdict)
<1>1. /\ Typed(u) /\ UnderWay(u) /\ Told(u) /\ ~u.admission /\ SameVerdict(r, u)
      /\ u.receipts = r.receipts
  BY UnadmittedUnderWay DEF WellAttempting
<1>2. v = [b EXCEPT !.events = @ + 1]  BY DEF Served
<1> HIDE DEF u, v
<1>3. Lawfuls(u) /\ Funds(u) /\ Idle(u) /\ Line(u) = Line(r)
  BY <1>1, VerdictBooks DEF WellAttempting, UnderWay, Alive
<1>4. /\ Typed(b) /\ SameFrame(u, b) /\ b.ownConfirms = u.ownConfirms /\ Lawfuls(b)
      /\ Line(b).kind = Line(u).kind /\ Line(b).confirms = 0
  BY <1>1, <1>3, BilledBooks DEF Funds, Refunds
<1> HIDE DEF b
<1>5. /\ DOMAIN v = Fields /\ v.events = b.events + 1 /\ v.at = b.at /\ v.kind = b.kind
      /\ v.ledger = b.ledger /\ v.funding = b.funding /\ v.ownConfirms = b.ownConfirms
      /\ v.handle = b.handle /\ v.transferred = b.transferred /\ v.registered = b.registered
      /\ v.wrapper = b.wrapper /\ v.admission = b.admission /\ v.settled = b.settled
      /\ v.blames = b.blames /\ v.receipts = b.receipts
  BY <1>2, <1>4 DEF Typed, Fields
<1>6. /\ SameVerdict(v, q) /\ q.receipts = v.receipts \union {verdict}
      /\ q.admission = v.admission /\ q.blames = v.blames
  BY <1>5, ReportedVerdict
<1> HIDE DEF q
<1>7. Typed(q) /\ Lawfuls(q) /\ Line(q) = Line(b) /\ q.kind = r.kind
  BY <1>1, <1>4, <1>5, <1>6 DEF Typed, Lawfuls, Line, SameVerdict, SameFrame
<1>8. Final1(q.receipts) /\ Told(q)
  BY <1>1, <1>4, <1>5, <1>6 DEF UnderWay, Alive, SameFrame, Final, Final1, Told
<1>9. ~u.handle  BY <1>1 DEF UnderWay, SameVerdict, Streaming
<1>10. /\ q.funding # 0 /\ ~q.handle /\ Idle(q) /\ ~q.admission /\ ~q.settled /\ Counted(q)
       /\ q.ownConfirms = 0 /\ q.events = 1
  BY <1>1, <1>3, <1>4, <1>5, <1>6, <1>9
     DEF SameVerdict, SameFrame, Idle, Counted, Funds, UnderWay, Alive
<1>11. Billing(q) /\ Line(q).kind = Line(r).kind /\ q.kind = r.kind
  BY <1>3, <1>4, <1>7, <1>8, <1>10 DEF Billing
<1>12. QED BY <1>11 DEF q, v

(* The claim of a served call is settled, or it is one that measures nothing. *)
LEMMA BillingWell ==
  ASSUME NEW q, Billing(q),
         NEW p, \/ p = q /\ ~Leased(q) /\ (Claimed(q) => Unbilled(q))
                \/ p \in SettlePaidCall(q, "measured")
  PROVE  Well(SettledBuffered(p)) /\ SettledBuffered(p).phase = "over"
<1> DEFINE f == IF Leased(p) THEN p ELSE ReleaseFunding(p)
           s == SettledBuffered(p)
<1>1. Settles(q, f) /\ f.ownConfirms \in 0 .. 1
 <2>1. CASE p = q /\ ~Leased(q) /\ (Claimed(q) => Unbilled(q))
   BY <2>1, FreeSettles DEF Billing
 <2>2. CASE p \in SettlePaidCall(q, "measured")
  <3>1. Pays(q, p, 1)  BY <2>2, SettlePaidPays DEF Billing
  <3>2. Settles(q, p) /\ p.ownConfirms \in 0 .. 1 /\ Typed(p) /\ Lawfuls(p) /\ AllClosed(p)
    BY <3>1 DEF Pays, Billing, Settles, Keeps
  <3>3. ~Claimed(p)
    BY <3>2, CurrentLine DEF AllClosed, Line, Claimed, Held, Closed, ClaimKinds
  <3>4. f = p  BY <3>3 DEF ReleaseFunding
  <3>5. QED BY <3>2, <3>4
 <2>3. QED BY <2>1, <2>2
<1>2. s = [Over(f) EXCEPT !.settled = TRUE]  BY DEF SettledBuffered
<1> HIDE DEF f, s
<1>3. /\ Typed(f) /\ Lawfuls(f) /\ AllClosed(f) /\ SameFrame(q, f) /\ Told(f)
  BY <1>1, KeepsTold DEF Settles, Keeps, Billing
<1>4. /\ Counted(f) /\ f.events \in 0 .. 1 /\ Final1(f.receipts) /\ ~f.admission
      /\ ~f.registered /\ f.wrapper = "none" /\ ~f.handle
  BY <1>3 DEF SameFrame, Billing, Counted, Idle
<1>5. Leaves(f, s) /\ ~s.handle
  BY <1>2, <1>3, <1>4 DEF Leaves, Over, Typed, Fields
<1>6. Well(s)  BY <1>1, <1>3, <1>4, <1>5, LeavesWell
<1>7. QED BY <1>5, <1>6 DEF Leaves, s

(* A grant of the uncounted kind denies nothing. *)
LEMMA UnpaidUnbilled ==
  ASSUME NEW q, Typed(q), Lawfuls(q), ~Payable(q)
  PROVE  Claimed(q) => Unbilled(q)
<1>1. ASSUME Claimed(q) PROVE Unbilled(q)
  BY <1>1, CurrentLine DEF Claimed, Held, Payable, Lawfuls, Line, Lawful, Unbilled
<1>2. QED BY <1>1

LEMMA ServedBufferedWell ==
  ASSUME NEW r, Typed(r), WellAttempting(r), r.kind = "buffered", NEW verdict \in {"success", "error"},
         NEW p \in LET q == Reported(Served(r), verdict)
                   IN  IF Payable(q) THEN SettlePaidCall(q, "measured") ELSE {q}
  PROVE  Well(SettledBuffered(p)) /\ SettledBuffered(p).phase = "over"
<1> DEFINE q == Reported(Served(r), verdict)
<1>1. Billing(q)  BY ServedBilling DEF Streaming
<1>2. p \in IF Payable(q) THEN SettlePaidCall(q, "measured") ELSE {q}
  OBVIOUS
<1> HIDE DEF q
<1>3. CASE Payable(q)
  BY <1>2, <1>3, <1>1, BillingWell
<1>4. CASE ~Payable(q)
  BY <1>2, <1>4, <1>1, UnpaidUnbilled, BillingWell DEF Payable, Leased, Billing
<1>5. QED BY <1>3, <1>4

(* Nothing is claimed for media. *)
LEMMA ServedMediaWell ==
  ASSUME NEW r, Typed(r), WellAttempting(r), r.kind = "media",
         NEW p \in LET q == Reported(Served(r), "success")
                   IN  {q} \union IF Payable(q) THEN SettlePaidCall(q, "measured") ELSE {}
  PROVE  Well(SettledBuffered(p)) /\ SettledBuffered(p).phase = "over"
<1> DEFINE q == Reported(Served(r), "success")
<1>1. Billing(q) /\ Line(q).kind = Line(r).kind
  BY ServedBilling DEF Streaming
<1>2. Line(r).kind \notin ClaimKinds  BY DEF WellAttempting, UnderWay, Funds
<1>3. p = q \/ p \in SettlePaidCall(q, "measured")
  OBVIOUS
<1> HIDE DEF q
<1>4. ~Leased(q) /\ ~Claimed(q)
  BY <1>1, <1>2 DEF Leased, Claimed, ClaimKinds
<1>5. QED BY <1>1, <1>3, <1>4, BillingWell

LEMMA MediaFailsWell ==
  ASSUME NEW r, Typed(r), WellAttempting(r), r.kind = "media"
  PROVE  LET s == Over(ReleaseFunding(Reported(r, "error")))
         IN  Well(s) /\ s.phase = "over"
<1> DEFINE q == Reported(r, "error")
           f == ReleaseFunding(q)
<1>1. /\ SameVerdict(r, q) /\ q.receipts = r.receipts \union {"error"}
      /\ q.admission = r.admission /\ q.blames = r.blames
  BY ReportedVerdict DEF Typed
<1> HIDE DEF q
<1>2. Typed(q) /\ Lawfuls(q) /\ Idle(q) /\ Unbilled(q)
  BY <1>1, VerdictBooks DEF WellAttempting, UnderWay, Alive
<1>3. q.receipts \cap Final \subseteq {"error"} /\ q.receipts # {}
  BY <1>1 DEF WellAttempting, UnderWay, Alive, Final
<1>4. Final1(q.receipts) /\ Told(q)
  BY <1>3 DEF Final1, Told
<1>5. /\ ~q.handle /\ ~q.admission /\ Counted(q) /\ q.ownConfirms = 0 /\ q.events = 0
  BY <1>1 DEF WellAttempting, UnderWay, Alive, SameVerdict, Streaming, Counted
<1>6. Settles(q, f) /\ f.ownConfirms = q.ownConfirms
  BY <1>2, FreeSettles
<1> HIDE DEF f
<1>7. Typed(f) /\ Lawfuls(f) /\ AllClosed(f) /\ SameFrame(q, f) /\ Told(f)
  BY <1>4, <1>6, KeepsTold DEF Settles, Keeps
<1>8. /\ Counted(f) /\ f.events \in 0 .. 1 /\ Final1(f.receipts) /\ ~f.admission
      /\ ~f.registered /\ f.wrapper = "none" /\ ~f.handle /\ f.ownConfirms \in 0 .. 1
  BY <1>2, <1>4, <1>5, <1>6, <1>7 DEF SameFrame, Counted, Idle
<1>9. Well(Over(f)) /\ Over(f).phase = "over"
  BY <1>7, <1>8, OverWell
<1>10. QED BY <1>9 DEF f, q

(* An unsettled stream; one that has not connected yet was not billed. *)
Running(r) ==
  /\ Typed(r) /\ r.phase = "streaming" /\ Streaming(r) /\ ~r.settled
  /\ Alive(r) /\ Funds(r) /\ ~r.maybeBilled /\ r.wrapper = "live" /\ r.registered
Opened(r) == Running(r) /\ (~r.connected => Unbilled(r))

LEMMA OpenedWell ==
  ASSUME NEW r, Opened(r)
  PROVE  Well(r)
BY DEF Opened, Running, Well, WellStreaming, Funds

LEMMA StreamOpens ==
  ASSUME NEW r, Typed(r), WellAttempting(r), Streaming(r), NEW late \in BOOLEAN
  PROVE  LET opened == IF r.kind = "stream" THEN Bill(r) ELSE r
             s == [HandedOver(opened) EXCEPT
                     !.phase = "streaming", !.tried = {}, !.mode = "safe", !.wrapper = "live",
                     !.registered = TRUE, !.late = late, !.connected = r.kind = "stream"]
         IN  Well(s) /\ s.phase = "streaming" /\ s.late = late
<1> DEFINE o == IF r.kind = "stream" THEN Bill(r) ELSE r
           s == [HandedOver(o) EXCEPT
                   !.phase = "streaming", !.tried = {}, !.mode = "safe", !.wrapper = "live",
                   !.registered = TRUE, !.late = late, !.connected = r.kind = "stream"]
<1>1. Lawfuls(r) /\ Funds(r) /\ Unbilled(r)
  BY DEF WellAttempting, UnderWay, Alive
<1>2. /\ Typed(o) /\ SameFrame(r, o) /\ o.ownConfirms = r.ownConfirms /\ Lawfuls(o) /\ Funds(o)
      /\ r.kind # "stream" => Unbilled(o)
 <2>1. CASE r.kind = "stream"
   BY <2>1, <1>1, BilledBooks DEF Funds, Refunds, SameFrame
 <2>2. CASE r.kind # "stream"
   BY <2>2, <1>1 DEF SameFrame, Typed
 <2>3. QED BY <2>1, <2>2
<1> HIDE DEF o
<1>3. /\ DOMAIN s = Fields /\ s.phase = "streaming" /\ s.wrapper = "live" /\ s.registered
      /\ s.late = late /\ (s.connected <=> r.kind = "stream") /\ s.at = o.at /\ s.kind = o.kind
      /\ s.ledger = o.ledger /\ s.funding = o.funding /\ s.readmission = o.readmission
      /\ s.maybeBilled = o.maybeBilled /\ s.ownConfirms = o.ownConfirms /\ s.failed = o.failed
      /\ s.blames = o.blames /\ s.settled = o.settled /\ s.events = o.events /\ s.receipts = o.receipts
  BY <1>2 DEF HandedOver, Typed, Fields
<1> HIDE DEF s
<1>4. Typed(s) /\ Line(s) = Line(o) /\ Lawfuls(s) /\ Funds(s) /\ Streaming(s)
  BY <1>2, <1>3 DEF Typed, Line, Lawfuls, Funds, HardDeny, Streaming, SameFrame
<1>5. Alive(s)
  BY <1>2, <1>3, <1>4 DEF Alive, WellAttempting, UnderWay, SameFrame, Counted, Remembered
<1>6. Opened(s)
  BY <1>2, <1>3, <1>4, <1>5 DEF Opened, Running, Unbilled, Alive, WellAttempting, SameFrame
<1>7. Well(s)  BY <1>6, OpenedWell
<1>8. QED BY <1>3, <1>7 DEF s, o

-----------------------------------------------------------------------------
(* The settlement of a stream. *)

(* A stream whose end is told, and whose funding is yet to be ended. *)
Settling(s) ==
  /\ Typed(s) /\ s.phase = "streaming" /\ Streaming(s) /\ s.settled
  /\ Lawfuls(s) /\ Funds(s) /\ Counted(s)
  /\ s.ownConfirms = 0 /\ s.events \in 0 .. 1 /\ Final1(s.receipts) /\ s.receipts # {}

(* A settled stream, which may still hold its admission and the run. *)
Done(s) ==
  /\ Typed(s) /\ s.phase = "streaming" /\ Streaming(s) /\ s.settled
  /\ s.funding # 0 /\ (HardDeny(s) <=> Line(s).hard)
  /\ Lawfuls(s) /\ AllClosed(s) /\ Counted(s)
  /\ s.ownConfirms \in 0 .. 1 /\ s.events \in 0 .. 1 /\ Final1(s.receipts) /\ s.receipts # {}

(* An end that is told of a stream that was judged. *)
Ends(r, s, verdict) ==
  /\ DOMAIN s = Fields /\ s.kind = r.kind /\ s.phase = r.phase /\ s.at = r.at
  /\ s.ledger = r.ledger /\ s.funding = r.funding /\ s.readmission = r.readmission
  /\ s.ownConfirms = r.ownConfirms /\ s.settled /\ s.events \in 0 .. 1
  /\ s.receipts = r.receipts \union {verdict}
  /\ Counted(s)

LEMMA EndsSettling ==
  ASSUME NEW r, Running(r), NEW s, NEW verdict, Ends(r, s, verdict)
  PROVE  /\ Settling(s) /\ Line(s) = Line(r) /\ (HardDeny(s) <=> HardDeny(r))
         /\ (Unbilled(s) <=> Unbilled(r))
<1>1. /\ Typed(s) /\ Line(s) = Line(r) /\ (HardDeny(s) <=> HardDeny(r)) /\ Streaming(s)
  BY DEF Ends, Running, Typed, Line, HardDeny, Streaming
<1>2. Lawfuls(s) /\ Funds(s) /\ (Unbilled(s) <=> Unbilled(r))
  BY <1>1 DEF Ends, Running, Alive, Lawfuls, Funds, Unbilled
<1>3. s.receipts \cap Final \subseteq {verdict} /\ s.receipts # {}
  BY DEF Ends, Running, Alive, Final
<1>4. Final1(s.receipts)  BY <1>3 DEF Final1
<1>5. QED BY <1>1, <1>2, <1>3, <1>4 DEF Settling, Ends, Running, Alive

LEMMA SettledDone ==
  ASSUME NEW s, Settling(s), NEW p, Settles(s, p), p.ownConfirms \in 0 .. 1
  PROVE  Done(p) /\ (HardDeny(p) <=> HardDeny(s)) /\ p.wrapper = s.wrapper /\ p.kind = s.kind
<1>1. /\ Typed(p) /\ Lawfuls(p) /\ AllClosed(p) /\ SameFrame(s, p)
  BY DEF Settles, Keeps
<1>2. s.funding \in DOMAIN s.ledger  BY CurrentLine DEF Settling, Funds
<1>3. Line(p).hard = Line(s).hard  BY <1>1, <1>2 DEF Settles, Keeps, Line, SameFrame
<1>4. (HardDeny(p) <=> HardDeny(s)) /\ Streaming(p) /\ Counted(p)
  BY <1>1 DEF HardDeny, SameFrame, Settling, Streaming, Counted
<1>5. QED BY <1>1, <1>3, <1>4 DEF Done, Settling, Funds, SameFrame

LEMMA SettlingCharged ==
  ASSUME NEW s, Settling(s)
  PROVE  Typed(s) /\ Lawfuls(s) /\ s.funding # 0 /\ Line(s).confirms = 0 /\ Charged(s)
BY DEF Settling, Funds, Charged, Refunds

(* The funding of an ended stream is ended as the floor says. *)
LEMMA FlooredDone ==
  ASSUME NEW s, Settling(s), NEW floor \in BOOLEAN, ~floor /\ Claimed(s) => Unbilled(s),
         NEW p \in EndFunding(s, floor, TRUE)
  PROVE  /\ Done(p) /\ (HardDeny(p) <=> HardDeny(s)) /\ p.wrapper = s.wrapper
         /\ floor \/ ~Claimed(s) => Charged(p)
<1>1. /\ Typed(s) /\ Lawfuls(s) /\ s.funding # 0 /\ Line(s).confirms = 0 /\ Charged(s)
  BY SettlingCharged
<1>2. Pays(s, p, 1) /\ (floor /\ Charged(s) => Charged(p))
  BY <1>1, EndFundingPays
<1>3. Settles(s, p) /\ p.ownConfirms \in 0 .. 1
  BY <1>2 DEF Pays, Settling
<1>4. ~floor /\ ~Claimed(s) => p = s
  BY DEF EndFunding, ReleaseFunding
<1>5. QED BY <1>1, <1>2, <1>3, <1>4, SettledDone

(* What was measured is paid; after that nothing is claimed, and ending it is a stutter. *)
LEMMA PaidDone ==
  ASSUME NEW s, Settling(s), NEW p \in SettlePaidCall(s, "measured")
  PROVE  /\ Done(p) /\ (HardDeny(p) <=> HardDeny(s)) /\ p.wrapper = s.wrapper
         /\ Charged(p) /\ EndFunding(p, FALSE, TRUE) = {p}
<1>1. /\ Typed(s) /\ Lawfuls(s) /\ s.funding # 0 /\ Line(s).confirms = 0 /\ Charged(s)
  BY SettlingCharged
<1>2. Pays(s, p, 1) /\ Charged(p)
  BY <1>1, SettlePaidPays
<1>3. Settles(s, p) /\ p.ownConfirms \in 0 .. 1
  BY <1>2 DEF Pays, Settling
<1>4. Done(p) /\ (HardDeny(p) <=> HardDeny(s)) /\ p.wrapper = s.wrapper
  BY <1>3, SettledDone
<1>5. ~Claimed(p)
  BY <1>4, CurrentLine DEF Done, AllClosed, Line, Claimed, Held, Closed, ClaimKinds
<1>6. EndFunding(p, FALSE, TRUE) = {p}  BY <1>5 DEF EndFunding, ReleaseFunding
<1>7. QED BY <1>2, <1>4, <1>6

LEMMA UnadmittedOpened ==
  ASSUME NEW r, Opened(r)
  PROVE  Opened(Unadmitted(r))
<1> DEFINE s == Unadmitted(r)
<1>1. /\ SameVerdict(r, s) /\ s.receipts = r.receipts /\ ~s.admission /\ Counted(s) /\ Remembered(s)
  BY JudgedVerdict DEF Opened, Running, Alive
<1> HIDE DEF s
<1>2. Typed(s) /\ Lawfuls(s) /\ Funds(s) /\ (Unbilled(r) => Unbilled(s))
  BY <1>1, VerdictBooks DEF Opened, Running, Alive
<1>3. Opened(s)  BY <1>1, <1>2 DEF Opened, Running, Alive, SameVerdict, Streaming
<1>4. QED BY <1>3 DEF s

(* completeStream ends an open stream; one under hard deny that did not run to its *)
(* end keeps its floor.                                                              *)
LEMMA SettleStreamDone ==
  ASSUME NEW r, Opened(r), NEW natural \in BOOLEAN, NEW p \in SettleStream(r, natural)
  PROVE  /\ Done(p) /\ p.wrapper = "live"
         /\ HardDeny(p) => Charged(p)
<1> DEFINE unknown == HardDeny(r) /\ ~natural
           s == [Unadmitted(r) EXCEPT !.settled = TRUE, !.registered = FALSE]
           l == Reported(s, "lost")
           t == Reported(s, "success")
           v == [t EXCEPT !.events = @ + 1]
           paid == IF Payable(s) /\ ~unknown THEN SettlePaidCall(v, "measured") ELSE {v}
<1>1. DOMAIN r = Fields /\ r.events = 0
  BY DEF Opened, Running, Typed, Alive
<1>2. /\ DOMAIN s = Fields /\ s.kind = r.kind /\ s.phase = r.phase /\ s.at = r.at
      /\ s.ledger = r.ledger /\ s.funding = r.funding /\ s.readmission = r.readmission
      /\ s.ownConfirms = r.ownConfirms /\ s.settled /\ s.events = 0
      /\ s.receipts = r.receipts /\ s.blames = r.blames /\ s.wrapper = r.wrapper
  BY <1>1 DEF Unadmitted, Fields
<1>3. \/ p \in EndFunding(l, HardDeny(r), TRUE)
      \/ \E q \in paid : p \in IF ~Leased(q) \/ unknown THEN EndFunding(q, unknown, TRUE) ELSE {q}
  BY DEF SettleStream
<1>4. (Payable(v) <=> Payable(s)) /\ (Leased(v) <=> Leased(s))
  BY <1>2 DEF Payable, Leased, Line, Reported, Fields
<1> HIDE DEF s
<1>5. /\ DOMAIN t = Fields /\ t.kind = s.kind /\ t.phase = s.phase /\ t.at = s.at
      /\ t.ledger = s.ledger /\ t.funding = s.funding /\ t.readmission = s.readmission
      /\ t.ownConfirms = s.ownConfirms /\ t.settled = s.settled /\ t.events = s.events
      /\ t.receipts = s.receipts \union {"success"} /\ t.blames = s.blames /\ t.wrapper = s.wrapper
  BY <1>2 DEF Reported, Fields
<1> HIDE DEF t
<1>6. Ends(r, v, "success") /\ v.wrapper = "live"
 <2>1. /\ DOMAIN v = Fields /\ v.kind = t.kind /\ v.phase = t.phase /\ v.at = t.at
       /\ v.ledger = t.ledger /\ v.funding = t.funding /\ v.readmission = t.readmission
       /\ v.ownConfirms = t.ownConfirms /\ v.settled = t.settled /\ v.events = t.events + 1
       /\ v.receipts = t.receipts /\ v.blames = t.blames /\ v.wrapper = t.wrapper
   BY <1>5 DEF Fields
 <2> HIDE DEF v
 <2>2. QED BY <1>2, <1>5, <2>1 DEF Ends, Opened, Running, Alive, Counted
<1>7. Ends(r, l, "lost") /\ l.wrapper = "live"
  BY <1>2 DEF Ends, Reported, Fields, Opened, Running, Alive, Counted
<1> HIDE DEF v, l
<1>8. /\ Settling(v) /\ Settling(l) /\ (HardDeny(v) <=> HardDeny(r)) /\ (HardDeny(l) <=> HardDeny(r))
  BY <1>6, <1>7, EndsSettling DEF Opened
<1>9. CASE p \in EndFunding(l, HardDeny(r), TRUE)
  BY <1>8, <1>9, <1>7, FlooredDone DEF HardDeny, Settling, Funds, Unbilled
<1>10. ASSUME NEW q \in paid, p \in IF ~Leased(q) \/ unknown THEN EndFunding(q, unknown, TRUE) ELSE {q}
       PROVE  Done(p) /\ p.wrapper = "live" /\ (HardDeny(p) => Charged(p))
 <2>1. CASE Payable(s) /\ ~unknown
  <3>1. q \in SettlePaidCall(v, "measured") /\ ~unknown
    BY <2>1
  <3>2. Done(q) /\ q.wrapper = "live" /\ Charged(q) /\ EndFunding(q, FALSE, TRUE) = {q}
    BY <1>6, <1>8, <3>1, PaidDone
  <3>3. p = q  BY <1>10, <3>1, <3>2
  <3>4. QED BY <3>2, <3>3
 <2>2. CASE ~(Payable(s) /\ ~unknown)
  <3>1. q = v  BY <2>2
  <3>2. p \in EndFunding(v, unknown, TRUE)  BY <1>4, <1>10, <2>2, <3>1 DEF Payable, Leased
  <3>3. unknown \in BOOLEAN /\ (unknown => HardDeny(v))
    BY <1>8 DEF HardDeny
  <3>4. ~unknown => ~Payable(v)  BY <1>4, <2>2
  <3>5. ~unknown => (Claimed(v) => Unbilled(v)) /\ (HardDeny(v) => ~Claimed(v))
    BY <1>8, CurrentLine, <3>4 DEF Settling, Lawfuls, Funds, Line, Payable, Claimed, Held, Lawful, Unbilled
  <3> HIDE DEF unknown
  <3>6. /\ Done(p) /\ (HardDeny(p) <=> HardDeny(v)) /\ p.wrapper = v.wrapper
        /\ unknown \/ ~Claimed(v) => Charged(p)
    BY <1>8, <3>2, <3>3, <3>5, FlooredDone
  <3>7. QED BY <1>6, <3>3, <3>5, <3>6
 <2>3. QED BY <2>1, <2>2
<1>11. QED BY <1>3, <1>9, <1>10

LEMMA BilledRunning ==
  ASSUME NEW r, Running(r)
  PROVE  Running(Bill(r)) /\ (HardDeny(Bill(r)) <=> HardDeny(r))
<1> DEFINE s == Bill(r)
<1>1. Lawfuls(r) /\ Line(r).ending = "held" /\ r.funding # 0
  BY DEF Running, Alive, Funds
<1>2. /\ Typed(s) /\ SameFrame(r, s) /\ s.ownConfirms = r.ownConfirms /\ Lawfuls(s)
      /\ Line(s).hard = Line(r).hard /\ Line(s).ending = Line(r).ending
      /\ Line(s).confirms = Line(r).confirms /\ (HardDeny(s) <=> HardDeny(r))
  BY <1>1, BilledBooks DEF Running, Refunds
<1> HIDE DEF s
<1>3. Funds(s) /\ Streaming(s)
  BY <1>2 DEF Running, Funds, SameFrame, Streaming
<1>4. Alive(s)  BY <1>2 DEF Running, Alive, SameFrame, Counted, Remembered
<1>5. Running(s)  BY <1>2, <1>3, <1>4 DEF Running, SameFrame
<1>6. QED BY <1>2, <1>5 DEF s

LEMMA JudgedEnds ==
  ASSUME NEW r, Running(r), NEW judged \in {Unadmitted(r), RecordBreakerFailureDedup(r)}, NEW verdict
  PROVE  LET s == [Reported(judged, verdict) EXCEPT !.settled = TRUE, !.registered = FALSE, !.events = @ + 1]
         IN  Ends(r, s, verdict) /\ s.wrapper = "live"
<1> DEFINE t == Reported(judged, verdict)
           s == [t EXCEPT !.settled = TRUE, !.registered = FALSE, !.events = @ + 1]
<1>1. /\ SameVerdict(r, judged) /\ judged.receipts = r.receipts /\ Counted(judged)
  BY JudgedVerdict DEF Running, Alive
<1>2. /\ SameVerdict(judged, t) /\ t.receipts = judged.receipts \union {verdict} /\ t.blames = judged.blames
  BY <1>1, ReportedVerdict DEF SameVerdict
<1>3. SameVerdict(r, t) /\ t.receipts = r.receipts \union {verdict} /\ Counted(t)
  BY <1>1, <1>2, VerdictTwice DEF Counted
<1> HIDE DEF t
<1>4. /\ DOMAIN s = Fields /\ s.kind = t.kind /\ s.phase = t.phase /\ s.at = t.at
      /\ s.ledger = t.ledger /\ s.funding = t.funding /\ s.readmission = t.readmission
      /\ s.ownConfirms = t.ownConfirms /\ s.settled /\ s.events = t.events + 1
      /\ s.receipts = t.receipts /\ s.blames = t.blames /\ s.wrapper = t.wrapper
  BY <1>3 DEF SameVerdict, Fields
<1> HIDE DEF s
<1>5. Ends(r, s, verdict) /\ s.wrapper = "live"
  BY <1>3, <1>4 DEF Ends, SameVerdict, Running, Alive, Counted
<1>6. QED BY <1>5 DEF s, t

(* An error ends an open stream: at its floor under hard deny, at what was *)
(* observed otherwise.                                                        *)
LEMMA StreamErrorDone ==
  ASSUME NEW r, Running(r), NEW cause \in {"failure", "neutral", "translation"},
         NEW p \in SettleStreamError(r, cause)
  PROVE  Done(p)
<1> DEFINE judged == IF cause = "failure" THEN RecordBreakerFailureDedup(r) ELSE Unadmitted(r)
           verdict == IF cause = "translation" THEN "error" ELSE "uncertain"
           s == [Reported(judged, verdict) EXCEPT !.settled = TRUE, !.registered = FALSE, !.events = @ + 1]
           observed == Payable(s) /\ ~HardDeny(s) /\ (cause = "translation" \/ (~Leased(s) /\ r.kind = "stream"))
           floor == HardDeny(r)
<1>1. \E q \in {s} \union (IF observed THEN SettlePaidCall(s, "measured") ELSE {}) :
         p \in EndFunding(q, floor, TRUE)
 <2> DEFINE paid == {s} \union (IF observed THEN SettlePaidCall(s, "measured") ELSE {})
 <2>1. SettleStreamError(r, cause) = UNION {EndFunding(q, floor, TRUE) : q \in paid}
   BY Zenon DEF SettleStreamError
 <2> HIDE DEF paid, floor
 <2>2. \E q \in paid : p \in EndFunding(q, floor, TRUE)
   BY <2>1
 <2>3. QED BY <2>2 DEF paid
<1>2. Ends(r, s, verdict)  BY JudgedEnds
<1>3. floor \in BOOLEAN /\ (observed => ~HardDeny(s))
  BY DEF HardDeny
<1> HIDE DEF s, observed
<1>4. Settling(s) /\ (HardDeny(s) <=> floor)
  BY <1>2, EndsSettling
<1> HIDE DEF floor
<1>5. CASE p \in EndFunding(s, floor, TRUE)
  BY <1>4, <1>3, <1>5, FlooredDone DEF Settling, Funds, Unbilled
<1>6. ASSUME observed, NEW q \in SettlePaidCall(s, "measured"), p \in EndFunding(q, floor, TRUE)
      PROVE  Done(p)
 <2>1. floor = FALSE  BY <1>3, <1>4, <1>6
 <2>2. Done(q) /\ EndFunding(q, FALSE, TRUE) = {q}
   BY <1>4, <1>6, PaidDone
 <2>3. p = q  BY <1>6, <2>1, <2>2
 <2>4. QED BY <2>2, <2>3
<1>7. QED BY <1>1, <1>5, <1>6

(* A Responses stream that fails before it connects. *)
LEMMA EntryErrorDone ==
  ASSUME NEW r, Opened(r), ~r.connected, NEW e \in Errors, NEW aborted \in BOOLEAN,
         NEW p \in LET known  == IF e.billed THEN Bill(r) ELSE r
                       judged == IF aborted \/ e.disposition = "fail_fast" THEN Unadmitted(known)
                                 ELSE RecordBreakerFailureDedup(known)
                       said   == Reported(judged, IF aborted \/ e.disposition = "post_send_ambiguous"
                                                  THEN "uncertain" ELSE "error")
                       s      == [said EXCEPT !.settled = TRUE, !.registered = FALSE, !.events = @ + 1]
                   IN  EndFunding(s, HardDeny(r) /\ e.billed, TRUE)
  PROVE  Done(p)
<1> DEFINE known == IF e.billed THEN Bill(r) ELSE r
           judged == IF aborted \/ e.disposition = "fail_fast" THEN Unadmitted(known)
                     ELSE RecordBreakerFailureDedup(known)
           verdict == IF aborted \/ e.disposition = "post_send_ambiguous" THEN "uncertain" ELSE "error"
           s == [Reported(judged, verdict) EXCEPT !.settled = TRUE, !.registered = FALSE, !.events = @ + 1]
           floor == HardDeny(r) /\ e.billed
<1>1. p \in EndFunding(s, floor, TRUE)  OBVIOUS
<1>2. Running(known) /\ (HardDeny(known) <=> HardDeny(r)) /\ (~e.billed => Unbilled(known))
  BY BilledRunning DEF Opened
<1> HIDE DEF known
<1>3. Ends(known, s, verdict)  BY <1>2, JudgedEnds
<1> HIDE DEF s
<1>4. Settling(s) /\ (HardDeny(s) <=> HardDeny(r)) /\ (~e.billed => Unbilled(s))
  BY <1>2, <1>3, EndsSettling
<1>5. floor \in BOOLEAN  BY ClientCallAssumption DEF HardDeny
<1>6. ~floor => Unbilled(s)  BY <1>4 DEF Settling, Funds, Unbilled
<1> HIDE DEF floor
<1>7. QED BY <1>1, <1>4, <1>5, <1>6, FlooredDone

(* A stream is open, or its settlement is done. *)
LEMMA StreamStates ==
  ASSUME NEW r, Well(r), r.phase = "streaming"
  PROVE  /\ ~r.settled => Opened(r)
         /\ r.settled => Done(r) /\ Finished(r)
BY DEF Well, WellStreaming, Opened, Running, Done, Finished

(* The wrapper has ended; nothing is left of the stream but its books. *)
LEMMA EndedWell ==
  ASSUME NEW r, Done(r)
  PROVE  LET s == [Freed(r) EXCEPT !.wrapper = "ended", !.connected = FALSE]
         IN  Well(s) /\ s.phase = "streaming" /\ s.settled
<1> DEFINE s == [Freed(r) EXCEPT !.wrapper = "ended", !.connected = FALSE]
<1>1. /\ DOMAIN s = Fields /\ s.kind = r.kind /\ s.phase = r.phase /\ s.at = r.at
      /\ s.ledger = r.ledger /\ s.funding = r.funding /\ s.readmission = r.readmission
      /\ s.ownConfirms = r.ownConfirms /\ s.settled = r.settled /\ s.events = r.events
      /\ s.receipts = r.receipts /\ s.blames = r.blames /\ s.wrapper = "ended"
      /\ ~s.admission /\ ~s.handle /\ ~s.registered
  BY DEF Freed, Unadmitted, Done, Typed, Fields
<1> HIDE DEF s
<1>2. Typed(s) /\ Line(s) = Line(r) /\ (HardDeny(s) <=> HardDeny(r)) /\ Streaming(s)
  BY <1>1 DEF Done, Typed, Line, HardDeny, Streaming
<1>3. Finished(s) /\ s.receipts # {}
  BY <1>1 DEF Finished, Done, Lawfuls, AllClosed, Counted, Told
<1>4. WellStreaming(s)  BY <1>1, <1>2, <1>3 DEF WellStreaming, Done
<1>5. QED BY <1>1, <1>2, <1>4 DEF Well, Done, s

(* The settlement is done, and the wrapper does not know yet. *)
LEMMA FreedWell ==
  ASSUME NEW r, Done(r), HardDeny(r) => Charged(r)
  PROVE  Well(Freed(r)) /\ Freed(r).phase = "streaming" /\ Freed(r).settled
<1> DEFINE s == Freed(r)
<1>1. /\ DOMAIN s = Fields /\ s.kind = r.kind /\ s.phase = r.phase /\ s.at = r.at
      /\ s.ledger = r.ledger /\ s.funding = r.funding /\ s.readmission = r.readmission
      /\ s.ownConfirms = r.ownConfirms /\ s.settled = r.settled /\ s.events = r.events
      /\ s.receipts = r.receipts /\ s.blames = r.blames
      /\ ~s.admission /\ ~s.handle /\ ~s.registered
  BY DEF Freed, Unadmitted, Done, Typed, Fields
<1> HIDE DEF s
<1>2. Typed(s) /\ Line(s) = Line(r) /\ (HardDeny(s) <=> HardDeny(r)) /\ Streaming(s)
  BY <1>1 DEF Done, Typed, Line, HardDeny, Streaming
<1>3. Finished(s) /\ s.receipts # {}
  BY <1>1 DEF Finished, Done, Lawfuls, AllClosed, Counted, Told
<1>4. WellStreaming(s)  BY <1>1, <1>2, <1>3 DEF WellStreaming, Done, Charged
<1>5. QED BY <1>1, <1>2, <1>4 DEF Well, Done, s

LEMMA CompletedDone ==
  ASSUME NEW r, Well(r), r.phase = "streaming", NEW natural \in BOOLEAN, NEW p \in CompleteStream(r, natural)
  PROVE  Done(p) /\ (~r.settled => (HardDeny(p) => Charged(p)))
<1>1. CASE r.settled
  BY <1>1, StreamStates DEF CompleteStream
<1>2. CASE ~r.settled
  BY <1>2, StreamStates, SettleStreamDone DEF CompleteStream
<1>3. QED BY <1>1, <1>2

LEMMA ConnectedWell ==
  ASSUME NEW r, Well(r), r.phase = "streaming", r.wrapper = "live"
  PROVE  LET s == [Bill(r) EXCEPT !.connected = TRUE]
         IN  Well(s) /\ s.phase = "streaming" /\ s.settled = r.settled /\ s.late = r.late
<1> DEFINE b == Bill(r)
           s == [b EXCEPT !.connected = TRUE]
<1>1. /\ Typed(r) /\ Lawfuls(r) /\ r.funding # 0 /\ (Line(r).hard => Line(r).ending \notin Refunds)
      /\ Streaming(r) /\ (HardDeny(r) <=> Line(r).hard)
  BY DEF Well, WellStreaming, Alive, Finished, Funds, Refunds
<1>2. /\ Typed(b) /\ SameFrame(r, b) /\ b.ownConfirms = r.ownConfirms /\ Lawfuls(b)
      /\ Line(b).hard = Line(r).hard /\ Line(b).ending = Line(r).ending
      /\ Line(b).confirms = Line(r).confirms /\ (AllClosed(r) => AllClosed(b))
      /\ HardDeny(b) <=> HardDeny(r)
  BY <1>1, BilledBooks
<1> HIDE DEF b
<1>3. /\ DOMAIN s = Fields /\ s.connected /\ s.kind = b.kind /\ s.phase = b.phase /\ s.at = b.at
      /\ s.ledger = b.ledger /\ s.funding = b.funding /\ s.readmission = b.readmission
      /\ s.maybeBilled = b.maybeBilled /\ s.ownConfirms = b.ownConfirms /\ s.settled = b.settled
      /\ s.events = b.events /\ s.receipts = b.receipts /\ s.failed = b.failed /\ s.blames = b.blames
      /\ s.admission = b.admission /\ s.handle = b.handle /\ s.registered = b.registered
      /\ s.wrapper = b.wrapper /\ s.late = b.late
  BY <1>2 DEF Typed, Fields
<1> HIDE DEF s
<1>4. Typed(s) /\ Line(s) = Line(b) /\ (HardDeny(s) <=> HardDeny(b)) /\ Streaming(s) /\ Lawfuls(s)
      /\ (AllClosed(r) => AllClosed(s))
  BY <1>1, <1>2, <1>3 DEF Typed, Line, HardDeny, Streaming, SameFrame, Lawfuls, AllClosed
<1>5. /\ s.phase = "streaming" /\ s.settled = r.settled /\ s.late = r.late /\ s.wrapper = "live"
      /\ s.registered = r.registered /\ s.receipts = r.receipts /\ s.funding = r.funding
  BY <1>2, <1>3 DEF SameFrame
<1>6. CASE ~r.settled
 <2>1. Running(r)  BY <1>6, StreamStates DEF Opened
 <2>2. Alive(s)  BY <1>2, <1>3, <1>4, <2>1 DEF Running, Alive, SameFrame, Counted, Remembered
 <2>3. Funds(s)  BY <1>2, <1>3, <1>4, <2>1 DEF Running, Funds, SameFrame
 <2>4. Opened(s)  BY <1>2, <1>3, <1>4, <1>5, <2>1, <2>2, <2>3 DEF Opened, Running, SameFrame
 <2>5. QED BY <1>5, <2>4, OpenedWell DEF s, b
<1>7. CASE r.settled
  BY <1>7, <1>2, <1>3, <1>4, <1>1, <1>5 DEF Well, WellStreaming, Finished, SameFrame, Counted, Told, s, b
<1>8. QED BY <1>6, <1>7

(* A probe that is given back leaves the stream open. *)
LEMMA ProbeWell ==
  ASSUME NEW r, Well(r), r.phase = "streaming", r.admission
  PROVE  LET s == Unadmitted(r)
         IN  Well(s) /\ s.phase = "streaming" /\ s.settled = r.settled /\ s.late = r.late
<1>1. Opened(r)  BY StreamStates DEF Finished
<1>2. Well(Unadmitted(r))  BY <1>1, UnadmittedOpened, OpenedWell
<1>3. SameVerdict(r, Unadmitted(r))  BY <1>1, JudgedVerdict DEF Opened, Running, Alive
<1>4. QED BY <1>2, <1>3 DEF SameVerdict

(* What a close leaves of a call. *)
LEMMA ClosedWell ==
  ASSUME NEW r, Well(r), NEW s \in SettleOnClose(r)
  PROVE  Well(s) /\ (s.phase = "streaming" => s.settled)
<1>1. CASE r.registered
 <2>1. Opened(r)
   BY <1>1, StreamStates DEF Well, WellBegun, WellWalking, WellReadmitting, WellAttempting, WellSleeping,
        WellOver, UnderWay, Idle, Finished
 <2>2. PICK p \in CompleteStream(r, FALSE) : s = Freed(p)
   BY <1>1 DEF SettleOnClose
 <2>3. Done(p) /\ (HardDeny(p) => Charged(p))
   BY <2>1, <2>2, CompletedDone DEF Opened, Running
 <2>4. QED BY <2>2, <2>3, FreedWell
<1>2. CASE ~r.registered
  BY <1>2, StreamStates DEF SettleOnClose, Opened, Running
<1>3. QED BY <1>1, <1>2

-----------------------------------------------------------------------------
(* The calls of a client. *)

LEMMA PhaseStates ==
  ASSUME NEW r, Well(r)
  PROVE  /\ Typed(r)
         /\ r.phase \in {"new", "checking"} => WellBegun(r)
         /\ r.phase = "walking" => WellWalking(r)
         /\ r.phase = "readmitting" => WellReadmitting(r)
         /\ r.phase = "attempting" => WellAttempting(r)
         /\ r.phase = "sleeping" => WellSleeping(r)
BY DEF Well

(* Only a stream outlives the close unsettled, and only one that opened after it. *)
Steady(s) == Well(s) /\ Swept(s, closing)

LEMMA OneCall ==
  ASSUME CallInv, NEW c \in Call, NEW s, Steady(s), call' = [call EXCEPT ![c] = s], UNCHANGED closing
  PROVE  CallInv'
<1>1. DOMAIN call' = Call  BY DEF CallInv
<1>2. ASSUME NEW d \in Call PROVE Well(call'[d]) /\ Swept(call'[d], closing')
  BY DEF CallInv, Steady
<1>3. QED BY <1>1, <1>2 DEF CallInv

LEMMA BecomesOne ==
  ASSUME CallInv, NEW c \in Call, NEW rs, Becomes(c, rs), \A s \in rs : Steady(s)
  PROVE  CallInv'
<1>1. PICK s \in rs : call' = [call EXCEPT ![c] = s]
  BY DEF Becomes
<1>2. QED BY <1>1, OneCall DEF Becomes

LEMMA SteadyUnlessOpen ==
  ASSUME NEW s, Well(s), s.phase # "streaming" \/ s.settled
  PROVE  Steady(s)
BY DEF Steady, Swept

LEMMA CallInit ==
  ASSUME Init
  PROVE  CallInv
<1> DEFINE b == [p \in Provider |-> 0]
           r == NewCall
<1>1. b \in [Provider -> 0 .. 1] /\ \A p \in Provider : b[p] = 0
  OBVIOUS
<1> HIDE DEF b
<1>2. r.blames = b  BY DEF NewCall, b
<1>3. /\ DOMAIN r = Fields /\ r.phase = "new" /\ r.at = Primary /\ r.ledger = <<>> /\ r.funding = 0
      /\ ~r.maybeBilled /\ r.ownConfirms = 0 /\ ~r.admission /\ ~r.handle /\ ~r.transferred
      /\ ~r.settled /\ ~r.registered /\ r.wrapper = "none" /\ r.events = 0 /\ r.receipts = {}
  BY DEF NewCall, Fields
<1> HIDE DEF r
<1>4. Typed(r)
  BY <1>3, ClientCallAssumption DEF Typed
<1>5. Alive(r)  BY <1>1, <1>2, <1>3 DEF Alive, Lawfuls, Counted, Remembered
<1>6. Well(r)  BY <1>3, <1>4, <1>5 DEF Well, WellBegun, Idle
<1>7. \A c \in Call : call[c] = r
  BY DEF Init, r
<1>8. QED BY <1>3, <1>6, <1>7 DEF CallInv, Init, Swept

LEMMA CallStep ==
  ASSUME CallInv, [Next]_vars
  PROVE  CallInv'
<1>1. CASE UNCHANGED vars
  BY <1>1 DEF vars, CallInv
<1>2. \A c \in Call : Well(call[c]) /\ Swept(call[c], closing)
  BY DEF CallInv
<1>3. ASSUME NEW c \in Call, BeginCall(c) PROVE CallInv'
 <2>1. PICK k \in Kinds \ {"media"}, m \in Modes :
         Becomes(c, {[call[c] EXCEPT !.kind = k, !.mode = m, !.phase = "checking"]})
   BY <1>3 DEF BeginCall
 <2> DEFINE s == [call[c] EXCEPT !.kind = k, !.mode = m, !.phase = "checking"]
 <2>2. Typed(call[c]) /\ WellBegun(call[c])
   BY <1>2, <1>3, PhaseStates DEF BeginCall
 <2>3. Well(s) /\ s.phase = "checking"
   BY <2>2, BegunWell DEF Typed, Fields
 <2> HIDE DEF s
 <2>4. Becomes(c, {s})  BY <2>1 DEF s
 <2>5. QED BY <2>3, <2>4, SteadyUnlessOpen, BecomesOne
<1>4. ASSUME NEW c \in Call, BeginMediaCall(c) PROVE CallInv'
 <2> DEFINE s == [call[c] EXCEPT !.kind = "media", !.phase = "checking"]
 <2>1. Becomes(c, {s})  BY <1>4 DEF BeginMediaCall
 <2>2. Typed(call[c]) /\ WellBegun(call[c])
   BY <1>2, <1>4, PhaseStates DEF BeginMediaCall
 <2>3. Well(s) /\ s.phase = "checking"
   BY <2>2, BegunWell DEF Typed, Fields
 <2> HIDE DEF s
 <2>4. QED BY <2>1, <2>3, SteadyUnlessOpen, BecomesOne
<1>5. ASSUME NEW c \in Call, BeginStopped(c) \/ CheckRefuses(c) \/ CheckDenies(c) \/ MediaCheckDenies(c)
      PROVE  CallInv'
  BY <1>2, <1>5, PhaseStates, OverBegun, SteadyUnlessOpen, BecomesOne DEF BeginStopped, CheckRefuses, CheckDenies, MediaCheckDenies
<1>6. ASSUME NEW c \in Call, CheckAdmits(c) PROVE CallInv'
 <2>1. PICK g \in Grants \union (IF call[c].kind = "media" THEN {} ELSE LeaseGrants) :
         LET r == Funded(call[c], g)
         IN  Becomes(c, {Over(Denied(ReleaseFunding(r))),
                         [r EXCEPT !.phase = "walking", !.handle = Streaming(r)]})
   BY <1>6 DEF CheckAdmits
 <2> DEFINE rs == {Over(Denied(ReleaseFunding(Funded(call[c], g)))),
                   [Funded(call[c], g) EXCEPT !.phase = "walking", !.handle = Streaming(Funded(call[c], g))]}
 <2>2. Typed(call[c]) /\ WellBegun(call[c])
   BY <1>2, <1>6, PhaseStates DEF CheckAdmits
 <2>3. NewLine(g) /\ (call[c].kind = "media" => g.kind \notin ClaimKinds)
   BY GrantsNew
 <2>4. Becomes(c, rs)  BY <2>1
 <2>5. \A s \in rs : Well(s) /\ s.phase \in {"over", "walking"}
   BY <2>2, <2>3, FundedWell
 <2> HIDE DEF rs
 <2>6. QED BY <2>4, <2>5, SteadyUnlessOpen, BecomesOne
<1>7. ASSUME NEW c \in Call, WalkEnds(c) PROVE CallInv'
  BY <1>2, <1>7, PhaseStates, WalkEndsWell, SteadyUnlessOpen, BecomesOne DEF WalkEnds
<1>8. ASSUME NEW c \in Call, call[c].phase = "walking", NEW q \in MeetCandidate(c)
      PROVE  Typed(q) /\ WellWalking(q) /\ q.phase = "walking" /\ q.kind = call[c].kind
 <2>1. PICK e \in Entry : q = [call[c] EXCEPT !.tried = @ \union {e}, !.at = e]
   BY <1>8 DEF MeetCandidate, Candidates
 <2>2. Typed(call[c]) /\ WellWalking(call[c])
   BY <1>2, <1>8, PhaseStates
 <2>3. QED BY <1>8, <2>1, <2>2, SkippedWell
<1>9. ASSUME NEW c \in Call, HopSkipped(c) PROVE CallInv'
  BY <1>9, <1>8, SteadyUnlessOpen, BecomesOne DEF HopSkipped, Well
<1>10. ASSUME NEW c \in Call, Hop(c) PROVE CallInv'
  BY <1>10, <1>8, HopWell, SteadyUnlessOpen, BecomesOne DEF Hop
<1>11. ASSUME NEW c \in Call, MediaHop(c) PROVE CallInv'
  BY <1>2, <1>11, PhaseStates, MediaHopWell, WalkEndsWell, SteadyUnlessOpen, BecomesOne DEF MediaHop, Typed, Fields
<1>12. ASSUME NEW c \in Call, HopReadmitted(c) PROVE CallInv'
  BY <1>12, <1>2, PhaseStates, ReadmittedWell, SteadyUnlessOpen, BecomesOne DEF HopReadmitted
<1>13. ASSUME NEW c \in Call, HopDenied(c) \/ HopCheckThrows(c) PROVE CallInv'
  BY <1>13, <1>2, PhaseStates, DeniedHopWell, SteadyUnlessOpen, BecomesOne DEF HopDenied, HopCheckThrows
<1>14. ASSUME NEW c \in Call, AttemptFails(c) PROVE CallInv'
 <2>1. PICK e \in Errors : Becomes(c, HopFailed(Marked(call[c], e), e, FALSE))
   BY <1>14 DEF AttemptFails
 <2>2. Typed(call[c]) /\ WellAttempting(call[c]) /\ call[c].kind # "media"
   BY <1>2, <1>14, PhaseStates DEF AttemptFails
 <2>3. Struck(Marked(call[c], e), e)  BY <2>2, MarkedStruck
 <2>4. \A s \in HopFailed(Marked(call[c], e), e, FALSE) : Well(s) /\ s.phase \in {"over", "walking"}
   BY <2>3, HopFailedWell
 <2>5. \A s \in HopFailed(Marked(call[c], e), e, FALSE) : Steady(s)
   BY <2>4, SteadyUnlessOpen
 <2>6. QED BY <2>1, <2>5, BecomesOne
<1>15. ASSUME NEW c \in Call, RetryLater(c) PROVE CallInv'
 <2>1. PICK e \in {x \in Errors : x.disposition = "failover" /\ x.retry} :
         Becomes(c, {[Marked(call[c], e) EXCEPT !.retries = @ - 1, !.error = e, !.phase = "sleeping"]})
   BY <1>15 DEF RetryLater
 <2> DEFINE s == [Marked(call[c], e) EXCEPT !.retries = @ - 1, !.error = e, !.phase = "sleeping"]
 <2>2. Typed(call[c]) /\ WellAttempting(call[c]) /\ call[c].kind # "media"
   BY <1>2, <1>15, PhaseStates DEF RetryLater
 <2>3. Well(s)  BY <2>2, RetriedWell
 <2>4. DOMAIN Marked(call[c], e) = Fields  BY <2>2, MarkedStruck DEF Struck, Typed
 <2>5. s.phase = "sleeping"  BY <2>4 DEF Fields
 <2> HIDE DEF s
 <2>6. Becomes(c, {s})  BY <2>1 DEF s
 <2>7. QED BY <2>3, <2>5, <2>6, SteadyUnlessOpen, BecomesOne
<1>16. ASSUME NEW c \in Call, Wake(c) PROVE CallInv'
  BY <1>16, <1>2, PhaseStates, WokenWell, SteadyUnlessOpen, BecomesOne DEF Wake
<1>17. ASSUME NEW c \in Call, AttemptAborted(c) PROVE CallInv'
 <2>1. PICK e \in Errors :
         LET r == Reported(Unadmitted(Marked(call[c], e)), "uncertain")
         IN  Becomes(c, {Thrown(p) : p \in IF Billed(call[c], e) THEN EndFunding(r, TRUE, TRUE) ELSE {r}})
   BY <1>17 DEF AttemptAborted
 <2> DEFINE ps == LET r == Reported(Unadmitted(Marked(call[c], e)), "uncertain")
                  IN  IF Billed(call[c], e) THEN EndFunding(r, TRUE, TRUE) ELSE {r}
 <2>2. Typed(call[c]) /\ WellAttempting(call[c]) /\ call[c].kind # "media"
   BY <1>2, <1>17, PhaseStates DEF AttemptAborted
 <2>3. \A p \in ps : Well(Thrown(p)) /\ Thrown(p).phase = "over"
   BY <2>2, AbortedWell
 <2>4. Becomes(c, {Thrown(p) : p \in ps})  BY <2>1
 <2> HIDE DEF ps
 <2>5. \A s \in {Thrown(p) : p \in ps} : Steady(s)
   BY <2>3, SteadyUnlessOpen
 <2>6. QED BY <2>4, <2>5, BecomesOne
<1>18. ASSUME NEW c \in Call, GuardFires(c) PROVE CallInv'
  BY <1>18, <1>2, PhaseStates, GuardedWell, SteadyUnlessOpen, BecomesOne DEF GuardFires
<1>19. ASSUME NEW c \in Call, ServedBuffered(c) PROVE CallInv'
  BY <1>19, <1>2, PhaseStates, ServedBufferedWell, SteadyUnlessOpen, BecomesOne DEF ServedBuffered
<1>20. ASSUME NEW c \in Call, ServedMedia(c) PROVE CallInv'
  BY <1>20, <1>2, PhaseStates, ServedMediaWell, SteadyUnlessOpen, BecomesOne DEF ServedMedia
<1>21. ASSUME NEW c \in Call, MediaFails(c) PROVE CallInv'
  BY <1>21, <1>2, PhaseStates, MediaFailsWell, SteadyUnlessOpen, BecomesOne DEF MediaFails
<1>22. ASSUME NEW c \in Call, ServedStream(c) PROVE CallInv'
 <2> DEFINE s(late) == LET opened == IF call[c].kind = "stream" THEN Bill(call[c]) ELSE call[c]
                       IN  [HandedOver(opened) EXCEPT
                              !.phase = "streaming", !.tried = {}, !.mode = "safe", !.wrapper = "live",
                              !.registered = TRUE, !.late = late, !.connected = call[c].kind = "stream"]
 <2>1. Becomes(c, {s(closing = "done")})  BY <1>22 DEF ServedStream
 <2>2. Typed(call[c]) /\ WellAttempting(call[c]) /\ Streaming(call[c])
   BY <1>2, <1>22, PhaseStates DEF ServedStream
 <2>3. \A late \in BOOLEAN : Well(s(late)) /\ s(late).phase = "streaming" /\ s(late).late = late
   BY <2>2, StreamOpens
 <2> HIDE DEF s
 <2>4. Well(s(closing = "done")) /\ s(closing = "done").late = (closing = "done")
   BY <2>3
 <2>5. Steady(s(closing = "done"))  BY <2>4 DEF Steady, Swept
 <2>6. QED BY <2>1, <2>5, BecomesOne
<1>23. ASSUME NEW c \in Call, call[c].wrapper = "live"
       PROVE  Well(call[c]) /\ call[c].phase = "streaming" /\ Swept(call[c], closing)
  BY <1>2, <1>23 DEF Well, WellBegun, WellWalking, WellReadmitting, WellAttempting, WellSleeping,
     WellOver, UnderWay, Idle
<1>24. ASSUME NEW c \in Call, NEW rs, WrapperEnds(c, rs), \A r \in rs : Done(r)
       PROVE  CallInv'
 <2> DEFINE End1(r) == [Freed(r) EXCEPT !.wrapper = "ended", !.connected = FALSE]
 <2>1. Becomes(c, {End1(r) : r \in rs})  BY <1>24 DEF WrapperEnds
 <2>2. \A r \in rs : Well(End1(r)) /\ End1(r).settled
   BY <1>24, EndedWell
 <2> HIDE DEF End1
 <2>3. \A s \in {End1(r) : r \in rs} : Steady(s)
   BY <2>2, SteadyUnlessOpen
 <2>4. QED BY <2>1, <2>3, BecomesOne
<1>25. ASSUME NEW c \in Call, Connect(c) PROVE CallInv'
 <2> DEFINE s == [Bill(call[c]) EXCEPT !.connected = TRUE]
 <2>1. Becomes(c, {s}) /\ call[c].wrapper = "live"
   BY <1>25 DEF Connect, Live
 <2>2. Well(call[c]) /\ call[c].phase = "streaming" /\ Swept(call[c], closing)
   BY <1>23, <2>1
 <2>3. Well(s) /\ s.phase = "streaming" /\ s.settled = call[c].settled /\ s.late = call[c].late
   BY <2>1, <2>2, ConnectedWell
 <2> HIDE DEF s
 <2>4. Steady(s)  BY <2>2, <2>3 DEF Steady, Swept
 <2>5. QED BY <2>1, <2>4, BecomesOne
<1>26. ASSUME NEW c \in Call, ProbeTimesOut(c) PROVE CallInv'
  BY <1>26, <1>23, ProbeWell, BecomesOne DEF ProbeTimesOut, Live, Steady, Swept
<1>27. ASSUME NEW c \in Call, StreamCompletes(c) PROVE CallInv'
  BY <1>27, <1>23, CompletedDone, <1>24 DEF StreamCompletes, Live
<1>28. ASSUME NEW c \in Call, Collected(c) PROVE CallInv'
  BY <1>28, <1>23, CompletedDone, <1>24 DEF Collected, Live
<1>29. ASSUME NEW c \in Call, StreamFails(c) PROVE CallInv'
 <2> DEFINE rs(cause) == IF call[c].settled THEN {call[c]}
                         ELSE SettleStreamError(call[c], cause) \union CompleteStream(Unadmitted(call[c]), FALSE)
 <2>1. PICK cause \in {"failure", "neutral", "translation"} : WrapperEnds(c, rs(cause))
   BY <1>29 DEF StreamFails
 <2>2. Well(call[c]) /\ call[c].phase = "streaming"
   BY <1>23, <1>29 DEF StreamFails, Live
 <2>3. \A p \in rs(cause) : Done(p)
  <3>1. CASE call[c].settled
    BY <2>2, <3>1, StreamStates
  <3>2. CASE ~call[c].settled
    BY <2>2, <3>2, StreamStates, UnadmittedOpened, OpenedWell, CompletedDone, StreamErrorDone DEF Opened, Running
  <3>3. QED BY <3>1, <3>2
 <2> HIDE DEF rs
 <2>4. QED BY <1>24, <2>1, <2>3
<1>30. ASSUME NEW c \in Call, EntryFails(c) PROVE CallInv'
 <2> DEFINE known(e) == IF e.billed THEN Bill(call[c]) ELSE call[c]
            judged(e, aborted) == IF aborted \/ e.disposition = "fail_fast" THEN Unadmitted(known(e))
                                  ELSE RecordBreakerFailureDedup(known(e))
            said(e, aborted) == Reported(judged(e, aborted), IF aborted \/ e.disposition = "post_send_ambiguous"
                                                             THEN "uncertain" ELSE "error")
            ended(e, aborted) == [said(e, aborted) EXCEPT !.settled = TRUE, !.registered = FALSE, !.events = @ + 1]
            rs(e, aborted) == IF call[c].settled THEN {call[c]}
                              ELSE EndFunding(ended(e, aborted), HardDeny(call[c]) /\ e.billed, TRUE)
 <2>1. PICK e \in Errors, aborted \in BOOLEAN : WrapperEnds(c, rs(e, aborted))
   BY <1>30 DEF EntryFails
 <2>2. Well(call[c]) /\ call[c].phase = "streaming" /\ ~call[c].connected
   BY <1>23, <1>30 DEF EntryFails, Live
 <2>3. \A p \in rs(e, aborted) : Done(p)
  <3>1. CASE call[c].settled
    BY <2>2, <3>1, StreamStates
  <3>2. CASE ~call[c].settled
    BY <2>2, <3>2, StreamStates, EntryErrorDone
  <3>3. QED BY <3>1, <3>2
 <2> HIDE DEF rs
 <2>4. QED BY <1>24, <2>1, <2>3
<1>31. CASE BeginClose
  BY <1>2, <1>31 DEF BeginClose, CallInv, Swept
<1>32. CASE CloseSettles
  BY <1>32, <1>2, ClosedWell DEF CloseSettles, CallInv, Swept
<1>33. QED
  BY <1>1, <1>3, <1>4, <1>5, <1>6, <1>7, <1>9, <1>10, <1>11, <1>12, <1>13, <1>14, <1>15, <1>16, <1>17,
<1>18, <1>19, <1>20, <1>21, <1>22, <1>25, <1>26, <1>27, <1>28, <1>29, <1>30, <1>31, <1>32 DEF Next

(* Whatever the providers, the budget, the caller and the client's close do, every *)
(* call is where its phase says: its claims, its admission, its hold on the run, its  *)
(* confirms and what it told are those of the place it is at.                          *)
THEOREM CallsAreWell == Spec => []CallInv
<1>1. Init => CallInv  BY CallInit
<1>2. CallInv /\ [Next]_vars => CallInv'
  BY CallStep
<1>3. QED BY <1>1, <1>2, PTL DEF Spec

-----------------------------------------------------------------------------
(* What the invariant says of a call wherever it is. *)

LEMMA WellCounts ==
  ASSUME NEW r, Well(r)
  PROVE  /\ Lawfuls(r) /\ Counted(r) /\ Final1(r.receipts)
         /\ r.ownConfirms <= 1 /\ r.events <= 1
<1>1. CASE Alive(r)
  BY <1>1 DEF Alive, Final1, Final
<1>2. CASE Finished(r)
  BY <1>2 DEF Finished
<1>3. Alive(r) \/ Finished(r)
  BY DEF Well, WellBegun, WellWalking, WellReadmitting, WellAttempting, WellSleeping, WellStreaming,
         WellOver, UnderWay
<1>4. QED BY <1>1, <1>2, <1>3

LEMMA AtMostOne ==
  ASSUME NEW said, Final1(said)
  PROVE  Cardinality(said \intersect Final) <= 1
<1>1. PICK x : said \cap Final \subseteq {x}
  BY DEF Final1
<1>2. IsFiniteSet({x}) /\ Cardinality({x}) = 1
  BY FS_Singleton
<1>3. QED BY <1>1, <1>2, FS_Subset

LEMMA EndedFinished ==
  ASSUME NEW r, Well(r), Ended(r)
  PROVE  Finished(r)
BY DEF Ended, Well, WellStreaming, WellOver

(* A call ends everything it opened, and each of it once, and tells its outcome: *)
(* afterwards no hop's local claim is held, nor an admission, nor the run; of its  *)
(* receipts, its own confirms and the confirms of each grant there is at most one; *)
(* a stream that ended, or was open at the client's close, is settled; and what    *)
(* may have been billed was told.                                                    *)
THEOREM CallsEndOnce == Spec => []EndsExactlyOnce
<1>1. CallInv => EndsExactlyOnce
 <2> SUFFICES ASSUME CallInv PROVE EndsExactlyOnce
   OBVIOUS
 <2>1. \A c \in Call : Well(call[c]) /\ Swept(call[c], closing)
   BY DEF CallInv
 <2>2. NothingHeldAfterwards
  <3>1. ASSUME NEW c \in Call, Ended(call[c])
        PROVE  /\ \A n \in DOMAIN call[c].ledger :
                    call[c].ledger[n].kind \in {"lease", "uncounted"} => call[c].ledger[n].ending # "held"
               /\ ~call[c].admission /\ ~call[c].handle
    BY <2>1, <3>1, EndedFinished DEF Finished, AllClosed, Closed, ClaimKinds
  <3>2. QED BY <3>1 DEF NothingHeldAfterwards
 <2>3. SettledExactlyOnce
  <3>1. ASSUME NEW c \in Call
        PROVE  /\ call[c].events <= 1 /\ call[c].ownConfirms <= 1
               /\ \A n \in DOMAIN call[c].ledger : call[c].ledger[n].confirms <= 1
               /\ call[c].phase = "streaming" /\ (closing = "done" \/ call[c].wrapper = "ended")
                    => call[c].settled \/ call[c].late
    BY <2>1, WellCounts, StreamStates DEF Lawfuls, Lawful, Opened, Running, Swept
  <3>2. QED BY <3>1 DEF SettledExactlyOnce
 <2>4. OutcomeIsTold
   BY <2>1, WellCounts, AtMostOne, EndedFinished DEF Finished, Told, OutcomeIsTold
 <2>5. QED BY <2>2, <2>3, <2>4 DEF EndsExactlyOnce
<1>2. QED BY <1>1, CallsAreWell, PTL

(* A provider is counted against at most once by a call, over all its entries, *)
(* retries and the stream it may return.                                        *)
THEOREM ProvidersBlamedOnce == Spec => []ProviderBlamedOnce
<1>1. CallInv => ProviderBlamedOnce
 <2>1. ASSUME CallInv, NEW c \in Call, NEW p \in Provider PROVE call[c].blames[p] <= 1
   BY <2>1, WellCounts DEF CallInv, Counted
 <2>2. QED BY <2>1 DEF ProviderBlamedOnce
<1>2. QED BY <1>1, CallsAreWell, PTL

(* Under hard deny, funding under which a provider may have produced billed output *)
(* is never given back, however the call goes on.                                    *)
THEOREM BilledStaysPaid == Spec => []BilledIsNeverRefunded
<1>1. CallInv => BilledIsNeverRefunded
  BY WellCounts DEF CallInv, Lawfuls, Lawful, Refunds, BilledIsNeverRefunded
<1>2. QED BY <1>1, CallsAreWell, PTL

-----------------------------------------------------------------------------
WFields ==
  [settled: BOOLEAN, terminal: BOOLEAN, latched: BOOLEAN, iterator: BOOLEAN, natural: BOOLEAN,
   iteratorClean: BOOLEAN, sourceClean: BOOLEAN, buffered: Int, consumer: {"none", "iteration", "helper"}]
WOps == {"none", "next", "return", "throw", "close", "abort"}
WRuns == [op: WOps, at: {"none", "pull", "callback", "throw", "return", "source"}, failed: BOOLEAN]
WCalls == [how: {"complete", "error"}, observed: Nat, natural: BOOLEAN]
WLogs == [calls: Seq(WCalls), released: Nat, given: Nat, aborted: BOOLEAN]
WEnvs == [pulled: Nat, ended: BOOLEAN, stopAt: Nat \cup {-1}, asks: Nat, fanout: Nat]

WTyped == wrap \in WFields /\ queue \in Seq(WOps) /\ running \in WRuns /\ env \in WEnvs /\ log \in WLogs

(* A stream that is settled is at its end; until the callback has answered, its watcher is on. *)
WEnds ==
  /\ (wrap.settled \/ wrap.latched) => wrap.terminal
  /\ wrap.natural => env.ended
  /\ wrap.terminal => wrap.buffered = 0
  /\ running.at = "pull" => ~wrap.terminal
  /\ running.at = "callback" => wrap.settled /\ log.released = 0
  /\ wrap.terminal /\ running.at # "callback" => wrap.settled /\ log.released = 1
  /\ running.at \in {"throw", "return", "source"} => wrap.settled

(* Before its end, the watcher of a stream goes only when nobody is there to ask for more. *)
WIdle == running.at = "none" /\ queue = <<>>
WWatch ==
  /\ log.released <= 1
  /\ log.released = 1 /\ ~wrap.settled => WIdle /\ env.asks >= MaxAsks
  /\ env.asks = 0 => WIdle /\ log.released = 0

WCounts ==
  /\ Len(log.calls) = IF wrap.settled /\ ~log.aborted THEN 1 ELSE 0
  /\ log.aborted => wrap.settled
  /\ \A i \in DOMAIN log.calls : log.calls[i].observed = env.pulled /\ (log.calls[i].natural => env.ended)
  /\ log.given <= env.pulled /\ (env.stopAt >= 0 => log.given <= env.stopAt)

WrapInv == WTyped /\ WEnds /\ WWatch /\ WCounts

LEMMA WrapProperty ==
  ASSUME WrapInv
  PROVE  Wrapper!SettlesOnce /\ Wrapper!NothingAfterStop
<1>1. Wrapper!NothingAfterStop  BY DEF WrapInv, WEnds, WCounts, Wrapper!NothingAfterStop, Wrapper!Stopped
<1>2. Wrapper!SettlesOnce
  BY DEF WrapInv, WTyped, WLogs, Wrapper!Idle, WEnds, WWatch, WCounts, Wrapper!SettlesOnce
<1>3. QED BY <1>1, <1>2

LEMMA WrapInit ==
  ASSUME Wrapper!Init
  PROVE  WrapInv
<1> USE StreamsAssumption
<1>1. wrap \in WFields  BY DEF Wrapper!Init, WFields
<1>2. running \in WRuns  BY DEF Wrapper!Init, WRuns, WOps, Wrapper!Idle
<1>3. env \in WEnvs
 <2>1. PICK f \in Fanouts : env = [pulled |-> 0, ended |-> FALSE, stopAt |-> -1, asks |-> 0, fanout |-> f]
   BY DEF Wrapper!Init
 <2>2. f \in Nat /\ -1 \in Nat \cup {-1}  OBVIOUS
 <2>3. QED BY <2>1, <2>2 DEF WEnvs
<1>4. log \in WLogs /\ queue \in Seq(WOps)  BY DEF Wrapper!Init, WLogs
<1>5. WTyped  BY <1>1, <1>2, <1>3, <1>4 DEF WTyped
<1>6. QED
  BY <1>5 DEF Wrapper!Init, WrapInv, WEnds, WWatch, WCounts, WIdle, Wrapper!Idle

(* What an operation does once the stream is settled: it goes on to another await, or ends. *)
WGoesOn(w, l) == wrap' = w /\ log' = l /\ running' \in WRuns /\ running'.at \notin {"pull", "callback"}
(* The settlement: one callback, told of all that was pulled. *)
WNotifies(w, l) ==
  /\ wrap' = [w EXCEPT !.settled = TRUE] /\ running' \in WRuns /\ running'.at = "callback"
  /\ \E how \in {"complete", "error"}, natural \in BOOLEAN :
       /\ natural => w.natural
       /\ log' = [l EXCEPT !.calls = Append(@, [how |-> how, observed |-> env'.pulled, natural |-> natural])]

LEMMA Awaiting ==
  ASSUME NEW op \in WOps, NEW at \in {"none", "pull", "callback", "throw", "return", "source"}, NEW failed \in BOOLEAN
  PROVE  /\ Wrapper!Idle \in WRuns /\ Wrapper!Idle.at = "none"
         /\ [op |-> op, at |-> at, failed |-> failed] \in WRuns /\ [op |-> op, at |-> at, failed |-> failed].at = at
         /\ Wrapper!Awaits(op, at) \in WRuns /\ Wrapper!Awaits(op, at).at = at
BY DEF WRuns, WOps, Wrapper!Idle, Wrapper!Awaits

LEMMA IsDone ==
  ASSUME NEW w, NEW l, Wrapper!Done(w, l)
  PROVE  WGoesOn(w, l) /\ wrap' = w /\ log' = l /\ running' \in WRuns /\ running'.at = "none"
<1>1. wrap' = w /\ log' = l /\ running' = Wrapper!Idle  BY DEF Wrapper!Done, Wrapper!Become
<1>2. Wrapper!Idle \in WRuns /\ Wrapper!Idle.at = "none"  BY DEF WRuns, WOps, Wrapper!Idle
<1>3. QED BY <1>1, <1>2 DEF WGoesOn

LEMMA AwaitsNow ==
  ASSUME NEW w, NEW l, NEW op \in WOps, NEW at \in {"throw", "return", "source"}, Wrapper!Become(w, Wrapper!Awaits(op, at), l)
  PROVE  WGoesOn(w, l)
<1>1. wrap' = w /\ log' = l /\ running' = Wrapper!Awaits(op, at)  BY DEF Wrapper!Become
<1>2. QED BY <1>1, Awaiting DEF WGoesOn

LEMMA ClosesSource ==
  ASSUME NEW w, NEW l, NEW op \in WOps, Wrapper!CloseSource(op, w, l)
  PROVE  WGoesOn(w, l)
<1>1. Wrapper!Done(w, l) \/ Wrapper!Become(w, Wrapper!Awaits(op, "source"), l)
  BY DEF Wrapper!CloseSource
<1>2. QED BY <1>1, IsDone, AwaitsNow

LEMMA CleansUp ==
  ASSUME NEW w, NEW l, NEW op \in WOps, Wrapper!Cleanup(op, w, l)
  PROVE  WGoesOn(w, l)
<1>1. Wrapper!Become(w, Wrapper!Awaits(op, "return"), l) \/ Wrapper!CloseSource(op, w, l)
  BY DEF Wrapper!Cleanup
<1>2. QED BY <1>1, ClosesSource, AwaitsNow

LEMMA SettledGoesOn ==
  ASSUME NEW w \in WFields, NEW l \in WLogs, NEW op \in WOps, NEW threw \in BOOLEAN,
         Wrapper!AfterSettlement(op, w, l, threw)
  PROVE  WGoesOn(w, l)
<1>1. CASE op = "next" /\ w.natural /\ ~threw
  BY <1>1, IsDone DEF Wrapper!AfterSettlement
<1>2. CASE op = "throw" /\ ~threw /\ w.iterator
  BY <1>2, AwaitsNow DEF Wrapper!AfterSettlement
<1>3. CASE ~(op = "next" /\ w.natural /\ ~threw) /\ ~(op = "throw" /\ ~threw /\ w.iterator)
  BY <1>3, CleansUp DEF Wrapper!AfterSettlement
<1>4. QED BY <1>1, <1>2, <1>3

LEMMA Notifies ==
  ASSUME NEW w \in WFields, NEW l \in WLogs, NEW op \in WOps, NEW how \in {"complete", "error"}, NEW natural \in BOOLEAN,
         natural => w.natural, Wrapper!Notify(op, w, how, natural, l)
  PROVE  WNotifies(w, l)
BY DEF Wrapper!Notify, Wrapper!Become, WNotifies, WRuns, WOps

LEMMA SettlesOrGoesOn ==
  ASSUME NEW w \in WFields, NEW l \in WLogs, NEW op \in WOps,
         Wrapper!Settle(op, w, l)
  PROVE  IF w.settled THEN WGoesOn(w, l) ELSE WNotifies(w, l)
<1>1. CASE w.settled  BY <1>1, SettledGoesOn DEF Wrapper!Settle
<1>2. CASE ~w.settled
 <2>1. w.natural \in BOOLEAN  BY DEF WFields
 <2>2. QED BY <1>2, <2>1, Notifies DEF Wrapper!Settle, Wrapper!FirstSettle
<1>3. QED BY <1>1, <1>2

LEMMA FailsOrGoesOn ==
  ASSUME NEW w \in WFields, NEW l \in WLogs, NEW op \in WOps,
         Wrapper!SettleError(op, w, l)
  PROVE  IF w.settled THEN WGoesOn(w, l) ELSE WNotifies(w, l)
BY CleansUp, Notifies DEF Wrapper!SettleError

(* What a settled stream does keeps the invariant, whichever await it goes on to. *)
LEMMA GoneOn ==
  ASSUME WrapInv, NEW w \in WFields, WGoesOn(w, log), queue' \in Seq(WOps), env' = env,
         running.at # "callback", w.settled = wrap.settled, w.terminal = wrap.terminal, w.latched = wrap.latched,
         w.natural = wrap.natural, wrap.terminal => w.buffered = 0,
         wrap.settled, env.asks # 0
  PROVE  WrapInv'
BY DEF WrapInv, WTyped, WEnds, WWatch, WCounts, WGoesOn, WIdle

(* The one settlement of a stream that was not. *)
LEMMA Notified ==
  ASSUME WrapInv, NEW w \in WFields, WNotifies(w, log), queue' \in Seq(WOps), env' \in WEnvs,
         ~wrap.settled, w.terminal, w.buffered = 0, log.released = 0,
         w.natural => env'.ended, env'.stopAt = env.stopAt, env'.pulled >= env.pulled, env'.asks # 0
  PROVE  WrapInv'
<1>1. log.calls \in Seq(WCalls) /\ Len(log.calls) = 0 /\ ~log.aborted /\ log \in WLogs
  BY DEF WrapInv, WTyped, WCounts, WLogs
<1>2. PICK how \in {"complete", "error"}, natural \in BOOLEAN :
        /\ natural => w.natural
        /\ log' = [log EXCEPT !.calls = Append(@, [how |-> how, observed |-> env'.pulled, natural |-> natural])]
  BY DEF WNotifies
<1> DEFINE e == [how |-> how, observed |-> env'.pulled, natural |-> natural]
<1>3. e \in WCalls /\ e.observed = env'.pulled /\ (e.natural => env'.ended)
  BY <1>2 DEF WCalls, WEnvs
<1> HIDE DEF e
<1>4. log' = [log EXCEPT !.calls = Append(log.calls, e)]  BY <1>2 DEF e
<1>5. Len(Append(log.calls, e)) = 1 /\ Append(log.calls, e)[1] = e /\ Append(log.calls, e) \in Seq(WCalls)
  BY <1>1, <1>3
<1>6. log' \in WLogs /\ log'.calls = Append(log.calls, e) /\ log'.released = log.released /\ log'.given = log.given /\ log'.aborted = log.aborted
  BY <1>1, <1>4, <1>5 DEF WLogs
<1>7. wrap' \in WFields /\ wrap'.settled /\ wrap'.terminal /\ wrap'.buffered = 0 /\ wrap'.natural = w.natural
  BY DEF WNotifies, WFields
<1>8. running' \in WRuns /\ running'.at = "callback"  BY DEF WNotifies
<1>9. WTyped'  BY <1>6, <1>7, <1>8 DEF WTyped
<1>10. WEnds' /\ WWatch'
  BY <1>6, <1>7, <1>8 DEF WEnds, WWatch
<1>11. log.given \in Nat /\ env.pulled \in Nat /\ env'.pulled \in Nat /\ log.given <= env.pulled
  BY DEF WrapInv, WTyped, WLogs, WEnvs, WCounts
<1>12. WCounts'
  BY <1>5, <1>6, <1>1, <1>3, <1>7, <1>11 DEF WrapInv, WCounts
<1>13. QED BY <1>9, <1>10, <1>12 DEF WrapInv

LEMMA TerminalIs ==
  ASSUME NEW w \in WFields
  PROVE  Wrapper!Terminal(w) \in WFields /\ Wrapper!Terminal(w).terminal /\ Wrapper!Terminal(w).buffered = 0
         /\ Wrapper!Terminal(w).settled = w.settled /\ Wrapper!Terminal(w).latched = w.latched /\ Wrapper!Terminal(w).natural = w.natural
<1>1. Wrapper!Terminal(w) = [w EXCEPT !.terminal = TRUE, !.buffered = 0]  BY DEF Wrapper!Terminal
<1>2. w \in WFields /\ 0 \in Int  OBVIOUS
<1>3. Wrapper!Terminal(w) \in WFields  BY <1>1, <1>2 DEF WFields
<1>4. QED BY <1>1, <1>2, <1>3 DEF WFields

(* An operation that ends the stream: it settles it, or finds it settled. *)
LEMMA Ending ==
  ASSUME WrapInv, NEW w \in WFields, queue' \in Seq(WOps), env' \in WEnvs, running.at # "callback",
         w.terminal, w.buffered = 0, w.settled = wrap.settled, wrap.latched => w.latched,
         w.natural => env'.ended, env'.stopAt = env.stopAt, env'.pulled >= env.pulled, env.ended => env'.ended,
         env'.asks = env.asks, ~WIdle, wrap.settled => w.latched = wrap.latched /\ w.natural = wrap.natural /\ env' = env,
         IF w.settled THEN WGoesOn(w, log) ELSE WNotifies(w, log)
  PROVE  WrapInv'
<1>1. env.asks # 0  BY DEF WrapInv, WWatch
<1>2. CASE wrap.settled
  BY <1>2, <1>1, GoneOn DEF WrapInv, WEnds
<1>3. CASE ~wrap.settled
 <2>1. log.released = 0
   BY <1>3 DEF WrapInv, WTyped, WLogs, WWatch
 <2>2. QED BY <1>1, <1>3, <2>1, Notified
<1>4. QED BY <1>2, <1>3

LEMMA WrapAsks ==
  ASSUME WrapInv, NEW op \in WOps, Wrapper!Enqueue(op), running' = running, log' = log, wrap' \in WFields,
         wrap'.settled = wrap.settled, wrap'.latched = wrap.latched, wrap'.terminal = wrap.terminal,
         wrap'.natural = wrap.natural, wrap'.buffered = wrap.buffered
  PROVE  WrapInv'
<1>0. env \in WEnvs /\ env.asks \in Nat  BY DEF WrapInv, WTyped, WEnvs
<1>1. env' \in WEnvs /\ env'.asks > 0 /\ env'.asks \in Nat /\ env'.pulled = env.pulled /\ env'.stopAt = env.stopAt /\ env'.ended = env.ended
  BY <1>0 DEF Wrapper!Enqueue, WEnvs
<1>2. queue' \in Seq(WOps)
  BY DEF WrapInv, WTyped, Wrapper!Enqueue
<1>3. ~(log.released = 1 /\ ~wrap.settled)
  BY StreamsAssumption DEF WrapInv, WTyped, WEnvs, WWatch, Wrapper!Enqueue
<1>4. WTyped'  BY <1>1, <1>2 DEF WrapInv, WTyped
<1>5. WEnds' /\ WWatch' /\ WCounts'
  BY <1>1, <1>3 DEF WrapInv, WEnds, WWatch, WCounts
<1>6. QED BY <1>4, <1>5 DEF WrapInv

LEMMA Begins ==
  ASSUME WrapInv, NEW op, Wrapper!Begin(op)
  PROVE  running.at = "none" /\ ~WIdle /\ queue' \in Seq(WOps) /\ op \in WOps /\ env' = env
BY DEF WrapInv, WTyped, Wrapper!Begin, Wrapper!Idle, WIdle

(* An operation that leaves the stream as open as it was. *)
LEMMA StaysOpen ==
  ASSUME WrapInv, ~WIdle, wrap' \in WFields, queue' \in Seq(WOps), running' \in WRuns, env' \in WEnvs, log' \in WLogs,
         wrap'.settled = wrap.settled, wrap'.latched = wrap.latched, wrap'.terminal = wrap.terminal,
         wrap'.natural = wrap.natural, wrap.terminal => wrap'.buffered = 0,
         running.at # "callback", running'.at \in {"none", "pull"}, running'.at = "pull" => ~wrap.terminal,
         log'.calls = log.calls, log'.released = log.released, log'.aborted = log.aborted,
         env'.asks = env.asks, env'.ended = env.ended, env'.stopAt = env.stopAt,
         wrap.settled => env'.pulled = env.pulled, log'.given <= env'.pulled, env.stopAt >= 0 => log'.given <= env.stopAt
  PROVE  WrapInv'
<1>1. WTyped'  BY DEF WTyped
<1>2. ~(log.released = 1 /\ ~wrap.settled) /\ env.asks # 0
  BY DEF WrapInv, WWatch
<1>3. WEnds' /\ WWatch'  BY <1>2 DEF WrapInv, WEnds, WWatch
<1>4. log.calls \in Seq(WCalls) /\ (~wrap.settled => Len(log.calls) = 0)
  BY DEF WrapInv, WTyped, WLogs, WCounts
<1>5. WCounts'
  BY <1>4 DEF WrapInv, WCounts
<1>6. QED BY <1>1, <1>3, <1>5 DEF WrapInv

LEMMA WrapNextStep ==
  ASSUME WrapInv, Wrapper!StartNext
  PROVE  WrapInv'
<1>1. running.at = "none" /\ ~WIdle /\ queue' \in Seq(WOps) /\ env' = env
  BY Begins DEF Wrapper!StartNext
<1>2. wrap \in WFields /\ log \in WLogs /\ env \in WEnvs /\ log.given <= env.pulled /\ (env.stopAt >= 0 => log.given <= env.stopAt)
  BY DEF WrapInv, WTyped, WCounts
<1>3. CASE wrap.latched \/ wrap.terminal
  BY <1>3, IsDone, <1>1, <1>2, StaysOpen DEF Wrapper!StartNext, WrapInv, WEnds
<1>4. CASE ~(wrap.latched \/ wrap.terminal) /\ wrap.buffered > 0
  BY <1>4, IsDone, <1>2, <1>1, StaysOpen DEF Wrapper!StartNext, WFields
<1>5. CASE ~(wrap.latched \/ wrap.terminal) /\ ~(wrap.buffered > 0)
 <2>1. wrap' = [wrap EXCEPT !.iterator = TRUE] /\ log' = log /\ running' \in WRuns /\ running'.at = "pull"
  <3>1. Wrapper!Become([wrap EXCEPT !.iterator = TRUE], Wrapper!Awaits("next", "pull"), log)  BY <1>5 DEF Wrapper!StartNext
  <3>2. "next" \in WOps  BY DEF WOps
  <3>3. QED BY <3>1, <3>2, Awaiting DEF Wrapper!Become
 <2>2. wrap' \in WFields /\ wrap'.settled = wrap.settled /\ wrap'.latched = wrap.latched /\ wrap'.terminal = wrap.terminal
       /\ wrap'.natural = wrap.natural
   BY <1>2, <2>1 DEF WFields
 <2>3. QED BY <1>1, <1>2, <1>5, <2>1, <2>2, StaysOpen
<1>6. QED BY <1>3, <1>4, <1>5

LEMMA WrapPulls ==
  ASSUME WrapInv, Wrapper!PullChunk
  PROVE  WrapInv'
<1>1. running.at = "pull" /\ ~WIdle /\ ~wrap.terminal /\ ~wrap.settled /\ queue' \in Seq(WOps)
  BY DEF WrapInv, WTyped, WEnds, WIdle, Wrapper!PullChunk
<1>2. env \in WEnvs /\ wrap \in WFields /\ log \in WLogs /\ running \in WRuns /\ "next" \in WOps
  BY DEF WrapInv, WTyped, WOps
<1>3. env' \in WEnvs /\ env'.pulled = env.pulled + 1 /\ env'.asks = env.asks /\ env'.ended = env.ended /\ env'.stopAt = env.stopAt
      /\ env.pulled \in Nat /\ env'.pulled \in Nat /\ env'.pulled >= env.pulled
  BY <1>2 DEF Wrapper!PullChunk, WEnvs
<1>4. log.given <= env.pulled /\ (env.stopAt >= 0 => log.given <= env.stopAt) /\ log.given \in Nat /\ (wrap.natural => env.ended)
  BY <1>2 DEF WrapInv, WCounts, WLogs, WEnds
<1>5. CASE Wrapper!StopSeen
 <2> DEFINE w == [Wrapper!Terminal(wrap) EXCEPT !.latched = TRUE]
 <2>1. w \in WFields /\ w.terminal /\ w.buffered = 0 /\ w.settled = wrap.settled /\ w.natural = wrap.natural /\ w.latched
  <3> DEFINE u == Wrapper!Terminal(wrap)
  <3>1. u \in WFields /\ u.terminal /\ u.buffered = 0 /\ u.settled = wrap.settled /\ u.natural = wrap.natural
    BY <1>2, TerminalIs
  <3> HIDE DEF u
  <3>2. QED BY <3>1 DEF WFields, u
 <2>2. Wrapper!Settle("next", w, log)  BY <1>5 DEF Wrapper!PullChunk
 <2> HIDE DEF w
 <2>3. IF w.settled THEN WGoesOn(w, log) ELSE WNotifies(w, log)
   BY <1>2, <2>1, <2>2, SettlesOrGoesOn
 <2>4. QED BY <1>1, <1>3, <1>4, <2>1, <2>3, Ending
<1>6. CASE ~Wrapper!StopSeen
 <2>0. ~(env.stopAt >= 0)  BY <1>6 DEF Wrapper!StopSeen, Wrapper!Stopped
 <2>1. ASSUME NEW w \in WFields, Wrapper!Give(w, log), w.settled = wrap.settled, w.latched = wrap.latched, w.terminal = wrap.terminal, w.natural = wrap.natural
       PROVE  WrapInv'
   BY <2>1, IsDone, <1>2, <1>3, <1>1, <2>0, StaysOpen DEF Wrapper!Give, WLogs
 <2>2. CASE Wrapper!Give(wrap, log)  BY <1>2, <2>1, <2>2
 <2>3. ASSUME NEW n \in 1 .. env.fanout, Wrapper!Give([wrap EXCEPT !.buffered = n - 1], log) PROVE WrapInv'
   BY <1>2, <2>3, <2>1 DEF WFields
 <2>4. CASE UNCHANGED <<wrap, running, log>>
   BY <1>1, <1>2, <1>3, <1>4, <2>0, <2>4, StaysOpen
 <2>5. CASE Wrapper!SettleError("next", Wrapper!Terminal(wrap), log)
   BY <1>2, TerminalIs, <2>5, FailsOrGoesOn, <1>1, <1>3, <1>4, Ending
 <2>6. QED BY <1>6, <2>2, <2>3, <2>4, <2>5 DEF Wrapper!PullChunk
<1>7. QED BY <1>5, <1>6

LEMMA WrapPullEnds ==
  ASSUME WrapInv, Wrapper!PullEnds \/ Wrapper!PullFails
  PROVE  WrapInv'
<1>1. running.at = "pull" /\ ~WIdle /\ ~wrap.terminal /\ ~wrap.settled /\ queue' \in Seq(WOps)
  BY DEF WrapInv, WTyped, WEnds, WIdle, Wrapper!PullEnds, Wrapper!PullFails
<1>2. env \in WEnvs /\ wrap \in WFields /\ log \in WLogs /\ running \in WRuns /\ "next" \in WOps /\ (wrap.natural => env.ended)
      /\ env.pulled \in Nat
  BY DEF WrapInv, WTyped, WOps, WEnds, WEnvs
<1>3. CASE Wrapper!PullEnds
 <2> DEFINE w == [Wrapper!Terminal(wrap) EXCEPT !.natural = TRUE]
 <2>1. w \in WFields /\ w.terminal /\ w.buffered = 0 /\ w.settled = wrap.settled /\ w.natural /\ w.latched = wrap.latched
  <3> DEFINE u == Wrapper!Terminal(wrap)
  <3>1. u \in WFields /\ u.terminal /\ u.buffered = 0 /\ u.settled = wrap.settled /\ u.latched = wrap.latched
    BY <1>2, TerminalIs
  <3> HIDE DEF u
  <3>2. QED BY <3>1 DEF WFields, u
 <2>2. Wrapper!Settle("next", w, log)  BY <1>3 DEF Wrapper!PullEnds
 <2> HIDE DEF w
 <2>3. IF w.settled THEN WGoesOn(w, log) ELSE WNotifies(w, log)
   BY <1>2, <2>1, <2>2, SettlesOrGoesOn
 <2>4. env' \in WEnvs /\ env'.ended /\ env'.pulled = env.pulled /\ env'.asks = env.asks /\ env'.stopAt = env.stopAt
   BY <1>2, <1>3 DEF Wrapper!PullEnds, WEnvs
 <2>5. QED BY <1>1, <1>2, <2>1, <2>3, <2>4, Ending
<1>4. CASE Wrapper!PullFails
  BY <1>2, TerminalIs, <1>4, FailsOrGoesOn, <1>1, Ending DEF Wrapper!PullFails
<1>5. QED BY <1>3, <1>4

LEMMA WrapEnds ==
  ASSUME WrapInv, NEW op \in {"return", "close"}, Wrapper!StartClose(op) \/ Wrapper!StartThrow
  PROVE  WrapInv'
<1>1. running.at = "none" /\ ~WIdle /\ queue' \in Seq(WOps) /\ env' = env
  BY Begins DEF Wrapper!StartClose, Wrapper!StartThrow
<1>2. env \in WEnvs /\ wrap \in WFields /\ log \in WLogs /\ op \in WOps /\ "throw" \in WOps /\ (wrap.natural => env.ended)
      /\ env.pulled \in Nat /\ (wrap.latched => wrap.terminal) /\ (wrap.terminal => wrap.settled /\ wrap.buffered = 0)
      /\ log.given <= env.pulled /\ (env.stopAt >= 0 => log.given <= env.stopAt)
  BY <1>1 DEF WrapInv, WTyped, WOps, WEnds, WEnvs, WCounts
<1> DEFINE w == Wrapper!Terminal(wrap)
<1>3. w \in WFields /\ w.terminal /\ w.buffered = 0 /\ w.settled = wrap.settled /\ w.natural = wrap.natural /\ w.latched = wrap.latched
  BY <1>2, TerminalIs
<1>4. ASSUME NEW o \in WOps, Wrapper!Settle(o, w, log) \/ (wrap.latched /\ Wrapper!Cleanup(o, w, log)) PROVE WrapInv'
  BY <1>2, <1>3, <1>4, SettlesOrGoesOn, CleansUp, <1>1, Ending
<1>5. CASE Wrapper!StartClose(op)
  BY <1>2, <1>4, <1>5 DEF Wrapper!StartClose
<1>6. CASE Wrapper!StartThrow
 <2>1. CASE wrap.latched
   BY <1>2, <1>6, <2>1, CleansUp, <1>1, GoneOn DEF Wrapper!StartThrow, WrapInv, WWatch
 <2>2. CASE ~wrap.latched /\ wrap.terminal
  <3>1. wrap' = wrap /\ log' = log /\ running' \in WRuns /\ running'.at = "none"
    BY <1>6, <2>2, IsDone DEF Wrapper!StartThrow
  <3>2. QED BY <1>1, <1>2, <3>1, StaysOpen
 <2>3. CASE ~wrap.latched /\ ~wrap.terminal
   BY <1>2, <1>4, <1>6, <2>3 DEF Wrapper!StartThrow
 <2>4. QED BY <2>1, <2>2, <2>3
<1>7. QED BY <1>5, <1>6

LEMMA WrapAborts ==
  ASSUME WrapInv, Wrapper!Abort
  PROVE  WrapInv'
<1>1. running.at = "none" /\ env.asks = 0 /\ queue = <<>> /\ log.released = 0
  BY DEF WrapInv, WWatch, WIdle, Wrapper!Abort
<1>2. env \in WEnvs /\ wrap \in WFields /\ log \in WLogs /\ "abort" \in WOps
  BY DEF WrapInv, WTyped, WOps
<1> DEFINE w == [Wrapper!Terminal(wrap) EXCEPT !.settled = TRUE]
           l == [Wrapper!Released(log) EXCEPT !.aborted = TRUE]
<1>3. w \in WFields /\ w.terminal /\ w.buffered = 0 /\ w.settled /\ w.natural = wrap.natural
 <2> DEFINE u == Wrapper!Terminal(wrap)
 <2>1. u \in WFields /\ u.terminal /\ u.buffered = 0 /\ u.natural = wrap.natural
   BY <1>2, TerminalIs
 <2> HIDE DEF u
 <2>2. QED BY <2>1 DEF WFields, u
<1>4. l \in WLogs /\ l.aborted /\ l.released = 1 /\ l.calls = log.calls /\ l.given = log.given
 <2> DEFINE u == Wrapper!Released(log)
 <2>1. u \in WLogs /\ u.released = 1 /\ u.calls = log.calls /\ u.given = log.given
   BY <1>1, <1>2 DEF WLogs, Wrapper!Released
 <2> HIDE DEF u
 <2>2. QED BY <2>1 DEF WLogs, u
<1>5. Wrapper!Cleanup("abort", w, l)  BY DEF Wrapper!Abort
<1> HIDE DEF w, l
<1>6. WGoesOn(w, l)  BY <1>2, <1>3, <1>4, <1>5, CleansUp
<1>7. env' \in WEnvs /\ env'.asks = MaxAsks /\ env'.pulled = env.pulled /\ env'.ended = env.ended /\ env'.stopAt = env.stopAt
  BY <1>2, StreamsAssumption DEF Wrapper!Abort, WEnvs
<1>8. ~wrap.settled \/ log.aborted
  BY <1>1 DEF WrapInv, WEnds
<1>9. WTyped'  BY <1>1, <1>3, <1>4, <1>6, <1>7 DEF WGoesOn, WTyped, Wrapper!Abort
<1>10. log.calls \in Seq(WCalls) /\ Len(log.calls) = 0
  BY <1>2, <1>8 DEF WrapInv, WCounts, WLogs
<1>11. WEnds' /\ WWatch' /\ WCounts'
  BY <1>3, <1>4, <1>6, <1>7, <1>10, StreamsAssumption DEF WGoesOn, WEnds, WWatch, WCounts, WrapInv
<1>12. QED BY <1>9, <1>11 DEF WrapInv

LEMMA WrapAnswers ==
  ASSUME WrapInv, Wrapper!CallbackReturns
  PROVE  WrapInv'
<1>1. running.at = "callback" /\ wrap.settled /\ log.released = 0 /\ queue' = queue /\ env' = env /\ ~WIdle
  BY DEF WrapInv, WEnds, WIdle, Wrapper!CallbackReturns
<1>2. wrap \in WFields /\ log \in WLogs /\ running \in WRuns
  BY DEF WrapInv, WTyped
<1> DEFINE l == Wrapper!Released(log)
<1>3. l \in WLogs /\ l.released = 1 /\ l.calls = log.calls /\ l.given = log.given /\ l.aborted = log.aborted
  BY <1>1, <1>2 DEF WLogs, Wrapper!Released
<1>4. running.op \in WOps /\ running.failed \in BOOLEAN  BY <1>2 DEF WRuns
<1>5. Wrapper!AfterSettlement(running.op, wrap, l, running.failed)  BY DEF Wrapper!CallbackReturns
<1> HIDE DEF l
<1>6. WGoesOn(wrap, l)  BY <1>2, <1>3, <1>4, <1>5, SettledGoesOn
<1>7. QED
  BY <1>1, <1>3, <1>6 DEF WrapInv, WTyped, WEnds, WWatch, WCounts, WGoesOn

LEMMA WrapCleans ==
  ASSUME WrapInv, Wrapper!ThrowReturns \/ Wrapper!ReturnReturns \/ Wrapper!SourceCloses
  PROVE  WrapInv'
<1>1. running.at \in {"throw", "return", "source"} /\ queue' = queue /\ env' = env /\ ~WIdle
  BY DEF WIdle, Wrapper!ThrowReturns, Wrapper!ReturnReturns, Wrapper!SourceCloses
<1>2. wrap \in WFields /\ log \in WLogs /\ running.op \in WOps /\ wrap.settled /\ wrap.terminal /\ wrap.buffered = 0 /\ queue \in Seq(WOps)
      /\ env.asks # 0
  BY <1>1 DEF WrapInv, WTyped, WRuns, WEnds, WWatch
<1>3. ASSUME NEW w \in WFields, WGoesOn(w, log), w.settled = wrap.settled, w.terminal = wrap.terminal, w.latched = wrap.latched,
             w.natural = wrap.natural, w.buffered = wrap.buffered
      PROVE  WrapInv'
  BY <1>1, <1>2, <1>3, GoneOn
<1>4. CASE Wrapper!ThrowReturns  BY <1>2, <1>3, <1>4, CleansUp DEF Wrapper!ThrowReturns
<1>5. CASE Wrapper!ReturnReturns
  BY <1>5, <1>2, ClosesSource, <1>3 DEF Wrapper!ReturnReturns, WFields
<1>6. CASE Wrapper!SourceCloses
  BY <1>6, <1>2, IsDone, <1>3 DEF Wrapper!SourceCloses, WFields
<1>7. QED BY <1>4, <1>5, <1>6

LEMMA WrapWatches ==
  ASSUME WrapInv, Wrapper!Collected \/ Wrapper!Raise
  PROVE  WrapInv'
<1>1. env \in WEnvs /\ log \in WLogs /\ queue' = queue /\ running' = running /\ wrap' = wrap
  BY DEF WrapInv, WTyped, Wrapper!Collected, Wrapper!Raise
<1>2. CASE Wrapper!Collected
  BY <1>2, <1>1, StreamsAssumption DEF Wrapper!Collected, Wrapper!Idle, WEnvs, Wrapper!Released, WLogs, WrapInv, WTyped, WEnds, WWatch, WIdle, WCounts
<1>3. CASE Wrapper!Raise
  BY <1>1, <1>3 DEF Wrapper!Raise, WEnvs, WrapInv, WTyped, WEnds, WWatch, WIdle, WCounts
<1>4. QED BY <1>2, <1>3

LEMMA WrapStep ==
  ASSUME WrapInv, [Wrapper!Next]_(Wrapper!vars)
  PROVE  WrapInv'
<1>1. ASSUME NEW as \in {"iteration", "helper"}, Wrapper!AskNext(as) PROVE WrapInv'
  BY <1>1, WrapAsks DEF WrapInv, WTyped, WOps, Wrapper!AskNext, WFields
<1>2. ASSUME NEW op \in {"return", "throw", "close"}, Wrapper!AskEnd(op) PROVE WrapInv'
  BY <1>2, WrapAsks DEF WrapInv, WTyped, WOps, Wrapper!AskEnd
<1>3. CASE UNCHANGED Wrapper!vars
  BY <1>3 DEF Wrapper!vars, WrapInv, WTyped, WEnds, WWatch, WIdle, WCounts
<1>4. QED
  BY <1>1, <1>2, <1>3, WrapNextStep, WrapPulls, WrapPullEnds, WrapEnds, WrapAborts, WrapAnswers, WrapCleans, WrapWatches
  DEF Wrapper!Next

RBridges ==
  [state: {"new", "starting", "started", "failed", "preaborted"}, terminal: {"none", "startup", "abort", "provider"},
   ended: BOOLEAN, heardDone: BOOLEAN, abortRequested: BOOLEAN, delegated: BOOLEAN]
RObservers == [connected: BOOLEAN, settled: BOOLEAN, stopped: BOOLEAN, heardDone: BOOLEAN]
RNatives ==
  [phase: {"none", "entering", "connected", "completed", "over"}, signal: BOOLEAN,
   done: {"pending", "resolved", "rejected"}]
RWorlds == [waiters: Nat, events: Nat, stopAt: Nat \cup {-1}]
RCalls == [how: {"complete", "error", "entry"}, natural: BOOLEAN, connected: BOOLEAN]
RTolds == [starts: Nat, calls: Seq(RCalls), given: Nat, aborts: Nat, preStart: Nat]

RTyped ==
  /\ bridge \in RBridges /\ observer \in RObservers /\ native \in RNatives
  /\ world \in RWorlds /\ told \in RTolds

(* The provider's stream and the observer's settlement go together. *)
RSettles ==
  /\ Len(told.calls) = IF observer.settled THEN 1 ELSE 0
  /\ \A i \in DOMAIN told.calls :
       /\ told.calls[i].how = "entry" => ~told.calls[i].connected
       /\ told.calls[i].how \in {"error", "complete"} => told.calls[i].connected
  /\ native.phase \in {"completed", "over"} => observer.settled
  /\ native.done # "pending" => native.phase = "over"
  /\ native.phase = "connected" => observer.settled \/ observer.connected

(* What is delivered, before the stop is seen and after. *)
RGives ==
  /\ told.given <= world.events
  /\ ~observer.settled /\ world.stopAt >= 0 => told.given <= world.stopAt
  /\ observer.stopped => observer.settled /\ world.stopAt >= 0 /\ told.given <= world.stopAt /\ ~told.calls[1].natural

(* Whom an abort was passed on to. *)
RAborts ==
  /\ told.starts + told.preStart = IF bridge.state = "new" THEN 0 ELSE 1
  /\ told.aborts <= 1 /\ (told.aborts > 0 => bridge.delegated)
  /\ bridge.delegated => native.signal
  /\ bridge.state \in {"new", "starting"} => ~bridge.delegated
  /\ bridge.state = "started" /\ bridge.abortRequested => native.signal
  /\ bridge.terminal # "none" => world.waiters = 0

ResponsesInv == RTyped /\ RSettles /\ RGives /\ RAborts

LEMMA ResponsesProperty ==
  ASSUME ResponsesInv
  PROVE  Responses!ResponsesSettleOnce /\ Responses!AbortsReachTheProvider
<1>1. told.calls \in Seq(RCalls) /\ told.starts \in Nat /\ told.preStart \in Nat
  BY DEF ResponsesInv, RTyped, RTolds
<1>2. Responses!ResponsesSettleOnce
  BY <1>1 DEF ResponsesInv, RSettles, RGives, Responses!ResponsesSettleOnce
<1>3. Responses!AbortsReachTheProvider
  BY <1>1 DEF ResponsesInv, RAborts, Responses!AbortsReachTheProvider
<1>4. QED BY <1>2, <1>3

LEMMA ResponsesInit ==
  ASSUME Responses!Init
  PROVE  ResponsesInv
<1>1. bridge \in RBridges /\ observer \in RObservers /\ native \in RNatives
  BY DEF Responses!Init, RBridges, RObservers, RNatives
<1>2. world \in RWorlds  BY DEF Responses!Init, RWorlds
<1>3. told \in RTolds  BY DEF Responses!Init, RTolds
<1>4. RSettles /\ RGives /\ RAborts
  BY DEF Responses!Init, RSettles, RGives, RAborts
<1>5. QED BY <1>1, <1>2, <1>3, <1>4 DEF ResponsesInv, RTyped

(* The observer settles with the first ending it hears of. *)
LEMMA Finishes ==
  ASSUME RTyped, RSettles, NEW failed \in BOOLEAN, NEW natural \in BOOLEAN, ~failed => observer.settled \/ observer.connected
  PROVE  LET t == Responses!Finish(failed, natural) IN
         /\ t \in RTolds /\ t.starts = told.starts /\ t.given = told.given /\ t.aborts = told.aborts /\ t.preStart = told.preStart
         /\ Len(t.calls) = 1
         /\ \A i \in DOMAIN t.calls : /\ t.calls[i].how = "entry" => ~t.calls[i].connected
                                      /\ t.calls[i].how \in {"error", "complete"} => t.calls[i].connected
         /\ observer.settled => t = told
         /\ ~observer.settled => t.calls[1].natural = (natural /\ ~failed)
<1> DEFINE t == Responses!Finish(failed, natural)
<1>1. CASE observer.settled
  BY <1>1 DEF Responses!Finish, RTyped, RSettles
<1>2. CASE ~observer.settled
 <2> DEFINE e == [how |-> IF ~failed THEN "complete" ELSE IF observer.connected THEN "error" ELSE "entry",
                  natural |-> natural /\ ~failed, connected |-> observer.connected]
 <2>1. observer.connected \in BOOLEAN  BY DEF RTyped, RObservers
 <2>2. e \in RCalls /\ (e.how = "entry" => ~e.connected) /\ (e.how \in {"error", "complete"} => e.connected)
       /\ e.natural = (natural /\ ~failed)
   BY <1>2, <2>1 DEF RCalls
 <2>3. t = [told EXCEPT !.calls = Append(told.calls, e)]  BY <1>2 DEF Responses!Finish
 <2>4. told.calls \in Seq(RCalls) /\ Len(told.calls) = 0 /\ told \in RTolds  BY <1>2 DEF RTyped, RTolds, RSettles
 <2> HIDE DEF e
 <2>5. Append(told.calls, e) \in Seq(RCalls) /\ Len(Append(told.calls, e)) = 1 /\ Append(told.calls, e)[1] = e
   BY <2>2, <2>4
 <2>6. t \in RTolds /\ t.starts = told.starts /\ t.given = told.given /\ t.aborts = told.aborts /\ t.preStart = told.preStart
       /\ t.calls = Append(told.calls, e)
   BY <2>3, <2>4, <2>5 DEF RTolds
 <2> HIDE DEF t
 <2>7. DOMAIN t.calls = {1} /\ t.calls[1] = e /\ Len(t.calls) = 1  BY <2>5, <2>6
 <2>8. QED BY <1>2, <2>2, <2>6, <2>7 DEF t
<1>3. QED BY <1>1, <1>2

(* The three parts of a step: who settles, what is given, whom an abort reaches. *)
LEMMA BridgeIs ==
  ASSUME NEW b \in RBridges, NEW kind \in {"startup", "abort", "provider"}, NEW e \in RWorlds
  PROVE  /\ Responses!Failed(b, kind) \in RBridges /\ Responses!Mirrored(b) \in RBridges /\ Responses!Answered(e, b) \in RWorlds
         /\ Responses!Failed(b, kind).state = b.state /\ Responses!Failed(b, kind).delegated = b.delegated
         /\ Responses!Failed(b, kind).abortRequested = b.abortRequested
         /\ Responses!Failed(b, kind).terminal # "none" /\ b.terminal = "none" => Responses!Answered(e, b).waiters = 0
         /\ e.waiters = 0 => Responses!Answered(e, b).waiters = 0
         /\ (b.ended => Responses!Failed(b, kind) = b) /\ (~b.ended => Responses!Answered(e, b).waiters = 0)
         /\ Responses!Answered(e, b).events = e.events /\ Responses!Answered(e, b).stopAt = e.stopAt
         /\ Responses!Mirrored(b).state = b.state /\ Responses!Mirrored(b).terminal = b.terminal /\ Responses!Mirrored(b).ended = b.ended
         /\ b.state # "started" => Responses!Mirrored(b) = b
<1>1. Responses!Failed(b, kind) \in RBridges /\ Responses!Mirrored(b) \in RBridges
  BY DEF RBridges, Responses!Failed, Responses!Mirrored
<1>2. Responses!Answered(e, b) \in RWorlds /\ (e.waiters = 0 => Responses!Answered(e, b).waiters = 0)
      /\ Responses!Answered(e, b).events = e.events /\ Responses!Answered(e, b).stopAt = e.stopAt
      /\ (~b.ended => Responses!Answered(e, b).waiters = 0)
  BY DEF RWorlds, Responses!Answered
<1>3. b.ended => Responses!Failed(b, kind) = b  BY DEF Responses!Failed
<1>4. QED BY <1>1, <1>2, <1>3 DEF RBridges, Responses!Failed, Responses!Mirrored

LEMMA MirrorIs ==
  ASSUME NEW b \in RBridges
  PROVE  LET m == Responses!Mirrored(b) IN
         /\ m \in RBridges /\ m.state = b.state /\ m.terminal = b.terminal /\ m.ended = b.ended
         /\ (m = b \/ b.state = "started") /\ (b.delegated => m.delegated)
BY DEF RBridges, Responses!Mirrored

LEMMA NativeIs ==
  ASSUME NEW n \in RNatives
  PROVE  Responses!AbortNative(n) \in RNatives /\ Responses!AbortNative(n).signal /\ Responses!AbortNative(n).phase = n.phase
         /\ Responses!AbortNative(n).done = n.done
BY DEF RNatives, Responses!AbortNative

LEMMA ResponsesTypes ==
  ASSUME RTyped
  PROVE  /\ bridge.state \in {"new", "starting", "started", "failed", "preaborted"} /\ bridge.ended \in BOOLEAN /\ bridge.delegated \in BOOLEAN
         /\ native.phase \in {"none", "entering", "connected", "completed", "over"} /\ native.signal \in BOOLEAN
         /\ world.waiters \in Nat /\ world.events \in Nat /\ world.stopAt \in Nat \cup {-1}
         /\ told.starts \in Nat /\ told.aborts \in Nat /\ told.preStart \in Nat /\ told.given \in Nat /\ told.calls \in Seq(RCalls)
         /\ observer.settled \in BOOLEAN /\ observer.connected \in BOOLEAN /\ observer.stopped \in BOOLEAN
BY DEF RTyped, RBridges, RObservers, RNatives, RWorlds, RTolds

(* The caller's own steps. *)
LEMMA CallerSteps ==
  ASSUME ResponsesInv, Responses!Activate \/ Responses!Emitted \/ Responses!RequestAbort \/ Responses!Raise
  PROVE  ResponsesInv'
<1>1. RTyped /\ RSettles /\ RGives /\ RAborts  BY DEF ResponsesInv
<1>2. bridge \in RBridges /\ observer \in RObservers /\ native \in RNatives /\ world \in RWorlds /\ told \in RTolds
  BY <1>1 DEF RTyped
<1>3. CASE Responses!Activate
  BY <1>2, <1>3, <1>1, ResponsesTypes DEF Responses!Activate, RBridges, RTolds, RTyped, RSettles, RGives, RAborts, ResponsesInv
<1>4. CASE Responses!Emitted
  BY <1>2, <1>4, <1>1 DEF Responses!Emitted, RWorlds, ResponsesInv, RTyped, RSettles, RGives, RAborts
<1>5. CASE Responses!Raise
  BY <1>2, <1>5, <1>1 DEF Responses!Raise, Responses!Stopped, RWorlds, ResponsesInv, RTyped, RSettles, RGives, RAborts
<1>6. CASE Responses!RequestAbort
 <2> DEFINE asked == [bridge EXCEPT !.abortRequested = TRUE]
 <2>1. asked \in RBridges /\ asked.abortRequested /\ asked.state = bridge.state /\ asked.delegated = bridge.delegated /\ asked.terminal = bridge.terminal
       /\ observer' = observer
   BY <1>2, <1>6 DEF Responses!RequestAbort, RBridges
 <2>2. CASE bridge.state = "new"
  <3> DEFINE b == [asked EXCEPT !.state = "preaborted"]
  <3>1. Responses!RecordTerminalFailure(b, "abort") /\ told' = [told EXCEPT !.preStart = @ + 1] /\ native' = native
    BY <1>6, <2>2 DEF Responses!RequestAbort
  <3>2. b \in RBridges /\ b.state = "preaborted" /\ b.delegated = bridge.delegated /\ b.terminal = bridge.terminal
    BY <2>1 DEF RBridges
  <3> HIDE DEF b, asked
  <3>3. bridge' = Responses!Failed(b, "abort") /\ world' = Responses!Answered(world, b)
    BY <3>1 DEF Responses!RecordTerminalFailure
  <3>4. bridge' \in RBridges /\ bridge'.state = "preaborted" /\ bridge'.delegated = bridge.delegated
        /\ (b.ended => bridge' = b) /\ (~b.ended => world'.waiters = 0) /\ (world.waiters = 0 => world'.waiters = 0)
        /\ world' \in RWorlds /\ world'.events = world.events /\ world'.stopAt = world.stopAt
    BY <1>2, <3>2, <3>3, BridgeIs
  <3>5. bridge'.terminal # "none" => world'.waiters = 0
    BY <1>1, <3>2, <3>4 DEF RAborts
  <3>6. told' \in RTolds /\ told'.starts = told.starts /\ told'.calls = told.calls /\ told'.given = told.given
        /\ told'.aborts = told.aborts /\ told'.preStart = told.preStart + 1
    BY <1>2, <3>1 DEF RTolds
  <3>7. RTyped' /\ RSettles' /\ RGives'
    BY <1>1, <1>2, <2>1, <3>1, <3>4, <3>6 DEF RTyped, RSettles, RGives
  <3>8. RAborts'  BY <1>1, <2>2, <3>4, <3>5, <3>6, ResponsesTypes DEF RAborts
  <3>9. QED BY <3>7, <3>8 DEF ResponsesInv
 <2>3. CASE bridge.state = "started" /\ ~bridge.delegated
  <3>1. bridge' = [asked EXCEPT !.delegated = TRUE] /\ native' = Responses!AbortNative(native) /\ told' = [told EXCEPT !.aborts = @ + 1] /\ world' = world
    BY <1>6, <2>3 DEF Responses!RequestAbort
  <3>2. bridge' \in RBridges /\ bridge'.state = "started" /\ bridge'.delegated /\ bridge'.terminal = bridge.terminal
    BY <2>1, <2>3, <3>1 DEF RBridges
  <3>3. told' \in RTolds /\ told'.starts = told.starts /\ told'.calls = told.calls /\ told'.given = told.given
        /\ told'.aborts = told.aborts + 1 /\ told'.preStart = told.preStart
    BY <1>2, <3>1 DEF RTolds
  <3>4. native' \in RNatives /\ native'.signal /\ native'.phase = native.phase /\ native'.done = native.done
    BY <1>2, <3>1, NativeIs
  <3>5. RTyped' /\ RSettles' /\ RGives'
    BY <1>1, <1>2, <2>1, <3>1, <3>2, <3>3, <3>4 DEF RTyped, RSettles, RGives
  <3>6. told.aborts = 0  BY <1>1, <2>3, ResponsesTypes DEF RAborts
  <3>7. RAborts'  BY <1>1, <2>3, <3>1, <3>2, <3>3, <3>4, <3>6, ResponsesTypes DEF RAborts
  <3>8. QED BY <3>5, <3>7 DEF ResponsesInv
 <2>4. CASE ~(bridge.state = "new") /\ ~(bridge.state = "started" /\ ~bridge.delegated)
   BY <1>6, <2>4, <1>1, <1>2, <2>1, ResponsesTypes DEF Responses!RequestAbort, ResponsesInv, RTyped, RSettles, RGives, RAborts
 <2>5. QED BY <2>2, <2>3, <2>4
<1>7. QED BY <1>3, <1>4, <1>5, <1>6

(* The call's start: its failure, the provider's start, and the connection to it. *)
LEMMA StartSteps ==
  ASSUME ResponsesInv, Responses!StartRejects \/ Responses!ProviderStarts \/ Responses!Connect
  PROVE  ResponsesInv'
<1>1. RTyped /\ RSettles /\ RGives /\ RAborts  BY DEF ResponsesInv
<1>2. bridge \in RBridges /\ observer \in RObservers /\ native \in RNatives /\ world \in RWorlds /\ told \in RTolds
  BY <1>1 DEF RTyped
<1>3. CASE Responses!StartRejects
 <2>1. bridge.state = "starting" /\ Responses!RecordStartupFailure /\ UNCHANGED <<observer, told>>
       /\ native' = IF native.phase = "none" THEN native ELSE Responses!AbortNative(native)
   BY <1>3 DEF Responses!StartRejects
 <2>2. native' \in RNatives /\ native'.phase = native.phase /\ native'.done = native.done /\ (native.signal => native'.signal)
   BY <1>2, <2>1, NativeIs
 <2>3. ~bridge.delegated  BY <1>1, <2>1 DEF RAborts
 <2>4. CASE bridge.terminal # "none"
   BY <2>1, <2>4, <1>1, <1>2, <2>2 DEF Responses!RecordStartupFailure, ResponsesInv, RTyped, RSettles, RGives, RAborts
 <2>5. CASE bridge.terminal = "none"
   BY <2>1, <2>5, <1>2, BridgeIs, <1>1, <2>2, <2>3, ResponsesTypes DEF Responses!RecordStartupFailure, RBridges, Responses!RecordTerminalFailure, RTyped, RSettles, RGives, RAborts, ResponsesInv
 <2>6. QED BY <2>4, <2>5
<1>4. CASE Responses!ProviderStarts
  BY <1>2, <1>4, <1>1 DEF Responses!ProviderStarts, RNatives, ResponsesInv, RTyped, RSettles, RGives, RAborts
<1>5. CASE Responses!Connect
 <2> DEFINE b == [bridge EXCEPT !.state = "started"]
 <2>1. b \in RBridges /\ b.state = "started" /\ b.delegated = bridge.delegated /\ b.terminal = bridge.terminal
       /\ b.abortRequested = bridge.abortRequested
   BY <1>2 DEF RBridges
 <2>2. UNCHANGED <<observer, world>> /\ bridge.state = "starting"  BY <1>5 DEF Responses!Connect
 <2>3. ~bridge.delegated /\ told.aborts = 0  BY <1>1, <2>2, ResponsesTypes DEF RAborts
 <2>4. CASE bridge.abortRequested
  <3>1. bridge' = [b EXCEPT !.delegated = TRUE] /\ native' = Responses!AbortNative(native) /\ told' = [told EXCEPT !.aborts = @ + 1]
    BY <1>5, <2>4 DEF Responses!Connect
  <3> HIDE DEF b
  <3>2. bridge' \in RBridges /\ bridge'.state = "started" /\ bridge'.delegated /\ bridge'.terminal = bridge.terminal
    BY <2>1, <3>1 DEF RBridges
  <3>3. told' \in RTolds /\ told'.starts = told.starts /\ told'.calls = told.calls /\ told'.given = told.given
        /\ told'.aborts = told.aborts + 1 /\ told'.preStart = told.preStart
    BY <1>2, <3>1 DEF RTolds
  <3>4. native' \in RNatives /\ native'.signal /\ native'.phase = native.phase /\ native'.done = native.done
    BY <1>2, <3>1, NativeIs
  <3>5. RTyped' /\ RSettles' /\ RGives'
    BY <1>1, <1>2, <2>2, <3>2, <3>3, <3>4 DEF RTyped, RSettles, RGives
  <3>6. RAborts'  BY <1>1, <2>2, <2>3, <3>2, <3>3, <3>4, ResponsesTypes DEF RAborts
  <3>7. QED BY <3>5, <3>6 DEF ResponsesInv
 <2>5. CASE ~bridge.abortRequested
   BY <1>5, <2>5, <2>1, MirrorIs, <1>1, <1>2, <2>2, <2>3, ResponsesTypes DEF Responses!Connect, RTyped, RSettles, RGives, RAborts, ResponsesInv
 <2>6. QED BY <2>4, <2>5
<1>6. QED BY <1>3, <1>4, <1>5

(* Whoever ends first settles; the rest of the observer's state follows. *)
LEMMA EndedOnce ==
  ASSUME RTyped, RSettles, NEW failed \in BOOLEAN, NEW natural \in BOOLEAN, ~failed => observer.settled \/ observer.connected,
         told' \in RTolds, told'.calls = Responses!Finish(failed, natural).calls, observer'.settled,
         native'.done # "pending" => native'.phase = "over"
  PROVE  /\ RSettles'
         /\ observer.settled => told'.calls = told.calls
         /\ ~observer.settled => told'.calls[1].natural = (natural /\ ~failed)
<1>1. RSettles'
  BY Finishes DEF RSettles
<1> DEFINE t == Responses!Finish(failed, natural)
<1>2. (observer.settled => t = told) /\ (~observer.settled => t.calls[1].natural = (natural /\ ~failed))  BY Finishes
<1>3. told'.calls = t.calls  OBVIOUS
<1> HIDE DEF t
<1>4. QED BY <1>1, <1>2, <1>3

(* The provider connects, completes, and fails or ends. *)
LEMMA EndingSteps ==
  ASSUME ResponsesInv, Responses!NativeConnects \/ Responses!NativeCompletes \/ Responses!NativeFails
                       \/ Responses!NativeAborts \/ Responses!NativeEnds
  PROVE  ResponsesInv'
<1>1. RTyped /\ RSettles /\ RGives /\ RAborts  BY DEF ResponsesInv
<1>2. bridge \in RBridges /\ observer \in RObservers /\ native \in RNatives /\ world \in RWorlds /\ told \in RTolds
  BY <1>1 DEF RTyped
<1>3. CASE Responses!NativeConnects
  BY <1>2, <1>3, <1>1 DEF Responses!NativeConnects, RNatives, RObservers, ResponsesInv, RTyped, RSettles, RGives, RAborts
<1>4. ASSUME NEW failed \in BOOLEAN, NEW natural \in BOOLEAN, ~failed => observer.settled \/ observer.connected,
             told' = Responses!Finish(failed, natural), observer' = Responses!Settled,
             native' \in RNatives, native'.done # "pending" => native'.phase = "over", native.signal => native'.signal,
             bridge' \in RBridges, bridge'.state = bridge.state, bridge.delegated => bridge'.delegated,
             bridge'.delegated \/ (bridge.abortRequested /\ native.signal) => native'.signal,
             bridge'.abortRequested => bridge.abortRequested \/ native'.signal,
             bridge'.delegated => bridge.delegated \/ bridge.state = "started",
             world' \in RWorlds, world'.events = world.events, world'.stopAt = world.stopAt,
             bridge'.terminal # "none" => world'.waiters = 0
      PROVE  ResponsesInv'
 <2>1. observer' \in RObservers /\ observer'.settled /\ observer'.stopped = observer.stopped
   BY <1>2, <1>4 DEF Responses!Settled, RObservers
 <2>2. told' \in RTolds /\ told'.starts = told.starts /\ told'.given = told.given /\ told'.aborts = told.aborts
       /\ told'.preStart = told.preStart
   BY <1>1, <1>4, Finishes
 <2>3. RSettles' /\ (observer.settled => told'.calls = told.calls)
   BY <1>1, <1>4, <2>1, <2>2, EndedOnce
 <2>4. RTyped'  BY <1>4, <2>1, <2>2 DEF RTyped
 <2>5. RGives'  BY <1>1, <1>2, <1>4, <2>1, <2>2, <2>3 DEF RGives
 <2>6. RAborts'  BY <1>1, <1>2, <1>4, <2>2 DEF RAborts
 <2>7. QED BY <2>3, <2>4, <2>5, <2>6 DEF ResponsesInv
<1>5. CASE Responses!NativeCompletes
  BY <1>2, <1>5, <1>1, <1>4 DEF Responses!NativeCompletes, RNatives, RSettles, RAborts
<1>6. CASE Responses!NativeFails
 <2>1. native' \in RNatives /\ native'.phase = "over" /\ native'.signal = native.signal
       /\ told' = Responses!Finish(TRUE, TRUE) /\ observer' = Responses!Settled
   BY <1>2, <1>6 DEF Responses!NativeFails, RNatives
 <2>2. (bridge.terminal # "none" => world.waiters = 0) /\ (bridge.delegated => native.signal)  BY <1>1 DEF RAborts
 <2>3. CASE Responses!BridgeHears
  <3>1. bridge' = Responses!Failed(bridge, "provider") /\ world' = Responses!Answered(world, bridge)
    BY <1>6, <2>3 DEF Responses!NativeFails, Responses!RecordTerminalFailure
  <3>2. bridge' \in RBridges /\ bridge'.state = bridge.state /\ bridge'.delegated = bridge.delegated
        /\ bridge'.abortRequested = bridge.abortRequested
        /\ (bridge.ended => bridge' = bridge) /\ (~bridge.ended => world'.waiters = 0) /\ (world.waiters = 0 => world'.waiters = 0)
        /\ world' \in RWorlds /\ world'.events = world.events /\ world'.stopAt = world.stopAt
    BY <1>2, <3>1, BridgeIs
  <3>3. bridge'.terminal # "none" => world'.waiters = 0  BY <2>2, <3>2
  <3>4. QED BY <1>4, <2>1, <2>2, <3>2, <3>3
 <2>4. CASE ~Responses!BridgeHears
   BY <1>6, <2>4, <1>2, <1>4, <2>1, <2>2 DEF Responses!NativeFails
 <2>5. QED BY <2>3, <2>4
<1>7. CASE Responses!NativeAborts
 <2>1. native' \in RNatives /\ native'.phase = "over" /\ native'.signal
       /\ told' = Responses!Finish(~observer.connected, FALSE) /\ observer' = Responses!Settled
   BY <1>2, <1>7 DEF Responses!NativeAborts, RNatives
 <2>2. (bridge.terminal # "none" => world.waiters = 0) /\ observer.connected \in BOOLEAN  BY <1>1, ResponsesTypes DEF RAborts
 <2> DEFINE b == Responses!Mirrored(bridge)
 <2>3. b \in RBridges /\ b.state = bridge.state /\ b.terminal = bridge.terminal /\ b.ended = bridge.ended
       /\ (b = bridge \/ bridge.state = "started") /\ (bridge.delegated => b.delegated)
   BY <1>2, MirrorIs
 <2>4. CASE Responses!BridgeHears
  <3>1. bridge' = Responses!Failed(b, "abort") /\ world' = Responses!Answered(world, b)
    BY <1>7, <2>4 DEF Responses!NativeAborts, Responses!RecordTerminalFailure
  <3> HIDE DEF b
  <3>2. bridge' \in RBridges /\ bridge'.state = b.state /\ bridge'.delegated = b.delegated
        /\ bridge'.abortRequested = b.abortRequested
        /\ (b.ended => bridge' = b) /\ (~b.ended => world'.waiters = 0) /\ (world.waiters = 0 => world'.waiters = 0)
        /\ world' \in RWorlds /\ world'.events = world.events /\ world'.stopAt = world.stopAt
    BY <1>2, <2>3, <3>1, BridgeIs
  <3>3. bridge'.terminal # "none" => world'.waiters = 0  BY <2>2, <2>3, <3>2
  <3>4. QED BY <1>4, <2>1, <2>2, <2>3, <3>2, <3>3
 <2>5. CASE ~Responses!BridgeHears
   BY <1>7, <2>5, <1>2, <1>4, <2>1, <2>2, <2>3 DEF Responses!NativeAborts
 <2>6. QED BY <2>4, <2>5
<1>8. CASE Responses!NativeEnds
  BY <1>2, <1>8, <1>1, <1>4 DEF Responses!NativeEnds, RNatives, RBridges, RAborts, RSettles
<1>9. QED BY <1>3, <1>5, <1>6, <1>7, <1>8

(* What an event does to the caller: it is delivered, or nobody hears it. *)
LEMMA Deliveries ==
  ASSUME RTyped, NEW e \in RWorlds, NEW t \in RTolds,
         Responses!Delivered(e, t) \/ (~Responses!BridgeHears /\ world' = e /\ told' = t)
  PROVE  /\ told' \in RTolds /\ told'.starts = t.starts /\ told'.calls = t.calls /\ told'.aborts = t.aborts /\ told'.preStart = t.preStart
         /\ (told'.given = t.given \/ (~observer.stopped /\ told'.given = e.events))
         /\ world' \in RWorlds /\ world'.events = e.events /\ world'.stopAt = e.stopAt
         /\ (e.waiters = 0 => world'.waiters = 0)
<1>1. CASE Responses!Delivered(e, t)
  BY <1>1 DEF Responses!Delivered, Responses!BridgeHears, RTolds, RWorlds
<1>2. CASE ~Responses!BridgeHears /\ world' = e /\ told' = t
  BY <1>2
<1>3. QED BY <1>1, <1>2

(* The provider's events. *)
LEMMA EventSteps ==
  ASSUME ResponsesInv, Responses!EventPasses \/ Responses!EventStops \/ Responses!EventFails
  PROVE  ResponsesInv'
<1>1. RTyped /\ RSettles /\ RGives /\ RAborts  BY DEF ResponsesInv
<1>2. bridge \in RBridges /\ observer \in RObservers /\ native \in RNatives /\ world \in RWorlds /\ told \in RTolds
  BY <1>1 DEF RTyped
<1> DEFINE e == [world EXCEPT !.events = @ + 1]
<1>3. e \in RWorlds /\ e.events = world.events + 1 /\ e.stopAt = world.stopAt /\ e.waiters = world.waiters
  BY <1>2 DEF RWorlds
<1>4. CASE Responses!EventPasses
 <2>1. UNCHANGED <<bridge, observer, native>> /\ (observer.settled \/ ~(world.stopAt >= 0))
       /\ (Responses!Delivered(e, told) \/ (~Responses!BridgeHears /\ world' = e /\ told' = told))
   BY <1>4 DEF Responses!EventPasses, Responses!Stopped
 <2> HIDE DEF e
 <2>2. /\ told' \in RTolds /\ told'.starts = told.starts /\ told'.calls = told.calls /\ told'.aborts = told.aborts /\ told'.preStart = told.preStart
       /\ (told'.given = told.given \/ (~observer.stopped /\ told'.given = e.events))
       /\ world' \in RWorlds /\ world'.events = e.events /\ world'.stopAt = e.stopAt /\ (e.waiters = 0 => world'.waiters = 0)
   BY <1>1, <1>2, <1>3, <2>1, Deliveries
 <2>3. RTyped' /\ RSettles'  BY <1>1, <1>2, <2>1, <2>2 DEF RTyped, RSettles
 <2>4. RGives'  BY <1>1, <1>3, <2>1, <2>2, ResponsesTypes DEF RGives
 <2>5. RAborts'  BY <1>1, <1>3, <2>1, <2>2 DEF RAborts
 <2>6. QED BY <2>3, <2>4, <2>5 DEF ResponsesInv
<1>5. CASE Responses!EventStops
 <2>1. ~observer.settled /\ world.stopAt >= 0 /\ native.phase \in {"connected", "completed"}
       /\ observer' = [Responses!Settled EXCEPT !.stopped = TRUE] /\ told' = Responses!Finish(FALSE, FALSE)
       /\ native' = Responses!AbortNative(native)
       /\ IF bridge.state = "started"
          THEN bridge' = Responses!Mirrored(Responses!Failed(bridge, "provider")) /\ world' = Responses!Answered(e, bridge)
          ELSE world' = e /\ UNCHANGED bridge
   BY <1>5 DEF Responses!EventStops, Responses!Event, Responses!Stopped
 <2> HIDE DEF e
 <2>2. observer' \in RObservers /\ observer'.settled /\ observer'.stopped
   BY <1>2, <2>1 DEF Responses!Settled, RObservers
 <2>3. native' \in RNatives /\ native'.phase = native.phase /\ native'.done = native.done /\ native'.signal
   BY <1>2, <2>1, NativeIs
 <2>4. observer.settled \/ observer.connected  BY <1>1, <2>1 DEF RSettles
 <2>5. told' \in RTolds /\ told'.starts = told.starts /\ told'.given = told.given /\ told'.aborts = told.aborts
       /\ told'.preStart = told.preStart
   BY <1>1, <2>1, <2>4, Finishes
 <2>6. native'.done # "pending" => native'.phase = "over"  BY <1>1, <2>3 DEF RSettles
 <2>7. RSettles' /\ told'.calls[1].natural = FALSE
   BY <1>1, <2>1, <2>2, <2>4, <2>5, <2>6, EndedOnce
 <2>8. /\ bridge' \in RBridges /\ bridge'.state = bridge.state /\ (bridge.delegated => bridge'.delegated)
       /\ (bridge' = bridge \/ bridge.state = "started")
       /\ world' \in RWorlds /\ world'.events = e.events /\ world'.stopAt = e.stopAt
       /\ (bridge'.terminal # "none" => world'.waiters = 0)
  <3>1. CASE bridge.state = "started"
    BY <1>2, <1>3, <2>1, <3>1, BridgeIs, MirrorIs, <1>1 DEF RAborts
  <3>2. CASE bridge.state # "started"
    BY <1>1, <1>2, <1>3, <2>1, <3>2 DEF RAborts
  <3>3. QED BY <3>1, <3>2
 <2>9. RTyped'  BY <2>2, <2>3, <2>5, <2>8 DEF RTyped
 <2>10. RGives'
  <3>1. told.given \in Nat /\ world.events \in Nat /\ told.given <= world.events /\ told.given <= world.stopAt
        /\ world.stopAt \in Nat
    BY <1>1, <2>1, ResponsesTypes DEF RGives
  <3>2. told'.given <= world'.events /\ told'.given <= world'.stopAt /\ world'.stopAt >= 0
    BY <1>3, <2>5, <2>8, <3>1
  <3>3. QED BY <2>2, <2>7, <3>2 DEF RGives
 <2>11. RAborts'  BY <1>1, <1>2, <2>3, <2>5, <2>8 DEF RAborts
 <2>12. QED BY <2>7, <2>9, <2>10, <2>11 DEF ResponsesInv
<1>6. CASE Responses!EventFails
 <2> DEFINE t == Responses!Finish(TRUE, TRUE)
 <2>1. ~observer.settled /\ observer' = Responses!Settled /\ native' = Responses!AbortNative(native)
       /\ bridge' = Responses!Mirrored(bridge)
       /\ (Responses!Delivered(e, t) \/ (~Responses!BridgeHears /\ world' = e /\ told' = t))
   BY <1>6 DEF Responses!EventFails
 <2>2. t \in RTolds /\ t.starts = told.starts /\ t.given = told.given /\ t.aborts = told.aborts /\ t.preStart = told.preStart
   BY <1>1, Finishes
 <2>3. observer' \in RObservers /\ observer'.settled /\ observer'.stopped = observer.stopped
   BY <1>2, <2>1 DEF Responses!Settled, RObservers
 <2>4. native' \in RNatives /\ native'.phase = native.phase /\ native'.done = native.done /\ native'.signal
   BY <1>2, <2>1, NativeIs
 <2>5. bridge' \in RBridges /\ bridge'.state = bridge.state /\ bridge'.terminal = bridge.terminal
       /\ (bridge' = bridge \/ bridge.state = "started") /\ (bridge.delegated => bridge'.delegated)
   BY <1>2, <2>1, MirrorIs
 <2> HIDE DEF e, t
 <2>6. /\ told' \in RTolds /\ told'.starts = t.starts /\ told'.calls = t.calls /\ told'.aborts = t.aborts /\ told'.preStart = t.preStart
       /\ (told'.given = t.given \/ (~observer.stopped /\ told'.given = e.events))
       /\ world' \in RWorlds /\ world'.events = e.events /\ world'.stopAt = e.stopAt /\ (e.waiters = 0 => world'.waiters = 0)
   BY <1>1, <1>3, <2>1, <2>2, Deliveries
 <2>7. told'.calls = Responses!Finish(TRUE, TRUE).calls  BY <2>6 DEF t
 <2>8. native'.done # "pending" => native'.phase = "over"  BY <1>1, <2>4 DEF RSettles
 <2>9. RSettles'  BY <1>1, <2>3, <2>6, <2>7, <2>8, EndedOnce
 <2>10. RTyped'  BY <2>3, <2>4, <2>5, <2>6 DEF RTyped
 <2>11. ~observer.stopped  BY <1>1, <2>1 DEF RGives
 <2>12. RGives'  BY <1>1, <1>3, <2>2, <2>3, <2>6, <2>11, ResponsesTypes DEF RGives
 <2>13. RAborts'  BY <1>1, <1>2, <1>3, <2>2, <2>4, <2>5, <2>6 DEF RAborts
 <2>14. QED BY <2>9, <2>10, <2>12, <2>13 DEF ResponsesInv
<1>7. QED BY <1>4, <1>5, <1>6

(* The provider's done promise is heard, by the observer and by the bridge. *)
LEMMA DoneSteps ==
  ASSUME ResponsesInv, Responses!ObserverHearsDone \/ Responses!BridgeHearsDone
  PROVE  ResponsesInv'
<1>1. RTyped /\ RSettles /\ RGives /\ RAborts  BY DEF ResponsesInv
<1>2. bridge \in RBridges /\ observer \in RObservers /\ native \in RNatives /\ world \in RWorlds /\ told \in RTolds
  BY <1>1 DEF RTyped
<1>3. CASE Responses!ObserverHearsDone
  BY <1>3, <1>2, <1>1 DEF Responses!ObserverHearsDone, Responses!Settled, RObservers, RSettles, Responses!Finish, ResponsesInv, RTyped, RGives, RAborts
<1>4. CASE Responses!BridgeHearsDone
 <2> DEFINE b == [bridge EXCEPT !.heardDone = TRUE]
 <2>1. UNCHANGED <<observer, native, told>>
       /\ IF native.done = "rejected" \/ observer.stopped THEN Responses!RecordTerminalFailure(b, "provider")
          ELSE bridge' = [b EXCEPT !.ended = TRUE] /\ world' = world
   BY <1>4 DEF Responses!BridgeHearsDone
 <2>2. b \in RBridges /\ b.state = bridge.state /\ b.delegated = bridge.delegated /\ b.terminal = bridge.terminal
       /\ b.abortRequested = bridge.abortRequested /\ b.ended = bridge.ended
   BY <1>2 DEF RBridges
 <2> HIDE DEF b
 <2>3. bridge.terminal # "none" => world.waiters = 0  BY <1>1 DEF RAborts
 <2>4. /\ bridge' \in RBridges /\ bridge'.state = bridge.state /\ bridge'.delegated = bridge.delegated
       /\ bridge'.abortRequested = bridge.abortRequested
       /\ world' \in RWorlds /\ world'.events = world.events /\ world'.stopAt = world.stopAt
       /\ (bridge'.terminal # "none" => world'.waiters = 0)
  <3>1. CASE Responses!RecordTerminalFailure(b, "provider")
    BY <3>1, <1>2, <2>2, BridgeIs, <2>3 DEF Responses!RecordTerminalFailure
  <3>2. CASE bridge' = [b EXCEPT !.ended = TRUE] /\ world' = world
    BY <1>2, <2>2, <2>3, <3>2 DEF RBridges
  <3>3. QED BY <2>1, <3>1, <3>2
 <2>5. RTyped' /\ RSettles' /\ RGives'  BY <1>1, <1>2, <2>1, <2>4 DEF RTyped, RSettles, RGives
 <2>6. RAborts'  BY <1>1, <2>1, <2>4 DEF RAborts
 <2>7. QED BY <2>5, <2>6 DEF ResponsesInv
<1>5. QED BY <1>3, <1>4

LEMMA ResponsesStep ==
  ASSUME ResponsesInv, [Responses!Next]_(Responses!vars)
  PROVE  ResponsesInv'
<1>1. CASE Responses!Next
  BY <1>1, CallerSteps, StartSteps, EndingSteps, EventSteps, DoneSteps DEF Responses!Next
<1>2. CASE UNCHANGED Responses!vars
  BY <1>2 DEF Responses!vars, ResponsesInv, RTyped, RSettles, RGives, RAborts
<1>3. QED BY <1>1, <1>2

TTyped ==
  /\ consumer \in {"none", "iteration", "helper"} /\ pulls \in Seq({"pending", "item", "done", "error"})
  /\ unread \in [Tee!Branch -> Seq(Nat)] /\ active \in [Tee!Branch -> BOOLEAN] /\ terminal \in BOOLEAN
  /\ reads \in [Tee!Branch -> Seq(Nat)] /\ closes \in Nat

(* A branch of the tee read n pulls, and no more after those. *)
TRead(b, n) ==
  /\ n <= Len(reads[b])
  /\ \A i \in DOMAIN reads[b] : reads[b][i] = IF i <= n THEN i ELSE 0
  /\ active[b] => /\ Len(pulls) = n + Len(unread[b])
                  /\ \A i \in DOMAIN unread[b] : unread[b][i] = n + i
  /\ ~active[b] => unread[b] = <<>>
  /\ active[b] /\ n < Len(reads[b]) => terminal /\ unread[b] = <<>>

TeeInv ==
  /\ TTyped
  /\ \A b \in Tee!Branch : \E n \in Nat : TRead(b, n)
  /\ closes > 0 => \A b \in Tee!Branch : ~active[b]

LEMMA TeeProperty ==
  ASSUME TeeInv
  PROVE  Tee!BranchesReadAll
<1>1. ASSUME NEW b \in Tee!Branch
      PROVE  \E n \in 0..Len(reads[b]) :
               /\ \A i \in DOMAIN reads[b] : reads[b][i] = IF i <= n THEN i ELSE 0
               /\ active[b] => /\ Len(pulls) = n + Len(unread[b])
                               /\ \A i \in DOMAIN unread[b] : unread[b][i] = n + i
               /\ ~active[b] => unread[b] = <<>>
               /\ active[b] /\ n < Len(reads[b]) => terminal /\ unread[b] = <<>>
  BY DEF TeeInv, TTyped, TRead
<1>2. closes > 0 => \A b \in Tee!Branch : ~active[b]  BY DEF TeeInv
<1>3. QED BY <1>1, <1>2 DEF Tee!BranchesReadAll

LEMMA TeeInit ==
  ASSUME Tee!Init
  PROVE  TeeInv
<1>1. TTyped
 <2>1. [b \in Tee!Branch |-> <<>>] \in [Tee!Branch -> Seq(Nat)] /\ [b \in Tee!Branch |-> TRUE] \in [Tee!Branch -> BOOLEAN]
       /\ <<>> \in Seq({"pending", "item", "done", "error"})
   OBVIOUS
 <2>2. QED BY <2>1 DEF Tee!Init, TTyped
<1>2. ASSUME NEW b \in Tee!Branch PROVE \E n \in Nat : TRead(b, n)
  BY DEF Tee!Init, TRead
<1>3. closes = 0  BY DEF Tee!Init
<1>4. QED BY <1>1, <1>2, <1>3 DEF TeeInv

(* What a branch is given, and what is left to it. *)
LEMMA Given ==
  ASSUME TTyped, NEW b \in Tee!Branch, NEW p \in Nat, Tee!Give(b, p)
  PROVE  /\ reads' \in [Tee!Branch -> Seq(Nat)] /\ Len(reads'[b]) = Len(reads[b]) + 1
         /\ \A i \in DOMAIN reads'[b] : reads'[b][i] = IF i <= Len(reads[b]) THEN reads[b][i] ELSE p
         /\ DOMAIN reads[b] = 1..Len(reads[b])
         /\ \A c \in Tee!Branch : c # b => reads'[c] = reads[c]
<1>1. reads \in [Tee!Branch -> Seq(Nat)] /\ reads[b] \in Seq(Nat)  BY DEF TTyped
<1>2. reads' = [reads EXCEPT ![b] = Append(@, p)]  BY DEF Tee!Give
<1>3. reads'[b] = Append(reads[b], p) /\ \A c \in Tee!Branch : c # b => reads'[c] = reads[c]  BY <1>1, <1>2
<1>4. Append(reads[b], p) \in Seq(Nat)  BY <1>1
<1>5. reads' \in [Tee!Branch -> Seq(Nat)]  BY <1>1, <1>2, <1>4
<1> DEFINE s == reads[b]
<1>6. s \in Seq(Nat) /\ reads'[b] = Append(s, p)  BY <1>1, <1>3
<1> HIDE DEF s
<1>7. Len(reads'[b]) = Len(s) + 1 /\ (\A i \in DOMAIN reads'[b] : reads'[b][i] = IF i <= Len(s) THEN s[i] ELSE p) /\ DOMAIN s = 1..Len(s)
  BY <1>6
<1>8. QED BY <1>3, <1>5, <1>7 DEF s

(* A branch that a step leaves alone is read as far as before. *)
LEMMA Untouched ==
  ASSUME NEW b \in Tee!Branch, NEW n \in Nat, TRead(b, n), reads'[b] = reads[b], unread'[b] = unread[b], active'[b] = active[b],
         active[b] => Len(pulls') = Len(pulls), terminal => terminal'
  PROVE  TRead(b, n)'
BY DEF TRead

(* A read that only ends: of a cancelled branch, or past the end. *)
LEMMA ReadsNothing ==
  ASSUME TeeInv, NEW b \in Tee!Branch, Tee!Give(b, 0), UNCHANGED <<consumer, pulls, unread, active, terminal, closes>>,
         ~active[b] \/ (unread[b] = <<>> /\ terminal)
  PROVE  TeeInv'
<1>1. TTyped  BY DEF TeeInv
<1>2. TTyped'  BY <1>1, Given DEF TTyped
<1>3. ASSUME NEW c \in Tee!Branch PROVE \E n \in Nat : TRead(c, n)'
 <2>1. PICK n \in Nat : TRead(c, n)  BY DEF TeeInv
 <2>2. CASE c # b
   BY <1>1, <2>2, Given, <2>1, Untouched
 <2>3. CASE c = b
  <3>1. reads[b] \in Seq(Nat)  BY <1>1 DEF TTyped
  <3>2. /\ Len(reads'[b]) = Len(reads[b]) + 1
        /\ \A i \in DOMAIN reads'[b] : reads'[b][i] = IF i <= Len(reads[b]) THEN reads[b][i] ELSE 0
        /\ DOMAIN reads'[b] \subseteq Nat /\ DOMAIN reads[b] = 1..Len(reads[b]) /\ \A i \in DOMAIN reads'[b] : i >= 1
    BY <1>1, <1>2, Given DEF TTyped
  <3>3. n <= Len(reads[b]) /\ \A i \in DOMAIN reads[b] : reads[b][i] = IF i <= n THEN i ELSE 0
    BY <2>1, <2>3 DEF TRead
  <3>4. \A i \in DOMAIN reads'[b] : reads'[b][i] = IF i <= n THEN i ELSE 0
    BY <3>1, <3>2, <3>3
  <3>5. n <= Len(reads'[b])  BY <3>1, <3>2, <3>3
  <3>6. TRead(b, n)'  BY <2>1, <2>3, <3>4, <3>5 DEF TRead
  <3>7. QED BY <2>3, <3>6
 <2>4. QED BY <2>2, <2>3
<1>4. (closes > 0 => \A c \in Tee!Branch : ~active[c])'  BY DEF TeeInv
<1>5. QED BY <1>2, <1>3, <1>4 DEF TeeInv

LEMMA ReadsItsOwn ==
  ASSUME TeeInv, NEW b \in Tee!Branch, Tee!ReadOwn(b)
  PROVE  TeeInv'
<1>1. TTyped  BY DEF TeeInv
<1>2. active[b] /\ unread[b] # <<>> /\ Tee!Give(b, Head(unread[b])) /\ unread' = [unread EXCEPT ![b] = Tail(@)]
      /\ UNCHANGED <<consumer, pulls, active, terminal, closes>>
  BY DEF Tee!ReadOwn
<1>3. unread \in [Tee!Branch -> Seq(Nat)] /\ unread[b] \in Seq(Nat) /\ reads[b] \in Seq(Nat) /\ pulls \in Seq({"pending", "item", "done", "error"})
  BY <1>1 DEF TTyped
<1> DEFINE u == unread[b]
           p == Head(u)
<1>4. u \in Seq(Nat) /\ u # <<>>  BY <1>2, <1>3
<1>5. p \in Nat /\ p = u[1] /\ 1 \in DOMAIN u /\ Tail(u) \in Seq(Nat) /\ Len(Tail(u)) = Len(u) - 1 /\ Len(u) \in Nat
      /\ \A i \in DOMAIN Tail(u) : i \in Nat /\ i + 1 \in DOMAIN u /\ Tail(u)[i] = u[i + 1]
  BY <1>4
<1>6. unread'[b] = Tail(u) /\ (\A c \in Tee!Branch : c # b => unread'[c] = unread[c]) /\ unread' \in [Tee!Branch -> Seq(Nat)]
  BY <1>2, <1>3, <1>5
<1> HIDE DEF u
<1>7. /\ reads' \in [Tee!Branch -> Seq(Nat)] /\ Len(reads'[b]) = Len(reads[b]) + 1
      /\ \A i \in DOMAIN reads'[b] : reads'[b][i] = IF i <= Len(reads[b]) THEN reads[b][i] ELSE p
      /\ DOMAIN reads[b] = 1..Len(reads[b])
      /\ \A c \in Tee!Branch : c # b => reads'[c] = reads[c]
  BY <1>2, <1>1, <1>5, Given DEF u
<1>8. TTyped'  BY <1>1, <1>2, <1>6, <1>7 DEF TTyped
<1>9. ASSUME NEW c \in Tee!Branch PROVE \E n \in Nat : TRead(c, n)'
 <2>1. PICK n \in Nat : TRead(c, n)  BY DEF TeeInv
 <2>2. CASE c # b
   BY <1>6, <1>7, <2>2, <1>2, <2>1, Untouched
 <2>3. CASE c = b
  <3>1. TRead(b, n)  BY <2>1, <2>3
  <3>2. n <= Len(reads[b]) /\ (\A i \in DOMAIN reads[b] : reads[b][i] = IF i <= n THEN i ELSE 0)
        /\ Len(pulls) = n + Len(u) /\ (\A i \in DOMAIN u : u[i] = n + i) /\ n = Len(reads[b])
    BY <1>2, <1>3, <3>1 DEF TRead, u
  <3>3. p = n + 1  BY <1>5, <3>2
  <3> HIDE DEF p
  <3>4. reads'[b] \in Seq(Nat)  BY <1>7
  <3>5. \A i \in DOMAIN reads'[b] : i \in 1..(n + 1)  BY <1>7, <3>2, <3>4
  <3>6. ASSUME NEW i \in DOMAIN reads'[b] PROVE reads'[b][i] = IF i <= n + 1 THEN i ELSE 0
   <4>1. i \in Nat /\ 1 <= i /\ i <= n + 1  BY <3>5
   <4>2. CASE i <= n
    <5>1. i \in DOMAIN reads[b] /\ reads'[b][i] = reads[b][i]  BY <1>7, <3>2, <4>1, <4>2
    <5>2. QED BY <3>2, <4>1, <4>2, <5>1
   <4>3. CASE ~(i <= n)
     BY <1>7, <3>2, <3>3, <4>1, <4>3
   <4>4. QED BY <4>2, <4>3
  <3>7. n + 1 <= Len(reads'[b]) /\ ~(n + 1 < Len(reads'[b]))  BY <1>7, <3>2
  <3>8. Len(pulls') = (n + 1) + Len(unread'[b]) /\ \A i \in DOMAIN unread'[b] : unread'[b][i] = (n + 1) + i
   <4>1. Len(unread'[b]) = Len(u) - 1 /\ Len(pulls') = Len(pulls)  BY <1>2, <1>5, <1>6
   <4>2. ASSUME NEW i \in DOMAIN unread'[b] PROVE unread'[b][i] = (n + 1) + i
    <5>1. i \in Nat /\ i + 1 \in DOMAIN u /\ unread'[b][i] = u[i + 1]  BY <1>5, <1>6
    <5>2. u[i + 1] = n + (i + 1)  BY <3>2, <5>1
    <5>3. n \in Nat  OBVIOUS
    <5>4. QED BY <5>1, <5>2, <5>3
   <4>3. Len(pulls) = n + Len(u) /\ Len(u) \in Nat  BY <1>5, <3>2
   <4>4. Len(pulls') = (n + 1) + Len(unread'[b])  BY <4>1, <4>3
   <4>5. QED BY <4>2, <4>4
  <3>9. active'[b]  BY <1>2
  <3>10. TRead(b, n + 1)'  BY <3>6, <3>7, <3>8, <3>9 DEF TRead
  <3>11. n + 1 \in Nat  OBVIOUS
  <3>12. QED BY <2>3, <3>10, <3>11
 <2>4. QED BY <2>2, <2>3
<1>10. (closes > 0 => \A c \in Tee!Branch : ~active[c])'  BY <1>2 DEF TeeInv
<1>11. QED BY <1>8, <1>9, <1>10 DEF TeeInv

LEMMA ReadsAnew ==
  ASSUME TeeInv, NEW b \in Tee!Branch, Tee!ReadNew(b)
  PROVE  TeeInv'
<1>1. TTyped  BY DEF TeeInv
<1> DEFINE p == Len(pulls) + 1
<1>2. active[b] /\ unread[b] = <<>> /\ ~terminal /\ pulls' = Append(pulls, "pending")
      /\ unread' = [c \in Tee!Branch |-> IF c # b /\ active[c] THEN Append(unread[c], p) ELSE unread[c]]
      /\ Tee!Give(b, p) /\ UNCHANGED <<consumer, active, terminal, closes>>
  BY DEF Tee!ReadNew
<1>3. unread \in [Tee!Branch -> Seq(Nat)] /\ reads[b] \in Seq(Nat) /\ pulls \in Seq({"pending", "item", "done", "error"})
  BY <1>1 DEF TTyped
<1>4. p \in Nat /\ pulls' \in Seq({"pending", "item", "done", "error"}) /\ Len(pulls') = p  BY <1>2, <1>3
<1>5. /\ reads' \in [Tee!Branch -> Seq(Nat)] /\ Len(reads'[b]) = Len(reads[b]) + 1
      /\ \A i \in DOMAIN reads'[b] : reads'[b][i] = IF i <= Len(reads[b]) THEN reads[b][i] ELSE p
      /\ DOMAIN reads[b] = 1..Len(reads[b])
      /\ \A c \in Tee!Branch : c # b => reads'[c] = reads[c]
  BY <1>1, <1>2, <1>4, Given
<1>6. unread' \in [Tee!Branch -> Seq(Nat)]
  BY <1>3, <1>4, <1>2
<1>7. TTyped'  BY <1>1, <1>2, <1>4, <1>5, <1>6 DEF TTyped
<1>8. ASSUME NEW c \in Tee!Branch PROVE \E n \in Nat : TRead(c, n)'
 <2>1. PICK n \in Nat : TRead(c, n)  BY DEF TeeInv
 <2>2. CASE c # b
  <3>1. reads'[c] = reads[c] /\ active'[c] = active[c] /\ unread'[c] = IF active[c] THEN Append(unread[c], p) ELSE unread[c]
    BY <1>2, <1>5, <2>2
  <3>2. CASE ~active[c]
    BY <1>2, <2>1, <3>1, <3>2, Untouched
  <3>3. CASE active[c]
   <4>1. n <= Len(reads[c]) /\ (\A i \in DOMAIN reads[c] : reads[c][i] = IF i <= n THEN i ELSE 0)
         /\ Len(pulls) = n + Len(unread[c]) /\ (\A i \in DOMAIN unread[c] : unread[c][i] = n + i) /\ ~(n < Len(reads[c]))
     BY <1>2, <2>1, <3>3 DEF TRead
   <4> DEFINE u == unread[c]
   <4>2. u \in Seq(Nat) /\ unread'[c] = Append(u, p)  BY <1>3, <3>1, <3>3
   <4>3. Len(pulls) = n + Len(u) /\ \A i \in DOMAIN u : u[i] = n + i  BY <4>1
   <4> HIDE DEF u
   <4>4. Len(unread'[c]) = Len(u) + 1 /\ \A i \in DOMAIN unread'[c] : unread'[c][i] = n + i
    <5>1. p = n + Len(u) + 1  BY <4>3
    <5>2. p \in Nat  BY <1>4
    <5> HIDE DEF p
    <5>3. QED BY <4>2, <4>3, <5>1, <5>2
   <4>5. Len(pulls') = n + Len(unread'[c])  BY <1>3, <1>4, <4>2, <4>3, <4>4
   <4>6. TRead(c, n)'  BY <3>1, <3>3, <4>1, <4>4, <4>5 DEF TRead
   <4>7. QED BY <4>6
  <3>4. QED BY <3>2, <3>3
 <2>3. CASE c = b
  <3>1. TRead(b, n)  BY <2>1, <2>3
  <3>2. n <= Len(reads[b]) /\ (\A i \in DOMAIN reads[b] : reads[b][i] = IF i <= n THEN i ELSE 0)
        /\ Len(pulls) = n /\ n = Len(reads[b])
    BY <1>2, <1>3, <3>1 DEF TRead
  <3>3. p = n + 1 /\ Len(pulls') = n + 1  BY <1>4, <3>2
  <3> HIDE DEF p
  <3>4. reads'[b] \in Seq(Nat)  BY <1>5
  <3>5. \A i \in DOMAIN reads'[b] : i \in 1..(n + 1)  BY <1>5, <3>2, <3>4
  <3>6. ASSUME NEW i \in DOMAIN reads'[b] PROVE reads'[b][i] = IF i <= n + 1 THEN i ELSE 0
   <4>1. i \in Nat /\ 1 <= i /\ i <= n + 1  BY <3>5
   <4>2. CASE i <= n
    <5>1. i \in DOMAIN reads[b] /\ reads'[b][i] = reads[b][i]  BY <1>5, <3>2, <4>1, <4>2
    <5>2. QED BY <3>2, <4>1, <4>2, <5>1
   <4>3. CASE ~(i <= n)
     BY <1>5, <3>2, <3>3, <4>1, <4>3
   <4>4. QED BY <4>2, <4>3
  <3>7. n + 1 <= Len(reads'[b]) /\ ~(n + 1 < Len(reads'[b]))  BY <1>5, <3>2
  <3>8. unread'[b] = <<>> /\ active'[b]  BY <1>2
  <3>9. TRead(b, n + 1)'  BY <3>3, <3>6, <3>7, <3>8 DEF TRead
  <3>10. n + 1 \in Nat  OBVIOUS
  <3>11. QED BY <2>3, <3>9, <3>10
 <2>4. QED BY <2>2, <2>3
<1>9. (closes > 0 => \A c \in Tee!Branch : ~active[c])'  BY <1>2 DEF TeeInv
<1>10. QED BY <1>7, <1>8, <1>9 DEF TeeInv

LEMMA Cancels ==
  ASSUME TeeInv, NEW b \in Tee!Branch, Tee!Cancel(b)
  PROVE  TeeInv'
<1>1. TTyped  BY DEF TeeInv
<1>2. active' = [active EXCEPT ![b] = FALSE] /\ unread' = [unread EXCEPT ![b] = <<>>] /\ UNCHANGED <<consumer, pulls, terminal, reads>>
      /\ closes' = IF active'[0] \/ active'[1] THEN closes ELSE closes + 1
  BY DEF Tee!Cancel
<1>3. TTyped'  BY <1>1, <1>2 DEF TTyped
<1>4. ASSUME NEW c \in Tee!Branch PROVE \E n \in Nat : TRead(c, n)'
 <2>1. PICK n \in Nat : TRead(c, n)  BY DEF TeeInv
 <2>2. CASE c # b
   BY <1>1, <1>2, <2>2, <2>1, Untouched DEF TTyped
 <2>3. CASE c = b
   BY <1>1, <1>2, <2>3, <2>1 DEF TTyped, TRead
 <2>4. QED BY <2>2, <2>3
<1>5. ASSUME closes' > 0, NEW c \in Tee!Branch PROVE ~active'[c]
 <2>1. CASE closes > 0  BY <1>1, <1>2, <2>1 DEF TeeInv, TTyped
 <2>2. CASE ~(closes > 0)
   BY <1>5, <2>2, <1>2 DEF Tee!Branch
 <2>3. QED BY <2>1, <2>2
<1>6. QED BY <1>3, <1>4, <1>5 DEF TeeInv

LEMMA Settlements ==
  ASSUME TeeInv, NEW how \in {"item", "done", "error"}, Tee!Settle(how)
  PROVE  TeeInv'
<1>1. TTyped  BY DEF TeeInv
<1>2. PICK p \in DOMAIN pulls : pulls' = [pulls EXCEPT ![p] = how] /\ terminal' = (terminal \/ how \in {"done", "error"})
                                /\ UNCHANGED <<consumer, unread, active, reads, closes>>
  BY DEF Tee!Settle
<1>3. pulls' \in Seq({"pending", "item", "done", "error"}) /\ Len(pulls') = Len(pulls)  BY <1>1, <1>2 DEF TTyped
<1>4. terminal' \in BOOLEAN /\ (terminal => terminal')  BY <1>2
<1>5. TTyped'  BY <1>1, <1>2, <1>3, <1>4 DEF TTyped
<1>6. ASSUME NEW c \in Tee!Branch PROVE \E n \in Nat : TRead(c, n)'
  BY <1>2, <1>3, <1>4, Untouched DEF TeeInv
<1>7. (closes > 0 => \A c \in Tee!Branch : ~active[c])'  BY <1>2 DEF TeeInv
<1>8. QED BY <1>5, <1>6, <1>7 DEF TeeInv

LEMMA TeeStep ==
  ASSUME TeeInv, [Tee!Next]_(Tee!vars)
  PROVE  TeeInv'
<1>1. CASE Tee!Iterate \/ Tee!TakeOver
 <2>1. consumer' \in {"iteration", "helper"} /\ UNCHANGED <<pulls, unread, active, terminal, reads, closes>>
   BY <1>1 DEF Tee!Iterate, Tee!TakeOver
 <2>2. TTyped'  BY <2>1 DEF TeeInv, TTyped
 <2>3. \A b \in Tee!Branch : \A n \in Nat : TRead(b, n) => TRead(b, n)'  BY <2>1 DEF TRead
 <2>4. (closes > 0 => \A b \in Tee!Branch : ~active[b])'  BY <2>1 DEF TeeInv
 <2>5. QED BY <2>2, <2>3, <2>4 DEF TeeInv
<1>2. ASSUME NEW b \in Tee!Branch, Tee!ReadCancelled(b) \/ Tee!ReadAfterEnd(b)
      PROVE  TeeInv'
  BY <1>2, ReadsNothing DEF Tee!ReadCancelled, Tee!ReadAfterEnd
<1>3. CASE UNCHANGED Tee!vars
  BY <1>3 DEF Tee!vars, TeeInv, TTyped, TRead
<1>4. QED BY <1>1, <1>2, <1>3, ReadsItsOwn, ReadsAnew, Cancels, Settlements DEF Tee!Next

-----------------------------------------------------------------------------
(* However it ends, a stream is settled by one of its callbacks, and nothing of it is   *)
(* given after the stop of its run was seen; an abort of a response that is asked for    *)
(* before its provider, while it starts or after, reaches the provider once; and each      *)
(* branch of a stream that was teed reads every item of it in order.                       *)
THEOREM StreamsAreSettledOnce == PartsSpec => []StreamsSettleOnce
<1> DEFINE StreamsInv == WrapInv /\ ResponsesInv /\ TeeInv
<1>1. PartsInit => StreamsInv  BY WrapInit, ResponsesInit, TeeInit DEF PartsInit
<1>2. StreamsInv /\ [PartsNext]_<<part, vars, wrapperVars, responsesVars, outputVars, translationVars, teeVars>> => StreamsInv'
  BY WrapStep, ResponsesStep, TeeStep DEF PartsNext, wrapperVars, Wrapper!vars, responsesVars, Responses!vars, teeVars, Tee!vars
<1>3. StreamsInv => StreamsSettleOnce
  BY WrapProperty, ResponsesProperty, TeeProperty DEF StreamsSettleOnce
<1> HIDE DEF StreamsInv
<1>4. QED BY <1>1, <1>2, <1>3, PTL DEF PartsSpec

-----------------------------------------------------------------------------
Dialects == {"openai", "anthropic", "google"}
OneCap(q) == q.tokens = Output!Absent \/ q.completion = Output!Absent
Ok(h, q) == InDialect(Output!DialectOf(h.provider), q) /\ OneCap(q)

LEMMA LayersAre ==
  ASSUME NEW d \in Dialects, NEW l
  PROVE  InDialect(d, l) <=>
           /\ l \in Said
           /\ d # "openai" => /\ l.completion = -1 /\ l.n = -1 /\ l.thinking = -1 /\ l.budget = -1
           /\ d # "anthropic" => ~l.again
           /\ IF d = "google" THEN l.tokens = -1 ELSE l.config = Output!NoConfig
<1> DEFINE x == [l EXCEPT !.completion = -1, !.n = -1, !.thinking = -1, !.budget = -1]
<1>1. ASSUME l \in Said PROVE l = x <=> l.completion = -1 /\ l.n = -1 /\ l.thinking = -1 /\ l.budget = -1
  BY <1>1 DEF Said
<1>2. InDialect(d, l) <=>
           /\ l \in Said
           /\ d # "openai" => l = x
           /\ d # "anthropic" => ~l.again
           /\ IF d = "google" THEN l.tokens = -1 ELSE l.config = Output!NoConfig
  BY DEF InDialect, Output!Absent
<1> HIDE DEF x
<1>3. QED BY <1>1, <1>2

LEMMA DialectIs ==
  ASSUME NEW p
  PROVE  Output!DialectOf(p) \in Dialects /\ (p = "azure" => Output!DialectOf(p) = "openai")
         /\ (Output!DialectOf(p) \in {"anthropic", "google"} => p = Output!DialectOf(p))
BY DEF Output!DialectOf, Dialects

(* The highest of the layers that say something. *)
LEMMA LeastIs ==
  ASSUME NEW S, S \subseteq 1..3, S # {}
  PROVE  Output!Min(S) \in S /\ \A y \in S : Output!Min(S) <= y
<1>1. \E x \in S : \A y \in S : x <= y
 <2>0. \A y \in S : y = 1 \/ y = 2 \/ y = 3  OBVIOUS
 <2>1. CASE 1 \in S
   BY <2>0, <2>1
 <2>2. CASE 1 \notin S /\ 2 \in S
   BY <2>0, <2>2
 <2>3. CASE 1 \notin S /\ 2 \notin S
  <3>1. PICK x \in S : TRUE  OBVIOUS
  <3>2. x = 3 /\ \A y \in S : 3 <= y  BY <2>0, <2>3
  <3>3. QED BY <3>2
 <2>4. QED BY <2>1, <2>2, <2>3
<1>2. QED BY <1>1 DEF Output!Min

(* One layer, normalized for a host. *)
LEMMA Normal ==
  ASSUME NEW h, NEW l \in Said
  PROVE  LET m == Output!NormalizeCap(h, l) IN
         /\ m \in Said /\ m.n = l.n /\ m.thinking = l.thinking /\ m.budget = l.budget /\ m.again = l.again /\ m.config = l.config
         /\ Output!DialectOf(h.provider) # "openai" => m = l
         /\ Output!DialectOf(h.provider) = "openai" =>
              /\ OneCap(m) /\ Output!HasCap(m) = Output!HasCap(l)
              /\ h.provider # "azure" => (IF Output!UsesCompletionTokens(h) THEN m.tokens = -1 ELSE m.completion = -1)
              /\ h.provider = "azure" => (l.completion = -1 <=> m.completion = -1) /\ (l.completion # -1 => m.tokens = -1)
<1> DEFINE cap == IF l.completion # Output!Absent THEN l.completion ELSE l.tokens
           modern == IF h.provider = "azure" THEN l.completion # Output!Absent ELSE Output!UsesCompletionTokens(h)
           m == Output!NormalizeCap(h, l)
<1>1. CASE Output!DialectOf(h.provider) # "openai" \/ cap = Output!Absent
  BY <1>1, DialectIs DEF Output!NormalizeCap, OneCap, Output!HasCap, Output!Absent, Said
<1>2. CASE ~(Output!DialectOf(h.provider) # "openai" \/ cap = Output!Absent)
  BY <1>2 DEF Output!NormalizeCap, Said, Output!Absent, Values, Output!UsesCompletionTokens, OneCap, Output!HasCap, m
<1>3. QED BY <1>1, <1>2

LEMMA UnderIs ==
  ASSUME NEW a \in Said, NEW b \in Said
  PROVE  Output!Under(a, b) \in Said
         /\ \A d \in Dialects : InDialect(d, a) /\ InDialect(d, b) => InDialect(d, Output!Under(a, b))
<1> DEFINE u == Output!Under(a, b)
<1>1. u \in Said /\ (a.again = FALSE /\ b.again = FALSE => u.again = FALSE)
  BY DEF Output!Under, Said
<1>2. /\ u.completion = (IF a.completion # -1 THEN a.completion ELSE b.completion)
      /\ u.tokens = (IF a.tokens # -1 THEN a.tokens ELSE b.tokens)
      /\ u.n = (IF a.n # -1 THEN a.n ELSE b.n)
      /\ u.thinking = (IF a.thinking # -1 THEN a.thinking ELSE b.thinking)
      /\ u.budget = (IF a.budget # -1 THEN a.budget ELSE b.budget)
      /\ u.config = (IF a.config.form # "absent" THEN a.config ELSE b.config)
      /\ u.again = (a.again \/ b.again)
  BY DEF Output!Under, Output!Absent
<1> HIDE DEF u
<1>3. ASSUME NEW d \in Dialects, InDialect(d, a), InDialect(d, b) PROVE InDialect(d, u)
  BY <1>1, <1>2, <1>3, LayersAre
<1>4. QED BY <1>1, <1>3 DEF u

LEMMA UnderFields ==
  ASSUME NEW a \in Said, NEW b \in Said
  PROVE  LET u == Output!Under(a, b)
             o == Output!OverlayCaps(a, b) IN
         /\ u.tokens = (IF a.tokens # -1 THEN a.tokens ELSE b.tokens)
         /\ u.completion = (IF a.completion # -1 THEN a.completion ELSE b.completion)
         /\ o \in Said /\ o.n = u.n /\ o.thinking = u.thinking /\ o.budget = u.budget /\ o.config = u.config
         /\ o.tokens = (IF Output!HasCap(a) THEN a.tokens ELSE b.tokens)
         /\ o.completion = (IF Output!HasCap(a) THEN a.completion ELSE b.completion)
         /\ u.n = (IF a.n # -1 THEN a.n ELSE b.n)
         /\ u.thinking = (IF a.thinking # -1 THEN a.thinking ELSE b.thinking)
         /\ u.budget = (IF a.budget # -1 THEN a.budget ELSE b.budget)
         /\ u.config = (IF a.config.form # "absent" THEN a.config ELSE b.config)
<1> DEFINE u == Output!Under(a, b)
           o == Output!OverlayCaps(a, b)
<1>1. /\ u.tokens = (IF a.tokens # -1 THEN a.tokens ELSE b.tokens)
      /\ u.completion = (IF a.completion # -1 THEN a.completion ELSE b.completion)
      /\ u.n = (IF a.n # -1 THEN a.n ELSE b.n)
      /\ u.thinking = (IF a.thinking # -1 THEN a.thinking ELSE b.thinking)
      /\ u.budget = (IF a.budget # -1 THEN a.budget ELSE b.budget)
      /\ u.config = (IF a.config.form # "absent" THEN a.config ELSE b.config)
  BY DEF Output!Under, Output!Absent
<1>2. u \in Said /\ a.tokens \in Values /\ a.completion \in Values  BY UnderIs DEF Said
<1>3. o = IF Output!HasCap(a) THEN [u EXCEPT !.tokens = a.tokens, !.completion = a.completion] ELSE u
  BY DEF Output!OverlayCaps
<1> HIDE DEF u, o
<1>4. CASE Output!HasCap(a)
 <2>1. o = [u EXCEPT !.tokens = a.tokens, !.completion = a.completion]  BY <1>3, <1>4
 <2>2. QED BY <1>1, <1>2, <1>4, <2>1 DEF Said, u, o
<1>5. CASE ~Output!HasCap(a)
  BY <1>3, <1>5, <1>1, <1>2 DEF Output!HasCap, Output!Absent, u, o
<1>6. QED BY <1>4, <1>5

Owner(s) == s[Output!Min({i \in DOMAIN s : Output!HasCap(s[i])})]

(* Of two cap keys in an Azure request, the one of the highest layer stays. *)
LEMMA AliasIs ==
  ASSUME NEW h, NEW s, NEW m \in Said
  PROVE  LET q == Output!ResolveAliases(h, s, m) IN
         /\ q \in Said /\ q.n = m.n /\ q.thinking = m.thinking /\ q.budget = m.budget /\ q.config = m.config /\ q.again = m.again
         /\ h.provider # "azure" \/ OneCap(m) => q = m
         /\ h.provider = "azure" /\ ~OneCap(m) =>
              /\ q.completion = (IF Owner(s).completion = -1 THEN -1 ELSE m.completion)
              /\ q.tokens = (IF Owner(s).completion = -1 THEN m.tokens ELSE -1)
         /\ \A d \in Dialects : d # "google" /\ InDialect(d, m) => InDialect(d, q)
         /\ h.provider = "azure" => OneCap(q)
<1> DEFINE q == Output!ResolveAliases(h, s, m)
           owner == Owner(s)
<1>1. CASE h.provider # "azure" \/ OneCap(m)
  BY <1>1 DEF Output!ResolveAliases, OneCap
<1>2. CASE h.provider = "azure" /\ ~OneCap(m)
  BY <1>2, LayersAre DEF Output!ResolveAliases, OneCap, Output!Absent, Owner, Said, Values, q, owner
<1>3. QED BY <1>1, <1>2

(* A request in the caller's own dialect says what the reservation was made for. *)
LEMMA Agree ==
  ASSUME NEW h, NEW a \in Said, NEW b \in Said, NEW c \in Said,
         \A l \in {a, b, c} : InDialect(Output!DialectOf(h.provider), l)
  PROVE  LET q == Output!SameDialectRequest(h, <<a, b, c>>)
             d == Output!DialectOf(h.provider)
             caps == Output!OverlayCaps(Output!NormalizeCap(h, a),
                       Output!OverlayCaps(Output!NormalizeCap(h, b), Output!NormalizeCap(h, c))) IN
         /\ Ok(h, q) /\ q.n = caps.n /\ q.thinking = caps.thinking /\ q.budget = caps.budget /\ q.config = caps.config
         /\ Output!ProjectedCap(d, q) = Output!ProjectedCap(d, caps)
<1> DEFINE d == Output!DialectOf(h.provider)
           s == <<a, b, c>>
           x == Output!NormalizeCap(h, a)
           y == Output!NormalizeCap(h, b)
           z == Output!NormalizeCap(h, c)
           low == Output!Under(y, z)
           m == Output!Under(x, low)
           over == Output!OverlayCaps(y, z)
           caps == Output!OverlayCaps(x, over)
           q == Output!SameDialectRequest(h, s)
<1>1. x \in Said /\ y \in Said /\ z \in Said  BY Normal
<1>2. d \in Dialects  BY DialectIs
<1>3. InDialect(d, x) /\ InDialect(d, y) /\ InDialect(d, z)  BY <1>2, Normal, LayersAre
<1>4. m \in Said /\ low \in Said /\ over \in Said /\ InDialect(d, m)  BY <1>1, <1>2, <1>3, UnderIs, UnderFields
<1>5. q = Output!ResolveAliases(h, s, m)
  BY DEF Output!Merged, Output!SameDialectRequest
<1>6. /\ q \in Said /\ q.n = m.n /\ q.thinking = m.thinking /\ q.budget = m.budget /\ q.config = m.config
      /\ h.provider # "azure" \/ OneCap(m) => q = m
      /\ h.provider = "azure" /\ ~OneCap(m) =>
           /\ q.completion = (IF Owner(s).completion = -1 THEN -1 ELSE m.completion)
           /\ q.tokens = (IF Owner(s).completion = -1 THEN m.tokens ELSE -1)
      /\ d # "google" /\ InDialect(d, m) => InDialect(d, q)
  BY <1>2, <1>4, <1>5, AliasIs
<1> HIDE DEF q
<1>7. m.n = caps.n /\ m.thinking = caps.thinking /\ m.budget = caps.budget /\ m.config = caps.config
  BY <1>1, UnderFields, <1>4
<1>8. InDialect(d, q)
  BY DialectIs, <1>4, <1>6
<1>9. /\ low.tokens = (IF y.tokens # -1 THEN y.tokens ELSE z.tokens) /\ low.completion = (IF y.completion # -1 THEN y.completion ELSE z.completion)
      /\ m.tokens = (IF x.tokens # -1 THEN x.tokens ELSE low.tokens) /\ m.completion = (IF x.completion # -1 THEN x.completion ELSE low.completion)
      /\ over.tokens = (IF Output!HasCap(y) THEN y.tokens ELSE z.tokens)
      /\ over.completion = (IF Output!HasCap(y) THEN y.completion ELSE z.completion)
      /\ caps.tokens = (IF Output!HasCap(x) THEN x.tokens ELSE over.tokens)
      /\ caps.completion = (IF Output!HasCap(x) THEN x.completion ELSE over.completion)
  BY <1>1, UnderFields, <1>4
<1>10. OneCap(q) /\ Output!ProjectedCap(d, q) = Output!ProjectedCap(d, caps)
 <2>1. CASE d # "openai"
   BY <2>1, DialectIs, <1>6, <1>2, <1>3, LayersAre, <1>9, <1>7 DEF Output!HasCap, Output!Absent, Dialects, OneCap, Output!ProjectedCap
 <2>2. CASE d = "openai"
  <3> SUFFICES OneCap(q) /\ (IF q.completion # -1 THEN q.completion ELSE q.tokens) = (IF caps.completion # -1 THEN caps.completion ELSE caps.tokens)
    BY <2>2 DEF Output!ProjectedCap, Output!Absent
  <3>1. CASE h.provider # "azure"
    BY <1>6, <3>1, <2>2, Normal, <1>9 DEF OneCap, Output!HasCap, Output!Absent
  <3>2. CASE h.provider = "azure"
   <4>1. /\ OneCap(x) /\ OneCap(y) /\ OneCap(z)
         /\ Output!HasCap(x) = Output!HasCap(a) /\ Output!HasCap(y) = Output!HasCap(b) /\ Output!HasCap(z) = Output!HasCap(c)
         /\ (a.completion = -1 <=> x.completion = -1) /\ (b.completion = -1 <=> y.completion = -1) /\ (c.completion = -1 <=> z.completion = -1)
     BY <2>2, <3>2, Normal
   <4>2. CASE OneCap(m)
     BY <1>6, <4>2, <1>9, <4>1 DEF OneCap, Output!HasCap, Output!Absent
   <4>3. CASE ~OneCap(m)
     BY <1>6, <3>2, <4>3, <1>9, <4>1, LeastIs DEF Owner, OneCap, Output!HasCap, Output!Absent
   <4>4. QED BY <4>2, <4>3
  <3>3. QED BY <3>1, <3>2
 <2>3. QED BY <2>1, <2>2
<1>11. QED BY <1>6, <1>7, <1>8, <1>10 DEF Ok, q

(* A request is held to a bound that nothing the provider goes by can pass. *)
Outside(h, q) == IF h.family = "qwen" /\ q.thinking # Output!Bad THEN q.budget ELSE 0
BoundOf(h, q) ==
  (Output!ProjectedCap(Output!DialectOf(h.provider), q) + Outside(h, q))
     * Output!Candidates(Output!DialectOf(h.provider), q)

LEMMA BoundedIs ==
  ASSUME DefaultBound \in Nat \ {0}, NEW h, NEW q, Ok(h, q)
  PROVE  LET b == Output!Bounded(h, q)
             d == Output!DialectOf(h.provider)
             cap == Output!ProjectedCap(d, q) IN
         /\ Ok(h, b) /\ b.n = q.n /\ b.thinking = q.thinking /\ b.budget = q.budget /\ b.again = q.again
         /\ b.config.count = q.config.count
         /\ Output!ProjectedCap(d, b) = IF cap > 0 THEN cap ELSE DefaultBound
         /\ d = "google" => b.config.loop = 0
<1> DEFINE d == Output!DialectOf(h.provider)
           b == Output!Bounded(h, q)
           cap == Output!ProjectedCap(d, q)
<1>1. d \in Dialects /\ InDialect(d, q) /\ q \in Said /\ OneCap(q)  BY DialectIs, LayersAre DEF Ok
<1>2. DefaultBound \in Values /\ DefaultBound # -1 /\ DefaultBound \in Nat /\ -1 \in Values /\ 0 \in Values  BY DEF Values, Output!Absent
<1>3. CASE d = "openai"
  BY <1>3, <1>1, <1>2, LayersAre DEF Output!ProjectedCap, Output!Absent, Output!Bounded, Output!ApplyBound, Output!Positive, Said, OneCap, Ok, b, cap
<1>4. CASE d = "anthropic"
  BY <1>4, <1>1, <1>2, LayersAre DEF Output!ProjectedCap, Output!Bounded, Output!ApplyBound, Output!Positive, Said, Ok, b, cap, OneCap, Output!Absent
<1>5. CASE d = "google"
 <2> DEFINE a == Output!ApplyBound(h, q)
 <2>1. cap = q.config.cap  BY <1>5 DEF Output!ProjectedCap
 <2>2. a = (IF cap > 0 THEN q ELSE [q EXCEPT !.config.cap = DefaultBound, !.config.form = "object"])
       /\ b = [a EXCEPT !.config = [@ EXCEPT !.loop = 0]]
   BY <1>5, <2>1 DEF Output!Bounded, Output!ApplyBound, Output!Positive, Output!SingleGeneration, Output!Bad
 <2> HIDE DEF a, b, cap
 <2>3. a \in Said /\ a.n = q.n /\ a.thinking = q.thinking /\ a.budget = q.budget /\ a.again = q.again
       /\ a.tokens = q.tokens /\ a.completion = q.completion
       /\ a.config.cap = (IF cap > 0 THEN cap ELSE DefaultBound) /\ a.config.count = q.config.count
   BY <1>1, <1>2, <2>1, <2>2 DEF Said
 <2>4. b \in Said /\ b.n = q.n /\ b.thinking = q.thinking /\ b.budget = q.budget /\ b.again = q.again
       /\ b.tokens = q.tokens /\ b.completion = q.completion
       /\ b.config.cap = a.config.cap /\ b.config.count = a.config.count /\ b.config.loop = 0
   BY <1>2, <2>2, <2>3 DEF Said
 <2>5. InDialect("google", q) /\ "google" \in Dialects  BY <1>1, <1>5
 <2>6. InDialect("google", b) /\ b.completion = -1  BY <2>4, <2>5, LayersAre
 <2>7. Output!ProjectedCap(d, b) = b.config.cap  BY <1>5 DEF Output!ProjectedCap
 <2>8. QED BY <1>5, <2>3, <2>4, <2>6, <2>7 DEF Ok, b, cap, OneCap, Output!Absent
<1>6. QED BY <1>1, <1>3, <1>4, <1>5 DEF Dialects

LEMMA LargestIs ==
  ASSUME DefaultBound \in Nat \ {0}, NEW h, NEW q, Ok(h, q), ~Output!Unenforceable(h, q),
         h.family \in {"qwen", "xai"} => Output!DialectOf(h.provider) = "openai"
  PROVE  LET b == Output!Bounded(h, q) IN
         Output!Largest(h, b) = BoundOf(h, b) /\ BoundOf(h, b) \in Nat
<1> DEFINE d == Output!DialectOf(h.provider)
           b == Output!Bounded(h, q)
           P == Output!ProjectedCap(d, b)
           T == Outside(h, b)
           C == Output!Candidates(d, b)
           caps == {c \in {b.tokens, b.completion, b.config.cap} : c # Output!Absent}
           times == IF Output!Positive(b.n) THEN b.n ELSE IF Output!Positive(b.config.count) THEN b.config.count ELSE 1
<1>1. /\ Ok(h, b) /\ b.n = q.n /\ b.thinking = q.thinking /\ b.budget = q.budget /\ b.again = q.again
      /\ b.config.count = q.config.count /\ (d = "google" => b.config.loop = 0)
      /\ P = IF Output!ProjectedCap(d, q) > 0 THEN Output!ProjectedCap(d, q) ELSE DefaultBound
  BY BoundedIs
<1> HIDE DEF b
<1>2. d \in Dialects /\ InDialect(d, b) /\ b \in Said /\ OneCap(b)  BY <1>1, DialectIs, LayersAre DEF Ok
<1>3. /\ ~override /\ (d = "anthropic" => ~b.again)
      /\ (h.family = "qwen" /\ b.thinking # 0 => b.budget > 0) /\ ~(h.family = "xai" /\ h.model = "reasoning")
  BY <1>1 DEF Output!Unenforceable, Output!Bad, Output!Positive
<1>4. b.tokens \in Values /\ b.completion \in Values /\ b.n \in Values /\ b.thinking \in Values /\ b.budget \in Values
      /\ b.config.cap \in Values /\ b.config.count \in Values /\ Values = Nat \cup {-1}
  BY <1>2 DEF Said, Values, Output!Absent
<1>5. /\ d # "openai" => b.completion = -1 /\ b.n = -1 /\ b.thinking = -1 /\ b.budget = -1
      /\ ~b.again
      /\ (d = "google" => b.tokens = -1) /\ (d # "google" => b.config.cap = -1 /\ b.config.count = -1)
  BY <1>2, LayersAre, <1>3 DEF Output!NoConfig, Output!Absent
<1>6. P \in Nat /\ P > 0
  BY <1>2, LayersAre, <1>1 DEF Ok, Dialects, Output!ProjectedCap, Output!Absent, Said, Values
<1>7. caps = {P}
  BY <1>2, <1>5, <1>6 DEF Dialects, Output!ProjectedCap, Output!Absent, OneCap
<1>8. Output!Max({P}) = P
  BY <1>6 DEF Output!Max
<1>9. times = C /\ C \in Nat
  BY <1>4, <1>5 DEF Output!Candidates, Output!Positive, Output!Absent
<1>10. T \in Nat  BY <1>3, <1>4 DEF Outside, Output!Bad
<1>11. Output!Largest(h, b) = (Output!Max(caps) + T) * times
 <2>1. ~(T < 0) /\ ~(caps = {}) /\ ~(\E c \in caps : ~Output!Positive(c)) /\ (d = "google" => b.config.loop = 0)
   BY <1>1, <1>6, <1>7, <1>10 DEF Output!Positive
 <2> HIDE DEF caps, times, T
 <2>2. QED BY <1>3, <1>5, <2>1 DEF Output!Largest, caps, times, T, Outside, Output!Bad
<1>12. Output!Largest(h, b) = (P + T) * C
  BY Zenon, <1>7, <1>8, <1>9, <1>11
<1>13. (P + T) * C \in Nat
  BY <1>6, <1>9, <1>10
<1>14. QED BY Zenon, <1>12, <1>13 DEF BoundOf, b

LEMMA Fits ==
  ASSUME DefaultBound \in Nat \ {0}, NEW r, ~Output!CrossDialect(r),
         r.hop.family \in {"qwen", "xai"} => Output!DialectOf(r.hop.provider) = "openai",
         NEW a \in Said, NEW b \in Said, NEW c \in Said,
         \A l \in {a, b, c} : InDialect(Output!DialectOf(r.hop.provider), l) /\ l.config.form # "malformed",
         LET q == Output!SameDialectRequest(r.hop, <<a, b, c>>)
         IN  r.hop.family = "qwen" /\ q.thinking # 0 => q.budget > 0
  PROVE  BoundOf(r.hop, Output!Bounded(r.hop, Output!SameDialectRequest(r.hop, <<a, b, c>>))) = Output!ResolveHop(r, <<a, b, c>>)
<1> DEFINE h == r.hop
           d == Output!DialectOf(h.provider)
           three == <<a, b, c>>
           q == Output!SameDialectRequest(h, three)
           e == Output!Bounded(h, q)
           caps == Output!OverlayCaps(Output!NormalizeCap(h, a),
                     Output!OverlayCaps(Output!NormalizeCap(h, b), Output!NormalizeCap(h, c)))
           cap == Output!ProjectedCap(d, caps)
<1>1. Ok(h, q) /\ q.n = caps.n /\ q.thinking = caps.thinking /\ q.budget = caps.budget /\ q.config = caps.config
      /\ Output!ProjectedCap(d, q) = cap
  BY Agree
<1>2. Output!ResolveHop(r, three) =
        ((IF Output!Positive(cap) THEN cap ELSE DefaultBound) + Output!Reasoning(d, h.family, caps)) * Output!Candidates(d, caps)
  BY DEF Output!ResolveHop
<1> HIDE DEF q, caps
<1>3. /\ e.n = q.n /\ e.thinking = q.thinking /\ e.budget = q.budget /\ e.config.count = q.config.count
      /\ Output!ProjectedCap(d, e) = IF cap > 0 THEN cap ELSE DefaultBound
  BY <1>1, BoundedIs
<1> HIDE DEF e
<1>4. Outside(h, e) = Output!Reasoning(d, h.family, caps)
  BY <1>1, <1>3 DEF q, Outside, Output!Reasoning, Output!Bad, Output!Positive, d
<1>5. Output!Candidates(d, e) = Output!Candidates(d, caps)
  BY <1>1, <1>3 DEF Output!Candidates
<1> HIDE DEF cap, d
<1>6. QED BY <1>2, <1>3, <1>4, <1>5 DEF BoundOf, Output!Positive, q, e, d

(* What is rendered for another dialect says a cap, and what its entry adds. *)
LEMMA Rendered ==
  ASSUME NEW r, NEW a \in Said, NEW b \in Said, NEW c \in Said,
         NEW entry, InDialect(Output!DialectOf(r.hop.provider), entry)
  PROVE  Ok(r.hop, Output!TranslatedRequest(r, <<a, b, c>>, entry))
<1> DEFINE h == r.hop
           d == Output!DialectOf(h.provider)
           three == <<a, b, c>>
           from == Output!Merged([i \in 1..3 |-> Output!NormalizeCap(r.source, three[i])])
           cap == Output!ProjectedCap(Output!DialectOf(r.source.provider), from)
           rendered == CASE d = "openai" -> [Output!NoLayer EXCEPT !.completion = cap]
                         [] d = "anthropic" -> [Output!NoLayer EXCEPT !.tokens = cap]
                         [] d = "google" -> [Output!NoLayer EXCEPT !.config = [Output!NoConfig EXCEPT !.cap = cap, !.form = "object"]]
           x == Output!NormalizeCap(h, rendered)
           y == Output!NormalizeCap(h, entry)
           u == Output!Under(x, y)
           q == Output!ResolveAliases(h, <<rendered, entry>>, u)
<1>1. Output!TranslatedRequest(r, three, entry) = q
  BY DEF Output!TranslatedRequest
<1>2. from \in Said
  BY Normal, UnderIs DEF Output!Merged
<1>3. cap \in Values
  BY <1>2, DialectIs DEF Said, Dialects, Output!ProjectedCap
<1>4. d \in Dialects /\ entry \in Said  BY DialectIs, LayersAre
<1> HIDE DEF cap, d
<1>5. rendered \in Said /\ (d # "openai" => rendered.completion = -1) /\ rendered.n = -1 /\ rendered.thinking = -1 /\ rendered.budget = -1
      /\ ~rendered.again /\ (IF d = "google" THEN rendered.tokens = -1 ELSE rendered.config = Output!NoConfig)
 <2>1. Output!NoConfig \in [cap: Values, count: Values, loop: Values, form: {"absent", "object", "malformed"}] /\ -1 \in Values
       /\ [Output!NoConfig EXCEPT !.cap = cap, !.form = "object"] \in [cap: Values, count: Values, loop: Values, form: {"absent", "object", "malformed"}]
   BY <1>3 DEF Output!NoConfig, Values, Output!Absent
 <2> DEFINE full == [Output!NoConfig EXCEPT !.cap = cap, !.form = "object"]
 <2> HIDE DEF full
 <2>2. CASE d = "openai"
   BY <2>2, <1>3, <2>1 DEF Said, Output!NoLayer, Output!Absent
 <2>3. CASE d = "anthropic"
   BY <2>3, <1>3, <2>1 DEF Said, Output!NoLayer, Output!Absent
 <2>4. CASE d = "google"
   BY <2>4, <2>1, <1>3 DEF full, Said, Output!NoLayer, Output!Absent
 <2>5. QED BY <1>4, <2>2, <2>3, <2>4 DEF Dialects
<1> HIDE DEF rendered
<1>6. InDialect(d, rendered)  BY <1>4, <1>5, LayersAre
<1>7. InDialect(d, entry)  BY DEF d
<1>8. /\ x \in Said /\ y \in Said /\ InDialect(d, x) /\ InDialect(d, y)
      /\ (d = "openai" /\ h.provider # "azure" => (x.tokens = -1 /\ y.tokens = -1) \/ (x.completion = -1 /\ y.completion = -1))
  BY <1>4, <1>5, Normal, <1>6, <1>7, LayersAre DEF d
<1>9. u \in Said /\ InDialect(d, u)
  BY <1>4, <1>8, UnderIs
<1>10. (d # "openai" => u.completion = -1) /\ (d = "openai" /\ h.provider # "azure" => OneCap(u))
  BY <1>8, UnderFields, <1>4, <1>9, LayersAre DEF OneCap, Output!Absent
<1>11. h.provider = "azure" => d = "openai"  BY DialectIs DEF d
<1> HIDE DEF u
<1>12. /\ h.provider # "azure" => q = u
       /\ h.provider = "azure" => OneCap(q)
       /\ \A e \in Dialects : e # "google" /\ InDialect(e, u) => InDialect(e, q)
  BY <1>9, AliasIs
<1> HIDE DEF q
<1>13. InDialect(d, q) /\ OneCap(q)
  BY <1>4, <1>9, <1>10, <1>11, <1>12 DEF OneCap, Output!Absent
<1>14. QED BY <1>1, <1>13 DEF Ok, d

LEMMA Reserves ==
  ASSUME DefaultBound \in Nat \ {0}, NEW r, NEW a \in Said, NEW b \in Said, NEW c \in Said
  PROVE  Output!ResolveHop(r, <<a, b, c>>) \in Nat
<1> DEFINE h == IF Output!CrossDialect(r) THEN r.source ELSE r.hop
           d == Output!DialectOf(h.provider)
           three == <<a, b, c>>
           N(l) == Output!NormalizeCap(h, l)
           caps == Output!OverlayCaps(N(three[1]), Output!OverlayCaps(N(three[2]), N(three[3])))
           cap == Output!ProjectedCap(d, caps)
           base == (IF Output!Positive(cap) THEN cap ELSE DefaultBound) + Output!Reasoning(d, h.family, caps)
           times == Output!Candidates(d, caps)
<1>1. caps \in Said
  BY Normal, UnderFields
<1>2. Output!ResolveHop(r, three) \in {DefaultBound, base * times}
  BY DEF Output!ResolveHop
<1>3. d \in Dialects  BY DialectIs
<1> HIDE DEF caps, d, h
<1>4. /\ caps.tokens \in Values /\ caps.completion \in Values /\ caps.n \in Values /\ caps.budget \in Values
      /\ caps.config.cap \in Values /\ caps.config.count \in Values /\ Values = Nat \cup {-1}
  BY <1>1 DEF Said, Values, Output!Absent
<1>5. cap \in Values /\ Output!Reasoning(d, h.family, caps) \in Nat
  BY <1>3, <1>4 DEF Dialects, Output!ProjectedCap, Output!Reasoning, Output!Positive
<1>6. times \in Nat
  BY <1>4 DEF Output!Candidates, Output!Positive, Output!Absent
<1>7. base \in Nat
  BY <1>4, <1>5 DEF Output!Positive
<1> HIDE DEF base, times
<1>8. QED BY <1>2, <1>6, <1>7

(* What is prepared is of its host's dialect, and its bound is what was reserved where no *)
(* translation is between them.                                                         *)
WellFormed == \A i \in DOMAIN layers : layers[i].config.form # "malformed"
OutInv ==
  /\ route \in Routes /\ reserved \in Nat
  /\ outcome = "prepared" =>
       /\ Ok(route.hop, request)
       /\ ~Output!CrossDialect(route) /\ WellFormed /\ (route.hop.family = "qwen" /\ request.thinking # 0 => request.budget > 0)
            => BoundOf(route.hop, Output!Bounded(route.hop, request)) = reserved
  /\ Output!OutputIsBounded

LEMMA OutputInit ==
  ASSUME Output!Init
  PROVE  OutInv
BY DEF Output!Init, OutInv, Output!OutputIsBounded, Output!SentWithinReservation, Output!ReservationFitsTheRequest

LEMMA Prepares ==
  ASSUME OutInv, Output!Prepare
  PROVE  OutInv'
<1> USE OutputAssumption
<1> DEFINE hd == Output!DialectOf(route.hop.provider)
           sd == Output!DialectOf(route.source.provider)
<1>1. PICK entry \in (IF route.hop = route.source THEN {Output!NoLayer} ELSE Layers[hd]), global \in Layers[sd], calling \in Layers[sd] :
        LET shared == IF Output!CrossDialect(route) THEN <<calling, Output!SourceCompatible(entry), global>>
                                            ELSE <<calling, entry, global>> IN
        /\ layers' = <<calling, entry, global>>
        /\ reserved' = Output!ResolveHop(route, shared)
        /\ IF Output!CrossDialect(route)
             THEN IF Output!Translatable(route, shared)
                    THEN request' = Output!TranslatedRequest(route, shared, entry) /\ outcome' = "prepared"
                    ELSE request' = Output!NoLayer /\ outcome' = "untranslatable"
             ELSE request' = Output!SameDialectRequest(route.hop, shared) /\ outcome' = "prepared"
  BY DEF Output!Prepare
<1>2. route' = route /\ route \in Routes  BY DEF Output!Prepare, OutInv
<1>3. hd \in Dialects /\ sd \in Dialects  BY DialectIs
<1>4. InDialect(hd, entry) /\ InDialect(sd, global) /\ InDialect(sd, calling)
 <2>1. \A d \in Dialects : \A l \in Layers[d] : InDialect(d, l)  BY DEF Dialects
 <2> HIDE DEF hd, sd
 <2>2. InDialect(sd, global) /\ InDialect(sd, calling)  BY <1>3, <2>1
 <2>3. CASE entry = Output!NoLayer
  <3>1. /\ entry \in Said /\ entry.completion = -1 /\ entry.n = -1 /\ entry.thinking = -1 /\ entry.budget = -1
        /\ ~entry.again /\ entry.tokens = -1 /\ entry.config = Output!NoConfig
    BY <2>3 DEF Output!NoConfig, Values, Said, Output!NoLayer, Output!Absent
  <3>2. InDialect(hd, entry)  BY <1>3, <3>1, LayersAre
  <3>3. QED BY <2>2, <3>2
 <2>4. CASE entry # Output!NoLayer  BY <1>1, <1>3, <2>1, <2>2, <2>4
 <2>5. QED BY <2>2, <2>3, <2>4
<1>5. entry \in Said /\ global \in Said /\ calling \in Said  BY <1>3, <1>4, LayersAre
<1>6. Output!SourceCompatible(entry) \in Said
  BY <1>5 DEF Output!NoConfig, Values, Said, Output!NoLayer, Output!Absent, Output!SourceCompatible
<1>7. CASE Output!CrossDialect(route)
  BY <1>1, <1>5, <1>6, <1>7, Reserves, <1>4, Rendered, <1>2 DEF Output!CrossDialect, OutInv, Ok, Output!OutputIsBounded, Output!SentWithinReservation, Output!ReservationFitsTheRequest
<1>8. CASE ~Output!CrossDialect(route)
 <2> DEFINE q == Output!SameDialectRequest(route.hop, <<calling, entry, global>>)
 <2>1. layers' = <<calling, entry, global>> /\ reserved' = Output!ResolveHop(route, <<calling, entry, global>>)
       /\ request' = q /\ outcome' = "prepared"
   BY <1>1, <1>8
 <2>2. reserved' \in Nat  BY <1>5, <2>1, Reserves
 <2>3. sd = hd  BY <1>8 DEF Output!CrossDialect
 <2>4. Ok(route.hop, q)  BY <1>4, <1>5, <2>3, Agree
 <2>5. ASSUME WellFormed', route.hop.family = "qwen" /\ q.thinking # 0 => q.budget > 0
       PROVE  BoundOf(route.hop, Output!Bounded(route.hop, q)) = Output!ResolveHop(route, <<calling, entry, global>>)
   BY <2>1, <2>5, <1>2, <1>4, <1>5, <1>8, <2>3, Fits DEF WellFormed
 <2> HIDE DEF q
 <2>6. outcome' = "prepared" =>
         /\ Ok(route'.hop, request')
         /\ ~Output!CrossDialect(route)' /\ WellFormed' /\ (route'.hop.family = "qwen" /\ request'.thinking # 0 => request'.budget > 0)
              => BoundOf(route'.hop, Output!Bounded(route'.hop, request')) = reserved'
   BY <1>2, <2>1, <2>4, <2>5
 <2>7. QED BY <1>2, <2>1, <2>2, <2>6 DEF OutInv, Ok, BoundOf, Outside, Output!OutputIsBounded, Output!SentWithinReservation, Output!ReservationFitsTheRequest
<1>9. QED BY <1>7, <1>8

LEMMA Enforces ==
  ASSUME OutInv, Output!Enforce
  PROVE  OutInv'
<1> DEFINE h == route.hop
           q == Output!Bounded(h, request)
<1>1. outcome = "prepared" /\ UNCHANGED <<route, layers, reserved, override>>
      /\ IF Output!Unenforceable(h, request) THEN outcome' = "refused"
         ELSE IF BoundOf(h, q) > reserved THEN outcome' = "exceeded"
         ELSE outcome' = "sent" /\ request' = q
  BY DEF Output!Enforce, BoundOf, Outside
<1>2. Ok(h, request) /\ route \in Routes /\ reserved \in Nat  BY <1>1 DEF OutInv
<1>3. CASE Output!Unenforceable(h, request)
  BY <1>1, <1>2, <1>3 DEF OutInv, Output!OutputIsBounded, Output!SentWithinReservation, Output!ReservationFitsTheRequest
<1>4. CASE ~Output!Unenforceable(h, request)
 <2>1. Output!Largest(h, q) = BoundOf(h, q) /\ BoundOf(h, q) \in Nat
   BY <1>2, <1>4, OutputAssumption, LargestIs
 <2>2. CASE BoundOf(h, q) > reserved
   BY <1>2, <2>1, <2>2, <1>4, <1>1 DEF Output!Unenforceable, Output!Bad, Output!Positive, OutInv, WellFormed, Output!ReservationFitsTheRequest, Output!CrossDialect, Output!OutputIsBounded, Output!SentWithinReservation
 <2>3. CASE ~(BoundOf(h, q) > reserved)
  <3>1. outcome' = "sent" /\ request' = q  BY <1>1, <1>4, <2>3
  <3>2. Output!Largest(h, q) <= reserved  BY <1>2, <2>1, <2>3
  <3>3. route'.hop = h /\ override' = override /\ reserved' = reserved /\ route' \in Routes  BY <1>1, <1>2
  <3> HIDE DEF h, q
  <3>4. (Output!Largest(route.hop, request) <= reserved)'  BY <3>1, <3>2, <3>3 DEF Output!Largest
  <3>5. QED BY <1>2, <3>1, <3>3, <3>4 DEF OutInv, Output!OutputIsBounded, Output!SentWithinReservation, Output!ReservationFitsTheRequest
 <2>4. QED BY <2>2, <2>3
<1>5. QED BY <1>3, <1>4

LEMMA OutputStep ==
  ASSUME OutInv, [Output!Next]_(Output!vars)
  PROVE  OutInv'
<1>1. CASE UNCHANGED Output!vars
  BY <1>1 DEF Output!vars, OutInv, WellFormed, Output!CrossDialect, Output!OutputIsBounded, Output!SentWithinReservation, Output!ReservationFitsTheRequest, Output!Largest
<1>2. QED BY <1>1, Prepares, Enforces DEF Output!Next

(* A call's funding that may have been billed is kept, and no hop is sent a request that could *)
(* produce more than was reserved for it: for any hosts, any layers of defaults, entry and         *)
(* caller and any default bound; and a call without a translation is not refused for its reservation.  *)
THEOREM FundingIsEnough == PartsSpec => []FundingCoversTheCall
<1> DEFINE PaidInv == CallInv /\ OutInv
<1>1. PartsInit => PaidInv  BY CallInit, OutputInit DEF PartsInit
<1>2. PaidInv /\ [PartsNext]_<<part, vars, wrapperVars, responsesVars, outputVars, translationVars, teeVars>> => PaidInv'
 <2> SUFFICES ASSUME PaidInv, [PartsNext]_<<part, vars, wrapperVars, responsesVars, outputVars, translationVars, teeVars>>
              PROVE  PaidInv'
   OBVIOUS
 <2>1. [Next]_vars  BY DEF PartsNext
 <2>2. [Output!Next]_(Output!vars)  BY DEF PartsNext, outputVars, Output!vars
 <2>3. QED BY <2>1, <2>2, CallStep, OutputStep
<1>3. PaidInv => FundingCoversTheCall
  BY WellCounts DEF CallInv, Lawfuls, Lawful, Refunds, BilledIsNeverRefunded, OutInv, FundingCoversTheCall
<1> HIDE DEF PaidInv
<1>4. QED BY <1>1, <1>2, <1>3, PTL DEF PartsSpec
============================================================================
