------------------------------- MODULE Shutdown -------------------------------
(***************************************************************************)
(* How the clients of a process shut down: a client's own close (client.ts)  *)
(* and the drain the Node entry point starts before the process exits         *)
(* (node.ts). Either closes the reporter first and only then the lease         *)
(* holder, whose surrenders end the funding of what was reported.              *)
(***************************************************************************)
EXTENDS Integers, FiniteSets

CONSTANTS
  Client,
  SweepFloor,    \* MIN_SWEEP_SIZE
  MaxCalls       \* bound: calls of a client at the same time

VARIABLES
  client,     \* per client: [phase, calls, streams, reporter, work, holder, held]
  refs,       \* the registry's weak references: [reporters, holders]
  sweepAt,    \* the sizes at which a registration sweeps: [reporters, holders]
  listener,   \* listenerInstalled
  drain,      \* the drain in progress: [phase, reporters, holders]
  gone,       \* what the garbage collector took: [reporters, holders]
  exited

vars == <<client, refs, sweepAt, listener, drain, gone, exited>>

Idle == [phase |-> "idle", reporters |-> {}, holders |-> {}]

Init ==
  /\ client = [c \in Client |-> [phase |-> "unborn", calls |-> 0, streams |-> 0, reporter |-> "none",
                                 work |-> FALSE, holder |-> "none", held |-> FALSE]]
  /\ refs = [reporters |-> {}, holders |-> {}]
  /\ sweepAt = [reporters |-> SweepFloor, holders |-> SweepFloor]
  /\ listener = FALSE /\ drain = Idle
  /\ gone = [reporters |-> {}, holders |-> {}]
  /\ exited = FALSE

-----------------------------------------------------------------------------
(* The registry. A reference is dead when its referent was collected or closed. *)

Live(kind) ==
  {c \in refs[kind] \ gone[kind] :
     IF kind = "reporters" THEN client[c].reporter = "open" ELSE client[c].holder = "open"}

(* A registration: a set that has doubled since its last sweep is swept first. *)
Swept(kind)   == IF Cardinality(refs[kind]) >= sweepAt[kind] THEN Live(kind) ELSE refs[kind]
SweepNext(kind) ==
  IF Cardinality(refs[kind]) < sweepAt[kind] THEN sweepAt[kind]
  ELSE IF 2 * Cardinality(Live(kind)) > SweepFloor THEN 2 * Cardinality(Live(kind)) ELSE SweepFloor

Registered(c) ==
  /\ refs' = [k \in {"reporters", "holders"} |-> Swept(k) \union {c}]
  /\ sweepAt' = [k \in {"reporters", "holders"} |-> SweepNext(k)]
  /\ listener' = TRUE

-----------------------------------------------------------------------------
(* Clients. Work is what a reporter has been given and not delivered. *)

Construct(c) ==
  /\ client[c].phase = "unborn"
  /\ client' = [client EXCEPT ![c] = [@ EXCEPT !.phase = "open", !.reporter = "open",
                                               !.holder = "open", !.held = TRUE]]
  /\ Registered(c)
  /\ UNCHANGED <<drain, gone>>

Given(d) == [d EXCEPT !.work = @ \/ d.reporter = "open"]

StartCall(c) ==
  /\ client[c].held /\ client[c].phase = "open" /\ client[c].calls < MaxCalls
  /\ client' = [client EXCEPT ![c].calls = @ + 1]
  /\ UNCHANGED <<refs, sweepAt, listener, drain, gone>>

(* A call ends with its event, or hands out a stream that settles later. *)
EndCall(c) ==
  /\ client[c].calls > 0
  /\ client' = [client EXCEPT ![c] = Given([client[c] EXCEPT !.calls = @ - 1])]
  /\ UNCHANGED <<refs, sweepAt, listener, drain, gone>>

OpenStream(c) ==
  /\ client[c].calls > 0 /\ client[c].streams = 0
  /\ client' = [client EXCEPT ![c].calls = @ - 1, ![c].streams = 1]
  /\ UNCHANGED <<refs, sweepAt, listener, drain, gone>>

EndStream(c) ==
  /\ client[c].streams > 0
  /\ client' = [client EXCEPT ![c] = Given([@ EXCEPT !.streams = 0])]
  /\ UNCHANGED <<refs, sweepAt, listener, drain, gone>>

(* A round of the reporter. *)
Deliver(c) ==
  /\ client[c].work /\ client[c].reporter = "open"
  /\ client' = [client EXCEPT ![c].work = FALSE]
  /\ UNCHANGED <<refs, sweepAt, listener, drain, gone>>

Closing(state) == IF state = "open" THEN "closing" ELSE state

Close(c) ==
  /\ client[c].held /\ client[c].phase = "open"
  /\ client' = [client EXCEPT ![c].phase = "calls"]
  /\ UNCHANGED <<refs, sweepAt, listener, drain, gone>>

(* #closeOnce, after the calls or its deadline: the streams are settled, the reporter closes. *)
CloseReports(c) ==
  /\ client[c].phase = "calls"
  /\ LET settled == IF client[c].streams > 0 THEN Given(client[c]) ELSE client[c]
     IN  client' = [client EXCEPT ![c] =
                      [settled EXCEPT !.phase = "reports", !.streams = 0, !.reporter = Closing(@)]]
  /\ UNCHANGED <<refs, sweepAt, listener, drain, gone>>

CloseLeases(c) ==
  /\ client[c].phase = "reports" /\ client[c].reporter = "closed"
  /\ client' = [client EXCEPT ![c].phase = "leases", ![c].holder = Closing(@)]
  /\ UNCHANGED <<refs, sweepAt, listener, drain, gone>>

CloseProvider(c) ==
  /\ client[c].phase = "leases" /\ client[c].holder = "closed"
  /\ client' = [client EXCEPT ![c].phase = "closed"]
  /\ UNCHANGED <<refs, sweepAt, listener, drain, gone>>

(* A close resolves: the reporter delivered within its deadline, or counted what it dropped. *)
ReporterCloses(c) ==
  /\ client[c].reporter = "closing"
  /\ client' = [client EXCEPT ![c].reporter = "closed", ![c].work = FALSE]
  /\ UNCHANGED <<refs, sweepAt, listener, drain, gone>>

HolderCloses(c) ==
  /\ client[c].holder = "closing"
  /\ client' = [client EXCEPT ![c].holder = "closed"]
  /\ UNCHANGED <<refs, sweepAt, listener, drain, gone>>

(* The program lets go of a client; the collector takes its reporter, which is   *)
(* rooted while it has work, and its holder; a finalizer clears the reference.    *)
LetGo(c) ==
  /\ client[c].held /\ client[c].phase \in {"open", "closed"}
  /\ client[c].calls = 0 /\ client[c].streams = 0
  /\ client' = [client EXCEPT ![c].held = FALSE]
  /\ UNCHANGED <<refs, sweepAt, listener, drain, gone>>

Collect(c, kind) ==
  /\ client[c].phase # "unborn" /\ ~client[c].held
  /\ c \notin gone[kind] /\ c \notin drain[kind]
  /\ kind = "reporters" => ~client[c].work /\ client[c].reporter # "closing"
  /\ kind = "holders" => client[c].holder # "closing"
  /\ gone' = [gone EXCEPT ![kind] = @ \union {c}]
  /\ UNCHANGED <<client, refs, sweepAt, listener, drain>>

Finalize(c, kind) ==
  /\ c \in gone[kind] \intersect refs[kind]
  /\ refs' = [refs EXCEPT ![kind] = @ \ {c}]
  /\ UNCHANGED <<client, sweepAt, listener, drain, gone>>

-----------------------------------------------------------------------------
(* The exit. Every wait of a close and of the drain holds a timer of its own, so *)
(* the event loop is not empty, and beforeExit does not come, while one is open. *)

Quiet ==
  /\ drain = Idle
  /\ \A c \in Client :
       /\ client[c].calls = 0 /\ client[c].phase \in {"unborn", "open", "closed"}
       /\ client[c].reporter # "closing" /\ client[c].holder # "closing"

(* drainBeforeExit: both snapshots are taken before anything is awaited. *)
BeforeExit ==
  /\ Quiet /\ listener
  /\ listener' = FALSE
  /\ drain' = [phase |-> "reporters", reporters |-> Live("reporters"), holders |-> Live("holders")]
  /\ refs' = [k \in {"reporters", "holders"} |-> Live(k)]
  /\ client' = [c \in Client |-> IF c \in Live("reporters")
                                   THEN [client[c] EXCEPT !.reporter = "closing"] ELSE client[c]]
  /\ UNCHANGED <<sweepAt, gone>>

(* A plausible bug: the lease holders are looked up when the reporters are done. *)
ReportersSettledLate ==
  /\ drain.phase = "reporters" /\ \A c \in drain.reporters : client[c].reporter = "closed"
  /\ drain' = [drain EXCEPT !.phase = "holders", !.holders = Live("holders")]
  /\ client' = [c \in Client |-> IF c \in Live("holders")
                                   THEN [client[c] EXCEPT !.holder = Closing(@)] ELSE client[c]]
  /\ UNCHANGED <<refs, sweepAt, listener, gone>>

ReportersSettled ==
  /\ drain.phase = "reporters" /\ \A c \in drain.reporters : client[c].reporter = "closed"
  /\ drain' = [drain EXCEPT !.phase = "holders"]
  /\ client' = [c \in Client |-> IF c \in drain.holders
                                   THEN [client[c] EXCEPT !.holder = Closing(@)] ELSE client[c]]
  /\ UNCHANGED <<refs, sweepAt, listener, gone>>

(* The holders are closed, or EXIT_LEASE_BUDGET_MS is over; both sets are swept. *)
DrainEnds ==
  /\ drain.phase = "holders"
  /\ drain' = Idle
  /\ refs' = [k \in {"reporters", "holders"} |-> Live(k)]
  /\ UNCHANGED <<client, sweepAt, listener, gone>>

Exit ==
  /\ Quiet /\ ~listener
  /\ exited' = TRUE
  /\ UNCHANGED <<client, refs, sweepAt, listener, drain, gone>>

Step ==
  \/ \E c \in Client :
       \/ Construct(c) \/ StartCall(c) \/ EndCall(c) \/ OpenStream(c) \/ EndStream(c) \/ Deliver(c)
       \/ Close(c) \/ CloseReports(c) \/ CloseLeases(c) \/ CloseProvider(c)
       \/ ReporterCloses(c) \/ HolderCloses(c) \/ LetGo(c)
       \/ \E kind \in {"reporters", "holders"} : Collect(c, kind) \/ Finalize(c, kind)
  \/ BeforeExit \/ ReportersSettled \/ DrainEnds

Next == ~exited /\ (Exit \/ (Step /\ UNCHANGED exited))

Spec == Init /\ [][Next]_vars

-----------------------------------------------------------------------------
(* The reports of a client are delivered before its leases are surrendered, on    *)
(* every path: its close, the drain before the exit, and both at once. A client     *)
(* that appears during a drain belongs to the next one whole (node.ts:130).          *)
ReportsBeforeLeases ==
  \A c \in Client :
    client[c].holder \in {"closing", "closed"} =>
      client[c].reporter = "closed" \/ c \in gone.reporters

(* No client misses the exit: while its reporter or its holder is open and          *)
(* reachable, the drain in progress has it or a listener waits for the exit, and     *)
(* the process never exits over it (node.ts:130).                                    *)
NobodyMissesTheExit ==
  \A c \in Client :
    /\ client[c].reporter = "open" /\ c \notin gone.reporters =>
         c \in refs.reporters /\ listener /\ ~exited
    /\ client[c].holder = "open" /\ c \notin gone.holders =>
         c \in refs.holders /\ (listener \/ c \in drain.holders) /\ ~exited
=============================================================================
