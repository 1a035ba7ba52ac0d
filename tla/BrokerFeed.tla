----------------------------- MODULE BrokerFeed -----------------------------
(***************************************************************************)
(* The feed of account snapshots and market data from the expert advisor   *)
(* to the bridge (MatradesMT5BridgeEA.mq5, bridges/mt5/app.py).            *)
(*                                                                         *)
(* The EA numbers what it publishes and forgets the number when it is      *)
(* restarted.  Its requests are synchronous with a timeout, so a request   *)
(* it has given up can still be on its way, or wait at the bridge for the  *)
(* credential authority, while the next ones pass.  The bridge keeps the   *)
(* latest message of each stream in memory and refuses what it takes for   *)
(* old: a number that does not grow, unless it is 1 and observed later.    *)
(*                                                                         *)
(* Numbers of EA runs are history: nothing in a message tells its run.     *)
(***************************************************************************)
EXTENDS Integers

CONSTANTS
  Stream,       \* subset of {"snapshot", "market"}
  MaxSequence,  \* bound: messages of a stream, times the runs of the EA
  MaxEaRuns,    \* bound: runs of the EA
  MaxHiccups,   \* bound: requests given up and restarts of the bridge
  NoMessage     \* nothing published, or nothing awaited

ASSUME FeedAssumption ==
  /\ "snapshot" \in Stream
  /\ MaxSequence \in [Stream -> Nat] /\ MaxEaRuns \in Nat /\ MaxHiccups \in Nat

VARIABLES
  eaRun,     \* which run of the EA this is (history); 0: not started
  sequence,  \* g_sequence and g_market_data_sequence
  clock,     \* the second the EA last read
  awaited,   \* the request the EA is blocked on
  wire,      \* requests sent and neither processed nor lost
  latest,    \* latest_snapshots and latest_market_data of the bridge
  listed,    \* the broker lists a symbol with live quotes and candles
  hiccups    \* faults so far

feedVars == <<eaRun, sequence, clock, awaited, wire, latest, listed, hiccups>>

FeedMessage == [stream: Stream, run: Nat \ {0}, sequence: Nat \ {0}, observed_at: Nat]

FeedInit ==
  /\ eaRun = 0 /\ clock = 0 /\ hiccups = 0
  /\ sequence = [s \in Stream |-> 0]
  /\ awaited = NoMessage /\ wire = {}
  /\ latest = [s \in Stream |-> NoMessage]
  /\ listed \in BOOLEAN

----------------------------------------------------------------------------
(* The EA: a timer publishes a snapshot and, when they are due and there   *)
(* are any, the quotes of the market.  The number is used up whatever the  *)
(* request comes to.                                                       *)
Publish(s) ==
  /\ awaited = NoMessage
  /\ sequence[s] < eaRun * MaxSequence[s]
  /\ s = "market" => listed
  /\ \E second \in {clock, clock + 1} :
       LET message == [stream |-> s, run |-> eaRun, sequence |-> sequence[s] + 1,
                       observed_at |-> second] IN
       /\ clock' = second
       /\ awaited' = message
       /\ wire' = wire \cup {message}
  /\ sequence' = [sequence EXCEPT ![s] = @ + 1]
  /\ UNCHANGED <<eaRun, latest, listed, hiccups>>

(* Mutant: the number of a failed request is used again. *)
MutAnswered(accepted) ==
  /\ awaited' = NoMessage
  /\ sequence' = IF accepted THEN sequence ELSE [sequence EXCEPT ![awaited.stream] = @ - 1]
(* The EA has the status of its request, or none in time.                  *)
Answered(accepted) == awaited' = NoMessage /\ UNCHANGED sequence

(* Bound: hiccups end while the EA still has messages to publish.          *)
Hiccup ==
  /\ hiccups < MaxHiccups
  /\ sequence["snapshot"] + MaxHiccups < eaRun * MaxSequence["snapshot"]
  /\ hiccups' = hiccups + 1

EaTimesOut ==
  /\ awaited # NoMessage
  /\ Hiccup
  /\ Answered(FALSE)
  /\ UNCHANGED <<eaRun, clock, wire, latest, listed>>

EaStopsAndStarts ==
  /\ eaRun < MaxEaRuns
  /\ eaRun' = eaRun + 1
  /\ sequence' = [s \in Stream |-> 0]
  /\ awaited' = NoMessage
  /\ UNCHANGED <<clock, wire, latest, listed, hiccups>>

----------------------------------------------------------------------------
(* The bridge.                                                             *)
MutRestarted(message, previous) == message.sequence = 1
Restarted(message, previous) ==
  message.sequence = 1 /\ message.observed_at > previous.observed_at

Accepts(message) ==
  LET previous == latest[message.stream] IN
  \/ previous = NoMessage
  \/ message.sequence > previous.sequence
  \/ Restarted(message, previous)

ReceiveMessage(message) ==
  /\ message \in wire
  /\ wire' = wire \ {message}
  /\ latest' = IF Accepts(message) THEN [latest EXCEPT ![message.stream] = message] ELSE latest
  /\ IF awaited = message
       THEN Answered(Accepts(message))
       ELSE UNCHANGED <<awaited, sequence>>
  /\ UNCHANGED <<eaRun, clock, listed, hiccups>>

(* A request nobody waits for any more is lost, refused as stale, or not   *)
(* verified in time.                                                       *)
Discard(message) ==
  /\ message \in wire \ {awaited}
  /\ wire' = wire \ {message}
  /\ UNCHANGED <<eaRun, sequence, clock, awaited, latest, listed, hiccups>>

BridgeRestarts ==
  /\ Hiccup
  /\ latest' = [s \in Stream |-> NoMessage]
  /\ UNCHANGED <<eaRun, sequence, clock, awaited, wire, listed>>

(* Environment: symbols gain and lose their quotes.                        *)
QuotesChange ==
  /\ "market" \in Stream
  /\ listed' = ~listed
  /\ UNCHANGED <<eaRun, sequence, clock, awaited, wire, latest, hiccups>>

FeedNext ==
  \/ \E s \in Stream : Publish(s)
  \/ EaTimesOut \/ EaStopsAndStarts \/ BridgeRestarts \/ QuotesChange
  \/ \E message \in wire : ReceiveMessage(message) \/ Discard(message)

FeedSteps == FeedInit /\ [][FeedNext]_feedVars

(* The timer keeps publishing snapshots, and a request does not stay on    *)
(* the way for ever: both ends use timeouts.                               *)
FeedFairness ==
  /\ WF_feedVars(Publish("snapshot"))
  /\ WF_feedVars(\E message \in wire : ReceiveMessage(message) \/ Discard(message))

----------------------------------------------------------------------------
FeedTypeOK ==
  /\ eaRun \in Nat /\ clock \in Nat /\ hiccups \in Nat
  /\ sequence \in [Stream -> Nat]
  /\ awaited \in FeedMessage \cup {NoMessage}
  /\ \A message \in wire : message \in FeedMessage
  /\ latest \in [Stream -> FeedMessage \cup {NoMessage}]
  /\ listed \in BOOLEAN

(* What the bridge shows of one run of the EA never goes back, whatever    *)
(* requests arrive late: the exception for a restarted EA (app.py:230-234, *)
(* 253-257) lets no earlier message of the same run in.                    *)
ViewMovesForward ==
  [][\A s \in Stream :
       (/\ latest[s] # NoMessage /\ latest'[s] # NoMessage
        /\ latest'[s].run = latest[s].run)
       => latest'[s].sequence >= latest[s].sequence]_feedVars

(* After its last start the bridge ends up showing the running EA, even    *)
(* when the first message of the run, the only one the exception is for,   *)
(* was lost, or an earlier run's message came in late: a number is never   *)
(* used twice, so the new ones outgrow the old (EA:225-240, app.py:251).   *)
FeedCatchesUp ==
  eaRun = MaxEaRuns ~> [](latest["snapshot"] # NoMessage /\ latest["snapshot"].run = eaRun)
=============================================================================
