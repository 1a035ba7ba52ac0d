---------------------------- MODULE ForwardPaper ----------------------------
(***************************************************************************)
(* A forward paper session: the observation of closed candles, the entries *)
(* announced before their outcome is known, and the replay that turns them *)
(* into simulated trades (modules/strategies/monitoring.py observe,        *)
(* modules/backtesting/protection.py).  A monitoring task observes when it *)
(* runs: late, twice in one bar, or not at all.  The provider's candles    *)
(* come late or never.                                                     *)
(*                                                                         *)
(* Time counts half bars: an entry may be announced in the first half of   *)
(* its bar (five minutes or a quarter of it in the code).  A candle says   *)
(* its prices and whether the strategy's entry and exit conditions hold on *)
(* it; one unit of size is sold at each target, every trade risks the      *)
(* same, and the account's loss limits are one limit on the drawdown.      *)
(***************************************************************************)
EXTENDS Integers, Sequences, FiniteSets, FiniteSetsExt

CONSTANTS
  Candle,      \* candles: [open, high, low, close, calls, exits]
  Sign,        \* 1 for LONG, -1 for SHORT
  Distance,    \* from the entry to the stop
  Targets,     \* distances of the targets, a sequence
  Slippage, Costs,
  ToBreakEven, Trailing,  \* position_management
  MaxLoss,     \* max_total_loss of the configuration
  MinTrades,   \* trades a review asks for
  Shut,        \* bars of a closed market, which have no candle
  WarmUp, Window,  \* candles an observation needs and asks for
  Duration,    \* bars in which entries may be announced
  MaxBar       \* bound: bars of a session

ASSUME PaperAssumption ==
  /\ Sign \in {1, -1} /\ Distance \in Nat \ {0} /\ Slippage \in Nat /\ Costs \in Nat
  /\ \A c \in Candle : /\ {c.open, c.high, c.low, c.close} \subseteq Int
                       /\ c.calls \in BOOLEAN /\ c.exits \in BOOLEAN
  /\ Targets \in Seq(Nat) /\ Len(Targets) > 0 /\ ToBreakEven \in BOOLEAN /\ Trailing \in BOOLEAN
  /\ MaxLoss \in Nat /\ MinTrades \in Nat \ {0} /\ Shut \subseteq 1..MaxBar
  /\ WarmUp \in Nat \ {0} /\ Window \in Nat /\ Duration \in Nat /\ MaxBar \in Nat \ {0, 1}

VARIABLES
  halves,    \* half bars; the session begins in the second half of bar 1
  market,    \* candles of the bars closed so far, a function
  served,    \* bars whose candle the provider has
  session,   \* state of the strategy_paper_run
  cutoff,    \* entry_cutoff, in half bars
  failure,   \* the last observation failed
  frozen,    \* candles of the session, by bar
  intents,   \* entry_intents: bars
  contexts,  \* news_contexts: whether the first look at a bar found entries allowed
  ledger     \* the last replay: trades, open_positions, data_complete, policy_passed

recordVars == <<failure, frozen, intents, contexts, ledger>>
paperVars == <<halves, market, served, session, cutoff, recordVars>>

Start == 3
Bar == halves \div 2
Flat == [entered |-> -1, entry |-> 0, stop |-> 0, left |-> 0, next |-> 1, pnl |-> 0,
         gap |-> FALSE, profits |-> {}]
NoTrades == [position |-> Flat, trades |-> <<>>]

PaperInit ==
  /\ halves = Start /\ market \in [{0} -> Candle] /\ served = {0}
  /\ session = "RUNNING" /\ cutoff = Start + 2 * Duration /\ failure = FALSE
  /\ frozen = [b \in {} |-> market[b]] /\ intents = {} /\ contexts = [b \in {} |-> TRUE]
  /\ ledger = [trades |-> <<>>, position |-> Flat, complete |-> TRUE, policy |-> TRUE]

----------------------------------------------------------------------------
(* simulate_protected_trades, one candle at a time: a position p meets the *)
(* candle c of bar b; was is the candle before it.                         *)

Better(x, y) == IF Sign * x >= Sign * y THEN x ELSE y
Reaches(c, target) == IF Sign > 0 THEN c.high >= target ELSE c.low <= target
Touches(c, stop) == IF Sign > 0 THEN c.low <= stop ELSE c.high >= stop

(* entry_matches on the closed candle, and protection_levels.              *)
Calls(c) == c.calls
StopFrom(entry) == entry - Sign * Distance

Enter(b, c) ==
  LET entry == c.open + Sign * Slippage IN
  [Flat EXCEPT !.entered = b, !.entry = entry, !.stop = StopFrom(entry),
               !.left = Len(Targets), !.pnl = -Costs]

Gain(p, price) == Sign * (price - Sign * Slippage - p.entry)
Exit(p, price) == [p EXCEPT !.pnl = @ + Gain(p, price) * p.left, !.left = 0]

(* Targets the candle reaches, one after the other.                        *)
Profit(p, b, c) ==
  LET Target(k) == p.entry + Sign * Targets[k]
      hit == {k \in p.next..Len(Targets) : \A j \in p.next..k : Reaches(c, Target(j))}
      gained == SumFunctionOnSet([k \in hit |-> Gain(p, Target(k))], hit)
  IN [p EXCEPT !.pnl = @ + gained, !.left = @ - Cardinality(hit), !.next = @ + Cardinality(hit),
               !.profits = IF hit = {} THEN @ ELSE @ \cup {b}]

(* The stop of the next bar.                                               *)
Managed(p, c) ==
  LET even == IF ToBreakEven /\ p.next > 1 THEN Better(p.stop, p.entry) ELSE p.stop IN
  [p EXCEPT !.stop = IF Trailing THEN Better(even, c.close - Sign * Distance) ELSE even]

(* At an ambiguous bar the adverse level comes first.                      *)
MutManage(p, b, c, was) ==
  LET q == Profit(p, b, c) IN
  IF Sign * (c.open - p.stop) <= 0 THEN [Exit(p, c.open) EXCEPT !.gap = TRUE]
  ELSE IF b # p.entered /\ was.exits THEN Exit(p, c.open)
  ELSE IF Touches(c, p.stop) THEN Exit(q, p.stop)
  ELSE IF q.left > 0 THEN Managed(q, c) ELSE q
Manage(p, b, c, was) ==
  LET q == Profit(p, b, c) IN
  IF Sign * (c.open - p.stop) <= 0 THEN [Exit(p, c.open) EXCEPT !.gap = TRUE]
  ELSE IF b # p.entered /\ was.exits THEN Exit(p, c.open)
  ELSE IF Touches(c, p.stop) THEN Exit(p, p.stop)
  ELSE IF q.left > 0 THEN Managed(q, c) ELSE q

(* Only an announced entry is made, if its signal still stands.            *)
Replayed(sim, b, c, was, announced) ==
  LET p == IF sim.position = Flat /\ announced /\ Calls(was) THEN Enter(b, c) ELSE sim.position
      q == IF p = Flat THEN Flat ELSE Manage(p, b, c, was)
  IN IF q # Flat /\ q.left = 0
       THEN [position |-> Flat,
             trades |-> Append(sim.trades, [entered |-> q.entered, left |-> b, pnl |-> q.pnl,
                                            gap |-> q.gap, profits |-> q.profits])]
       ELSE [position |-> q, trades |-> sim.trades]

(* The position and the trades after each bar.                             *)
Earlier(candles, b) == {d \in DOMAIN candles : d < b}
Replay(candles, entries) ==
  LET sim[b \in 0..MaxBar] ==
        LET before == IF b = 0 THEN NoTrades ELSE sim[b - 1] IN
        IF b \in DOMAIN candles /\ Earlier(candles, b) # {}
          THEN Replayed(before, b, candles[b], candles[Max(Earlier(candles, b))], b \in entries)
          ELSE before
  IN sim

----------------------------------------------------------------------------
(* Environment: time passes, a bar closes, its candle comes or does not.   *)
(* Bound: until the session is reviewed.                                   *)
Tick ==
  /\ session = "RUNNING" /\ halves < 2 * MaxBar /\ halves' = halves + 1
  /\ IF halves % 2 = 1 /\ Bar \notin Shut
       THEN \E c \in Candle :
              /\ market' = [b \in DOMAIN market \cup {Bar} |-> IF b = Bar THEN c ELSE market[b]]
              /\ served' \in {served, served \cup {Bar}}
       ELSE UNCHANGED <<market, served>>
  /\ UNCHANGED <<session, cutoff, recordVars>>

ServeLate(b) ==
  /\ session = "RUNNING" /\ b \in DOMAIN market \ served
  /\ served' = served \cup {b}
  /\ UNCHANGED <<halves, market, session, cutoff, recordVars>>

----------------------------------------------------------------------------
(* observe                                                                 *)

Latest(candles) == Max(DOMAIN candles)
Closed == {b \in served : b < Bar /\ b >= Bar - Window}
Unseen == IF DOMAIN frozen = {} THEN Closed ELSE {b \in Closed : b > Latest(frozen)}

(* Earlier candles are never looked at again, even when they come late.    *)
MutObserved ==
  LET bars == DOMAIN frozen \cup Unseen IN
  [b \in {d \in bars : d > Max(bars) - Window} |->
     IF b \in DOMAIN frozen THEN frozen[b] ELSE market[b]]
Observed ==
  [b \in DOMAIN frozen \cup Unseen |-> IF b \in DOMAIN frozen THEN frozen[b] ELSE market[b]]

(* A bar of an open market is missing between two candles in a row.        *)
Gap(candles) ==
  \E a, b \in DOMAIN candles :
    /\ 2 * b >= Start /\ {d \in Earlier(candles, b) : d > a} = {}
    /\ \E missing \in a + 1..b - 1 : missing \notin Shut

Early(b) == halves = 2 * b /\ halves >= Start

(* build_strategy_setup: the latest candle calls for an entry, is not      *)
(* stale, and neither the market nor the session's record forbids it.      *)
Signal(candles, calm, clear) ==
  /\ Bar \notin Shut /\ halves < 2 * (Latest(candles) + 2)
  /\ Calls(candles[Latest(candles)]) /\ calm /\ clear
  /\ ledger.complete /\ ledger.policy

(* risk_normalized_account_metrics: equity never falls by more than the    *)
(* limit from what it was before.                                          *)
Sound(trades) ==
  LET equity[k \in 0..Len(trades)] == IF k = 0 THEN 0 ELSE equity[k - 1] + trades[k].pnl
  IN \A k \in 0..Len(trades) : \A peak \in 0..k : equity[peak] - equity[k] <= MaxLoss

(* calm: the news features let the strategy enter; clear: no other rule    *)
(* of the entry context forbids it (trading sessions, events).             *)
Recorded(calm, clear) ==
  LET candles == Observed
      entry == Latest(candles) + 1
      seen == IF Early(entry) THEN DOMAIN contexts \cup {entry} ELSE DOMAIN contexts
      first == [b \in seen |-> IF b \in DOMAIN contexts THEN contexts[b] ELSE calm]
      replay == Replay(candles, {b \in intents : first[b]})[MaxBar]
      missing == Gap(candles)
      policy == Sound(replay.trades)
      announced == replay.position = Flat /\ Signal(candles, calm, clear) /\ ~missing
                     /\ Early(entry) /\ 2 * entry < cutoff /\ policy
  IN /\ frozen' = candles
     /\ contexts' = first
     /\ intents' = IF announced THEN intents \cup {entry} ELSE intents
     /\ ledger' = [trades |-> replay.trades, position |-> replay.position,
                   complete |-> ledger.complete /\ ~missing, policy |-> policy]

(* The monitoring task, with the version locked.                           *)
Observe(calm, clear) ==
  /\ session = "RUNNING"
  /\ Cardinality(Closed) >= WarmUp /\ Recorded(calm, clear) /\ failure' = FALSE
  /\ UNCHANGED <<halves, market, served, session, cutoff>>

ObservationFails ==
  /\ session = "RUNNING" /\ failure' = TRUE
  /\ UNCHANGED <<halves, market, served, session, cutoff, frozen, intents, contexts, ledger>>

----------------------------------------------------------------------------
(* stop_paper_entries                                                      *)
StopPaperEntries ==
  /\ session = "RUNNING" /\ cutoff' = halves
  /\ UNCHANGED <<halves, market, served, session, recordVars>>

(* complete_paper_trading and paper_gates                                  *)
PendingEntries == {b \in intents : b > Latest(frozen)}
Net(trades) == SumFunctionOnSet([k \in DOMAIN trades |-> trades[k].pnl], DOMAIN trades)
PaperGates ==
  Len(ledger.trades) >= MinTrades /\ Net(ledger.trades) > 0 /\ ledger.policy /\ ledger.complete

ReviewPaper ==
  /\ session = "RUNNING" /\ ~failure /\ halves >= cutoff
  /\ ledger.position = Flat /\ (DOMAIN frozen # {} => PendingEntries = {})
  /\ session' = IF PaperGates THEN "PASSED" ELSE "FAILED"
  /\ UNCHANGED <<halves, market, served, cutoff, recordVars>>

PaperNext ==
  \/ Tick \/ ObservationFails \/ StopPaperEntries \/ ReviewPaper
  \/ \E b \in 0..MaxBar : ServeLate(b)
  \/ \E calm, clear \in BOOLEAN : Observe(calm, clear)

PaperSpec == PaperInit /\ [][PaperNext]_paperVars

----------------------------------------------------------------------------
TradeRow == [entered: Int, left: Int, pnl: Int, gap: BOOLEAN, profits: SUBSET Int]
PositionRow == [entered: Int, entry: Int, stop: Int, left: Int, next: Nat \ {0}, pnl: Int,
                gap: BOOLEAN, profits: SUBSET Int]

PaperTypeOK ==
  /\ halves \in Start..2 * MaxBar /\ market \in [DOMAIN market -> Candle]
  /\ DOMAIN market = {b \in 0..MaxBar : 2 * b + 2 <= halves \/ b = 0} \ Shut
  /\ served \subseteq DOMAIN market /\ session \in {"RUNNING", "PASSED", "FAILED"}
  /\ cutoff \in Nat /\ failure \in BOOLEAN
  /\ DOMAIN frozen \subseteq DOMAIN market /\ frozen \in [DOMAIN frozen -> Candle]
  /\ intents \subseteq 1..MaxBar
  /\ contexts \in [DOMAIN contexts -> BOOLEAN] /\ DOMAIN contexts \subseteq 1..MaxBar
  /\ ledger \in [trades: Seq(TradeRow), position: PositionRow, complete: BOOLEAN, policy: BOOLEAN]

(* Evidence is only ever added: an announced entry is never withdrawn, a   *)
(* closed trade never changes, and an open one stays or becomes the next   *)
(* trade, whatever comes late, twice or never (monitoring.py:42-46).       *)
Continues(old, new) ==
  /\ Len(old.trades) <= Len(new.trades)
  /\ \A k \in 1..Len(old.trades) : new.trades[k] = old.trades[k]
  /\ old.position # Flat =>
       \/ new.position.entered = old.position.entered
       \/ /\ Len(new.trades) > Len(old.trades)
          /\ new.trades[Len(old.trades) + 1].entered = old.position.entered
LedgerGrows == [][intents \subseteq intents' /\ Continues(ledger, ledger')]_ledger

(* What a review accepts can be relied on: no bar of an open market is     *)
(* missing from the session, and the trades are exactly the entries that   *)
(* were announced in calm news; and no trade, at any time, took a profit   *)
(* in a bar that also reached its stop (monitoring.py:114,                 *)
(* protection.py:105).                                                     *)
Entered(trades) == {trades[k].entered : k \in 1..Len(trades)}
EvidenceIsSound ==
  /\ session = "PASSED" =>
       /\ \A a, b \in DOMAIN frozen : a..b \subseteq DOMAIN frozen \cup Shut
       /\ {b \in intents : contexts[b]} = Entered(ledger.trades)
  /\ \A k \in 1..Len(ledger.trades) : \A b \in ledger.trades[k].profits :
       LET stop == StopFrom(market[ledger.trades[k].entered].open + Sign * Slippage)
       IN IF Sign > 0 THEN market[b].low > stop ELSE market[b].high < stop
=============================================================================
