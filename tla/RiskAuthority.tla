--------------------------- MODULE RiskAuthority ---------------------------
(***************************************************************************)
(* What the risk engine lets through (modules/risk/engine.py and what it   *)
(* calls), over the life of one account: trade plans are sized when they   *)
(* are built, evaluated again and reserved when they are queued, filled,   *)
(* moved to break-even, stopped out; the market moves in between.          *)
(*                                                                         *)
(* Amounts count account currency in small units and sizes count lot       *)
(* steps.  The snapshot the engine reads is the broker's current state:    *)
(* what a late snapshot does is Execution's subject.  A candidate has no   *)
(* financing cost: nothing writes one into a specification.                *)
(***************************************************************************)
EXTENDS Integers, FiniteSets, FiniteSetsExt

CONSTANTS
  Idea,       \* the trade plans of this instance
  FiledUnder, \* FiledUnder[i]: what a position on it, its plan and its command are filed under
  UnitLoss,   \* UnitLoss[i]: loss to the stop of one lot step
  MaxLots,    \* MaxLots[i]: the broker's largest order
  Starting,   \* starting balance of the account
  RuleSets,   \* sets of rules the owner may have activated
  Gains       \* profits a position may show

ASSUME RiskAssumption ==
  /\ IsFiniteSet(Idea) /\ \A i \in Idea : UnitLoss[i] \in Nat \ {0} /\ MaxLots[i] \in Nat
  /\ Starting \in Nat /\ Gains \subseteq Nat
  /\ \A R \in RuleSets : IsFiniteSet(R) /\ \A r \in R : r.value \in Int

VARIABLES
  rules,     \* active constraints: [kind, value, hard]
  balance,   \* balance of the account
  day,       \* realized_daily_pnl
  idea,      \* the plans: state, approved_size and candidate_trade_risk
  open,      \* positions by plan: remaining loss to the stop and profit
  stopless,  \* a position without a stop, opened by hand
  terms      \* the broker's specifications are valid and from the current cut

riskVars == <<rules, balance, day, idea, open, stopless, terms>>

NoPosition == [loss |-> 0, pnl |-> 0, held |-> FALSE]
NoIdea == [state |-> "NONE", size |-> 0, risk |-> 0]

RiskInit ==
  /\ rules \in RuleSets
  /\ balance = Starting /\ day = 0
  /\ idea = [i \in Idea |-> NoIdea]
  /\ open = [i \in Idea |-> NoPosition]
  /\ stopless = FALSE /\ terms = TRUE

----------------------------------------------------------------------------
(* The risk context, read under the lock of the account.                   *)

(* strictest_applicable: a hard rule makes softer ones of its kind void.   *)
Strictest(kind) ==
  LET choices == {r \in rules : r.kind = kind}
      hard == {r \in choices : r.hard}
  IN IF hard # {} THEN hard ELSE choices

Limit(kind) == Min({r.value : r \in Strictest(kind)})
(* Two kinds are read past it, hard or not.                                *)
Ruled(kind) == {r \in rules : r.kind = kind}
Ceiling ==
  IF Ruled("CONCURRENT_TRADES") = {} THEN 3 ELSE Min({r.value : r \in Ruled("CONCURRENT_TRADES")})

Above(x) == Max({0, x})
Held == {i \in Idea : open[i].held}
Committed == {i \in Idea : idea[i].state = "PENDING"}

LossOf(S) == SumFunctionOnSet([i \in Idea |-> open[i].loss], S)
Floating == SumFunctionOnSet([i \in Idea |-> open[i].pnl], Held)
OpenRisk == LossOf(Held)
Reserved == SumFunctionOnSet([i \in Idea |-> idea[i].risk], Committed)

(* total_drawdown and daily_loss: profits that are not realised do not     *)
(* make up for the day's losses.                                           *)
Drawdown == Above(Starting - (balance + Floating))
MutDailyLoss == Above(-day)
DailyLoss == Above(-(day + Min({Floating, 0})))

PortfolioRoom == Above(Limit("PORTFOLIO_RISK") - OpenRisk - Reserved)

(* aggregate_exposure: a loss of zero counts like an unknown one.          *)
InCategory(category) == {i \in Held : FiledUnder[i].position = category}
CorrelatedRoom(category) ==
  IF \E i \in InCategory(category) : open[i].loss = 0
    THEN 0
    ELSE Above(Min({r.value : r \in Ruled("CORRELATED_RISK")})
                 - LossOf(InCategory(category)))

Room(category) ==
  {Above(Limit("TOTAL_DRAWDOWN") - Drawdown), Above(Limit("DAILY_LOSS") - DailyLoss),
   PortfolioRoom}
    \cup (IF Strictest("RISK_PER_TRADE") = {} THEN {} ELSE {Above(Limit("RISK_PER_TRADE"))})
    \cup (IF Ruled("CORRELATED_RISK") = {} THEN {} ELSE {CorrelatedRoom(category)})

(* RiskEngine.evaluate: no verdict without its authorities, and none while *)
(* a position's loss is unbounded; then the size that fits.                *)
Authoritative ==
  /\ terms /\ ~stopless
  /\ \A kind \in {"TOTAL_DRAWDOWN", "DAILY_LOSS", "PORTFOLIO_RISK"} : Strictest(kind) # {}

Size(i, requested, category) ==
  IF Authoritative /\ Cardinality(Held) < Ceiling
    THEN Min({requested, Min(Room(category)) \div UnitLoss[i]})
    ELSE 0

(* Live sizing asks for a hard limit per trade.                            *)
PerTradeRuled ==
  \E r \in Strictest("RISK_PER_TRADE") : r.hard /\ Limit("RISK_PER_TRADE") > 0

----------------------------------------------------------------------------
Sized(state, size, i) == [state |-> state, size |-> size, risk |-> size * UnitLoss[i]]

(* create_trade_plan: the largest order the rules leave room for.          *)
BuildPlan(i) ==
  /\ idea[i].state = "NONE" /\ PerTradeRuled
  /\ LET size == Size(i, MaxLots[i], FiledUnder[i].build) IN
     idea' = [idea EXCEPT ![i] = Sized(IF size > 0 THEN "READY" ELSE "BLOCKED", size, i)]
  /\ UNCHANGED <<rules, balance, day, open, stopless, terms>>

(* authorize_and_queue_entry: the size of the plan is evaluated again, and *)
(* reserve asks for its amount on top of what is reserved; without room    *)
(* the request fails and the plan stays as it is.                          *)
QueuePlan(i) ==
  /\ idea[i].state = "READY"
  /\ LET size == IF PerTradeRuled THEN Size(i, idea[i].size, FiledUnder[i].queue) ELSE 0 IN
     \/ size = 0 /\ idea' = [idea EXCEPT ![i].state = "BLOCKED"]
     \/ /\ size > 0
        /\ Reserved + size * UnitLoss[i] <= PortfolioRoom
        /\ idea' = [idea EXCEPT ![i] = Sized("PENDING", size, i)]
  /\ UNCHANGED <<rules, balance, day, open, stopless, terms>>

(* The order is filled, and the snapshot that shows it turns the           *)
(* reservation into a position; or it ends without effect.                 *)
Fill(i) ==
  /\ idea[i].state = "PENDING"
  /\ idea' = [idea EXCEPT ![i].state = "OPEN"]
  /\ open' = [open EXCEPT ![i] = [loss |-> idea[i].risk, pnl |-> 0, held |-> TRUE]]
  /\ UNCHANGED <<rules, balance, day, stopless, terms>>

Lapse(i) ==
  /\ idea[i].state \in {"READY", "PENDING"}
  /\ idea' = [idea EXCEPT ![i].state = "CLOSED"]
  /\ UNCHANGED <<rules, balance, day, open, stopless, terms>>

----------------------------------------------------------------------------
(* Environment: the market and the owner's terminal.                       *)
PriceMoves(i) ==
  /\ i \in Held
  /\ \E pnl \in {-open[i].loss} \cup Gains : open' = [open EXCEPT ![i].pnl = pnl]
  /\ UNCHANGED <<rules, balance, day, idea, stopless, terms>>

BreakEven(i) ==
  /\ i \in Held
  /\ open' = [open EXCEPT ![i].loss = 0, ![i].pnl = Max({@, 0})]
  /\ UNCHANGED <<rules, balance, day, idea, stopless, terms>>

Closes(i) ==
  /\ i \in Held
  /\ idea' = [idea EXCEPT ![i].state = "CLOSED"]
  /\ open' = [open EXCEPT ![i] = NoPosition]
  /\ balance' = balance + open[i].pnl
  /\ day' = day + open[i].pnl
  /\ UNCHANGED <<rules, stopless, terms>>

NextDay ==
  /\ day' = 0
  /\ UNCHANGED <<rules, balance, idea, open, stopless, terms>>

HandMadePosition ==
  /\ stopless' = ~stopless
  /\ UNCHANGED <<rules, balance, day, idea, open, terms>>

TermsChange ==
  /\ terms' = ~terms
  /\ UNCHANGED <<rules, balance, day, idea, open, stopless>>

RiskNext ==
  \/ \E i \in Idea :
       \/ BuildPlan(i) \/ QueuePlan(i) \/ Fill(i) \/ Lapse(i)
       \/ PriceMoves(i) \/ BreakEven(i) \/ Closes(i)
  \/ NextDay \/ HandMadePosition \/ TermsChange

RiskSpec == RiskInit /\ [][RiskNext]_riskVars

----------------------------------------------------------------------------
RiskTypeOK ==
  /\ rules \in RuleSets /\ balance \in Int /\ day \in Int
  /\ idea \in [Idea -> [state: {"NONE", "READY", "BLOCKED", "PENDING", "OPEN", "CLOSED"},
                        size: Nat, risk: Nat]]
  /\ open \in [Idea -> [loss: Nat, pnl: Int, held: BOOLEAN]]
  /\ stopless \in BOOLEAN /\ terms \in BOOLEAN

Queued(i) == idea[i].state # "PENDING" /\ idea'[i].state = "PENDING"
Hard(kind) == {r \in rules : r.hard /\ r.kind = kind}

(* After everything realised and floating, the loss to the stop of i fits  *)
(* the day's and the total loss left and its own limit; what is open and   *)
(* reserved fits the portfolio limit with it; no position's loss is        *)
(* unknown (engine.py:60-106).                                             *)
WithinHardLimits(i) ==
  LET floating == SumFunctionOnSet([k \in Idea |-> open[k].pnl], Held)
      equity == balance + floating
      today == day + floating
      risk == idea'[i].risk
  IN
  /\ ~stopless
  /\ \A r \in Hard("TOTAL_DRAWDOWN") : Starting - (equity - risk) <= r.value
  /\ \A r \in Hard("DAILY_LOSS") : risk - today <= r.value
  /\ \A r \in Hard("RISK_PER_TRADE") : risk <= r.value
  /\ \A r \in Hard("PORTFOLIO_RISK") :
       SumFunctionOnSet([k \in Idea |-> open'[k].loss], Held)
         + SumFunctionOnSet([k \in Idea |-> idea'[k].risk], Committed \cup {i}) <= r.value

(* An order goes out only if its worst case breaches no hard limit         *)
(* (FR-027).                                                               *)
ApprovalFits == [][\A i \in Idea : Queued(i) => WithinHardLimits(i)]_riskVars

(* The documented rule: open positions of a category and the new order     *)
(* together stay within the limit on correlated risk (FR-027, FR-031).     *)
CorrelatedWithinLimit ==
  [][\A i \in Idea : Queued(i) =>
       \A r \in Hard("CORRELATED_RISK") :
         LossOf(InCategory(FiledUnder[i].position)) + idea'[i].risk <= r.value]_riskVars
=============================================================================
