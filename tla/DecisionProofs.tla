--------------------------- MODULE DecisionProofs ----------------------------
(***************************************************************************)
(* What decides about a trade: the evidence of a forward paper session,    *)
(* for any candles, entries and lateness; the risk engine, for any plans,  *)
(* rules and positions.                                                    *)
(***************************************************************************)
EXTENDS ForwardPaper, RiskAuthority, RiskSums

----------------------------------------------------------------------------
(***************************************************************************)
(* Forward paper: the ledger is the replay of the frozen candles, and an   *)
(* observation goes on where the replay of the one before it stopped.      *)
(***************************************************************************)

LEMMA GreatestMember ==
  ASSUME NEW N \in Nat, NEW T, T \subseteq 0..N, T # {}
  PROVE  Max(T) \in T /\ \A y \in T : y <= Max(T)
<1> DEFINE Short == {N - y : y \in T}
<1>1. Short \subseteq Nat /\ Short # {}
  <2>1. \A y \in T : N - y \in Nat
    OBVIOUS
  <2>2. PICK y \in T : TRUE
    OBVIOUS
  <2>3. N - y \in Short
    BY <2>2
  <2> QED BY <2>1, <2>3
<1>2. PICK x \in Short : \A y \in Short : x <= y
  BY <1>1, LeastMember
<1>3. PICK top \in T : x = N - top
  OBVIOUS
<1>4. \A y \in T : top >= y
  <2> SUFFICES ASSUME NEW y \in T PROVE top >= y
    OBVIOUS
  <2>1. N - top <= N - y
    BY <1>2, <1>3
  <2> QED BY <2>1
<1>5. Max(T) \in T /\ \A y \in T : Max(T) >= y
  BY <1>4 DEF Max
<1> QED BY <1>5

(* What one bar makes of the position and the trades before it.            *)
Day(candles, entries, b, before) ==
  IF b \in DOMAIN candles /\ Earlier(candles, b) # {}
    THEN Replayed(before, b, candles[b], candles[Max(Earlier(candles, b))], b \in entries)
    ELSE before

LEMMA ReplayUnfolds ==
  ASSUME NEW candles, NEW entries
  PROVE  \A b \in 0..MaxBar :
           Replay(candles, entries)[b] =
             Day(candles, entries, b, IF b = 0 THEN NoTrades ELSE Replay(candles, entries)[b - 1])
<1> DEFINE Step(sim, b) == Day(candles, entries, b, IF b = 0 THEN NoTrades ELSE sim[b - 1])
           Solved == {n \in Nat : \E sim : sim = [b \in 0..n |-> Step(sim, b)]}
<1>1. 0 \in Solved
  <2> DEFINE sim == [b \in 0..0 |-> Day(candles, entries, b, NoTrades)]
  <2>1. sim = [b \in 0..0 |-> Step(sim, b)]
    OBVIOUS
  <2> QED BY <2>1
<1>2. ASSUME NEW n \in Nat, n \in Solved PROVE n + 1 \in Solved
  <2>1. PICK sim : sim = [b \in 0..n |-> Step(sim, b)]
    BY <1>2
  <2> DEFINE longer == [b \in 0..n + 1 |-> Step(sim, b)]
  <2>2. \A b \in 0..n : longer[b] = sim[b]
    BY <2>1
  <2>3. \A b \in 0..n + 1 : Step(sim, b) = Step(longer, b)
    <3> SUFFICES ASSUME NEW b \in 0..n + 1 PROVE Step(sim, b) = Step(longer, b)
      OBVIOUS
    <3>1. b # 0 => b - 1 \in 0..n
      OBVIOUS
    <3> HIDE DEF longer
    <3> QED BY <2>2, <3>1
  <2>4. longer = [b \in 0..n + 1 |-> Step(longer, b)]
    BY <2>3
  <2> HIDE DEF longer, Step
  <2> QED BY <2>4
<1>3. MaxBar \in Solved
  <2>1. MaxBar \in Nat
    BY PaperAssumption
  <2> HIDE DEF Solved
  <2> QED BY <1>1, <1>2, <2>1, SetInduction
<1>4. Replay(candles, entries) = [b \in 0..MaxBar |-> Step(Replay(candles, entries), b)]
  BY <1>3 DEF Replay, Day
<1> HIDE DEF Step
<1>5. \A b \in 0..MaxBar : Replay(candles, entries)[b] = Step(Replay(candles, entries), b)
  BY <1>4
<1> QED BY <1>5 DEF Step

----------------------------------------------------------------------------
(* One bar: what a position keeps, and what it may claim.                  *)
SimRow == [position: PositionRow, trades: Seq(TradeRow)]

LEMMA SignIs == Sign \in Int /\ (Sign = 1 \/ Sign = -1) /\ Slippage \in Nat /\ Distance \in Nat /\ Costs \in Nat
BY PaperAssumption

LEMMA BetterIs ==
  ASSUME NEW x \in Int, NEW y \in Int
  PROVE  Better(x, y) \in Int /\ Sign * Better(x, y) >= Sign * x
<1>1. CASE Sign = 1
  BY <1>1 DEF Better
<1>2. CASE Sign = -1
  BY <1>2 DEF Better
<1> QED BY <1>1, <1>2, SignIs

LEMMA GainIs ==
  ASSUME NEW p \in PositionRow, NEW price \in Int
  PROVE  Gain(p, price) \in Int
<1>1. p.entry \in Int
  BY DEF PositionRow
<1>2. CASE Sign = 1
  BY <1>1, <1>2, SignIs DEF Gain
<1>3. CASE Sign = -1
  BY <1>1, <1>3, SignIs DEF Gain
<1> QED BY <1>2, <1>3, SignIs

LEMMA ExitKeeps ==
  ASSUME NEW p \in PositionRow, NEW price \in Int
  PROVE  /\ Exit(p, price) \in PositionRow
         /\ Exit(p, price).entered = p.entered /\ Exit(p, price).entry = p.entry
         /\ Exit(p, price).stop = p.stop /\ Exit(p, price).profits = p.profits
<1>1. Gain(p, price) * p.left \in Int
  <2>1. p.left \in Int
    BY DEF PositionRow
  <2> QED BY <2>1, GainIs
<1> DEFINE gain == Gain(p, price) * p.left
<1>2. p.pnl + gain \in Int
  BY <1>1 DEF PositionRow
<1> HIDE DEF gain
<1> DEFINE paid == [p EXCEPT !.pnl = p.pnl + gain]
           gone == [paid EXCEPT !.left = 0]
<1>3. paid \in PositionRow /\ paid.entered = p.entered /\ paid.entry = p.entry
      /\ paid.stop = p.stop /\ paid.profits = p.profits
  BY <1>2 DEF PositionRow
<1>4. Exit(p, price) = gone
  BY DEF Exit, gain, PositionRow
<1> HIDE DEF paid
<1>5. gone \in PositionRow /\ gone.entered = paid.entered /\ gone.entry = paid.entry
      /\ gone.stop = paid.stop /\ gone.profits = paid.profits
  BY <1>3 DEF PositionRow
<1> QED BY <1>3, <1>4, <1>5

LEMMA ProfitKeeps ==
  ASSUME NEW p \in PositionRow, NEW b \in Int, NEW c \in Candle
  PROVE  /\ Profit(p, b, c) \in PositionRow
         /\ Profit(p, b, c).entered = p.entered /\ Profit(p, b, c).entry = p.entry
         /\ Profit(p, b, c).stop = p.stop /\ Profit(p, b, c).profits \in {p.profits, p.profits \cup {b}}
<1> DEFINE Target(k) == p.entry + Sign * Targets[k]
           hit == {k \in p.next..Len(Targets) : \A j \in p.next..k : Reaches(c, Target(j))}
           gains == [k \in hit |-> Gain(p, Target(k))]
           gained == SumFunctionOnSet(gains, hit)
           profits == IF hit = {} THEN p.profits ELSE p.profits \cup {b}
<1>1. IsFiniteSet(hit) /\ Cardinality(hit) \in Nat
  <2>1. p.next \in Int /\ Len(Targets) \in Int
    BY PaperAssumption DEF PositionRow
  <2>2. IsFiniteSet(p.next..Len(Targets)) /\ hit \subseteq p.next..Len(Targets)
    BY <2>1, FS_Interval
  <2> HIDE DEF hit
  <2> QED BY <2>2, FS_Subset, FS_CardinalityType
<1>2. gained \in Int
  <2>1. \A k \in hit : gains[k] \in Int
    <3> SUFFICES ASSUME NEW k \in hit PROVE Gain(p, Target(k)) \in Int
      OBVIOUS
    <3>1. k \in 1..Len(Targets)
      BY PaperAssumption DEF PositionRow
    <3>2. Targets[k] \in Nat /\ p.entry \in Int
      BY <3>1, PaperAssumption DEF PositionRow
    <3>3. Target(k) \in Int
      BY <3>2, SignIs
    <3> QED BY <3>3, GainIs
  <2> HIDE DEF hit, gains
  <2> QED BY <1>1, <2>1, SumInt
<1> HIDE DEF hit, gained, profits
<1>3. profits \in {p.profits, p.profits \cup {b}} /\ profits \subseteq Int
  BY DEF profits, PositionRow
<1> DEFINE paid == [p EXCEPT !.pnl = p.pnl + gained]
           left == [paid EXCEPT !.left = p.left - Cardinality(hit)]
           next == [left EXCEPT !.next = p.next + Cardinality(hit)]
           done == [next EXCEPT !.profits = profits]
<1>4. paid \in PositionRow /\ paid.entered = p.entered /\ paid.entry = p.entry /\ paid.stop = p.stop
  BY <1>2 DEF PositionRow
<1>5. Profit(p, b, c) = done
  BY DEF Profit, PositionRow, hit, gained, profits
<1> HIDE DEF paid
<1>6. left \in PositionRow /\ left.entered = paid.entered /\ left.entry = paid.entry
      /\ left.stop = paid.stop
  BY <1>1, <1>4 DEF PositionRow
<1> HIDE DEF left
<1>7. next \in PositionRow /\ next.entered = left.entered /\ next.entry = left.entry
      /\ next.stop = left.stop
  BY <1>1, <1>6 DEF PositionRow
<1> HIDE DEF next
<1>8. done \in PositionRow /\ done.entered = next.entered /\ done.entry = next.entry
      /\ done.stop = next.stop /\ done.profits = profits
  BY <1>3, <1>7 DEF PositionRow
<1> QED BY <1>3, <1>4, <1>5, <1>6, <1>7, <1>8

LEMMA ManagedKeeps ==
  ASSUME NEW p \in PositionRow, NEW c \in Candle
  PROVE  /\ Managed(p, c) \in PositionRow
         /\ Managed(p, c).entered = p.entered /\ Managed(p, c).entry = p.entry
         /\ Managed(p, c).profits = p.profits
         /\ Managed(p, c).stop \in Int /\ Sign * Managed(p, c).stop >= Sign * p.stop
<1> DEFINE even == IF ToBreakEven /\ p.next > 1 THEN Better(p.stop, p.entry) ELSE p.stop
           stop == IF Trailing THEN Better(even, c.close - Sign * Distance) ELSE even
<1>0. p.stop \in Int /\ p.entry \in Int /\ c.close \in Int /\ Sign * Distance \in Int
  BY PaperAssumption, SignIs DEF PositionRow
<1>1. even \in Int /\ Sign * even >= Sign * p.stop
  <2>1. CASE ToBreakEven /\ p.next > 1
    BY <1>0, <2>1, BetterIs
  <2>2. CASE ~(ToBreakEven /\ p.next > 1)
    <3>1. even = p.stop
      BY <2>2
    <3> HIDE DEF even
    <3> QED BY <1>0, <3>1, SignIs
  <2> QED BY <2>1, <2>2
<1> HIDE DEF even
<1>2. stop \in Int /\ Sign * stop >= Sign * even
  <2>1. CASE Trailing
    <3>1. c.close - Sign * Distance \in Int
      BY <1>0
    <3> QED BY <1>1, <2>1, <3>1, BetterIs
  <2>2. CASE ~Trailing
    <3>1. stop = even
      BY <2>2
    <3> HIDE DEF stop
    <3> QED BY <1>1, <3>1, SignIs
  <2> QED BY <2>1, <2>2
<1> HIDE DEF stop
<1>3. Sign * stop >= Sign * p.stop
  <2>1. Sign * even \in Int /\ Sign * stop \in Int /\ Sign * p.stop \in Int
    BY <1>0, <1>1, <1>2, SignIs
  <2> QED BY <1>1, <1>2, <2>1
<1>4. Managed(p, c) = [p EXCEPT !.stop = stop]
  BY DEF Managed, stop, even
<1> QED BY <1>2, <1>3, <1>4 DEF PositionRow

(* The four outcomes of a bar.                                             *)
LEMMA ManageIs ==
  ASSUME NEW p, NEW b, NEW c, NEW was
  PROVE  LET opened == Sign * (c.open - p.stop) <= 0
             left == b # p.entered /\ was.exits
             r == Profit(p, b, c)
         IN /\ opened => Manage(p, b, c, was) = [Exit(p, c.open) EXCEPT !.gap = TRUE]
            /\ ~opened /\ left => Manage(p, b, c, was) = Exit(p, c.open)
            /\ ~opened /\ ~left /\ Touches(c, p.stop) => Manage(p, b, c, was) = Exit(p, p.stop)
            /\ ~opened /\ ~left /\ ~Touches(c, p.stop) =>
                 Manage(p, b, c, was) = IF r.left > 0 THEN Managed(r, c) ELSE r
BY DEF Manage

(* A profit is taken only where the candle missed the stop.                *)
Kept(p, b, c, q) ==
  /\ q \in PositionRow /\ q.entered = p.entered /\ q.entry = p.entry
  /\ Sign * q.stop >= Sign * p.stop
  /\ q.profits = p.profits \/ (q.profits = p.profits \cup {b} /\ ~Touches(c, p.stop))
LEMMA ManageKeeps ==
  ASSUME NEW p \in PositionRow, NEW b \in Int, NEW c \in Candle, NEW was \in Candle
  PROVE  Kept(p, b, c, Manage(p, b, c, was))
<1> DEFINE q == Manage(p, b, c, was)
           r == Profit(p, b, c)
           opened == Sign * (c.open - p.stop) <= 0
           left == b # p.entered /\ was.exits
           touched == Touches(c, p.stop)
<1>0. p.stop \in Int /\ Sign * p.stop \in Int /\ c.open \in Int
  BY PaperAssumption, SignIs DEF PositionRow
<1>m. /\ opened => q = [Exit(p, c.open) EXCEPT !.gap = TRUE]
      /\ ~opened /\ left => q = Exit(p, c.open)
      /\ ~opened /\ ~left /\ touched => q = Exit(p, p.stop)
      /\ ~opened /\ ~left /\ ~touched => q = IF r.left > 0 THEN Managed(r, c) ELSE r
  BY ManageIs
<1>k. ASSUME NEW price \in Int PROVE Kept(p, b, c, Exit(p, price))
  <2>1. /\ Exit(p, price) \in PositionRow
        /\ Exit(p, price).entered = p.entered /\ Exit(p, price).entry = p.entry
        /\ Exit(p, price).stop = p.stop /\ Exit(p, price).profits = p.profits
    BY ExitKeeps
  <2>2. Sign * p.stop >= Sign * p.stop
    BY <1>0
  <2> DEFINE e == Exit(p, price)
  <2> HIDE DEF e
  <2> QED BY <2>1, <2>2 DEF e, Kept
<1>s. SUFFICES Kept(p, b, c, q)
  OBVIOUS
<1> HIDE DEF q, r, opened, left, touched
<1>1. CASE opened
  <2> DEFINE e == Exit(p, c.open)
  <2>1. q = [e EXCEPT !.gap = TRUE]
    BY <1>1, <1>m
  <2>2. e \in PositionRow /\ e.entered = p.entered /\ e.entry = p.entry
        /\ e.stop = p.stop /\ e.profits = p.profits
    BY <1>0, ExitKeeps
  <2> HIDE DEF e
  <2>3. q \in PositionRow /\ q.entered = e.entered /\ q.entry = e.entry
        /\ q.stop = e.stop /\ q.profits = e.profits
    BY <2>1, <2>2 DEF PositionRow
  <2>4. Sign * q.stop >= Sign * p.stop
    BY <1>0, <2>2, <2>3
  <2> QED BY <2>2, <2>3, <2>4 DEF Kept
<1>2. CASE ~opened /\ left
  BY <1>0, <1>2, <1>m, <1>k
<1>3. CASE ~opened /\ ~left /\ touched
  BY <1>0, <1>3, <1>m, <1>k
<1>4. CASE ~opened /\ ~left /\ ~touched
  <2>1. q = IF r.left > 0 THEN Managed(r, c) ELSE r
    BY <1>4, <1>m
  <2>2. r \in PositionRow /\ r.entered = p.entered /\ r.entry = p.entry
        /\ r.stop = p.stop /\ r.profits \in {p.profits, p.profits \cup {b}}
    BY ProfitKeeps DEF r
  <2>3. /\ Managed(r, c) \in PositionRow /\ Managed(r, c).entered = r.entered
        /\ Managed(r, c).entry = r.entry /\ Managed(r, c).profits = r.profits
        /\ Sign * Managed(r, c).stop >= Sign * r.stop
    BY <2>2, ManagedKeeps
  <2>4. q \in PositionRow /\ q.entered = p.entered /\ q.entry = p.entry
        /\ q.profits = r.profits
    BY <2>1, <2>2, <2>3
  <2>5. Sign * q.stop >= Sign * p.stop
    BY <1>0, <2>1, <2>2, <2>3
  <2> QED BY <1>4, <2>2, <2>4, <2>5 DEF Kept, touched
<1> QED BY <1>1, <1>2, <1>3, <1>4

LEMMA EnterIs ==
  ASSUME NEW b \in Int, NEW c \in Candle
  PROVE  /\ Enter(b, c) \in PositionRow /\ Enter(b, c).entered = b
         /\ Enter(b, c).entry = c.open + Sign * Slippage
         /\ Enter(b, c).stop = StopFrom(c.open + Sign * Slippage)
         /\ Enter(b, c).profits = {}
<1> DEFINE entry == c.open + Sign * Slippage
<1>1. entry \in Int /\ StopFrom(entry) \in Int /\ Len(Targets) \in Int /\ -Costs \in Int
  BY PaperAssumption, SignIs DEF StopFrom
<1> DEFINE stop == StopFrom(entry)
           one == [Flat EXCEPT !.entered = b, !.entry = entry]
           two == [one EXCEPT !.stop = stop, !.left = Len(Targets)]
           row == [two EXCEPT !.pnl = -Costs]
<1>2. Enter(b, c) = row
  BY DEF Enter, Flat
<1> HIDE DEF entry, stop
<1>z. Flat \in PositionRow /\ Flat.profits = {}
  BY DEF PositionRow, Flat
<1>3. one \in PositionRow /\ one.entered = b /\ one.entry = entry /\ one.profits = {}
  BY <1>1, <1>z DEF PositionRow
<1> HIDE DEF one
<1>4. two \in PositionRow /\ two.entered = b /\ two.entry = entry /\ two.profits = {}
      /\ two.stop = stop
  BY <1>1, <1>3 DEF PositionRow, stop
<1> HIDE DEF two
<1>5. row \in PositionRow /\ row.entered = b /\ row.entry = entry /\ row.profits = {}
      /\ row.stop = stop
  BY <1>1, <1>4 DEF PositionRow
<1> QED BY <1>2, <1>5 DEF entry, stop

LEMMA FlatIs == Flat \in PositionRow /\ Flat.entered = -1 /\ NoTrades \in SimRow
<1>1. Flat \in PositionRow /\ Flat.entered = -1
  BY DEF Flat, PositionRow
<1> QED BY <1>1 DEF NoTrades, SimRow

(* What a position or a trade may claim: it was entered at a candle of the *)
(* session, and took profits at candles that missed its first stop.        *)
Missed(c, stop) == IF Sign > 0 THEN c.low > stop ELSE c.high < stop
FirstStop(candles, b) == StopFrom(candles[b].open + Sign * Slippage)
Honest(candles, row) ==
  /\ row.entered \in DOMAIN candles /\ row.profits \subseteq DOMAIN candles
  /\ \A b \in row.profits : Missed(candles[b], FirstStop(candles, row.entered))
Protected(candles, p) ==
  Honest(candles, p) /\ Sign * p.stop >= Sign * FirstStop(candles, p.entered)

Candles(candles) == candles \in [DOMAIN candles -> Candle] /\ DOMAIN candles \subseteq 0..MaxBar

LEMMA BarIsHonest ==
  ASSUME NEW candles, Candles(candles), NEW b \in DOMAIN candles, NEW was \in Candle,
         NEW p \in PositionRow, Protected(candles, p)
  PROVE  /\ Manage(p, b, candles[b], was) \in PositionRow
         /\ Manage(p, b, candles[b], was).entered = p.entered
         /\ Protected(candles, Manage(p, b, candles[b], was))
<1> DEFINE c == candles[b]
           q == Manage(p, b, c, was)
           first == FirstStop(candles, p.entered)
           price == candles[p.entered].open
<1>1. b \in Int /\ c \in Candle /\ candles[p.entered] \in Candle
  BY PaperAssumption DEF Candles, Protected, Honest
<1>s. SUFFICES q \in PositionRow /\ q.entered = p.entered /\ Protected(candles, q)
  OBVIOUS
<1> HIDE DEF c
<1>2. /\ q \in PositionRow /\ q.entered = p.entered
      /\ Sign * q.stop >= Sign * p.stop
      /\ q.profits = p.profits \/ (q.profits = p.profits \cup {b} /\ ~Touches(c, p.stop))
  <2>1. Kept(p, b, c, q)
    BY <1>1, ManageKeeps
  <2> HIDE DEF q
  <2> QED BY <2>1 DEF Kept
<1> HIDE DEF q
<1>3. c.low \in Int /\ c.high \in Int /\ price \in Int /\ p.stop \in Int /\ q.stop \in Int
  <2>1. p.stop \in Int /\ q.stop \in Int
    BY <1>2 DEF PositionRow
  <2> HIDE DEF c
  <2>2. c.low \in Int /\ c.high \in Int
    BY <1>1, PaperAssumption
  <2>3. price \in Int
    BY <1>1, PaperAssumption
  <2> QED BY <2>1, <2>2, <2>3
<1>4. first \in Int
  <2>1. first = (price + Sign * Slippage) - Sign * Distance
    BY DEF FirstStop, StopFrom
  <2> HIDE DEF price, first
  <2>2. CASE Sign = 1
    BY <1>3, <2>1, <2>2, SignIs
  <2>3. CASE Sign = -1
    BY <1>3, <2>1, <2>3, SignIs
  <2> QED BY <2>2, <2>3, SignIs
<1>5. Sign * p.stop >= Sign * first
  BY DEF Protected
<1> HIDE DEF first, c, price
<1>p. p.stop \in Int /\ q.stop \in Int /\ first \in Int
  BY <1>3, <1>4
<1>6. ~Touches(c, p.stop) => Missed(c, first)
  <2>1. CASE Sign = 1
    BY <1>3, <1>4, <1>5, <2>1 DEF Touches, Missed
  <2>2. CASE Sign = -1
    BY <1>3, <1>4, <1>5, <2>2 DEF Touches, Missed
  <2> QED BY <2>1, <2>2, SignIs
<1>7. Sign * q.stop >= Sign * first
  <2>1. CASE Sign = 1
    BY <1>2, <1>3, <1>4, <1>5, <1>p, <2>1
  <2>2. CASE Sign = -1
    BY <1>2, <1>3, <1>4, <1>5, <1>p, <2>2
  <2> QED BY <2>1, <2>2, SignIs
<1>8. /\ p.entered \in DOMAIN candles /\ p.profits \subseteq DOMAIN candles
      /\ \A d \in p.profits : Missed(candles[d], first)
  BY DEF Protected, Honest, first
<1>9. \A d \in q.profits : d \in DOMAIN candles /\ Missed(candles[d], first)
  BY <1>2, <1>6, <1>8 DEF c
<1>10. Honest(candles, q)
  BY <1>2, <1>8, <1>9 DEF Honest, first
<1>11. Protected(candles, q)
  BY <1>2, <1>7, <1>10 DEF Protected, first
<1> QED BY <1>2, <1>11

(* What a bar makes of what was held before it: nothing, a position held   *)
(* on, or the trade that closes it.                                        *)
Opened(candles, entries, b, before) ==
  /\ before.position = Flat /\ b \in entries
  /\ b \in DOMAIN candles /\ Earlier(candles, b) # {}
  /\ Calls(candles[Max(Earlier(candles, b))])
HeldAt(candles, entries, b, before) ==
  IF Opened(candles, entries, b, before) THEN b ELSE before.position.entered

SimInv(candles, sim) ==
  /\ sim \in SimRow
  /\ sim.position # Flat => Protected(candles, sim.position)
  /\ \A k \in 1..Len(sim.trades) : Honest(candles, sim.trades[k])

(* The three outcomes of a bar.                                            *)
Outcome(candles, entries, b, before, after) ==
  LET opened == Opened(candles, entries, b, before)
      held == HeldAt(candles, entries, b, before)
  IN \/ ~opened /\ after = before
     \/ /\ opened \/ before.position # Flat
        /\ after \in SimRow /\ after.trades = before.trades
        /\ Protected(candles, after.position) /\ after.position.entered = held
     \/ /\ opened \/ before.position # Flat
        /\ after \in SimRow /\ after.position = Flat
        /\ \E row \in TradeRow : /\ after.trades = Append(before.trades, row)
                                /\ Honest(candles, row) /\ row.entered = held

LEMMA EarlierIs ==
  ASSUME NEW candles, Candles(candles), NEW b \in 0..MaxBar, Earlier(candles, b) # {}
  PROVE  /\ Max(Earlier(candles, b)) \in DOMAIN candles /\ Max(Earlier(candles, b)) < b
         /\ \A d \in Earlier(candles, b) : d <= Max(Earlier(candles, b))
         /\ candles[Max(Earlier(candles, b))] \in Candle
<1>1. Earlier(candles, b) \subseteq 0..MaxBar /\ MaxBar \in Nat
  BY PaperAssumption DEF Earlier, Candles
<1>2. /\ Max(Earlier(candles, b)) \in Earlier(candles, b)
      /\ \A d \in Earlier(candles, b) : d <= Max(Earlier(candles, b))
  BY <1>1, GreatestMember
<1>3. Max(Earlier(candles, b)) \in DOMAIN candles /\ Max(Earlier(candles, b)) < b
  BY <1>2 DEF Earlier
<1> QED BY <1>2, <1>3 DEF Candles

LEMMA DayIs ==
  ASSUME NEW candles, Candles(candles), NEW entries, NEW b \in 0..MaxBar, NEW before,
         SimInv(candles, before)
  PROVE  Outcome(candles, entries, b, before, Day(candles, entries, b, before))
<1> DEFINE after == Day(candles, entries, b, before)
           opened == Opened(candles, entries, b, before)
           held == HeldAt(candles, entries, b, before)
           was == candles[Max(Earlier(candles, b))]
           c == candles[b]
           Goal == Outcome(candles, entries, b, before, after)
<1> SUFFICES Goal
  OBVIOUS
<1>0. /\ before.position \in PositionRow /\ before.trades \in Seq(TradeRow)
      /\ before = [position |-> before.position, trades |-> before.trades]
  BY DEF SimInv, SimRow
<1>1. CASE ~(b \in DOMAIN candles /\ Earlier(candles, b) # {})
  BY <1>1 DEF Day, Opened, Outcome
<1>2. CASE b \in DOMAIN candles /\ Earlier(candles, b) # {}
  <2> DEFINE announced == b \in entries
             p == IF before.position = Flat /\ announced /\ Calls(was) THEN Enter(b, c) ELSE before.position
             q == IF p = Flat THEN Flat ELSE Manage(p, b, c, was)
             row == [entered |-> q.entered, left |-> b, pnl |-> q.pnl,
                     gap |-> q.gap, profits |-> q.profits]
  <2>1. after = IF q # Flat /\ q.left = 0
                  THEN [position |-> Flat, trades |-> Append(before.trades, row)]
                  ELSE [position |-> q, trades |-> before.trades]
    BY <1>2 DEF Day, Replayed
  <2>2. opened <=> before.position = Flat /\ announced /\ Calls(was)
    BY <1>2 DEF Opened
  <2>3. c \in Candle /\ was \in Candle /\ b \in Int
    BY <1>2, EarlierIs DEF Candles
  <2> HIDE DEF was, after, opened, Goal, announced
  <2>4. CASE ~opened /\ before.position = Flat
    <3>1. p = Flat /\ q = Flat
      BY <2>2, <2>4
    <3>2. after = before
      BY <1>0, <2>1, <2>4, <3>1
    <3> QED BY <2>4, <3>2 DEF Goal, Outcome, opened, held
  <2>5. CASE opened \/ before.position # Flat
    <3>1. p \in PositionRow /\ Protected(candles, p) /\ p.entered = held
      <4>1. CASE opened
        <5>1. p = Enter(b, c)
          BY <2>2, <4>1
        <5>2. /\ p \in PositionRow /\ p.entered = b
              /\ p.stop = FirstStop(candles, b) /\ p.profits = {}
          <6> HIDE DEF p
          <6> QED BY <2>3, <5>1, EnterIs DEF FirstStop
        <5>3. Sign * p.stop >= Sign * FirstStop(candles, p.entered)
          <6> HIDE DEF p
          <6>1. p.stop \in Int
            BY <5>2 DEF PositionRow
          <6> QED BY <5>2, <6>1, SignIs
        <5>4. Honest(candles, p)
          <6> HIDE DEF p
          <6> QED BY <1>2, <5>2 DEF Honest
        <5> QED BY <4>1, <5>2, <5>3, <5>4 DEF Protected, HeldAt, opened
      <4>2. CASE ~opened /\ before.position # Flat
        <5>1. p = before.position
          BY <4>2
        <5> HIDE DEF p
        <5> QED BY <1>0, <4>2, <5>1 DEF SimInv, HeldAt, opened
      <4> QED BY <2>5, <4>1, <4>2
    <3> HIDE DEF p
    <3>2. p # Flat
      <4>1. p.entered \in 0..MaxBar
        BY <3>1 DEF Protected, Honest, Candles
      <4> QED BY <4>1, FlatIs
    <3>3. q \in PositionRow /\ q.entered = held /\ Protected(candles, q)
      <4>1. q = Manage(p, b, c, was)
        BY <3>2
      <4> HIDE DEF q
      <4> QED BY <1>2, <2>3, <3>1, <4>1, BarIsHonest
    <3> HIDE DEF q
    <3>4. CASE q # Flat /\ q.left = 0
      <4>1. after = [position |-> Flat, trades |-> Append(before.trades, row)]
        BY <2>1, <3>4
      <4>2. row \in TradeRow /\ row.entered = held /\ row.profits = q.profits
        BY <2>3, <3>3 DEF TradeRow, PositionRow
      <4> HIDE DEF row
      <4>3. Honest(candles, row)
        BY <3>3, <4>2 DEF Protected, Honest
      <4>4. after.position = Flat /\ after.trades = Append(before.trades, row)
        BY <4>1
      <4>5. after \in SimRow
        BY <1>0, <4>1, <4>2, FlatIs DEF SimRow
      <4> QED BY <2>5, <4>2, <4>3, <4>4, <4>5 DEF Goal, Outcome, opened, held
    <3>5. CASE ~(q # Flat /\ q.left = 0)
      <4>1. after = [position |-> q, trades |-> before.trades]
        BY <2>1, <3>5
      <4>2. after \in SimRow /\ after.position = q /\ after.trades = before.trades
        BY <1>0, <3>3, <4>1 DEF SimRow
      <4> QED BY <2>5, <3>3, <4>2 DEF Goal, Outcome, opened, held
    <3> QED BY <3>4, <3>5
  <2> QED BY <2>4, <2>5
<1> QED BY <1>1, <1>2

(* What was held goes on being held, or becomes the next trade.            *)
Prolongs(old, new) ==
  /\ Len(old.trades) <= Len(new.trades)
  /\ \A k \in 1..Len(old.trades) : new.trades[k] = old.trades[k]
  /\ old.position # Flat =>
       \/ /\ Len(new.trades) = Len(old.trades)
          /\ new.position.entered = old.position.entered
       \/ /\ Len(new.trades) > Len(old.trades)
          /\ new.trades[Len(old.trades) + 1].entered = old.position.entered

(* The bars of the entries made so far.                                    *)
Named(sim) ==
  Entered(sim.trades) \cup (IF sim.position = Flat THEN {} ELSE {sim.position.entered})

LEMMA HeldIsNotFlat ==
  ASSUME NEW candles, Candles(candles), NEW p, Protected(candles, p) \/ p.entered \in DOMAIN candles
  PROVE  p.entered \in 0..MaxBar /\ p # Flat
<1>1. p.entered \in 0..MaxBar
  BY DEF Protected, Honest, Candles
<1>2. p.entered # -1
  BY <1>1
<1> QED BY <1>1, <1>2, FlatIs

LEMMA ProlongsGoesOn ==
  ASSUME NEW candles, Candles(candles), NEW old, NEW mid, NEW new,
         SimInv(candles, old), SimInv(candles, mid), SimInv(candles, new),
         Prolongs(old, mid), Prolongs(mid, new)
  PROVE  Prolongs(old, new)
<1>1. Len(old.trades) \in Nat /\ Len(mid.trades) \in Nat /\ Len(new.trades) \in Nat
  BY DEF SimInv, SimRow
<1>2. \A k \in 1..Len(old.trades) : new.trades[k] = old.trades[k]
  <2> TAKE k \in 1..Len(old.trades)
  <2>1. k \in 1..Len(mid.trades)
    BY <1>1 DEF Prolongs
  <2> QED BY <2>1 DEF Prolongs
<1>3. ASSUME old.position # Flat
      PROVE  \/ /\ Len(new.trades) = Len(old.trades)
                /\ new.position.entered = old.position.entered
             \/ /\ Len(new.trades) > Len(old.trades)
                /\ new.trades[Len(old.trades) + 1].entered = old.position.entered
  <2>1. old.position.entered \in DOMAIN candles
    BY <1>3 DEF SimInv, Protected, Honest
  <2>2. CASE /\ Len(mid.trades) = Len(old.trades)
             /\ mid.position.entered = old.position.entered
    <3>1. mid.position # Flat
      BY <2>1, <2>2, HeldIsNotFlat
    <3> QED BY <2>2, <3>1 DEF Prolongs
  <2>3. CASE /\ Len(mid.trades) > Len(old.trades)
             /\ mid.trades[Len(old.trades) + 1].entered = old.position.entered
    <3>1. Len(old.trades) + 1 \in 1..Len(mid.trades)
      BY <1>1, <2>3
    <3>2. new.trades[Len(old.trades) + 1] = mid.trades[Len(old.trades) + 1]
      BY <3>1 DEF Prolongs
    <3>3. Len(new.trades) > Len(old.trades)
      BY <1>1, <2>3 DEF Prolongs
    <3> QED BY <2>3, <3>2, <3>3
  <2> QED BY <1>3, <2>2, <2>3 DEF Prolongs
<1> QED BY <1>1, <1>2, <1>3 DEF Prolongs

LEMMA ProlongsNames ==
  ASSUME NEW candles, Candles(candles), NEW old, NEW new,
         SimInv(candles, old), SimInv(candles, new), Prolongs(old, new)
  PROVE  Named(old) \subseteq Named(new)
<1>1. Len(old.trades) \in Nat /\ Len(new.trades) \in Nat
  BY DEF SimInv, SimRow
<1>2. Entered(old.trades) \subseteq Entered(new.trades)
  <2> SUFFICES ASSUME NEW k \in 1..Len(old.trades)
               PROVE  old.trades[k].entered \in Entered(new.trades)
    BY DEF Entered
  <2>1. k \in 1..Len(new.trades) /\ new.trades[k] = old.trades[k]
    BY <1>1 DEF Prolongs
  <2> QED BY <2>1 DEF Entered
<1>3. ASSUME old.position # Flat PROVE old.position.entered \in Named(new)
  <2>1. old.position.entered \in DOMAIN candles
    BY <1>3 DEF SimInv, Protected, Honest
  <2>2. CASE new.position.entered = old.position.entered
    <3>1. new.position # Flat
      BY <2>1, <2>2, HeldIsNotFlat
    <3> QED BY <2>2, <3>1 DEF Named
  <2>3. CASE /\ Len(new.trades) > Len(old.trades)
             /\ new.trades[Len(old.trades) + 1].entered = old.position.entered
    <3>1. Len(old.trades) + 1 \in 1..Len(new.trades)
      BY <1>1, <2>3
    <3> QED BY <2>3, <3>1 DEF Named, Entered
  <2> QED BY <1>3, <2>2, <2>3 DEF Prolongs
<1> QED BY <1>2, <1>3 DEF Named

LEMMA DayKeeps ==
  ASSUME NEW candles, Candles(candles), NEW entries, NEW b \in 0..MaxBar, NEW before,
         SimInv(candles, before)
  PROVE  LET after == Day(candles, entries, b, before) IN
         /\ SimInv(candles, after) /\ Prolongs(before, after)
         /\ Opened(candles, entries, b, before) => b \in Named(after)
         /\ Named(after) \subseteq
              Named(before) \cup (IF Opened(candles, entries, b, before) THEN {b} ELSE {})
<1> DEFINE after == Day(candles, entries, b, before)
           opened == Opened(candles, entries, b, before)
           held == HeldAt(candles, entries, b, before)
           news == Named(before) \cup (IF opened THEN {b} ELSE {})
           Goal == /\ SimInv(candles, after) /\ Prolongs(before, after)
                   /\ opened => b \in Named(after)
                   /\ Named(after) \subseteq news
<1> SUFFICES Goal
  OBVIOUS
<1>0. before.trades \in Seq(TradeRow) /\ Len(before.trades) \in Nat
  BY DEF SimInv, SimRow
<1>1. \/ ~opened /\ after = before
      \/ /\ opened \/ before.position # Flat
         /\ after \in SimRow /\ after.trades = before.trades
         /\ Protected(candles, after.position) /\ after.position.entered = held
      \/ /\ opened \/ before.position # Flat
         /\ after \in SimRow /\ after.position = Flat
         /\ \E row \in TradeRow : /\ after.trades = Append(before.trades, row)
                                 /\ Honest(candles, row) /\ row.entered = held
  <2>1. Outcome(candles, entries, b, before, after)
    BY DayIs
  <2> HIDE DEF after
  <2> QED BY <2>1 DEF Outcome
<1>2. /\ opened => held = b /\ before.position = Flat
      /\ ~opened => held = before.position.entered
  BY DEF HeldAt, Opened
<1>3. held \in news \/ (~opened /\ before.position = Flat)
  BY <1>2 DEF Named
<1>4. Entered(before.trades) \subseteq news
  BY DEF Named
<1> HIDE DEF after, opened, held, news, Goal
<1>5. CASE ~opened /\ after = before
  BY <1>0, <1>5 DEF Prolongs, Goal, news
<1>6. CASE /\ opened \/ before.position # Flat
           /\ after \in SimRow /\ after.trades = before.trades
           /\ Protected(candles, after.position) /\ after.position.entered = held
  <2>1. after.position # Flat
    BY <1>6, HeldIsNotFlat
  <2>2. SimInv(candles, after)
    BY <1>6 DEF SimInv
  <2>3. Prolongs(before, after)
    BY <1>0, <1>2, <1>6 DEF Prolongs
  <2>4. Named(after) = Entered(before.trades) \cup {held}
    BY <1>6, <2>1 DEF Named
  <2> QED BY <1>2, <1>3, <1>4, <1>6, <2>2, <2>3, <2>4 DEF Goal
<1>7. CASE /\ opened \/ before.position # Flat
           /\ after \in SimRow /\ after.position = Flat
           /\ \E row \in TradeRow : /\ after.trades = Append(before.trades, row)
                                   /\ Honest(candles, row) /\ row.entered = held
  <2>1. PICK row \in TradeRow : /\ after.trades = Append(before.trades, row)
                                /\ Honest(candles, row) /\ row.entered = held
    BY <1>7
  <2>2. /\ after.trades \in Seq(TradeRow) /\ Len(after.trades) = Len(before.trades) + 1
        /\ \A k \in 1..Len(before.trades) : after.trades[k] = before.trades[k]
        /\ after.trades[Len(before.trades) + 1] = row
    BY <1>0, <2>1
  <2>3. SimInv(candles, after)
    <3>1. after \in SimRow
      BY <1>7
    <3>2. ASSUME NEW k \in 1..Len(after.trades) PROVE Honest(candles, after.trades[k])
      BY <1>0, <2>1, <2>2 DEF SimInv
    <3> QED BY <1>7, <3>1, <3>2 DEF SimInv
  <2>4. Prolongs(before, after)
    BY <1>0, <1>2, <1>7, <2>1, <2>2 DEF Prolongs
  <2>5. Named(after) = Entered(before.trades) \cup {held}
    <3>1. 1..Len(after.trades) = (1..Len(before.trades)) \cup {Len(before.trades) + 1}
      BY <1>0, <2>2
    <3> QED BY <1>7, <2>1, <2>2, <3>1 DEF Named, Entered
  <2> QED BY <1>2, <1>3, <1>4, <1>7, <2>3, <2>4, <2>5 DEF Goal
<1> QED BY <1>1, <1>5, <1>6, <1>7

(* The whole replay, bar after bar.                                        *)
LEMMA ReplayHolds ==
  ASSUME NEW candles, Candles(candles), NEW entries
  PROVE  /\ \A n \in 0..MaxBar : /\ SimInv(candles, Replay(candles, entries)[n])
                                /\ Named(Replay(candles, entries)[n]) \subseteq entries
         /\ \A n \in 1..MaxBar :
              /\ Prolongs(Replay(candles, entries)[n - 1], Replay(candles, entries)[n])
              /\ Opened(candles, entries, n, Replay(candles, entries)[n - 1]) =>
                   n \in Named(Replay(candles, entries)[n])
<1> DEFINE sim(n) == Replay(candles, entries)[n]
           Good(n) == SimInv(candles, sim(n)) /\ Named(sim(n)) \subseteq entries
           Solved == {n \in Nat : n <= MaxBar => Good(n)}
<1>0. MaxBar \in Nat
  BY PaperAssumption
<1>1. sim(0) = Day(candles, entries, 0, NoTrades)
      /\ \A n \in 1..MaxBar : sim(n) = Day(candles, entries, n, sim(n - 1))
  <2>1. 0 \in 0..MaxBar /\ \A n \in 1..MaxBar : n \in 0..MaxBar /\ n # 0
    BY <1>0
  <2> QED BY <2>1, ReplayUnfolds
<1> HIDE DEF sim
<1>2. SimInv(candles, NoTrades) /\ Named(NoTrades) = {}
  BY FlatIs DEF SimInv, Named, Entered, NoTrades
<1>3. ASSUME NEW b \in 0..MaxBar, NEW before, SimInv(candles, before), Named(before) \subseteq entries,
             sim(b) = Day(candles, entries, b, before)
      PROVE  /\ Good(b) /\ Prolongs(before, sim(b))
             /\ Opened(candles, entries, b, before) => b \in Named(sim(b))
  <2> DEFINE opened == Opened(candles, entries, b, before)
  <2>1. /\ SimInv(candles, sim(b)) /\ Prolongs(before, sim(b))
        /\ opened => b \in Named(sim(b))
        /\ Named(sim(b)) \subseteq Named(before) \cup (IF opened THEN {b} ELSE {})
    BY <1>3, DayKeeps
  <2>2. opened => b \in entries
    BY DEF Opened
  <2> HIDE DEF opened
  <2>3. Named(sim(b)) \subseteq entries
    BY <1>3, <2>1, <2>2
  <2> QED BY <2>1, <2>3 DEF opened
<1>4. 0 \in Solved
  BY <1>0, <1>1, <1>2, <1>3
<1>5. ASSUME NEW n \in Nat, n \in Solved PROVE n + 1 \in Solved
  <2> SUFFICES ASSUME n + 1 <= MaxBar PROVE Good(n + 1)
    OBVIOUS
  <2>1. n + 1 \in 0..MaxBar /\ n + 1 \in 1..MaxBar /\ (n + 1) - 1 = n /\ n <= MaxBar
    BY <1>0
  <2>2. Good(n) /\ sim(n + 1) = Day(candles, entries, n + 1, sim(n))
    BY <1>1, <1>5, <2>1
  <2> HIDE DEF Solved
  <2> QED BY <1>3, <2>1, <2>2
<1>6. \A n \in 0..MaxBar : Good(n)
  <2>1. Nat \subseteq Solved
    <3> HIDE DEF Solved
    <3> QED BY <1>4, <1>5, SetInduction
  <2> HIDE DEF Good
  <2> QED BY <1>0, <2>1
<1>7. ASSUME NEW n \in 1..MaxBar
      PROVE  /\ Prolongs(sim(n - 1), sim(n))
             /\ Opened(candles, entries, n, sim(n - 1)) => n \in Named(sim(n))
  <2>1. n \in 0..MaxBar /\ n - 1 \in 0..MaxBar
    BY <1>0
  <2>2. Good(n - 1) /\ sim(n) = Day(candles, entries, n, sim(n - 1))
    BY <1>1, <1>6, <2>1
  <2> QED BY <1>3, <2>1, <2>2
<1> QED BY <1>6, <1>7 DEF sim

LEMMA ReplayGrows ==
  ASSUME NEW candles, Candles(candles), NEW entries, NEW m \in 0..MaxBar
  PROVE  \A n \in m..MaxBar : Prolongs(Replay(candles, entries)[m], Replay(candles, entries)[n])
<1> DEFINE sim(n) == Replay(candles, entries)[n]
           Solved == {j \in Nat : m + j <= MaxBar => Prolongs(sim(m), sim(m + j))}
<1>0. MaxBar \in Nat /\ m \in Nat /\ m <= MaxBar
  BY PaperAssumption
<1>1. /\ \A n \in 0..MaxBar : SimInv(candles, sim(n))
      /\ \A n \in 1..MaxBar : Prolongs(sim(n - 1), sim(n))
  BY ReplayHolds
<1> HIDE DEF sim
<1>2. Prolongs(sim(m), sim(m))
  <2>1. Len(sim(m).trades) \in Nat
    BY <1>1 DEF SimInv, SimRow
  <2> QED BY <2>1 DEF Prolongs
<1>3. 0 \in Solved
  <2>1. m + 0 = m
    BY <1>0
  <2> QED BY <1>2, <2>1
<1>4. ASSUME NEW j \in Nat, j \in Solved PROVE j + 1 \in Solved
  <2> SUFFICES ASSUME m + (j + 1) <= MaxBar PROVE Prolongs(sim(m), sim(m + (j + 1)))
    OBVIOUS
  <2>1. /\ m + j \in 0..MaxBar /\ m + j <= MaxBar /\ m + (j + 1) \in 0..MaxBar
        /\ m + (j + 1) \in 1..MaxBar /\ (m + (j + 1)) - 1 = m + j
    BY <1>0
  <2>2. Prolongs(sim(m), sim(m + j)) /\ Prolongs(sim(m + j), sim(m + (j + 1)))
    BY <1>1, <1>4, <2>1
  <2> HIDE DEF Solved
  <2> QED BY <1>1, <2>1, <2>2, ProlongsGoesOn
<1>5. Nat \subseteq Solved
  <2> HIDE DEF Solved
  <2> QED BY <1>3, <1>4, SetInduction
<1>6. ASSUME NEW n \in m..MaxBar PROVE Prolongs(sim(m), sim(n))
  <2>1. n - m \in Nat /\ m + (n - m) = n /\ n <= MaxBar
    BY <1>0
  <2>2. n - m \in Solved
    BY <1>5, <2>1
  <2> QED BY <2>1, <2>2
<1> QED BY <1>6 DEF sim

(* Bars without a candle change nothing.                                   *)
LEMMA ReplayIdle ==
  ASSUME NEW candles, NEW entries, NEW m \in 0..MaxBar,
         \A d \in DOMAIN candles : d \in 0..m
  PROVE  \A n \in m..MaxBar : Replay(candles, entries)[n] = Replay(candles, entries)[m]
<1> DEFINE sim(n) == Replay(candles, entries)[n]
           Solved == {j \in Nat : m + j <= MaxBar => sim(m + j) = sim(m)}
<1>0. MaxBar \in Nat /\ m \in Nat /\ m <= MaxBar
  BY PaperAssumption
<1>1. \A n \in m + 1..MaxBar : sim(n) = sim(n - 1)
  <2> SUFFICES ASSUME NEW n \in m + 1..MaxBar PROVE sim(n) = sim(n - 1)
    OBVIOUS
  <2>1. n \in 0..MaxBar /\ n # 0 /\ n \notin 0..m
    BY <1>0
  <2>2. sim(n) = Day(candles, entries, n, sim(n - 1))
    BY <2>1, ReplayUnfolds
  <2>3. n \notin DOMAIN candles
    BY <2>1
  <2> HIDE DEF sim
  <2> QED BY <2>2, <2>3 DEF Day
<1> HIDE DEF sim
<1>2. 0 \in Solved
  <2>1. m + 0 = m
    BY <1>0
  <2> QED BY <2>1
<1>3. ASSUME NEW j \in Nat, j \in Solved PROVE j + 1 \in Solved
  <2> SUFFICES ASSUME m + (j + 1) <= MaxBar PROVE sim(m + (j + 1)) = sim(m)
    OBVIOUS
  <2>1. m + j <= MaxBar /\ m + (j + 1) \in m + 1..MaxBar /\ (m + (j + 1)) - 1 = m + j
    BY <1>0
  <2>2. sim(m + (j + 1)) = sim(m + j)
    BY <1>1, <2>1
  <2> QED BY <1>3, <2>1, <2>2
<1>4. Nat \subseteq Solved
  <2> HIDE DEF Solved
  <2> QED BY <1>2, <1>3, SetInduction
<1>5. ASSUME NEW n \in m..MaxBar PROVE sim(n) = sim(m)
  <2>1. n - m \in Nat /\ m + (n - m) = n /\ n <= MaxBar
    BY <1>0
  <2>2. n - m \in Solved
    BY <1>4, <2>1
  <2> QED BY <2>1, <2>2
<1> QED BY <1>5 DEF sim

(* A replay depends on the candles and the entries up to its bar.          *)
Agree(f, g, d) == (d \in DOMAIN f <=> d \in DOMAIN g) /\ (d \in DOMAIN f => f[d] = g[d])

LEMMA ReplayAgrees ==
  ASSUME NEW f, NEW g, Candles(f), Candles(g), NEW E, NEW F, NEW m \in 0..MaxBar,
         \A d \in 0..m : Agree(f, g, d) /\ (d \in DOMAIN f => (d \in E <=> d \in F))
  PROVE  \A n \in 0..m : Replay(f, E)[n] = Replay(g, F)[n]
<1> DEFINE sim(n) == Replay(f, E)[n]
           tim(n) == Replay(g, F)[n]
           Solved == {n \in Nat : n <= m => sim(n) = tim(n)}
<1>0. MaxBar \in Nat /\ m \in Nat /\ m <= MaxBar
  BY PaperAssumption
<1>1. ASSUME NEW b \in 0..m, NEW before PROVE Day(f, E, b, before) = Day(g, F, b, before)
  <2>1. b \in Nat /\ \A d \in Nat : d < b => d \in 0..m
    BY <1>0
  <2>2. /\ \A d \in DOMAIN f : d \in Nat
        /\ \A d \in DOMAIN g : d \in Nat
    BY <1>0 DEF Candles
  <2>3. Earlier(f, b) = Earlier(g, b)
    BY <2>1, <2>2 DEF Earlier, Agree
  <2>4. CASE b \in DOMAIN f /\ Earlier(f, b) # {}
    <3>1. b \in 0..MaxBar
      BY <1>0
    <3>2. /\ Max(Earlier(f, b)) \in DOMAIN f /\ Max(Earlier(f, b)) < b
      BY <2>4, <3>1, EarlierIs
    <3>3. Max(Earlier(f, b)) \in 0..m
      BY <2>1, <2>2, <3>2
    <3>4. /\ f[b] = g[b] /\ b \in DOMAIN g
          /\ f[Max(Earlier(f, b))] = g[Max(Earlier(g, b))]
      BY <2>3, <2>4, <3>2, <3>3 DEF Agree
    <3>5. (b \in E) = (b \in F)
      BY <2>4
    <3>6. Day(f, E, b, before) = Replayed(before, b, f[b], f[Max(Earlier(f, b))], b \in E)
      BY <2>4 DEF Day
    <3>7. Day(g, F, b, before) = Replayed(before, b, g[b], g[Max(Earlier(g, b))], b \in F)
      BY <2>3, <2>4, <3>4 DEF Day
    <3> QED BY <3>4, <3>5, <3>6, <3>7
  <2>5. CASE ~(b \in DOMAIN f /\ Earlier(f, b) # {})
    BY <2>3, <2>5 DEF Day, Agree
  <2> QED BY <2>4, <2>5
<1>2. /\ sim(0) = Day(f, E, 0, NoTrades) /\ tim(0) = Day(g, F, 0, NoTrades)
      /\ \A n \in 1..m : /\ sim(n) = Day(f, E, n, sim(n - 1))
                         /\ tim(n) = Day(g, F, n, tim(n - 1))
  <2>1. 0 \in 0..MaxBar /\ \A n \in 1..m : n \in 0..MaxBar /\ n # 0
    BY <1>0
  <2> QED BY <2>1, ReplayUnfolds
<1> HIDE DEF sim, tim
<1>3. 0 \in Solved
  BY <1>0, <1>1, <1>2
<1>4. ASSUME NEW n \in Nat, n \in Solved PROVE n + 1 \in Solved
  <2> SUFFICES ASSUME n + 1 <= m PROVE sim(n + 1) = tim(n + 1)
    OBVIOUS
  <2>1. n <= m /\ n + 1 \in 0..m /\ n + 1 \in 1..m /\ (n + 1) - 1 = n
    BY <1>0
  <2>2. /\ sim(n) = tim(n) /\ sim(n + 1) = Day(f, E, n + 1, sim(n))
        /\ tim(n + 1) = Day(g, F, n + 1, tim(n))
    BY <1>2, <1>4, <2>1
  <2> HIDE DEF Solved
  <2> QED BY <1>1, <2>1, <2>2
<1>5. Nat \subseteq Solved
  <2> HIDE DEF Solved
  <2> QED BY <1>3, <1>4, SetInduction
<1>6. \A n \in 0..m : sim(n) = tim(n)
  BY <1>0, <1>5
<1> QED BY <1>6 DEF sim, tim

(* An entry whose bar came is made, and stays on the record.               *)
LEMMA EntryIsMade ==
  ASSUME NEW candles, Candles(candles), NEW entries, NEW b \in 1..MaxBar,
         b \in entries, b \in DOMAIN candles, b - 1 \in DOMAIN candles, Calls(candles[b - 1]),
         Replay(candles, entries)[b - 1].position = Flat
  PROVE  b \in Named(Replay(candles, entries)[MaxBar])
<1>0. MaxBar \in Nat /\ b \in 0..MaxBar /\ b - 1 \in Earlier(candles, b) /\ MaxBar \in b..MaxBar
  BY PaperAssumption DEF Earlier
<1>1. Max(Earlier(candles, b)) = b - 1
  <2>1. /\ Max(Earlier(candles, b)) \in DOMAIN candles /\ Max(Earlier(candles, b)) < b
        /\ b - 1 <= Max(Earlier(candles, b))
    BY <1>0, EarlierIs
  <2>2. Max(Earlier(candles, b)) \in Nat
    BY <1>0, <2>1 DEF Candles
  <2> QED BY <2>1, <2>2
<1>2. Opened(candles, entries, b, Replay(candles, entries)[b - 1])
  BY <1>0, <1>1 DEF Opened
<1>3. b \in Named(Replay(candles, entries)[b])
  BY <1>2, ReplayHolds
<1>4. Prolongs(Replay(candles, entries)[b], Replay(candles, entries)[MaxBar])
  BY <1>0, ReplayGrows
<1>5. /\ SimInv(candles, Replay(candles, entries)[b])
      /\ SimInv(candles, Replay(candles, entries)[MaxBar])
  BY <1>0, ReplayHolds
<1> QED BY <1>3, <1>4, <1>5, ProlongsNames

LEMMA NothingReplayed ==
  ASSUME NEW candles, Candles(candles), NEW entries
  PROVE  Replay(candles, entries)[0] = NoTrades
<1>1. 0 \in 0..MaxBar /\ Earlier(candles, 0) = {}
  BY PaperAssumption DEF Earlier, Candles
<1>2. Replay(candles, entries)[0] = Day(candles, entries, 0, NoTrades)
  BY <1>1, ReplayUnfolds
<1> QED BY <1>1, <1>2 DEF Day

----------------------------------------------------------------------------
(* The ledger is the replay of the frozen candles and the announced        *)
(* entries; an entry was announced on a frozen candle that called for it,  *)
(* with nothing held; and a session passes on such a ledger.               *)
Allowed == {b \in intents : contexts[b]}

FrozenHolds == \A b \in DOMAIN frozen : frozen[b] = market[b]
LedgerHolds ==
  /\ ledger.trades = Replay(frozen, Allowed)[MaxBar].trades
  /\ ledger.position = Replay(frozen, Allowed)[MaxBar].position
  /\ ledger.complete => ~Gap(frozen)
EntriesHold ==
  \A b \in intents :
    /\ b \in DOMAIN contexts /\ b \notin Shut
    /\ b - 1 \in DOMAIN frozen /\ Calls(frozen[b - 1])
    /\ Replay(frozen, Allowed)[b - 1].position = Flat
ReviewHolds ==
  session = "PASSED" =>
    /\ ledger.complete /\ ledger.position = Flat /\ Len(ledger.trades) > 0
    /\ DOMAIN frozen # {} => PendingEntries = {}
PaperInv == PaperTypeOK /\ FrozenHolds /\ LedgerHolds /\ EntriesHold /\ ReviewHolds

LEMMA PaperBegins == PaperInit => PaperInv
<1> SUFFICES ASSUME PaperInit PROVE PaperInv
  OBVIOUS
<1>0. MaxBar \in Nat \ {0, 1} /\ Shut \subseteq 1..MaxBar /\ Duration \in Nat
  BY PaperAssumption
<1>1. /\ market \in [{0} -> Candle] /\ DOMAIN market = {0} /\ DOMAIN frozen = {} /\ DOMAIN contexts = {}
      /\ halves = 3 /\ intents = {} /\ session = "RUNNING" /\ served = {0} /\ failure = FALSE
      /\ cutoff = 3 + 2 * Duration
      /\ ledger = [trades |-> <<>>, position |-> Flat, complete |-> TRUE, policy |-> TRUE]
  BY DEF PaperInit, Start
<1>2. PaperTypeOK
  <2>1. DOMAIN market = {b \in 0..MaxBar : 2 * b + 2 <= halves \/ b = 0} \ Shut
    BY <1>0, <1>1
  <2>2. cutoff \in Nat
    BY <1>0, <1>1
  <2>3. halves \in Start..2 * MaxBar
    BY <1>0, <1>1 DEF Start
  <2>4. frozen \in [DOMAIN frozen -> Candle] /\ contexts \in [DOMAIN contexts -> BOOLEAN]
    BY <1>1 DEF PaperInit
  <2>5. ledger \in [trades: Seq(TradeRow), position: PositionRow, complete: BOOLEAN, policy: BOOLEAN]
    BY <1>1, FlatIs
  <2> QED BY <1>1, <2>1, <2>2, <2>3, <2>4, <2>5 DEF PaperTypeOK
<1>3. Candles(frozen)
  BY <1>1, <1>2 DEF Candles, PaperTypeOK
<1>4. Replay(frozen, Allowed)[MaxBar] = NoTrades
  <2>1. Replay(frozen, Allowed)[0] = NoTrades
    BY <1>3, NothingReplayed
  <2>2. 0 \in 0..MaxBar /\ MaxBar \in 0..MaxBar
    BY <1>0
  <2> QED BY <1>1, <2>1, <2>2, ReplayIdle
<1>5. LedgerHolds
  BY <1>1, <1>4 DEF LedgerHolds, NoTrades, Gap
<1> QED BY <1>1, <1>2, <1>5 DEF PaperInv, FrozenHolds, EntriesHold, ReviewHolds

(* What an observation adds to the frozen candles.                         *)
LEMMA ObservedIs ==
  ASSUME PaperTypeOK, FrozenHolds, Cardinality(Closed) >= WarmUp
  PROVE  /\ Candles(frozen) /\ Candles(Observed)
         /\ DOMAIN frozen \subseteq DOMAIN Observed /\ DOMAIN Observed \subseteq DOMAIN market
         /\ Latest(Observed) \in DOMAIN Observed
         /\ \A d \in DOMAIN Observed : d <= Latest(Observed) /\ Observed[d] = market[d]
         /\ \A n \in DOMAIN frozen : \A d \in 0..n : Agree(frozen, Observed, d)
<1>0. MaxBar \in Nat /\ WarmUp \in Nat \ {0}
  BY PaperAssumption
<1>1. /\ DOMAIN market \subseteq 0..MaxBar /\ market \in [DOMAIN market -> Candle]
      /\ DOMAIN frozen \subseteq DOMAIN market /\ frozen \in [DOMAIN frozen -> Candle]
      /\ served \subseteq DOMAIN market
  BY DEF PaperTypeOK
<1>2. Closed \subseteq DOMAIN market /\ Unseen \subseteq Closed
  BY <1>1 DEF Closed, Unseen
<1>3. Closed # {}
  BY <1>0, FS_EmptySet
<1>4. /\ DOMAIN Observed = DOMAIN frozen \cup Unseen
      /\ \A d \in DOMAIN Observed : Observed[d] = market[d]
  BY DEF Observed, FrozenHolds
<1>5. Candles(frozen) /\ Candles(Observed)
  <2>1. Observed = [d \in DOMAIN Observed |-> Observed[d]]
    BY DEF Observed
  <2>2. \A d \in DOMAIN Observed : Observed[d] \in Candle /\ d \in 0..MaxBar
    BY <1>1, <1>2, <1>4
  <2> QED BY <1>1, <2>1, <2>2 DEF Candles
<1>6. DOMAIN Observed # {}
  BY <1>3, <1>4 DEF Unseen
<1>7. Latest(Observed) \in DOMAIN Observed /\ \A d \in DOMAIN Observed : d <= Latest(Observed)
  BY <1>0, <1>5, <1>6, GreatestMember DEF Candles, Latest
<1>8. ASSUME NEW n \in DOMAIN frozen, NEW d \in 0..n PROVE Agree(frozen, Observed, d)
  <2>1. Latest(frozen) \in DOMAIN frozen /\ n <= Latest(frozen)
    BY <1>0, <1>1, GreatestMember DEF Latest
  <2>2. n \in Nat /\ Latest(frozen) \in Nat /\ d <= Latest(frozen)
    BY <1>0, <1>1, <2>1
  <2>3. d \notin Unseen
    BY <2>2 DEF Unseen
  <2>4. d \in DOMAIN frozen => frozen[d] = Observed[d]
    BY <1>4 DEF FrozenHolds
  <2> QED BY <1>4, <2>3, <2>4 DEF Agree
<1> QED BY <1>1, <1>2, <1>4, <1>5, <1>7, <1>8

(* The ledger before and after an observation are two bars of one replay.  *)
LEMMA ObservationKeeps ==
  ASSUME PaperInv, NEW calm \in BOOLEAN, NEW clear \in BOOLEAN, Observe(calm, clear)
  PROVE  /\ PaperInv' /\ intents \subseteq intents'
         /\ \E m \in 0..MaxBar :
              /\ ledger.trades = Replay(frozen', Allowed')[m].trades
              /\ ledger.position = Replay(frozen', Allowed')[m].position
<1> DEFINE candles == Observed
           last == Latest(candles)
           entry == last + 1
           seen == IF Early(entry) THEN DOMAIN contexts \cup {entry} ELSE DOMAIN contexts
           first == [b \in seen |-> IF b \in DOMAIN contexts THEN contexts[b] ELSE calm]
           before == {b \in intents : first[b]}
           replay == Replay(candles, before)[MaxBar]
           missing == Gap(candles)
           policy == Sound(replay.trades)
           announced == replay.position = Flat /\ Signal(candles, calm, clear) /\ ~missing
                          /\ Early(entry) /\ 2 * entry < cutoff /\ policy
           later == Allowed'
<1>0. /\ MaxBar \in Nat /\ MaxBar \in 0..MaxBar
      /\ session = "RUNNING" /\ Cardinality(Closed) >= WarmUp
      /\ frozen' = candles /\ contexts' = first
      /\ intents' = IF announced THEN intents \cup {entry} ELSE intents
      /\ ledger' = [trades |-> replay.trades, position |-> replay.position,
                    complete |-> ledger.complete /\ ~missing, policy |-> policy]
      /\ failure' = FALSE
      /\ UNCHANGED <<halves, market, served, session, cutoff>>
  BY PaperAssumption DEF Observe, Recorded
<1>1. PaperTypeOK /\ FrozenHolds /\ LedgerHolds /\ EntriesHold /\ ReviewHolds
  BY DEF PaperInv
<1>2. /\ Candles(frozen) /\ Candles(candles)
      /\ DOMAIN frozen \subseteq DOMAIN candles /\ DOMAIN candles \subseteq DOMAIN market
      /\ last \in DOMAIN candles
      /\ \A d \in DOMAIN candles : d <= last /\ candles[d] = market[d]
      /\ \A n \in DOMAIN frozen : \A d \in 0..n : Agree(frozen, candles, d)
  BY <1>0, <1>1, ObservedIs
<1> HIDE DEF candles
<1>3. DOMAIN candles \subseteq 0..MaxBar /\ last \in 0..MaxBar /\ entry \notin DOMAIN candles
  BY <1>0, <1>2 DEF Candles
<1>4. /\ DOMAIN contexts \subseteq 1..MaxBar /\ contexts \in [DOMAIN contexts -> BOOLEAN]
      /\ intents \subseteq 1..MaxBar /\ halves \in Nat /\ halves <= 2 * MaxBar
      /\ intents \subseteq DOMAIN contexts
  BY <1>0, <1>1 DEF PaperTypeOK, EntriesHold, Start
<1> HIDE DEF last
<1>5. Early(entry) => entry \in 1..MaxBar
  BY <1>0, <1>3, <1>4 DEF Early
<1>6. /\ first \in [seen -> BOOLEAN] /\ DOMAIN first = seen
      /\ seen \subseteq 1..MaxBar /\ DOMAIN contexts \subseteq seen
      /\ \A b \in DOMAIN contexts : first[b] = contexts[b]
  BY <1>4, <1>5
<1>7. announced => /\ entry \in 1..MaxBar /\ entry \in seen /\ entry \notin Shut
                   /\ Calls(candles[last]) /\ replay.position = Flat
  <2> SUFFICES ASSUME announced
               PROVE  /\ entry \in 1..MaxBar /\ entry \in seen /\ entry \notin Shut
                      /\ Calls(candles[last]) /\ replay.position = Flat
    OBVIOUS
  <2>1. entry \in 1..MaxBar /\ entry \in seen
    BY <1>5
  <2>2. Bar \notin Shut /\ Calls(candles[last])
    BY DEF Signal, last
  <2>3. halves = 2 * entry
    BY DEF Early
  <2>4. Bar = entry
    <3> HIDE DEF entry
    <3> QED BY <2>1, <2>3 DEF Bar
  <2> QED BY <2>1, <2>2, <2>4
<1> HIDE DEF entry, seen, first, announced
<1>8. before = Allowed /\ before \subseteq intents
  BY <1>4, <1>6 DEF Allowed
<1>9. later = {b \in intents' : first[b]}
  BY <1>0 DEF Allowed
<1>10. \A d \in DOMAIN candles : d \in before <=> d \in later
  BY <1>0, <1>3, <1>9
<1> HIDE DEF before, later, replay, missing, policy
<1>11. \A n \in 0..MaxBar : Replay(candles, before)[n] = Replay(candles, later)[n]
  <2>1. \A d \in 0..MaxBar : Agree(candles, candles, d)
    BY DEF Agree
  <2> QED BY <1>0, <1>2, <1>10, <2>1, ReplayAgrees
<1>12. \A n \in DOMAIN frozen : Replay(frozen, Allowed)[n] = Replay(candles, later)[n]
  <2> SUFFICES ASSUME NEW n \in DOMAIN frozen
               PROVE  Replay(frozen, Allowed)[n] = Replay(candles, later)[n]
    OBVIOUS
  <2>1. n \in 0..MaxBar /\ n \in 0..n
    BY <1>2, <1>3
  <2>2. \A d \in 0..n : Agree(frozen, candles, d) /\ (d \in DOMAIN frozen => (d \in Allowed <=> d \in later))
    BY <1>2, <1>8, <1>10
  <2> QED BY <1>2, <2>1, <2>2, ReplayAgrees
<1>13. replay = Replay(candles, later)[MaxBar] /\ replay \in SimRow
  <2>1. replay = Replay(candles, before)[MaxBar]
    BY DEF replay
  <2>2. SimInv(candles, Replay(candles, before)[MaxBar])
    BY <1>0, <1>2, ReplayHolds
  <2> QED BY <1>0, <1>11, <2>1, <2>2 DEF SimInv
<1>14. PaperTypeOK'
  <2>1. ledger' \in [trades: Seq(TradeRow), position: PositionRow, complete: BOOLEAN, policy: BOOLEAN]
    <3>1. policy \in BOOLEAN
      BY DEF policy, Sound
    <3>2. (ledger.complete /\ ~missing) \in BOOLEAN
      OBVIOUS
    <3>3. replay.trades \in Seq(TradeRow) /\ replay.position \in PositionRow
      BY <1>13 DEF SimRow
    <3> QED BY <1>0, <3>1, <3>2, <3>3
  <2>2. intents' \subseteq 1..MaxBar
    BY <1>0, <1>4, <1>7
  <2>3. contexts' \in [DOMAIN contexts' -> BOOLEAN] /\ DOMAIN contexts' \subseteq 1..MaxBar
    BY <1>0, <1>6
  <2>4. DOMAIN frozen' \subseteq DOMAIN market' /\ frozen' \in [DOMAIN frozen' -> Candle]
    BY <1>0, <1>2 DEF Candles
  <2> QED BY <1>0, <1>1, <2>1, <2>2, <2>3, <2>4 DEF PaperTypeOK
<1>15. FrozenHolds'
  BY <1>0, <1>2 DEF FrozenHolds
<1>16. LedgerHolds'
  <2>1. /\ ledger'.trades = Replay(frozen', Allowed')[MaxBar].trades
        /\ ledger'.position = Replay(frozen', Allowed')[MaxBar].position
    BY <1>0, <1>13 DEF later
  <2>2. ledger'.complete => ~Gap(frozen')
    BY <1>0 DEF missing
  <2> QED BY <2>1, <2>2 DEF LedgerHolds
<1>17. EntriesHold'
  <2> SUFFICES ASSUME NEW b \in intents'
               PROVE  /\ b \in DOMAIN contexts' /\ b \notin Shut
                      /\ b - 1 \in DOMAIN frozen' /\ Calls(frozen'[b - 1])
                      /\ Replay(frozen', Allowed')[b - 1].position = Flat
    BY DEF EntriesHold
  <2>1. CASE b \in intents
    <3>1. /\ b \in DOMAIN contexts /\ b \notin Shut
          /\ b - 1 \in DOMAIN frozen /\ Calls(frozen[b - 1])
          /\ Replay(frozen, Allowed)[b - 1].position = Flat
      BY <1>1, <2>1 DEF EntriesHold
    <3>2. b - 1 \in 0..b - 1 /\ b - 1 \in 0..MaxBar
      BY <1>2, <1>3, <3>1
    <3>3. frozen[b - 1] = candles[b - 1]
      BY <1>2, <3>1, <3>2 DEF Agree
    <3>4. Replay(candles, later)[b - 1].position = Flat
      BY <1>12, <3>1
    <3> QED BY <1>0, <1>2, <1>6, <3>1, <3>3, <3>4 DEF later
  <2>2. CASE b = entry /\ announced
    <3>1. entry - 1 = last
      BY <1>3 DEF entry
    <3>2. Replay(candles, later)[last].position = Flat
      <4>1. \A d \in DOMAIN candles : d \in 0..last
        BY <1>2, <1>3
      <4>2. MaxBar \in last..MaxBar
        BY <1>0, <1>3
      <4>3. Replay(candles, later)[MaxBar] = Replay(candles, later)[last]
        BY <1>3, <4>1, <4>2, ReplayIdle
      <4> QED BY <1>7, <1>13, <2>2, <4>3
    <3> QED BY <1>0, <1>2, <1>6, <1>7, <2>2, <3>1, <3>2 DEF later
  <2> QED BY <1>0, <2>1, <2>2
<1>18. ReviewHolds'
  BY <1>0 DEF ReviewHolds
<1>19. \E m \in 0..MaxBar :
         /\ ledger.trades = Replay(candles, later)[m].trades
         /\ ledger.position = Replay(candles, later)[m].position
  <2>1. CASE DOMAIN frozen = {}
    <3>1. Replay(frozen, Allowed)[MaxBar] = NoTrades
      <4>1. Replay(frozen, Allowed)[0] = NoTrades
        BY <1>2, NothingReplayed
      <4>2. 0 \in 0..MaxBar
        BY <1>0
      <4> QED BY <1>0, <2>1, <4>1, <4>2, ReplayIdle
    <3>2. Replay(candles, later)[0] = NoTrades /\ 0 \in 0..MaxBar
      BY <1>0, <1>2, NothingReplayed
    <3> QED BY <1>1, <3>1, <3>2 DEF LedgerHolds
  <2>2. CASE DOMAIN frozen # {}
    <3> DEFINE m == Latest(frozen)
    <3>1. m \in DOMAIN frozen /\ \A d \in DOMAIN frozen : d <= m
      BY <1>0, <1>2, <2>2, GreatestMember DEF Candles, Latest
    <3>2. m \in 0..MaxBar /\ MaxBar \in m..MaxBar /\ \A d \in DOMAIN frozen : d \in 0..m
      BY <1>0, <1>2, <3>1 DEF Candles
    <3> HIDE DEF m
    <3>3. Replay(frozen, Allowed)[MaxBar] = Replay(frozen, Allowed)[m]
      BY <3>2, ReplayIdle
    <3>4. Replay(frozen, Allowed)[m] = Replay(candles, later)[m]
      BY <1>12, <3>1
    <3> QED BY <1>1, <3>2, <3>3, <3>4 DEF LedgerHolds
  <2> QED BY <2>1, <2>2
<1>20. intents \subseteq intents'
  BY <1>0
<1> QED BY <1>0, <1>14, <1>15, <1>16, <1>17, <1>18, <1>19, <1>20 DEF PaperInv, later

(* The evidence itself, which most actions leave alone.                    *)
LEMMA EvidenceStays ==
  ASSUME PaperInv, UNCHANGED <<frozen, intents, contexts, ledger>>,
         \A b \in DOMAIN frozen : market'[b] = market[b]
  PROVE  FrozenHolds' /\ LedgerHolds' /\ EntriesHold'
<1>1. FrozenHolds'
  BY DEF PaperInv, FrozenHolds
<1>2. Allowed' = Allowed
  BY DEF Allowed
<1>3. LedgerHolds'
  BY <1>2 DEF PaperInv, LedgerHolds
<1>4. EntriesHold'
  BY <1>2 DEF PaperInv, EntriesHold
<1> QED BY <1>1, <1>3, <1>4

LEMMA TickKeeps == ASSUME PaperInv, Tick PROVE PaperInv'
<1>0. /\ MaxBar \in Nat /\ Shut \subseteq 1..MaxBar
      /\ halves \in Nat /\ halves >= 3 /\ halves < 2 * MaxBar /\ halves' = halves + 1
      /\ session = "RUNNING" /\ session' = "RUNNING"
      /\ UNCHANGED <<cutoff, failure, frozen, intents, contexts, ledger>>
  <2>1. MaxBar \in Nat /\ Shut \subseteq 1..MaxBar
    BY PaperAssumption
  <2>2. halves \in Nat /\ halves >= 3
    BY <2>1 DEF PaperInv, PaperTypeOK, Start
  <2>3. /\ halves < 2 * MaxBar /\ halves' = halves + 1
        /\ session = "RUNNING" /\ session' = "RUNNING"
        /\ UNCHANGED <<cutoff, failure, frozen, intents, contexts, ledger>>
    BY DEF Tick, recordVars
  <2> QED BY <2>1, <2>2, <2>3
<1>1. /\ market \in [DOMAIN market -> Candle] /\ served \subseteq DOMAIN market
      /\ DOMAIN market = {b \in 0..MaxBar : 2 * b + 2 <= halves \/ b = 0} \ Shut
      /\ DOMAIN frozen \subseteq DOMAIN market
  BY DEF PaperInv, PaperTypeOK
<1>2. halves' \in Start..2 * MaxBar
  BY <1>0 DEF Start
<1>3. /\ Bar \in 1..MaxBar
      /\ halves % 2 = 1 => 2 * Bar + 1 = halves
      /\ halves % 2 # 1 => 2 * Bar = halves
  BY <1>0 DEF Bar
<1>4. CASE halves % 2 = 1 /\ Bar \notin Shut
  <2>1. PICK c \in Candle :
          /\ market' = [b \in DOMAIN market \cup {Bar} |-> IF b = Bar THEN c ELSE market[b]]
          /\ served' \in {served, served \cup {Bar}}
    BY <1>4 DEF Tick
  <2> DEFINE now == Bar
  <2>2. now \in 1..MaxBar /\ 2 * now + 1 = halves /\ now \notin Shut
    BY <1>3, <1>4
  <2> HIDE DEF now
  <2>3. market' = [b \in DOMAIN market \cup {now} |-> IF b = now THEN c ELSE market[b]]
        /\ served' \in {served, served \cup {now}}
    BY <2>1 DEF now
  <2>4. now \notin DOMAIN market
    BY <1>0, <1>1, <2>2
  <2>5. DOMAIN market' = {b \in 0..MaxBar : 2 * b + 2 <= halves' \/ b = 0} \ Shut
    <3>1. DOMAIN market' = DOMAIN market \cup {now}
      BY <2>3
    <3>2. \A b \in 0..MaxBar : 2 * b + 2 <= halves' <=> (2 * b + 2 <= halves \/ b = now)
      BY <1>0, <2>2
    <3> QED BY <1>0, <1>1, <2>2, <3>1, <3>2
  <2>6. market' \in [DOMAIN market' -> Candle] /\ served' \subseteq DOMAIN market'
    BY <1>1, <2>3
  <2>7. \A b \in DOMAIN frozen : market'[b] = market[b]
    BY <1>1, <2>3, <2>4
  <2>8. DOMAIN frozen' \subseteq DOMAIN market'
    BY <1>0, <1>1, <2>3
  <2>9. PaperTypeOK'
    BY <1>0, <1>2, <2>5, <2>6, <2>8 DEF PaperInv, PaperTypeOK
  <2>10. FrozenHolds' /\ LedgerHolds' /\ EntriesHold'
    BY <1>0, <2>7, EvidenceStays
  <2> QED BY <1>0, <2>9, <2>10 DEF PaperInv, ReviewHolds
<1>5. CASE ~(halves % 2 = 1 /\ Bar \notin Shut)
  <2>1. UNCHANGED <<market, served>>
    BY <1>5 DEF Tick
  <2> DEFINE now == Bar
  <2>2. /\ now \in 1..MaxBar
        /\ (2 * now + 1 = halves /\ now \in Shut) \/ 2 * now = halves
    BY <1>0, <1>3, <1>5
  <2> HIDE DEF now
  <2>3. DOMAIN market' = {b \in 0..MaxBar : 2 * b + 2 <= halves' \/ b = 0} \ Shut
    <3>1. \A b \in 0..MaxBar : 2 * b + 2 <= halves' /\ ~(2 * b + 2 <= halves) => b = now /\ now \in Shut
      BY <1>0, <2>2
    <3> QED BY <1>0, <1>1, <2>1, <3>1
  <2>4. PaperTypeOK'
    BY <1>0, <1>1, <1>2, <2>1, <2>3 DEF PaperInv, PaperTypeOK
  <2>5. FrozenHolds' /\ LedgerHolds' /\ EntriesHold'
    BY <1>0, <2>1, EvidenceStays
  <2> QED BY <1>0, <2>4, <2>5 DEF PaperInv, ReviewHolds
<1> QED BY <1>4, <1>5

LEMMA PaperGoesOn == PaperInv /\ [PaperNext]_paperVars => PaperInv'
<1> SUFFICES ASSUME PaperInv, [PaperNext]_paperVars PROVE PaperInv'
  OBVIOUS
<1>1. CASE Tick
  BY <1>1, TickKeeps
<1>2. CASE ObservationFails
  <2>1. UNCHANGED <<halves, market, served, session, cutoff, frozen, intents, contexts, ledger>>
        /\ failure' = TRUE
    BY <1>2 DEF ObservationFails
  <2>2. FrozenHolds' /\ LedgerHolds' /\ EntriesHold'
    BY <2>1, EvidenceStays
  <2> QED BY <2>1, <2>2 DEF PaperInv, PaperTypeOK, ReviewHolds, PendingEntries
<1>3. CASE StopPaperEntries
  <2>1. UNCHANGED <<halves, market, served, session, failure, frozen, intents, contexts, ledger>>
        /\ cutoff' = halves
    BY <1>3 DEF StopPaperEntries, recordVars
  <2>2. FrozenHolds' /\ LedgerHolds' /\ EntriesHold'
    BY <2>1, EvidenceStays
  <2>3. cutoff' \in Nat
    BY <2>1, PaperAssumption DEF PaperInv, PaperTypeOK, Start
  <2> QED BY <2>1, <2>2, <2>3 DEF PaperInv, PaperTypeOK, ReviewHolds, PendingEntries
<1>4. CASE ReviewPaper
  <2>1. /\ UNCHANGED <<halves, market, served, cutoff, failure, frozen, intents, contexts, ledger>>
        /\ session' = IF PaperGates THEN "PASSED" ELSE "FAILED"
        /\ ledger.position = Flat /\ (DOMAIN frozen # {} => PendingEntries = {})
    BY <1>4 DEF ReviewPaper, recordVars
  <2>2. FrozenHolds' /\ LedgerHolds' /\ EntriesHold'
    BY <2>1, EvidenceStays
  <2>3. PaperTypeOK'
    BY <2>1 DEF PaperInv, PaperTypeOK
  <2>4. PendingEntries' = PendingEntries
    BY <2>1 DEF PendingEntries
  <2>5. PaperGates => ledger.complete /\ Len(ledger.trades) > 0
    <3>1. Len(ledger.trades) \in Nat /\ MinTrades \in Nat \ {0}
      BY PaperAssumption DEF PaperInv, PaperTypeOK
    <3> QED BY <3>1 DEF PaperGates
  <2>6. ReviewHolds'
    BY <2>1, <2>4, <2>5 DEF ReviewHolds
  <2> QED BY <2>2, <2>3, <2>6 DEF PaperInv
<1>5. ASSUME NEW b \in 0..MaxBar, ServeLate(b) PROVE PaperInv'
  <2>1. UNCHANGED <<halves, market, session, cutoff, failure, frozen, intents, contexts, ledger>>
        /\ served' = served \cup {b} /\ b \in DOMAIN market
    BY <1>5 DEF ServeLate, recordVars
  <2>2. FrozenHolds' /\ LedgerHolds' /\ EntriesHold'
    BY <2>1, EvidenceStays
  <2> QED BY <2>1, <2>2 DEF PaperInv, PaperTypeOK, ReviewHolds, PendingEntries
<1>6. ASSUME NEW calm \in BOOLEAN, NEW clear \in BOOLEAN, Observe(calm, clear) PROVE PaperInv'
  BY <1>6, ObservationKeeps
<1>7. CASE UNCHANGED paperVars
  <2>1. UNCHANGED <<halves, market, served, session, cutoff, failure, frozen, intents, contexts, ledger>>
    BY <1>7 DEF paperVars, recordVars
  <2>2. FrozenHolds' /\ LedgerHolds' /\ EntriesHold'
    BY <2>1, EvidenceStays
  <2> QED BY <2>1, <2>2 DEF PaperInv, PaperTypeOK, ReviewHolds, PendingEntries
<1> QED BY <1>1, <1>2, <1>3, <1>4, <1>5, <1>6, <1>7 DEF PaperNext

(* Whatever order bars close, candles come and the task runs in, the       *)
(* session's record keeps its form (monitoring.py observe).                *)
THEOREM PaperTypeCorrect == PaperSpec => []PaperTypeOK
<1>1. PaperInv => PaperTypeOK
  BY DEF PaperInv
<1> QED BY <1>1, PaperBegins, PaperGoesOn, PTL DEF PaperSpec

(* Without a gap, no bar of an open market is missing between two candles. *)
LEMMA NoGapNoneMissing ==
  ASSUME NEW candles, Candles(candles), ~Gap(candles), NEW a \in DOMAIN candles, NEW b \in DOMAIN candles
  PROVE  a..b \subseteq DOMAIN candles \cup Shut
<1> SUFFICES ASSUME NEW x \in a..b, x \notin DOMAIN candles, x \notin Shut PROVE FALSE
  OBVIOUS
<1> DEFINE above == {d \in DOMAIN candles : d > x}
           below == {d \in DOMAIN candles : d < x}
<1>0. /\ MaxBar \in Nat /\ DOMAIN candles \subseteq 0..MaxBar /\ a \in Nat /\ b \in Nat /\ x \in Nat
      /\ a < x /\ x < b
  <2>1. MaxBar \in Nat /\ DOMAIN candles \subseteq 0..MaxBar
    BY PaperAssumption DEF Candles
  <2>2. a # x /\ b # x
    OBVIOUS
  <2> QED BY <2>1, <2>2
<1>1. PICK high \in above : \A d \in above : high <= d
  <2>1. above \subseteq Nat /\ b \in above
    BY <1>0
  <2> HIDE DEF above
  <2> QED BY <2>1, LeastMember
<1>2. PICK low \in below : \A d \in below : d <= low
  <2>1. below \subseteq 0..MaxBar /\ a \in below
    BY <1>0
  <2> HIDE DEF below
  <2> QED BY <1>0, <2>1, GreatestMember
<1>3. high \in DOMAIN candles /\ low \in DOMAIN candles /\ low < x /\ x < high
      /\ low \in Nat /\ high \in Nat
  BY <1>0
<1>4. {d \in Earlier(candles, high) : d > low} = {}
  <2> SUFFICES ASSUME NEW d \in DOMAIN candles, d < high, d > low PROVE FALSE
    BY DEF Earlier
  <2>1. d \in Nat /\ d # x
    BY <1>0
  <2>2. d \notin above /\ d \notin below
    BY <1>1, <1>2, <1>3, <2>1
  <2> QED BY <1>0, <2>1, <2>2
<1>5. 2 * high >= Start /\ x \in low + 1..high - 1
  BY <1>0, <1>3 DEF Start
<1> QED BY <1>3, <1>4, <1>5 DEF Gap

LEMMA PaperIsSound == PaperInv => EvidenceIsSound
<1> SUFFICES ASSUME PaperInv PROVE EvidenceIsSound
  OBVIOUS
<1> DEFINE sim == Replay(frozen, Allowed)[MaxBar]
<1>0. /\ MaxBar \in Nat /\ MaxBar \in 0..MaxBar
      /\ PaperTypeOK /\ FrozenHolds /\ LedgerHolds /\ EntriesHold /\ ReviewHolds
  BY PaperAssumption DEF PaperInv
<1>1. Candles(frozen) /\ DOMAIN frozen \subseteq 0..MaxBar /\ intents \subseteq 1..MaxBar
  BY <1>0 DEF PaperTypeOK, Candles
<1>2. /\ SimInv(frozen, sim) /\ Named(sim) \subseteq Allowed
      /\ ledger.trades = sim.trades /\ ledger.position = sim.position
  BY <1>0, <1>1, ReplayHolds DEF LedgerHolds
<1> HIDE DEF sim
<1>3. ASSUME session = "PASSED"
      PROVE  \A a, b \in DOMAIN frozen : a..b \subseteq DOMAIN frozen \cup Shut
  <2>1. ~Gap(frozen)
    BY <1>0, <1>3 DEF ReviewHolds, LedgerHolds
  <2> QED BY <1>1, <2>1, NoGapNoneMissing
<1>4. ASSUME session = "PASSED" PROVE Allowed = Entered(ledger.trades)
  <2>1. /\ ledger.position = Flat /\ Len(ledger.trades) > 0
        /\ DOMAIN frozen # {} => PendingEntries = {}
    BY <1>0, <1>4 DEF ReviewHolds
  <2>2. Named(sim) = Entered(ledger.trades)
    BY <1>2, <2>1 DEF Named
  <2>3. ASSUME NEW b \in Allowed PROVE b \in Named(sim)
    <3>1. /\ b \in intents /\ b \in 1..MaxBar /\ b \notin Shut
          /\ b - 1 \in DOMAIN frozen /\ Calls(frozen[b - 1])
          /\ Replay(frozen, Allowed)[b - 1].position = Flat
      BY <1>0, <1>1 DEF EntriesHold, Allowed
    <3>2. Latest(frozen) \in DOMAIN frozen
      BY <1>0, <1>1, <3>1, GreatestMember DEF Latest
    <3>3. b <= Latest(frozen)
      <4>1. b \in Int /\ Latest(frozen) \in Int
        BY <1>1, <3>1, <3>2
      <4> QED BY <2>1, <3>1, <4>1 DEF PendingEntries
    <3>4. b \in (b - 1)..Latest(frozen)
      BY <1>1, <3>1, <3>2, <3>3
    <3>5. b \in DOMAIN frozen
      BY <1>3, <1>4, <3>1, <3>2, <3>4
    <3> QED BY <1>1, <3>1, <3>5, EntryIsMade DEF sim
  <2> QED BY <1>2, <2>2, <2>3
<1>5. ASSUME NEW k \in 1..Len(ledger.trades), NEW b \in ledger.trades[k].profits
      PROVE  LET stop == StopFrom(market[ledger.trades[k].entered].open + Sign * Slippage)
             IN IF Sign > 0 THEN market[b].low > stop ELSE market[b].high < stop
  <2>1. Honest(frozen, ledger.trades[k])
    BY <1>2 DEF SimInv
  <2> DEFINE row == ledger.trades[k]
  <2>2. /\ row.entered \in DOMAIN frozen /\ b \in DOMAIN frozen
        /\ Missed(frozen[b], FirstStop(frozen, row.entered))
    BY <2>1 DEF Honest
  <2>3. frozen[b] = market[b] /\ frozen[row.entered] = market[row.entered]
    BY <1>0, <2>2 DEF FrozenHolds
  <2> QED BY <2>2, <2>3 DEF Missed, FirstStop
<1> QED BY <1>3, <1>4, <1>5 DEF EvidenceIsSound, Allowed

(* What a passing review rests on: every bar of an open market is there,   *)
(* its trades are exactly the entries announced in calm news, and no trade *)
(* took a profit in a bar that reached its stop (monitoring.py:114,        *)
(* protection.py:105).                                                     *)
THEOREM EvidenceHolds == PaperSpec => []EvidenceIsSound
BY PaperBegins, PaperGoesOn, PaperIsSound, PTL DEF PaperSpec

LEMMA ObservationAdds ==
  ASSUME PaperInv, NEW calm \in BOOLEAN, NEW clear \in BOOLEAN, Observe(calm, clear)
  PROVE  intents \subseteq intents' /\ Continues(ledger, ledger')
<1> DEFINE sim(n) == Replay(frozen', Allowed')[n]
<1>1. /\ PaperInv' /\ intents \subseteq intents'
      /\ \E m \in 0..MaxBar : /\ ledger.trades = Replay(frozen', Allowed')[m].trades
                             /\ ledger.position = Replay(frozen', Allowed')[m].position
  BY ObservationKeeps
<1>2. PICK m \in 0..MaxBar : ledger.trades = sim(m).trades /\ ledger.position = sim(m).position
  BY <1>1
<1>3. ledger'.trades = sim(MaxBar).trades /\ ledger'.position = sim(MaxBar).position
  BY <1>1 DEF PaperInv, LedgerHolds
<1>4. Candles(frozen')
  BY <1>1 DEF PaperInv, PaperTypeOK, Candles
<1>5. Prolongs(sim(m), sim(MaxBar))
  <2>1. MaxBar \in m..MaxBar
    BY PaperAssumption
  <2> QED BY <1>4, <2>1, ReplayGrows
<1> HIDE DEF sim
<1>6. Prolongs(ledger, ledger')
  BY <1>2, <1>3, <1>5 DEF Prolongs
<1> QED BY <1>1, <1>6 DEF Prolongs, Continues

(* Evidence is only ever added: no announced entry is withdrawn, no closed *)
(* trade changes, and an open one stays or becomes the next trade          *)
(* (monitoring.py:42-46).                                                  *)
THEOREM LedgerOnlyGrows == PaperSpec => LedgerGrows
<1>1. PaperInv /\ [PaperNext]_paperVars => [intents \subseteq intents' /\ Continues(ledger, ledger')]_ledger
  <2> SUFFICES ASSUME PaperInv, [PaperNext]_paperVars, ledger' # ledger
               PROVE  intents \subseteq intents' /\ Continues(ledger, ledger')
    OBVIOUS
  <2>1. PICK calm \in BOOLEAN, clear \in BOOLEAN : Observe(calm, clear)
    BY DEF PaperNext, paperVars, recordVars, Tick, ServeLate, ObservationFails, StopPaperEntries, ReviewPaper
  <2> QED BY <2>1, ObservationAdds
<1> QED BY <1>1, PaperBegins, PaperGoesOn, PTL DEF PaperSpec, LedgerGrows

----------------------------------------------------------------------------
(***************************************************************************)
(* Risk: what a size costs is within every room the engine computed, and   *)
(* those are what the hard limits leave.                                   *)
(***************************************************************************)

LEMMA AboveIs ==
  ASSUME NEW x \in Int
  PROVE  Above(x) \in Nat /\ Above(x) >= x /\ (Above(x) > 0 => Above(x) = x)
<1>1. \E m \in {0, x} : \A y \in {0, x} : m >= y
  OBVIOUS
<1>2. Above(x) \in {0, x} /\ \A y \in {0, x} : Above(x) >= y
  BY <1>1 DEF Above, Max
<1> QED BY <1>2

LEMMA LesserIs ==
  ASSUME NEW x \in Int, NEW y \in Int
  PROVE  Min({x, y}) \in {x, y} /\ Min({x, y}) <= x /\ Min({x, y}) <= y
<1>1. \E m \in {x, y} : \A z \in {x, y} : m <= z
  OBVIOUS
<1>2. Min({x, y}) \in {x, y} /\ \A z \in {x, y} : Min({x, y}) <= z
  BY <1>1 DEF Min
<1> QED BY <1>2

(* A whole number of lot steps costs no more than what it is a share of.   *)
LEMMA Shares ==
  ASSUME NEW room \in Nat, NEW unit \in Nat \ {0}
  PROVE  room \div unit \in Nat /\ (room \div unit) * unit <= room
OBVIOUS

LEMMA FewerCostLess ==
  ASSUME NEW few \in Nat, NEW many \in Nat, few <= many, NEW unit \in Nat
  PROVE  few * unit \in Nat /\ few * unit <= many * unit
OBVIOUS

(* The least of the values that a set of rules names.                      *)
LEMMA LeastValue ==
  ASSUME RiskTypeOK, NEW R, R \subseteq rules, R # {}
  PROVE  LET least == Min({r.value : r \in R})
         IN  least \in Int /\ \A r \in R : least <= r.value
<1> DEFINE Values == {r.value : r \in R}
<1>1. IsFiniteSet(R) /\ \A r \in R : r.value \in Int
  BY RiskAssumption, FS_Subset DEF RiskTypeOK
<1>2. IsFiniteSet(Values)
  <2> DEFINE value == [r \in R |-> r.value]
  <2>1. value \in Surjection(R, Values)
    BY DEF Surjection
  <2> QED BY <1>1, <2>1, FS_Surjection
<1>3. Values \subseteq Int /\ Values # {}
  BY <1>1
<1>4. Min(Values) \in Values /\ \A y \in Values : Min(Values) <= y
  <2> HIDE DEF Values
  <2> QED BY <1>2, <1>3, LeastInteger
<1> QED BY <1>3, <1>4

LEMMA LimitIsLeast ==
  ASSUME RiskTypeOK, NEW kind, Strictest(kind) # {}
  PROVE  Limit(kind) \in Int /\ \A r \in Hard(kind) : Limit(kind) <= r.value
<1>1. Strictest(kind) \subseteq rules /\ Hard(kind) \subseteq Strictest(kind)
  BY DEF Strictest, Hard
<1> QED BY <1>1, LeastValue DEF Limit

(* Sums over positions and plans are integers, those of losses natural.    *)
LEMMA SumsTyped ==
  ASSUME RiskTypeOK
  PROVE  /\ Floating \in Int /\ OpenRisk \in Nat /\ Reserved \in Nat
         /\ \A category : LossOf(InCategory(category)) \in Nat
<1> DEFINE losses == [i \in Idea |-> open[i].loss]
           pnls == [i \in Idea |-> open[i].pnl]
           risks == [i \in Idea |-> idea[i].risk]
<1>1. /\ \A i \in Idea : losses[i] \in Nat /\ pnls[i] \in Int /\ risks[i] \in Nat
      /\ Held \subseteq Idea /\ Committed \subseteq Idea
      /\ \A category : InCategory(category) \subseteq Idea
  BY DEF RiskTypeOK, Held, Committed, InCategory
<1> HIDE DEF losses, pnls, risks
<1>2. \A S \in SUBSET Idea : IsFiniteSet(S)
  BY RiskAssumption, FS_Subset
<1>3. \A S \in SUBSET Idea : SumFunctionOnSet(losses, S) \in Nat
  BY <1>1, <1>2, SumNat
<1>4. \A S \in SUBSET Idea : SumFunctionOnSet(risks, S) \in Nat
  BY <1>1, <1>2, SumNat
<1>5. \A S \in SUBSET Idea : SumFunctionOnSet(pnls, S) \in Int
  BY <1>1, <1>2, SumInt
<1> QED BY <1>1, <1>3, <1>4, <1>5 DEF Floating, OpenRisk, Reserved, LossOf, losses, pnls, risks

(* What is left under each limit is not negative.                          *)
LEMMA RoomTyped ==
  ASSUME RiskTypeOK, Authoritative, NEW category
  PROVE  /\ Room(category) \subseteq Nat
         /\ Drawdown \in Int /\ DailyLoss \in Int
         /\ Drawdown >= Starting - (balance + Floating) /\ DailyLoss >= -(day + Floating)
<1>1. /\ Floating \in Int /\ OpenRisk \in Nat /\ Reserved \in Nat
      /\ LossOf(InCategory(category)) \in Nat /\ balance \in Int /\ day \in Int /\ Starting \in Nat
  BY SumsTyped, RiskAssumption DEF RiskTypeOK
<1>2. /\ Limit("TOTAL_DRAWDOWN") \in Int /\ Limit("DAILY_LOSS") \in Int
      /\ Limit("PORTFOLIO_RISK") \in Int
  BY LimitIsLeast DEF Authoritative
<1>3. Drawdown \in Nat /\ Drawdown >= Starting - (balance + Floating)
  BY <1>1, AboveIs DEF Drawdown
<1>4. DailyLoss \in Nat /\ DailyLoss >= -(day + Floating)
  <2>1. Min({Floating, 0}) \in Int /\ Min({Floating, 0}) <= Floating
    BY <1>1, LesserIs
  <2>2. -(day + Min({Floating, 0})) \in Int
    BY <1>1, <2>1
  <2>3. DailyLoss \in Nat /\ DailyLoss >= -(day + Min({Floating, 0}))
    BY <2>2, AboveIs DEF DailyLoss
  <2> QED BY <1>1, <2>1, <2>3
<1>5. /\ Above(Limit("TOTAL_DRAWDOWN") - Drawdown) \in Nat
      /\ Above(Limit("DAILY_LOSS") - DailyLoss) \in Nat
      /\ PortfolioRoom \in Nat
  BY <1>1, <1>2, <1>3, <1>4, AboveIs DEF PortfolioRoom
<1>6. Strictest("RISK_PER_TRADE") # {} => Above(Limit("RISK_PER_TRADE")) \in Nat
  BY LimitIsLeast, AboveIs
<1>7. Ruled("CORRELATED_RISK") # {} => CorrelatedRoom(category) \in Nat
  <2> SUFFICES ASSUME Ruled("CORRELATED_RISK") # {} PROVE CorrelatedRoom(category) \in Nat
    OBVIOUS
  <2>1. Min({r.value : r \in Ruled("CORRELATED_RISK")}) \in Int
    BY LeastValue DEF Ruled
  <2> QED BY <1>1, <2>1, AboveIs DEF CorrelatedRoom
<1> QED BY <1>3, <1>4, <1>5, <1>6, <1>7 DEF Room

(* What Size lets through costs no more than any room there is.            *)
LEMMA SizeFits ==
  ASSUME RiskTypeOK, NEW i \in Idea, NEW requested \in Nat, NEW category
  PROVE  LET size == Size(i, requested, category)
         IN  /\ size \in Nat /\ size * UnitLoss[i] \in Nat
             /\ size > 0 => Authoritative /\ \A x \in Room(category) : size * UnitLoss[i] <= x
<1> DEFINE size == Size(i, requested, category)
           least == Min(Room(category))
           share == least \div UnitLoss[i]
<1>1. UnitLoss[i] \in Nat \ {0}
  BY RiskAssumption
<1>2. CASE ~ (Authoritative /\ Cardinality(Held) < Ceiling)
  BY <1>1, <1>2 DEF Size
<1>3. CASE Authoritative /\ Cardinality(Held) < Ceiling
  <2>1. Room(category) \subseteq Nat /\ Room(category) # {}
    BY <1>3, RoomTyped DEF Room
  <2>2. least \in Nat /\ \A x \in Room(category) : least <= x
    BY <2>1, LeastMember DEF Min
  <2>3. share \in Nat /\ share * UnitLoss[i] <= least
    BY <1>1, <2>2, Shares
  <2>4. size = Min({requested, share})
    BY <1>3 DEF Size
  <2> HIDE DEF size, share, least
  <2>5. size \in Nat /\ size <= share
    <3>1. requested \in Int /\ share \in Int
      BY <2>3
    <3>2. size \in {requested, share} /\ size <= share
      BY <2>4, <3>1, LesserIs
    <3> QED BY <2>3, <3>2
  <2>6. size * UnitLoss[i] \in Nat /\ size * UnitLoss[i] <= share * UnitLoss[i]
    BY <1>1, <2>3, <2>5, FewerCostLess
  <2>7. \A x \in Room(category) : size * UnitLoss[i] <= x
    <3> SUFFICES ASSUME NEW x \in Room(category) PROVE size * UnitLoss[i] <= x
      OBVIOUS
    <3>1. x \in Nat /\ least <= x
      BY <2>1, <2>2
    <3>2. share * UnitLoss[i] \in Nat
      BY <1>1, <2>3, FewerCostLess
    <3> QED BY <2>2, <2>3, <2>6, <3>1, <3>2
  <2> QED BY <1>3, <2>5, <2>6, <2>7 DEF size
<1> QED BY <1>2, <1>3

----------------------------------------------------------------------------
PlanRow == [state: {"NONE", "READY", "BLOCKED", "PENDING", "OPEN", "CLOSED"}, size: Nat, risk: Nat]
OpenRow == [loss: Nat, pnl: Int, held: BOOLEAN]

LEMMA RiskTypeInit == RiskInit => RiskTypeOK
<1> SUFFICES ASSUME RiskInit PROVE RiskTypeOK
  OBVIOUS
<1>1. NoIdea \in PlanRow /\ NoPosition \in OpenRow
  BY DEF NoIdea, NoPosition, PlanRow, OpenRow
<1>2. idea \in [Idea -> PlanRow] /\ open \in [Idea -> OpenRow]
  BY <1>1 DEF RiskInit
<1>3. rules \in RuleSets /\ balance \in Int /\ day \in Int
  BY RiskAssumption DEF RiskInit
<1>4. stopless \in BOOLEAN /\ terms \in BOOLEAN
  BY DEF RiskInit
<1> QED BY <1>2, <1>3, <1>4 DEF RiskTypeOK, PlanRow, OpenRow

(* Plans are sized in whole lot steps.                                     *)
LEMMA PlansTyped ==
  ASSUME RiskTypeOK, NEW i \in Idea, BuildPlan(i) \/ QueuePlan(i) \/ Fill(i) \/ Lapse(i)
  PROVE  RiskTypeOK'
<1>1. idea \in [Idea -> PlanRow] /\ open \in [Idea -> OpenRow] /\ MaxLots[i] \in Nat
  BY RiskAssumption DEF RiskTypeOK, PlanRow, OpenRow
<1>2. ASSUME NEW state \in {"READY", "BLOCKED", "PENDING"}, NEW requested \in Nat, NEW category
      PROVE  Sized(state, Size(i, requested, category), i) \in PlanRow
  BY SizeFits DEF Sized, PlanRow
<1>3. idea' \in [Idea -> PlanRow]
  <2>1. CASE BuildPlan(i)
    <3> DEFINE size == Size(i, MaxLots[i], FiledUnder[i].build)
    <3>1. Sized(IF size > 0 THEN "READY" ELSE "BLOCKED", size, i) \in PlanRow
      BY <1>1, <1>2
    <3> QED BY <1>1, <2>1, <3>1 DEF BuildPlan
  <2>2. CASE QueuePlan(i)
    <3>1. [idea[i] EXCEPT !.state = "BLOCKED"] \in PlanRow /\ idea[i].size \in Nat
      BY <1>1 DEF PlanRow
    <3> DEFINE size == IF PerTradeRuled THEN Size(i, idea[i].size, FiledUnder[i].queue) ELSE 0
    <3>2. CASE idea' = [idea EXCEPT ![i].state = "BLOCKED"]
      BY <1>1, <3>1, <3>2
    <3>3. CASE size > 0 /\ idea' = [idea EXCEPT ![i] = Sized("PENDING", size, i)]
      <4>1. size = Size(i, idea[i].size, FiledUnder[i].queue)
        BY <3>3
      <4>2. Sized("PENDING", size, i) \in PlanRow
        BY <1>2, <3>1, <4>1
      <4> HIDE DEF size
      <4> QED BY <1>1, <3>3, <4>2
    <3> QED BY <2>2, <3>2, <3>3 DEF QueuePlan
  <2>3. CASE Fill(i) \/ Lapse(i)
    <3>1. \A state \in {"OPEN", "CLOSED"} : [idea[i] EXCEPT !.state = state] \in PlanRow
      BY <1>1 DEF PlanRow
    <3>2. PICK state \in {"OPEN", "CLOSED"} : idea' = [idea EXCEPT ![i].state = state]
      BY <2>3 DEF Fill, Lapse
    <3> QED BY <1>1, <3>1, <3>2
  <2> QED BY <2>1, <2>2, <2>3
<1>4. open' \in [Idea -> OpenRow]
  <2>1. CASE UNCHANGED open
    BY <1>1, <2>1
  <2>2. CASE Fill(i)
    <3>1. idea[i].risk \in Nat
      BY <1>1 DEF PlanRow
    <3>2. [loss |-> idea[i].risk, pnl |-> 0, held |-> TRUE] \in OpenRow
      BY <3>1 DEF OpenRow
    <3> QED BY <1>1, <2>2, <3>2 DEF Fill
  <2> QED BY <2>1, <2>2 DEF BuildPlan, QueuePlan, Lapse
<1> QED BY <1>3, <1>4 DEF BuildPlan, QueuePlan, Fill, Lapse, RiskTypeOK, PlanRow, OpenRow

LEMMA PositionsTyped ==
  ASSUME RiskTypeOK, NEW i \in Idea, PriceMoves(i) \/ BreakEven(i) \/ Closes(i)
  PROVE  RiskTypeOK'
<1>1. idea \in [Idea -> PlanRow] /\ open \in [Idea -> OpenRow] /\ balance \in Int /\ day \in Int
      /\ open[i].loss \in Nat /\ open[i].pnl \in Int /\ NoPosition \in OpenRow
  BY DEF RiskTypeOK, PlanRow, OpenRow, NoPosition
<1>2. CASE PriceMoves(i)
  <2>1. PICK pnl \in {-open[i].loss} \cup Gains : open' = [open EXCEPT ![i].pnl = pnl]
    BY <1>2 DEF PriceMoves
  <2>2. pnl \in Int
    <3>1. -open[i].loss \in Int
      BY <1>1
    <3>2. Gains \subseteq Int
      BY RiskAssumption
    <3> QED BY <3>1, <3>2
  <2>3. [open[i] EXCEPT !.pnl = pnl] \in OpenRow
    BY <1>1, <2>2 DEF OpenRow
  <2>4. open' \in [Idea -> OpenRow]
    BY <1>1, <2>1, <2>3
  <2> QED BY <1>2, <2>4 DEF PriceMoves, RiskTypeOK, OpenRow
<1>3. CASE BreakEven(i)
  <2>1. Max({open[i].pnl, 0}) \in Int
    <3>1. Max({0, open[i].pnl}) \in Int /\ {0, open[i].pnl} = {open[i].pnl, 0}
      BY <1>1, AboveIs DEF Above
    <3> QED BY <3>1
  <2> DEFINE row == [[open[i] EXCEPT !.loss = 0] EXCEPT !.pnl = Max({open[i].pnl, 0})]
  <2>2. row \in OpenRow
    BY <1>1, <2>1 DEF OpenRow
  <2>3. open' = [open EXCEPT ![i] = row]
    BY <1>1, <1>3 DEF BreakEven, OpenRow
  <2> HIDE DEF row
  <2>4. open' \in [Idea -> OpenRow]
    BY <1>1, <2>2, <2>3
  <2> QED BY <1>3, <2>4 DEF BreakEven, RiskTypeOK, OpenRow
<1>4. CASE Closes(i)
  <2>1. [idea[i] EXCEPT !.state = "CLOSED"] \in PlanRow
    BY <1>1 DEF PlanRow
  <2>2. idea' \in [Idea -> PlanRow]
    BY <1>1, <1>4, <2>1 DEF Closes
  <2>3. open' \in [Idea -> OpenRow] /\ balance' \in Int /\ day' \in Int
    BY <1>1, <1>4 DEF Closes
  <2> QED BY <1>4, <2>2, <2>3 DEF Closes, RiskTypeOK, PlanRow, OpenRow
<1> QED BY <1>2, <1>3, <1>4

LEMMA RiskTypeStep == RiskTypeOK /\ [RiskNext]_riskVars => RiskTypeOK'
<1> SUFFICES ASSUME RiskTypeOK, [RiskNext]_riskVars PROVE RiskTypeOK'
  OBVIOUS
<1>1. CASE NextDay \/ HandMadePosition \/ TermsChange \/ UNCHANGED riskVars
  <2>1. UNCHANGED <<rules, balance, idea, open>> /\ day' \in {day, 0}
    BY <1>1 DEF NextDay, HandMadePosition, TermsChange, riskVars
  <2>2. stopless' \in BOOLEAN /\ terms' \in BOOLEAN
    BY <1>1 DEF NextDay, HandMadePosition, TermsChange, riskVars, RiskTypeOK
  <2>3. day' \in Int
    BY <2>1 DEF RiskTypeOK
  <2> QED BY <2>1, <2>2, <2>3 DEF RiskTypeOK
<1> QED BY <1>1, PlansTyped, PositionsTyped DEF RiskNext

(* Type invariant of rules, plans and positions.                           *)
THEOREM RiskTypeCorrect == RiskSpec => []RiskTypeOK
BY RiskTypeInit, RiskTypeStep, PTL DEF RiskSpec

----------------------------------------------------------------------------
(* Only queue_trade_plan_execution makes an order of a plan.               *)
LEMMA OnlyQueued ==
  ASSUME RiskTypeOK, [RiskNext]_riskVars, NEW i \in Idea, Queued(i)
  PROVE  QueuePlan(i)
<1>1. idea' # idea
  BY DEF Queued
<1>2. PICK k \in Idea : BuildPlan(k) \/ QueuePlan(k) \/ Fill(k) \/ Lapse(k) \/ Closes(k)
  BY <1>1 DEF RiskNext, riskVars, PriceMoves, BreakEven, NextDay, HandMadePosition, TermsChange
<1>3. k = i
  <2>1. \A j \in Idea \ {k} : idea'[j] = idea[j]
    BY <1>2 DEF BuildPlan, QueuePlan, Fill, Lapse, Closes, RiskTypeOK
  <2> QED BY <2>1 DEF Queued
<1>4. ASSUME BuildPlan(i) \/ Fill(i) \/ Lapse(i) \/ Closes(i) PROVE FALSE
  BY <1>4 DEF BuildPlan, Fill, Lapse, Closes, Queued, Sized, RiskTypeOK
<1> QED BY <1>2, <1>3, <1>4

LEMMA QueuedFits ==
  ASSUME RiskTypeOK, NEW i \in Idea, QueuePlan(i), Queued(i)
  PROVE  WithinHardLimits(i)
<1> DEFINE size == Size(i, idea[i].size, FiledUnder[i].queue)
           rooms == Room(FiledUnder[i].queue)
           risk == idea'[i].risk
<1>1. idea[i].state = "READY" /\ idea[i].size \in Nat /\ i \notin Committed
  BY DEF QueuePlan, RiskTypeOK, Committed
<1>2. size > 0 /\ idea' = [idea EXCEPT ![i] = Sized("PENDING", size, i)] /\ UNCHANGED open
  <2>1. idea' # [idea EXCEPT ![i].state = "BLOCKED"]
    BY <1>1 DEF Queued, RiskTypeOK
  <2> QED BY <2>1 DEF QueuePlan
<1>3. risk = size * UnitLoss[i] /\ risk \in Nat /\ Authoritative /\ \A x \in rooms : risk <= x
  <2>1. risk = size * UnitLoss[i]
    BY <1>2 DEF Sized, RiskTypeOK
  <2> HIDE DEF risk
  <2> QED BY <1>1, <1>2, <2>1, SizeFits
<1> HIDE DEF size
<1>4. /\ Drawdown \in Int /\ DailyLoss \in Int /\ balance \in Int /\ day \in Int /\ Starting \in Nat
      /\ Drawdown >= Starting - (balance + Floating) /\ DailyLoss >= -(day + Floating)
      /\ Floating \in Int /\ OpenRisk \in Nat /\ Reserved \in Nat /\ rooms \subseteq Nat
  BY <1>3, RoomTyped, SumsTyped, RiskAssumption DEF RiskTypeOK
<1>5. risk > 0
  <2>1. UnitLoss[i] \in Nat \ {0} /\ size \in Nat
    BY <1>1, SizeFits, RiskAssumption DEF size
  <2>2. size * UnitLoss[i] > 0
    BY <1>2, <2>1
  <2> QED BY <1>3, <2>2
<1> HIDE DEF risk
<1>6. ASSUME NEW x \in Int, Above(x) \in rooms PROVE risk <= x
  <2>1. risk <= Above(x) /\ Above(x) \in Nat
    BY <1>3, <1>6, AboveIs
  <2>2. Above(x) = x
    BY <1>3, <1>5, <2>1, AboveIs
  <2> QED BY <2>1, <2>2
<1>7. /\ Limit("TOTAL_DRAWDOWN") \in Int /\ Limit("DAILY_LOSS") \in Int
      /\ Limit("PORTFOLIO_RISK") \in Int
  BY <1>3, LimitIsLeast DEF Authoritative
<1>8. /\ risk <= Limit("TOTAL_DRAWDOWN") - Drawdown /\ risk <= Limit("DAILY_LOSS") - DailyLoss
      /\ risk <= Limit("PORTFOLIO_RISK") - OpenRisk - Reserved
  BY <1>4, <1>6, <1>7 DEF Room, PortfolioRoom
<1>9. ASSUME NEW kind, NEW r \in Hard(kind)
      PROVE  Limit(kind) \in Int /\ Limit(kind) <= r.value /\ r.value \in Int
  <2>1. Strictest(kind) # {} /\ r \in rules
    BY <1>9 DEF Strictest, Hard
  <2>2. r.value \in Int
    BY <2>1, RiskAssumption DEF RiskTypeOK
  <2> QED BY <1>9, <2>1, <2>2, LimitIsLeast
<1>10. \A r \in Hard("RISK_PER_TRADE") : risk <= r.value
  <2> SUFFICES ASSUME NEW r \in Hard("RISK_PER_TRADE") PROVE risk <= r.value
    OBVIOUS
  <2>1. Strictest("RISK_PER_TRADE") # {}
    BY DEF Strictest, Hard
  <2>2. Above(Limit("RISK_PER_TRADE")) \in rooms
    BY <2>1 DEF Room
  <2>3. risk <= Limit("RISK_PER_TRADE")
    BY <1>6, <1>9, <2>2
  <2> QED BY <1>3, <1>9, <2>3
<1>11. \A r \in Hard("TOTAL_DRAWDOWN") : Starting - ((balance + Floating) - risk) <= r.value
  BY <1>3, <1>4, <1>7, <1>8, <1>9
<1>12. \A r \in Hard("DAILY_LOSS") : risk - (day + Floating) <= r.value
  BY <1>3, <1>4, <1>7, <1>8, <1>9
<1> DEFINE risks == [k \in Idea |-> idea[k].risk]
           after == [k \in Idea |-> idea'[k].risk]
<1>13. SumFunctionOnSet(after, Committed \cup {i}) = Reserved + risk
  <2>1. /\ IsFiniteSet(Committed) /\ Committed \subseteq Idea
        /\ \A k \in Committed : after[k] = risks[k]
        /\ \A k \in Committed \cup {i} : after[k] \in Int
        /\ after[i] = risk
    <3>1. Committed \subseteq Idea /\ IsFiniteSet(Committed)
      BY RiskAssumption, FS_Subset DEF Committed
    <3>2. \A k \in Idea \ {i} : idea'[k] = idea[k]
      BY <1>2
    <3>3. \A k \in Idea : idea[k].risk \in Nat
      BY DEF RiskTypeOK
    <3> QED BY <1>1, <1>3, <3>1, <3>2, <3>3 DEF risk
  <2> HIDE DEF risks, after
  <2>2. SumFunctionOnSet(after, Committed \cup {i}) = SumFunctionOnSet(after, Committed) + after[i]
    BY <1>1, <2>1, SumAdds
  <2>3. SumFunctionOnSet(after, Committed) = SumFunctionOnSet(risks, Committed)
    BY <2>1, SumAgrees
  <2> QED BY <2>1, <2>2, <2>3 DEF Reserved, risks
<1>14. SumFunctionOnSet([k \in Idea |-> open'[k].loss], Held) = OpenRisk
  BY <1>2 DEF OpenRisk, LossOf
<1>15. \A r \in Hard("PORTFOLIO_RISK") :
         SumFunctionOnSet([k \in Idea |-> open'[k].loss], Held)
           + SumFunctionOnSet(after, Committed \cup {i}) <= r.value
  <2> HIDE DEF after
  <2> QED BY <1>3, <1>4, <1>7, <1>8, <1>9, <1>13, <1>14
<1> QED BY <1>3, <1>10, <1>11, <1>12, <1>15 DEF Authoritative, Floating, WithinHardLimits, risk, after

(* RiskEngine.evaluate and reserve: an order goes out only if its worst    *)
(* case breaches no hard limit, for any rules, plans and positions.        *)
THEOREM ApprovalsFit == RiskSpec => ApprovalFits
<1>1. RiskTypeOK /\ [RiskNext]_riskVars =>
        [\A i \in Idea : Queued(i) => WithinHardLimits(i)]_riskVars
  BY OnlyQueued, QueuedFits
<1> QED BY <1>1, RiskTypeCorrect, PTL DEF RiskSpec, ApprovalFits

=============================================================================
