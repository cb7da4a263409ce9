------------------------------ MODULE DropMarket ------------------------------
(***************************************************************************)
(* The market of one item: which trades count.  A trade is judged by the   *)
(* trades of its day and the days before it.  Nothing is stored: every     *)
(* reading judges anew, from the rows of the days it reads.  A trade is    *)
(* reported when it was made or later, and the device may send another     *)
(* price or time of it, or take it out.                                    *)
(***************************************************************************)
EXTENDS Integers, FiniteSetsExt

CONSTANTS
  TradePrices,
  ShortDays, LongDays,   \* 7 and 30
  MinSample,             \* 4
  ShownDays,             \* OVERVIEW_DAYS, or DETAIL_DAYS
  TradeIds,              \* ids of rows of drop_prices
  MaxDay                 \* bound: days of a behaviour; of the last no trade is reported

ASSUME DropMarketAssumption ==
  /\ TradePrices \subseteq Nat /\ {ShortDays, LongDays, MinSample, ShownDays} \subseteq Nat \ {0}
  /\ ShortDays <= LongDays

VARIABLES
  trades,   \* completed rows of the item: id -> [price, day]
  day       \* kstDayNumber(now)

marketVars == <<trades, day>>

MarketInit == trades = <<>> /\ day = 0

-----------------------------------------------------------------------------
(* Fences.  Four times a quantile is an integer, so limits are kept forty times as large. *)

Values(prices)    == {prices[j] : j \in DOMAIN prices}
Below(prices, v)  == {j \in DOMAIN prices : prices[j] < v}
UpTo(prices, v)   == {j \in DOMAIN prices : prices[j] <= v}

\* sorted[i], counted from zero: the price that holds the place i once prices are in order.
Sorted(prices, i) ==
  CHOOSE v \in Values(prices) :
    Cardinality(Below(prices, v)) <= i /\ i < Cardinality(UpTo(prices, v))

\* quantile(sorted, k / 4), four times: linear between the two places around it.
FourQuantiles(prices, k) ==
  LET pos == (Cardinality(DOMAIN prices) - 1) * k
      lower == Sorted(prices, pos \div 4)
      upper == Sorted(prices, (pos + 3) \div 4)
  IN 4 * lower + (upper - lower) * (pos % 4)

\* Mutant: the narrower of the two.
NarrowFence(prices) ==
  LET q1 == FourQuantiles(prices, 1)   median == FourQuantiles(prices, 2)
      q3 == FourQuantiles(prices, 3)
  IN [low  |-> Max({10 * q1 - 15 * (q3 - q1), 8 * median}),
      high |-> Min({10 * q3 + 15 * (q3 - q1), 12 * median})]

\* 1.5 of the range between the quartiles, and never narrower than a fifth of the median.
FenceOf(prices) ==
  LET q1 == FourQuantiles(prices, 1)   median == FourQuantiles(prices, 2)
      q3 == FourQuantiles(prices, 3)
  IN [low  |-> Min({10 * q1 - 15 * (q3 - q1), 8 * median}),
      high |-> Max({10 * q3 + 15 * (q3 - q1), 12 * median})]

Within(price, fence) == fence.low <= 40 * price /\ 40 * price <= fence.high

\* Mutant: later days count as well.
SampleAround(rows, read, p, days) == {j \in read : rows[j].day > p.day - days}

\* Of the trades read those of the days up to a trade's own; later days are left out.
SampleOf(rows, read, p, days) ==
  {j \in read : rows[j].day <= p.day /\ rows[j].day > p.day - days}

\* The shortest sample that is large enough, or none.
Judges(rows, read, p) ==
  LET Enough(days) == Cardinality(SampleOf(rows, read, p, days)) >= MinSample
  IN CASE Enough(ShortDays) -> SampleOf(rows, read, p, ShortDays)
       [] ~Enough(ShortDays) /\ Enough(LongDays) -> SampleOf(rows, read, p, LongDays)
       [] OTHER -> {}

PricesIn(rows, sample) == [j \in sample |-> rows[j].price]

Verdict(rows, read, p) ==
  LET sample == Judges(rows, read, p)
  IN CASE sample = {} -> "pending"
       [] sample # {} /\ Within(p.price, FenceOf(PricesIn(rows, sample))) -> "included"
       [] OTHER -> "excluded"

-----------------------------------------------------------------------------
(* What a reading at a day sees. *)

\* daysBefore: of the first day some hours are left out, here all of it.
FirstRead(now) == now - (ShownDays + LongDays - 1)
RowsRead(all, now) == {j \in DOMAIN all : all[j].day >= FirstRead(now)}
Shows(p, now)      == p.day > now - ShownDays

\* upsert: a new row or the new price and time of one.  The device sends when the trade was made,
\* long ago or today, and a time to come counts as now; without one it is now, or what the row has.
Upsert == \E i \in TradeIds, price \in TradePrices, d \in 0..day :
  /\ day < MaxDay
  /\ trades' = [j \in DOMAIN trades \cup {i} |->
                  IF j = i THEN [price |-> price, day |-> d] ELSE trades[j]]
  /\ UNCHANGED day

\* markDeleted, or a row that is no longer completed, or is of another item now.
TakeOut == \E i \in DOMAIN trades :
  /\ trades' = [j \in DOMAIN trades \ {i} |-> trades[j]]
  /\ UNCHANGED day

DayPasses == day < MaxDay /\ day' = day + 1 /\ UNCHANGED trades

MarketNext == Upsert \/ TakeOut \/ DayPasses

-----------------------------------------------------------------------------
Kept == {i \in DOMAIN trades \cap DOMAIN trades' : trades'[i] = trades[i]}
DaysTouched == {trades[i].day : i \in DOMAIN trades \ Kept}
                 \cup {trades'[i].day : i \in DOMAIN trades' \ Kept}

\* A verdict of a day that is over depends on the LongDays up to that day and on nothing else:
\* neither a trade of a later day nor the passing of days changes it as long as the trade is shown,
\* for the rows that leave the reading are needed for no trade left in it.  Only a trade of those
\* days that is reported late, is changed or is taken out does (fence.ts says that no new row does).
PastVerdictsStay ==
  [][\A i \in Kept :
       LET p == trades[i]
       IN /\ p.day < day /\ Shows(p, day')
          /\ \A d \in DaysTouched : d > p.day \/ d <= p.day - LongDays
          => Verdict(trades', RowsRead(trades', day'), p) =
             Verdict(trades, RowsRead(trades, day), p)]_marketVars

\* Fences exclude what stands apart and never the middle: whatever the trades, at least half of
\* a sample lies within the fence made of it, and all of it when the prices are equal.
MostOfSampleCounts ==
  \A i \in DOMAIN trades :
    LET sample == Judges(trades, DOMAIN trades, trades[i])
        prices == PricesIn(trades, sample)
        counted == {j \in sample : Within(prices[j], FenceOf(prices))}
    IN /\ 2 * Cardinality(counted) >= Cardinality(sample)
       /\ Cardinality(Values(prices)) = 1 => counted = sample

=============================================================================
