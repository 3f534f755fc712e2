---------------------------- MODULE DailySignals ----------------------------
(***************************************************************************)
(* The signals of the daily newsletter and the report composed of them.  *)
(* Every signal is a function of the trades of the window and of what is *)
(* known of their markets; the trades come in the order of the feed, which *)
(* is not that of their times. A hit is told from another by its signal, *)
(* its wallet, its market and where it begins; what its row prints is left *)
(* out. Scores are in thousandths, prices in cents.                      *)
(***************************************************************************)
EXTENDS Integers, Sequences, FiniteSetsExt

CONSTANTS
    Traders, NoTrader,             \* wallets; that of a trade without one
    Questions,                     \* markets
    Observations,                  \* the trades a window may have
    MarketMetas,                   \* what gamma-api may say of the markets
    first_trades,                  \* the earliest trade the data-api shows of
                                   \* each wallet, NoTime if the probe failed
    NoTime, NoPrice,
    MaxObserved                    \* bound: trades of a window

CONSTANTS
    min_price, max_price, min_hours_to_close, min_life_hours,      \* GateConfig
    max_age, min_trade_notional,                                   \* 01-A
    variant_a_multiple, variant_b_min_trades, variant_b_window,
    variant_b_dominance, variant_b_notional_multiple, p90_min_trades, \* 01-B
    threshold, min_trades,                                         \* 02-A
    window_seconds, min_wallets, min_total_notional,               \* 02-C
    min_multiple, min_days_active, min_volume_24h,                 \* 03-A
    Day, top_n, top_contributors

ASSUME SignalsAssumption ==
    /\ Observations \subseteq [wallet : Traders \cup {NoTrader}, market : Questions,
                                side : {"BUY", "SELL"}, notional : Nat \ {0}, ts : Nat]
    /\ NoTrader \notin Traders /\ window_seconds \in Nat \ {0} /\ top_n \in Nat /\ top_contributors \in Nat \ {0}
    /\ threshold \in 51 .. 99 /\ variant_b_dominance \in 51 .. 100
    /\ variant_a_multiple > 1 /\ p90_min_trades \in Nat \ {0}

\* What the scores are made of besides.
ASSUME ScoresAssumption ==
    /\ {max_age, Day} \subseteq Nat \ {0} /\ {min_wallets, min_multiple, variant_b_window} \subseteq Nat
    /\ first_trades \in [Traders -> Nat \cup {NoTime}]
    /\ \A metas \in MarketMetas : \A m \in Questions :
          {metas[m].volume24hr, metas[m].volumeNum} \subseteq Nat /\ metas[m].start \in Nat \cup {NoTime}

VARIABLES trades, market_meta

signals_vars == <<trades, market_meta>>

SignalsInit == trades = <<>> /\ market_meta \in MarketMetas

Observe ==
    /\ Len(trades) < MaxObserved
    /\ \E t \in Observations : trades' = Append(trades, t)
    /\ UNCHANGED market_meta

SignalsTypeOK == trades \in Seq(Observations) /\ market_meta \in MarketMetas

-----------------------------------------------------------------------------
(* Gates. A date that is missing passes.                                 *)

\* The last price, or else the middle of the book, whose missing or zero
\* sides stand at 0 and 100.
price(meta) ==
    IF meta.last # NoPrice THEN meta.last
    ELSE IF meta.bid = NoPrice /\ meta.ask = NoPrice THEN NoPrice
    ELSE LET bid == IF meta.bid = NoPrice THEN 0 ELSE meta.bid
             ask == IF meta.ask \in {NoPrice, 0} THEN 100 ELSE meta.ask
         IN (bid + ask) \div 2

price_in_band(meta) == price(meta) # NoPrice /\ min_price <= price(meta) /\ price(meta) <= max_price
has_enough_time_to_close(meta) == meta.closes_in = NoTime \/ meta.closes_in > min_hours_to_close
has_enough_lifespan(meta) == meta.lives_for = NoTime \/ meta.lives_for >= min_life_hours
is_not_novelty(meta) == ~meta.novelty

passes_all(m) ==
    LET meta == market_meta[m]
    IN /\ price_in_band(meta) /\ has_enough_time_to_close(meta)
       /\ has_enough_lifespan(meta) /\ is_not_novelty(meta)

-----------------------------------------------------------------------------
(* What the signals have in common. A set of trades is a set of places.  *)

eligible == {m \in Questions : passes_all(m)}
on(m) == {i \in DOMAIN trades : trades[i].market = m}
by(w, I) == {i \in I : trades[i].wallet = w}
bought(I) == {i \in I : trades[i].side = "BUY"}
larger(a, b) == IF a >= b THEN a ELSE b
notional(I) == MapThenSumSet(LAMBDA i : trades[i].notional, I)
dominance(I) == larger(notional(bought(I)), notional(I) - notional(bought(I)))
wallets(I) == {trades[i].wallet : i \in I} \ {NoTrader}
smaller(a, b) == IF a <= b THEN a ELSE b
window_end == IF trades = <<>> THEN 0 ELSE Max({trades[i].ts : i \in DOMAIN trades})

\* A list sorted with reverse=True is stable: of equals, the earlier is first.
outranks(a, b) == \E i \in DOMAIN a : a[i] > b[i] /\ \A j \in 1 .. i - 1 : a[j] = b[j]
top(S, rank, n) == {h \in S : Cardinality({g \in S : outranks(rank[g], rank[h])}) < n}

hit(signal, w, m, at, score, amount, contributors) ==
    [signal |-> signal, wallet |-> w, market |-> m, at |-> at, score |-> score,
     notional |-> amount, top_wallets |-> contributors]

\* The largest of the amounts, which come in the order of the trades.
top_wallets(m, amount) ==
    LET contributing == {w \in wallets(on(m)) : amount[w] > 0}
        most == [w \in contributing |-> <<amount[w], - Min(by(w, on(m)))>>]
    IN {[address |-> w, amount |-> amount[w]] : w \in top(contributing, most, top_contributors)}

\* Mutant: the trades are taken in the order of the feed.
mutant_earlier(i, j) == i < j

\* What a market's or a wallet's trades are sorted by.
earlier(i, j) == trades[i].ts < trades[j].ts \/ (trades[i].ts = trades[j].ts /\ i < j)

\* From trade i of the sorted trades on, until one is later than the width.
rolling_window(I, i, width) ==
    LET after == {j \in I : ~earlier(j, i)}
        late == {j \in after : trades[j].ts - trades[i].ts > width}
    IN {j \in after : \A k \in late : earlier(j, k)}

-----------------------------------------------------------------------------
\* 01-A. A wallet whose first trade cannot be found is not reported.
fresh_wallets ==
    LET big(w, m) == \E i \in by(w, on(m)) : trades[i].notional >= min_trade_notional
        pairs == {p \in Traders \X eligible :
                    /\ big(p[1], p[2])
                    /\ first_trades[p[1]] # NoTime /\ first_trades[p[1]] >= window_end - max_age}
        score(w) == smaller(1000, 500 + (500 * (max_age - (window_end - first_trades[w]))) \div max_age)
        all == {hit("01-A", p[1], p[2], Min(by(p[1], on(p[2]))), score(p[1]), notional(by(p[1], on(p[2]))), {})
                  : p \in pairs}
        rank == [h \in all |-> <<h.score, h.notional, - h.at>>]
    IN top(all, rank, top_n)

p90(m) ==
    LET I == on(m)
        less(i, j) == trades[i].notional < trades[j].notional \/ (trades[i].notional = trades[j].notional /\ i < j)
        place == (9 * (Cardinality(I) - 1)) \div 10
    IN trades[CHOOSE i \in I : Cardinality({j \in I : less(j, i)}) = place].notional

has_p90(m) == m \in eligible /\ Cardinality(on(m)) >= p90_min_trades

\* 01-B, variant A: a fill that dwarfs the market's 90th percentile.
single_fills ==
    {hit("01-B", trades[i].wallet, trades[i].market, i,
         smaller(1000, 500 + (50 * trades[i].notional) \div p90(trades[i].market)), trades[i].notional, {})
       : i \in {i \in DOMAIN trades :
                  /\ trades[i].wallet # NoTrader /\ has_p90(trades[i].market)
                  /\ trades[i].notional >= variant_a_multiple * p90(trades[i].market)}}

\* 01-B, variant B: the first window of a wallet's trades on a market that
\* is long, large and on one side.
stealth_windows(w, m) ==
    LET group == by(w, on(m))
        size == p90(m)
        found(I) ==
            /\ Cardinality(I) >= variant_b_min_trades
            /\ 100 * dominance(I) >= variant_b_dominance * notional(I)
            /\ 2 * notional(I) >= variant_b_notional_multiple * size * Cardinality(I)
        starts == {i \in group : found(rolling_window(group, i, variant_b_window))}
        start == CHOOSE i \in starts : \A j \in starts \ {i} : earlier(i, j)
        I == rolling_window(group, start, variant_b_window)
    IN IF ~has_p90(m) \/ starts = {} THEN {}
       ELSE {hit("01-B", w, m, Len(trades) + start,
                 smaller(1000, 500 + (25 * (100 * dominance(I) - variant_b_dominance * notional(I))) \div notional(I)),
                 notional(I), {})}

\* 01-B: of the hits of a wallet on a market, the one with the best score.
unusual_sizes ==
    LET all == single_fills \cup UNION {stealth_windows(w, m) : w \in Traders, m \in Questions}
        rank == [h \in all |-> <<h.score, - h.at>>]
        best == {h \in all : \A g \in all : g.wallet = h.wallet /\ g.market = h.market
                                              => ~outranks(rank[g], rank[h])}
    IN top(best, rank, top_n)

\* Mutant: what a wallet sold counts for the side that was bought.
mutant_signed(w, m) == notional(by(w, on(m)))

signed(w, m) == 2 * notional(bought(by(w, on(m)))) - notional(by(w, on(m)))

\* 02-A.
order_flow_imbalances ==
    LET total(m) == notional(on(m))
        dominant(m) == dominance(on(m))
        sign(m) == IF 2 * notional(bought(on(m))) >= total(m) THEN 1 ELSE -1
        leaning == {m \in eligible : /\ on(m) # {} /\ Cardinality(on(m)) >= min_trades
                                     /\ 100 * dominant(m) >= threshold * total(m)}
        contributors(m) == top_wallets(m, [w \in Traders |-> sign(m) * signed(w, m)])
        all == {hit("02-A", NoTrader, m, Min(on(m)),
                    (1000 * (100 * dominant(m) - threshold * total(m))) \div ((100 - threshold) * total(m)),
                    2 * dominant(m) - total(m), contributors(m)) : m \in leaning}
        rank == [h \in all |-> <<h.score, h.notional, - h.at>>]
    IN top(all, rank, top_n)

burst(m, i) == rolling_window(on(m), i, window_seconds)

\* Wallets and money enough.
is_burst(I) == Cardinality(wallets(I)) >= min_wallets /\ notional(I) >= min_total_notional

bucket(i) == trades[i].ts \div window_seconds

\* 02-C: one cluster for each bucket of time, the first of its windows.
stealth_clusters ==
    LET starts(m) == {i \in on(m) : is_burst(burst(m, i))}
        first(I) == {i \in I : \A j \in I : earlier(j, i) => bucket(j) # bucket(i)}
        cluster(m, i, I) ==
            hit("02-C", NoTrader, m, i,
                smaller(1000, 400 + 100 * (Cardinality(wallets(I)) - min_wallets) + smaller(notional(I) \div 500, 500)),
                notional(I), top_wallets(m, [w \in Traders |-> notional(by(w, I))]))
        all == UNION {{cluster(m, i, burst(m, i)) : i \in first(starts(m))} : m \in eligible}
        rank == [h \in all |-> <<Cardinality(wallets(burst(h.market, h.at))), h.notional,
                                 - Min(on(h.market)), - trades[h.at].ts, - h.at>>]
    IN top(all, rank, top_n)

\* 03-A: the volume of a day against the average since the market started.
volume_spikes ==
    LET age(m) == larger(window_end - market_meta[m].start, Day \div 10)
        spiking == {m \in eligible :
            LET meta == market_meta[m]
            IN /\ meta.volume24hr >= min_volume_24h /\ meta.volumeNum > 0
               /\ meta.start # NoTime /\ age(m) >= min_days_active * Day
               /\ meta.volume24hr * age(m) >= min_multiple * meta.volumeNum * Day}
        multiple(m) == (1000 * market_meta[m].volume24hr * age(m)) \div (market_meta[m].volumeNum * Day)
        contributors(m) == top_wallets(m, [w \in Traders |-> notional(by(w, on(m)))])
        all == {hit("03-A", NoTrader, m, 0, 400 + smaller((multiple(m) - 1000 * min_multiple) \div 10, 600),
                    market_meta[m].volume24hr, contributors(m)) : m \in spiking}
    IN top(all, [h \in all |-> <<multiple(h.market)>>], top_n)

-----------------------------------------------------------------------------
(* Skipping the buckets that have a cluster hides no bucket: whoever reads *)
(* the clusters finds one in every bucket of time in which wallets enough*)
(* moved together, whatever the order the feed had the trades in, unless *)
(* top_n others rank before it.                                          *)
BurstsAreReported ==
    \A m \in eligible : \A i \in on(m) :
        LET moved == {j \in on(m) : trades[i].ts <= trades[j].ts /\ trades[j].ts - trades[i].ts <= window_seconds}
        IN Cardinality(wallets(moved)) >= min_wallets /\ notional(moved) >= min_total_notional
           => \/ \E h \in stealth_clusters : h.market = m /\ bucket(h.at) = bucket(i)
              \/ Cardinality(stealth_clusters) >= top_n
=============================================================================
