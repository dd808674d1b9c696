------------------------------- MODULE MCLab --------------------------------
(***************************************************************************)
(* The casts, reports and tapes of Lab that the run checks.                *)
(***************************************************************************)
EXTENDS Lab

Everyone == {"research", "backtest", "ensemble"}

(* ------------------------------- research ------------------------------- *)
Bar0 == [open |-> 100, high |-> 110, low |-> 90, close |-> 105]
ThreeMarkets == {
    [symbol |-> "XRP", class |-> "alt", adv |-> 100, prices |-> <<110, 100, 104, 103, 101, 105>>,
     age |-> 10, ohlc |-> Bar0, volume |-> 5],
    [symbol |-> "CL", class |-> "commodity", adv |-> 25000, prices |-> <<100>>,
     age |-> 400, ohlc |-> Bar0, volume |-> 60],
    [symbol |-> "XRP", class |-> "alt", adv |-> 100, prices |-> <<105, 100, 100>>,
     age |-> 400, ohlc |-> [Bar0 EXCEPT !.low = 0], volume |-> 5]}

Json(d, c) == [kind |-> "json", direction |-> d, confidence |-> c, score |-> 300]
Sure == [answer |-> Json("LONG", 900)]
Doubtful == [answer |-> Json("SHORT", 300)]
Prose == [answer |-> [kind |-> "prose"]]
Away == [answer |-> [kind |-> "raises"]]

Week(l, s) == [long |-> l, short |-> s]
Weeks == <<Week(9, 1), Week(5, 2), Week(3, 3)>>
\* Oil up a twelfth in a fortnight, everything else up over the month.
Rising(old, recent) == [i \in 1..22 |-> IF i <= 10 THEN recent ELSE old]
Slow1 == [oil |-> Rising(600, 650), cpi |-> <<2, 1>>, vix |-> Rising(2000, 3000),
          spread |-> <<-10>>, dgs2 |-> Rising(400, 430), dgs10 |-> <<405, 400>>]
OptionTrade(p, n) == [put |-> p, premium |-> 600, size |-> n]
Pay(n, from, to) == [native |-> TRUE, amount |-> n, from |-> from, to |-> to]
Few == [traders |-> <<[i \in 1..5 |-> [ours |-> i # 2, amount |-> 3]], <<>>>>,
        wallets |-> <<<<Pay(900, "exchange", "whale"), Pay(50, "whale", "exchange")>>,
                      <<Pay(500, "whale", "exchange")>>>>,
        cot |-> <<[commercials |-> 800, speculators |-> 2500]>>]
Item(c) == [titled |-> c # 0, old |-> c < -900, compound |-> c, weight |-> 500]
News == [cached |-> <<>>, key |-> TRUE, newsapi |-> <<>>,
         rss |-> <<Item(600), Item(-950), Item(400), Item(700)>>]

ReportsOf == [
    marcus |-> {Sure, Away}, vera |-> {Doubtful, Prose}, rex |-> {Sure},
    xrp_analyst |-> {Sure},
    sentiment_analyst |-> {[news |-> News], [news |-> [News EXCEPT !.cached = <<<<>>>>]]},
    momentum |-> {[none |-> 0]},
    cot_analyst |-> {[history |-> Weeks, key |-> TRUE, answer |-> Away.answer]},
    eia_analyst |-> {[day |-> "Wednesday", hours |-> 2,
                      series |-> [i \in 1..3 |-> <<90, 50, 49, 47, 46, 44, 40>>]]},
    carry_agent |-> {[error |-> FALSE, funding |-> 1500, front |-> 102, second |-> 100]},
    macro_analyst |-> {[answer |-> Json("SHORT", 600), macro |-> Slow1]},
    options_flow_agent |-> {[sources |-> <<<<>>, [i \in 1..4 |-> OptionTrade(i = 4, 5)]>>]},
    copy_trade_scout |-> {Few, [Few EXCEPT !.wallets = <<>>, !.cot = <<>>,
                                           !.traders = <<<<[ours |-> TRUE, amount |-> 0]>>>>]}]

TwoScores == {<<>>, <<-400>>}
TwoPredictions == {<<>>, <<[id |-> 1, words |-> {"XRP", "BTC"}, yes |-> 900, volume |-> 5000],
                           [id |-> 1, words |-> {"XRP"}, yes |-> 900, volume |-> 5000],
                           [id |-> 2, words |-> {"MACRO"}, yes |-> 800, volume |-> 9000]>>}
TwoWeights == {[r \in {"RANGING", "VOLATILE", "TRENDING"} |->
                  [marcus |-> w, vera |-> 500, rex |-> 500, xrp_analyst |-> 500,
                   polymarket_scout |-> 500, carry_agent |-> 900]] : w \in {100, 800}}

(* ------------------------------ back-tests ------------------------------ *)
At(c, v) == [close |-> c, high |-> c + 50, low |-> c - 50, volume |-> v]
Calm == At(10000, 100)
Up == At(10600, 200)
Higher == At(11500, 200)
Down == At(9300, 200)
Both == [close |-> 10000, high |-> 13000, low |-> 9000, volume |-> 100]
Thin == At(10700, 10)

\* Five bars: nothing, a rally that lasts, one that fails, one that is fooled, a dip.
Halves == {<<Calm, Calm, Calm, Calm, Calm>>, <<Calm, Calm, Calm, Up, Higher>>,
           <<Calm, Calm, Calm, Up, Down>>, <<Calm, Calm, At(10400, 150), Up, Both>>,
           <<At(9900, 100), At(9700, 100), At(9600, 100), At(9400, 100), Up>>}
\* What a window is fitted on: nothing, or a rally.
Fits == {<<Calm, Calm, Calm, Calm, Calm>>, <<Calm, Calm, Calm, Up, Higher>>}
Test(s, bias, coverage, tape, n) ==
    [strategy |-> s, bias |-> bias, coverage |-> coverage, tape |-> tape, windows |-> n]
Names == {"sma_crossover", "rsi_mean_reversion", "xrp_momentum", "gold_safe_haven",
          "commodity_momentum", "seasonal_commodity", "momentum_12_1", "risk_parity_momentum"}
SomeJobs ==
    {Test(s, 20, "high", a \o b \o <<x, y>>, 0) :
        s \in Names, a \in Halves, b \in Halves, x \in {Up, Both, Down}, y \in {Higher, Thin, Down}}
    \cup {Test(s, 0, "low", a \o b \o c \o d, 2) :
        s \in {"sma_crossover", "rsi_mean_reversion", "xrp_momentum", "gold_safe_haven"},
        a \in Fits, b \in Halves, c \in Fits, d \in Halves}
    \cup {Test("sma_crossover", 0, "low", <<>>, 0), Test("xrp_momentum", 0, "low", <<Up>>, 2)}

(* ------------------------------- ensemble ------------------------------- *)
Kinds == {Calm, Up, Down, Both}
ShortTapes == UNION {[1..n -> Kinds] : n \in 1..4}
SharpesSet == {-1, 1, 3}
=============================================================================
