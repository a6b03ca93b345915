---------------------------------- MODULE Wfo ----------------------------------
(****************************************************************************)
(* src/backtest/wfo.py: make_windows, and run_wfo's walk over the windows   *)
(* with optimizer and evaluator as external calls.  Bars are numbered       *)
(* 0..NBars-1; a slice is [start, stop).  Of an evaluation only what a gate *)
(* or a tally reads is kept; rates are whole numbers.                       *)
(****************************************************************************)
EXTENDS Common, Sequences, FiniteSets, Functions

CONSTANTS
    NBars,         \* len(bars)
    NWindows,      \* wfo.min_windows
    IsOosRatio,    \* wfo.is_oos_ratio
    MinTrades,     \* wfo.min_oos_trades
    MaxDrawdown,   \* wfo.max_oos_drawdown_pct
    MinWfePct,     \* wfo.min_wfe * 100
    MinSharpe,     \* wfo.min_oos_sharpe
    Returns, Trades, Drawdowns, Sharpes   \* what an evaluation may yield

ASSUME WindowsAssumption ==
    /\ NBars \in Nat /\ NWindows \in Nat \ {0} /\ IsOosRatio \in Nat \ {0}
    /\ MinTrades \in Nat /\ MaxDrawdown \in Nat /\ MinWfePct \in Nat /\ MinSharpe \in Int
    /\ Returns \subseteq Int /\ Trades \subseteq Nat /\ Drawdowns \subseteq Nat
    /\ Sharpes \subseteq Int

OosLen == NBars \div (NWindows + IsOosRatio)
IsLen == IsOosRatio * OosLen

Slice(start, stop) == [start |-> start, stop |-> stop]
BarsOf(slice) == slice.start..(slice.stop - 1)

\* Wrong on purpose: the optimizer sees the out-of-sample bars too.
InSampleAndBeyond(i) == Slice(i * OosLen, i * OosLen + IsLen + OosLen)

\* Wrong on purpose: one bar too many is judged.
OutOfSampleLong(i) == Slice(i * OosLen + IsLen, i * OosLen + IsLen + OosLen + 1)

\* make_windows; the windows are numbered from 0.
InSample(i)    == Slice(i * OosLen, i * OosLen + IsLen)
OutOfSample(i) == Slice(i * OosLen + IsLen, i * OosLen + IsLen + OosLen)

Evaluations == [return : Returns, trades : Trades, drawdown : Drawdowns, sharpe : Sharpes]

VARIABLES
    window,   \* index of the window the loop is at
    step,     \* the call that comes next, or how the run ended
    params,   \* the slice the current parameters were chosen on
    judged,   \* the out-of-sample slices evaluated so far, with their params
    totals,   \* [isReturn, oosReturn, trades, sharpe, worst] over the windows so far
    verdict   \* the gates and cleared_for_paper, None until written

vars == <<window, step, params, judged, totals, verdict>>

GateNames == {"windows", "wfe", "oos_trades", "oos_sharpe", "oos_max_drawdown"}

TypeOK ==
    /\ window \in 0..NWindows
    /\ step \in {"windows", "optimize", "evaluate_is", "evaluate_oos", "written", "ConfigError"}
    /\ params \in [start : Nat, stop : Nat] \union {None}
    /\ judged \in Seq([oos : [start : Nat, stop : Nat], params : [start : Nat, stop : Nat]])
    /\ totals \in [isReturn : Int, oosReturn : Int, trades : Nat, sharpe : Int, worst : Nat]
    /\ verdict \in [gates : [GateNames -> BOOLEAN], cleared : BOOLEAN] \union {None}

NoTotals == [isReturn |-> 0, oosReturn |-> 0, trades |-> 0, sharpe |-> 0, worst |-> 0]

Init ==
    /\ window = 0 /\ step = "windows"
    /\ params = None /\ judged = <<>>
    /\ totals = NoTotals
    /\ verdict = None

MakeWindows ==
    /\ step = "windows"
    /\ step' = IF OosLen < 1 THEN "ConfigError" ELSE "optimize"
    /\ UNCHANGED <<window, params, judged, totals, verdict>>

OptimizeWindow ==
    /\ step = "optimize" /\ window < NWindows
    /\ params' = InSample(window)
    /\ step' = "evaluate_is"
    /\ UNCHANGED <<window, judged, totals, verdict>>

EvaluateIs(metrics) ==
    /\ step = "evaluate_is"
    /\ totals' = [totals EXCEPT !.isReturn = @ + metrics.return]
    /\ step' = "evaluate_oos"
    /\ UNCHANGED <<window, params, judged, verdict>>

EvaluateOos(metrics) ==
    /\ step = "evaluate_oos"
    /\ judged' = Append(judged, [oos |-> OutOfSample(window), params |-> params])
    /\ totals' = [totals EXCEPT !.oosReturn = @ + metrics.return,
                                !.trades = @ + metrics.trades,
                                !.sharpe = @ + metrics.sharpe,
                                !.worst = IF metrics.drawdown > @ THEN metrics.drawdown ELSE @]
    /\ window' = window + 1
    /\ step' = "optimize"
    /\ UNCHANGED <<params, verdict>>

\* Wrong on purpose: two negative means make a positive efficiency.
WfeOfLosses ==
    IF totals.isReturn > 0
    THEN 100 * totals.oosReturn * IsLen >= MinWfePct * totals.isReturn * OosLen
    ELSE 100 * totals.oosReturn * IsLen <= MinWfePct * totals.isReturn * OosLen

\* WFE = mean(OOS return per bar) / mean(IS return per bar), 0 unless the mean
\* in-sample return is positive; the two spans have different lengths.
WfePasses ==
    IF totals.isReturn > 0
    THEN 100 * totals.oosReturn * IsLen >= MinWfePct * totals.isReturn * OosLen
    ELSE MinWfePct = 0

Gates ==
    [windows          |-> window >= NWindows,
     wfe              |-> WfePasses,
     oos_trades       |-> totals.trades >= MinTrades,
     oos_sharpe       |-> totals.sharpe >= MinSharpe * window,
     oos_max_drawdown |-> totals.worst <= MaxDrawdown]

WriteVerdict ==
    /\ step = "optimize" /\ window = NWindows
    /\ verdict' = [gates |-> Gates, cleared |-> \A g \in GateNames : Gates[g]]
    /\ step' = "written"
    /\ UNCHANGED <<window, params, judged, totals>>

Next ==
    \/ MakeWindows
    \/ OptimizeWindow
    \/ \E metrics \in Evaluations : EvaluateIs(metrics) \/ EvaluateOos(metrics)
    \/ WriteVerdict

Spec == Init /\ [][Next]_vars

----------------------------------------------------------------------------

\* wfo.py:3-5, 39-40: every judgement is walk-forward: parameters come from bars
\* that exist, all of them older than any bar they are judged on.
NoLookahead ==
    \A i \in DOMAIN judged :
        LET j == judged[i]
        IN  /\ BarsOf(j.oos) # {} /\ BarsOf(j.params) # {}
            /\ BarsOf(j.oos) \union BarsOf(j.params) \subseteq 0..(NBars - 1)
            /\ \A seen \in BarsOf(j.params), bar \in BarsOf(j.oos) : seen < bar

\* wfo.py:5 "each OOS segment is touched exactly once": no bar is judged out of
\* sample twice, and together the segments leave no gap.
OosTouchedOnce ==
    \A i, k \in DOMAIN judged :
        /\ i # k => BarsOf(judged[i].oos) \intersect BarsOf(judged[k].oos) = {}
        /\ k = i + 1 => judged[k].oos.start = judged[i].oos.stop

\* wfo.py:7-9, 12-13: a strategy is cleared only on the whole walk: as many
\* judged windows as asked for, trades enough, and out-of-sample returns that,
\* per bar, kept the demanded share of a positive in-sample return.
ClearedMeansEarned ==
    verdict # None /\ verdict.cleared =>
        /\ Len(judged) = NWindows
        /\ totals.trades >= MinTrades /\ totals.worst <= MaxDrawdown
        /\ totals.sharpe >= MinSharpe * NWindows
        /\ MinWfePct > 0 =>
            /\ totals.isReturn > 0
            /\ 100 * totals.oosReturn * IsOosRatio >= MinWfePct * totals.isReturn
=============================================================================
