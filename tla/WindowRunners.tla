------------------------------ MODULE WindowRunners ------------------------------
(****************************************************************************)
(* The program around the walk: main and make_window_runners of             *)
(* scripts/run_backtest.py, which feed Wfo with bars, train a model per     *)
(* window and run the engine on it.  Every action of the walk is one of     *)
(* Wfo's with more conjuncts.  bars[s] is the frame of symbol number s; the *)
(* days of all frames together are 0..NBars-1.                              *)
(****************************************************************************)
EXTENDS Wfo, Training, StrategyNames

CONSTANTS
    Trained,         \* those with a model: momentum_lightgbm
    NeedNews,        \* those whose name ends in _sentiment
    Histories,       \* what the store may hold: [bars, news], see below
    WarmupDays,      \* strategy.warmup_bars
    MaxWalks         \* bound: runs of the program

\* A bar: what is read of its row, and whether an indicator has no value there or
\* its news are not neutral.
Bars == [day : Nat, low : Int, high : Int, close : Int, gap : BOOLEAN, news : BOOLEAN]

\* get_bars: one bar of a symbol and day (the primary key), oldest first.
InTimeOrder(frame) == \A t, u \in DOMAIN frame : t < u => frame[t].day < frame[u].day

\* news[s]: the days for which the store has a score of symbol s.
ASSUME RunnersAssumption ==
    /\ Trained \subseteq Strategies /\ NeedNews \subseteq Strategies
    /\ WarmupDays \in Nat /\ MaxWalks \in Nat
    /\ \A h \in Histories :
       /\ h.bars \in Seq(Seq(Bars)) /\ \A s \in DOMAIN h.bars : InTimeOrder(h.bars[s])
       /\ UNION {{h.bars[s][t].day : t \in DOMAIN h.bars[s]} : s \in DOMAIN h.bars} = 0..(NBars - 1)

VARIABLES
    store,       \* the history that this database holds
    job,         \* the strategy being walked, None when the program is not running
    exit,        \* how the last run ended: its verdict, or the exception; None before it
    artifacts,   \* the artifact directories of the run, in the order of window_ids
    judges,      \* for every judged window, the artifact that was loaded, None for rules
    walks

runner == <<store, job, exit, artifacts, judges, walks>>

Exceptions == {"ConfigError", "DataValidationError", "ValueError"}
Rows == [symbol : Nat, day : Nat, at : Nat, label : 0..1]

RunnerTypeOK ==
    /\ store \in Histories
    /\ job \in Strategies \union {None}
    /\ exit \in {"code 0", "code 1", None} \union Exceptions
    /\ artifacts \in Seq([train : Seq(Rows), valid : Seq(Rows), test : Seq(Rows)])
    /\ judges \in Seq(DOMAIN artifacts \union {None})
    /\ walks \in 0..MaxWalks

RunnerInit ==
    /\ store \in Histories
    /\ job = None /\ exit = None
    /\ artifacts = <<>> /\ judges = <<>>
    /\ walks = 0

\* The bars of days first..last, in a frame in time order a run of it; a symbol
\* without any is an empty frame.
RunOfDays(frame, first, last) ==
    LET kept == {t \in DOMAIN frame : frame[t].day \in first..last}
    IN  IF kept = {} THEN <<>> ELSE SubSeq(frame, Min(kept), Max(kept))

Between(first, last) ==
    [s \in DOMAIN store.bars |-> RunOfDays(store.bars[s], first, last)]

\* bars_with_lead_in.
BarsWithLeadIn(slice) == Between(Max({0, slice.start - WarmupDays}), slice.stop - 1)

\* main: a veto without news for some symbol would be a lie in the results.
LacksNews(s) == s \in NeedNews /\ \E n \in DOMAIN store.news : store.news[n] = {}

StartWfo(s) ==
    /\ job = None /\ walks < MaxWalks
    /\ walks' = walks + 1
    /\ job' = IF LacksNews(s) THEN None ELSE s
    /\ exit' = IF LacksNews(s) THEN "ConfigError" ELSE None
    /\ artifacts' = <<>> /\ judges' = <<>>
    /\ window' = 0 /\ step' = "windows" /\ params' = None /\ judged' = <<>>
    /\ totals' = NoTotals /\ verdict' = None
    /\ UNCHANGED store

\* An exception ends the program before anything is written to the results.
Raise(exception) ==
    /\ job' = None /\ exit' = exception
    /\ UNCHANGED <<vars, store, artifacts, judges, walks>>

CutWindows ==
    /\ job # None
    /\ MakeWindows
    /\ job' = IF step' = "ConfigError" THEN None ELSE job
    /\ exit' = IF step' = "ConfigError" THEN "ConfigError" ELSE None
    /\ UNCHANGED <<store, artifacts, judges, walks>>

\* Wrong on purpose: the lead-in is trained on.
FitWindowWithLeadIn(slice) == Fit(BarsWithLeadIn(slice), 0)

FitWindow(slice) == Fit(BarsWithLeadIn(slice), slice.start)

\* optimize_window: only a model is fitted, rules are not.
TrainWindow ==
    /\ job # None /\ step = "optimize" /\ window < NWindows
    /\ LET fit == FitWindow(InSample(window))
       IN  IF job \in Trained /\ fit.status # "ok"
           THEN Raise(fit.status)
           ELSE /\ OptimizeWindow
                /\ artifacts' = IF job \in Trained THEN Append(artifacts, fit.parts) ELSE artifacts
                /\ UNCHANGED <<store, job, exit, judges, walks>>

\* LightGBMSignalGenerator.__init__.
HasPositiveClass(artifact) == \E i \in DOMAIN artifact.train : artifact.train[i].label = 1

\* Features are computed over the strategy's buffer at every bar.
EngineMeetsGap(slice) ==
    LET frames == BarsWithLeadIn(slice)
    IN  \E s \in DOMAIN frames : \E t \in WarmupDays..Len(frames[s]) :
            HasGap(SubSeq(frames[s], t - WarmupDays + 1, t))

\* evaluate_window: what building the strategy or running the engine raises.
EvaluationFails(slice) ==
    IF job \in Trained /\ ~HasPositiveClass(Last(artifacts)) THEN "ConfigError"
    ELSE IF EngineMeetsGap(slice) THEN "DataValidationError"
    ELSE None

\* run_wfo calls it twice, with the same parameters.
RunIs ==
    /\ job # None /\ step = "evaluate_is"
    /\ LET failure == EvaluationFails(InSample(window))
       IN  IF failure # None THEN Raise(failure)
           ELSE /\ \E metrics \in Evaluations : EvaluateIs(metrics)
                /\ UNCHANGED runner

RunOos ==
    /\ job # None /\ step = "evaluate_oos"
    /\ LET failure == EvaluationFails(OutOfSample(window))
       IN  IF failure # None THEN Raise(failure)
           ELSE /\ \E metrics \in Evaluations : EvaluateOos(metrics)
                /\ judges' = Append(judges, IF job \in Trained THEN Len(artifacts) ELSE None)
                /\ UNCHANGED <<store, job, exit, artifacts, walks>>

\* The file is written and the program exits, with code 0 if it was cleared.
Conclude ==
    /\ job # None
    /\ WriteVerdict
    /\ job' = None /\ exit' = IF verdict'.cleared THEN "code 0" ELSE "code 1"
    /\ UNCHANGED <<store, artifacts, judges, walks>>

----------------------------------------------------------------------------

RowsOf(artifact) ==
    UNION {ToSet(artifact.train), ToSet(artifact.valid), ToSet(artifact.test)}

\* run_backtest.py:1-3, train_lgbm.py:32, 47-49: what judges a window was fitted in
\* that window, on rows of its in-sample days alone, none of them later than a row
\* that was held out, over all symbols; and none of the bars behind their features
\* and forward-looking labels belongs to the judged days or later.
TrainedOnThePast ==
    \A i \in DOMAIN judges : judges[i] # None =>
        LET artifact == artifacts[judges[i]]
            held     == ToSet(artifact.valid) \union ToSet(artifact.test)
        IN  /\ \A row \in RowsOf(artifact) :
                  /\ row.day \in BarsOf(InSample(i - 1))
                  /\ \A day \in ReadBy(BarsWithLeadIn(InSample(i - 1)), row) : day < judged[i].oos.start
            /\ \A fitted \in ToSet(artifact.train), other \in held : fitted.day <= other.day

\* labels.py:33-40: a label of 1 says that the target was touched within the
\* horizon and the stop was not until then, that bar included; a label of 0 that
\* the stop was touched with no target before, or that the horizon passed.
LabelsTellOutcome ==
    \A i \in DOMAIN artifacts : \A row \in RowsOf(artifacts[i]) :
        LET frame == BarsWithLeadIn(InSample(i - 1))[row.symbol]
            t     == row.at
            later == {j \in DOMAIN frame : t < j /\ j <= t + Horizon}
            won   == \E j \in later : /\ HitsTarget(frame, t, j)
                                      /\ \A k \in later : k <= j => ~HitsStop(frame, t, k)
            lost  == \E j \in later : /\ HitsStop(frame, t, j)
                                      /\ \A k \in later : k < j => ~HitsTarget(frame, t, k)
            expired == t + Horizon \in DOMAIN frame
        IN  IF row.label = 1 THEN won ELSE ~won /\ (lost \/ expired)
=============================================================================
