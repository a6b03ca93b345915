-------------------------------- MODULE Training --------------------------------
(****************************************************************************)
(* What a model is fitted on: src/signals/features.py (the shift and the    *)
(* warmup, not the indicators), src/signals/labels.py and                   *)
(* train_lgbm_artifacts of scripts/train_lgbm.py.  A frame is the bars of   *)
(* one symbol in time order, [day, low, high, close, gap]; `gap` says that  *)
(* some indicator has no value there although its window is full (the      *)
(* z-score of equal closes, say).  Barriers have a fixed width in ticks.     *)
(****************************************************************************)
EXTENDS Common, Sequences, SequencesExt

CONSTANTS
    FeatureWarmup,           \* rows that the longest indicator needs
    VolSpan,                 \* label_vol_span
    TargetWidth, StopWidth,  \* label_pt_mult, label_sl_mult times the volatility
    Horizon,                 \* label_horizon_bars
    TrainPct, ValidPct       \* train_frac, valid_frac

ASSUME TrainingAssumption ==
    /\ {FeatureWarmup, VolSpan, Horizon} \subseteq Nat \ {0}
    /\ {TargetWidth, StopWidth, TrainPct, ValidPct} \subseteq Nat
    /\ TrainPct + ValidPct <= 100

\* compute_features: row t has the raw indicators of row t - 1.
Complete(frame, t) == t > FeatureWarmup /\ ~frame[t - 1].gap

\* _reject_post_warmup_gaps: after the first complete row all must be.  A gap is a NaN.
HasGap(frame) ==
    \E u \in 2..Len(frame) : frame[u - 1].gap /\ \E t \in 1..(u - 1) : Complete(frame, t)

\* ewma_volatility: VolSpan returns, and not all of them equal.
VolatilityKnown(frame, t) ==
    /\ t > VolSpan
    /\ \E u, v \in 2..t : frame[u].close * frame[v - 1].close # frame[v].close * frame[u - 1].close

HitsStop(frame, t, j)   == frame[j].low <= frame[t].close - StopWidth
HitsTarget(frame, t, j) == frame[j].high >= frame[t].close + TargetWidth

\* Wrong on purpose: of two barriers within a bar the target wins.
OutcomeTargetFirst(frame, t, j) == IF HitsTarget(frame, t, j) THEN 1 ELSE 0

Outcome(frame, t, j) == IF HitsStop(frame, t, j) THEN 0 ELSE 1

\* Bars that the label of t may look at.
Scanned(frame, t) == (t + 1)..Least(t + Horizon, Len(frame))

\* triple_barrier_labels: 1, 0, or None where undecidable.
Label(frame, t) ==
    LET touches == {j \in Scanned(frame, t) : HitsStop(frame, t, j) \/ HitsTarget(frame, t, j)}
    IN  IF ~VolatilityKnown(frame, t) THEN None
        ELSE IF touches # {} THEN Outcome(frame, t, Min(touches))
        ELSE IF t + Horizon <= Len(frame) THEN 0 ELSE None

\* Rows with all features and a label, from a day on, in time order; rows of one
\* day come by symbol.  frames: symbols are numbered in the order of their names.
Row(s, frame, t) == [symbol |-> s, day |-> frame[t].day, at |-> t, label |-> Label(frame, t)]

UsableRows(frames, from) ==
    UNION {{Row(s, frames[s], t) : t \in {t \in DOMAIN frames[s] :
                /\ frames[s][t].day >= from
                /\ Complete(frames[s], t) /\ Label(frames[s], t) # None}} : s \in DOMAIN frames}

StackedBefore(r, q) == r.day < q.day \/ (r.day = q.day /\ r.symbol < q.symbol)

Stacked(rows) ==
    [i \in 1..Cardinality(rows) |->
        CHOOSE q \in rows : Cardinality({r \in rows : StackedBefore(r, q)}) = i - 1]

\* temporal_split.
Split(rows) ==
    LET n == Len(rows)
        trainEnd == (n * TrainPct) \div 100
        validEnd == (n * (TrainPct + ValidPct)) \div 100
    IN  [train |-> SubSeq(rows, 1, trainEnd),
         valid |-> SubSeq(rows, trainEnd + 1, validEnd),
         test  |-> SubSeq(rows, validEnd + 1, n)]

\* train_lgbm_artifacts: the exception, or "ok" and the three parts; only the
\* first is fitted on.
Fit(frames, from) ==
    LET rows  == UsableRows(frames, from)
        parts == Split(Stacked(rows))
    IN  IF \E s \in DOMAIN frames : HasGap(frames[s]) THEN [status |-> "DataValidationError"]
        ELSE IF parts.train = <<>> THEN [status |-> "ValueError"]
        ELSE [status |-> "ok", parts |-> parts]

\* The days whose bars a row's features and label were computed from.
ReadBy(frames, row) ==
    LET frame == frames[row.symbol]
    IN  {frame[t].day : t \in 1..row.at \union Scanned(frame, row.at)}
=============================================================================
