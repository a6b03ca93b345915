------------------------------- MODULE AbSentiment -------------------------------
(****************************************************************************)
(* scripts/ab_sentiment.py: does the news column improve a model?  In every *)
(* window one model without and one with it are fitted and scored.  Nothing *)
(* else runs in that program, and nothing reads what it writes.  A bar has  *)
(* one more field, news, that says whether its news column is not neutral.  *)
(****************************************************************************)
EXTENDS WindowRunners

VARIABLE ab   \* per window and variant the rows fitted on and scored, or how it ended

AbInit == ab = None

\* Wrong on purpose: an inner join, days without news are lost.
MergeSentimentInner(frame, news) == SelectSeq(frame, LAMBDA bar : bar.day \in news)

\* merge_sentiment: a left join, a day without news is neutral.  The column takes
\* part in no condition on rows: it is never missing.
MergeSentiment(frame, news) ==
    [t \in DOMAIN frame |->
        [frame[t] EXCEPT !.news = frame[t].day \in news]]

Variant(frames, variant) ==
    IF variant = "base" THEN frames
    ELSE [s \in DOMAIN frames |-> MergeSentiment(frames[s], store.news[s])]

\* oos_auc: every usable row of the span and of its lead-in.
OosRows(frames) == UsableRows(frames, 0)

Measure(w, variant) ==
    LET inSample == Variant(BarsWithLeadIn(InSample(w)), variant)
        oos      == Variant(BarsWithLeadIn(OutOfSample(w)), variant)
        fit      == Fit(inSample, InSample(w).start)
    IN  IF fit.status # "ok" THEN [status |-> fit.status]
        ELSE IF \E s \in DOMAIN oos : HasGap(oos[s]) THEN [status |-> "DataValidationError"]
        ELSE [status |-> "ok", fitted |-> ToSet(fit.parts.train), scored |-> OosRows(oos)]

\* main: one exception and there is no summary.
Compare ==
    /\ ab = None /\ OosLen >= 1
    /\ LET measures == [w \in 0..(NWindows - 1) |->
                           [variant \in {"base", "news"} |-> Measure(w, variant)]]
       IN  ab' = IF \E w \in DOMAIN measures, v \in {"base", "news"} : measures[w][v].status # "ok"
                 THEN [failed |-> TRUE]
                 ELSE [failed |-> FALSE, measures |-> measures]

\* The AUC of a window is defined when its rows have both labels.
Defined(measure) == {row.label : row \in measure.scored} = {0, 1}

Days(rows) == {row.day : row \in rows}

\* ab_sentiment.py:7-10: a window's two models were fitted on the same rows, all
\* older than its out-of-sample days, and are scored on the same rows, none later.
ComparisonIsPaired ==
    ab # None /\ ~ab.failed => \A w \in DOMAIN ab.measures :
        LET base == ab.measures[w]["base"]
            news == ab.measures[w]["news"]
        IN  /\ base.fitted = news.fitted /\ base.scored = news.scored
            /\ Defined(base) = Defined(news)
            /\ \A row \in base.fitted : row.day < OutOfSample(w).start
            /\ Days(base.scored) \subseteq 0..(OutOfSample(w).stop - 1)
=============================================================================
