----------------------------- MODULE PromotionProofs -----------------------------
(****************************************************************************)
(* Theorems about Promotion, for every store, strategy, evaluation and      *)
(* interleaving: what is proved of one walk and of the results directory    *)
(* holds when walks follow each other, fail in the middle and run beside    *)
(* paper sessions.                                                          *)
(****************************************************************************)
EXTENDS Promotion, FiniteTheorems, SequenceTheorems

----------------------------------------------------------------------------
\* One walk (Wfo), for every number of bars and windows, every ratio of the two
\* spans, and every optimizer and evaluator.

\* wfo.py:41-42: rounded down, the windows fit into the bars.
LEMMA Quotient ==
    ASSUME NEW a \in Nat, NEW b \in Nat \ {0}
    PROVE  a \div b \in Nat /\ (a \div b) * b <= a
OBVIOUS

LEMMA OosLenType ==
    /\ OosLen \in Nat /\ IsLen \in Nat /\ IsLen = IsOosRatio * OosLen
    /\ NWindows * OosLen + IsLen <= NBars
<1>1. NWindows + IsOosRatio \in Nat \ {0} /\ NBars \in Nat
  BY WindowsAssumption
<1>2. OosLen \in Nat /\ OosLen * (NWindows + IsOosRatio) <= NBars
  BY <1>1, Quotient DEF OosLen
<1> DEFINE o == OosLen
<1> HIDE DEF o
<1>3. o \in Nat /\ o * (NWindows + IsOosRatio) <= NBars
  BY <1>2 DEF o
<1>4. o * (NWindows + IsOosRatio) = NWindows * o + IsOosRatio * o /\ IsOosRatio * o \in Nat
  BY <1>3, WindowsAssumption
<1> QED
  BY <1>3, <1>4 DEF IsLen, o

\* wfo.py:38-54: where the i-th window lies.
LEMMA WindowBounds ==
    ASSUME NEW i \in Nat, i < NWindows, OosLen >= 1
    PROVE  /\ InSample(i).start \in Nat
           /\ InSample(i).start < InSample(i).stop
           /\ InSample(i).stop = OutOfSample(i).start
           /\ OutOfSample(i).stop = OutOfSample(i).start + OosLen
           /\ OutOfSample(i).start \in Nat /\ OutOfSample(i).stop \in Nat
           /\ OutOfSample(i).stop <= NBars
<1> DEFINE o == OosLen
           r == IsLen
<1>1. /\ o \in Nat /\ o >= 1 /\ r \in Nat /\ r = IsOosRatio * o
      /\ NWindows * o + r <= NBars
  BY OosLenType
<1>2. /\ InSample(i).start = i * o /\ InSample(i).stop = i * o + r
      /\ OutOfSample(i).start = i * o + r /\ OutOfSample(i).stop = i * o + r + o
  BY DEF InSample, OutOfSample, Slice
<1> HIDE DEF o, r
<1>3. i * o \in Nat /\ (i + 1) * o = i * o + o
  BY <1>1
<1>4. r >= 1
  BY <1>1, WindowsAssumption
<1>5. (i + 1) * o <= NWindows * o /\ NWindows * o \in Nat
  BY <1>1, WindowsAssumption
<1>6. i * o + r + o <= NBars /\ NBars \in Nat
  BY <1>1, <1>3, <1>5, WindowsAssumption
<1> QED
  BY <1>1, <1>2, <1>3, <1>4, <1>6 DEF o

\* wfo.py:44-52: the segments follow each other, later windows on later bars.
LEMMA SegmentsInOrder ==
    ASSUME NEW i \in Nat, NEW k \in Nat, i < k
    PROVE  /\ k = i + 1 => OutOfSample(k).start = OutOfSample(i).stop
           /\ OutOfSample(i).stop <= OutOfSample(k).start
           /\ OutOfSample(i).stop \in Int /\ OutOfSample(k).start \in Int
<1> DEFINE o == OosLen
           r == IsLen
<1>1. o \in Nat /\ r \in Nat
  BY OosLenType
<1>2. OutOfSample(k).start = k * o + r /\ OutOfSample(i).stop = i * o + r + o
  BY DEF OutOfSample, Slice
<1> HIDE DEF o, r
<1>3. i * o \in Nat /\ k * o \in Nat /\ (i + 1) * o = i * o + o
  BY <1>1
<1>4. (i + 1) * o <= k * o
  BY <1>1
<1> QED
  BY <1>1, <1>2, <1>3, <1>4

----------------------------------------------------------------------------
\* The inductive invariant: what is judged so far is the first windows, each with
\* parameters of its own in-sample span.

Progress ==
    /\ window \in 0..NWindows
    /\ step \in {"windows", "optimize", "evaluate_is", "evaluate_oos", "written", "ConfigError"}
    /\ step \in {"windows", "ConfigError"} => window = 0
    /\ step \notin {"windows", "ConfigError"} => OosLen >= 1
    /\ step \in {"evaluate_is", "evaluate_oos"} => window < NWindows /\ params = InSample(window)

WalkedSoFar ==
    /\ judged \in Seq([oos : [start : Nat, stop : Nat], params : [start : Nat, stop : Nat]])
    /\ Len(judged) = window
    /\ \A i \in 1..window : judged[i] = [oos |-> OutOfSample(i - 1), params |-> InSample(i - 1)]

\* The verdict is the conjunction of the gates on the totals of the whole walk.
VerdictOnTotals ==
    /\ totals \in [isReturn : Int, oosReturn : Int, trades : Nat, sharpe : Int, worst : Nat]
    /\ verdict # None => /\ step = "written" /\ window = NWindows
                         /\ verdict.cleared = (\A g \in GateNames : Gates[g])

IInv == Progress /\ WalkedSoFar /\ VerdictOnTotals

LEMMA InitIInv == Init => IInv
<1> SUFFICES ASSUME Init PROVE IInv
  OBVIOUS
<1>1. Progress
  BY WindowsAssumption DEF Init, NoTotals, Progress
<1>2. WalkedSoFar
  BY WindowsAssumption DEF Init, NoTotals, WalkedSoFar
<1>3. VerdictOnTotals
  BY DEF Init, NoTotals, VerdictOnTotals
<1> QED
  BY <1>1, <1>2, <1>3 DEF IInv

LEMMA SliceType ==
    ASSUME NEW i \in Nat
    PROVE  /\ InSample(i) \in [start : Nat, stop : Nat]
           /\ OutOfSample(i) \in [start : Nat, stop : Nat]
<1> DEFINE o == OosLen
           r == IsLen
<1>1. o \in Nat /\ r \in Nat
  BY OosLenType
<1> HIDE DEF o, r
<1>2. i * o \in Nat /\ i * o + r \in Nat /\ i * o + r + o \in Nat
  BY <1>1
<1> QED
  BY <1>2 DEF InSample, OutOfSample, Slice, o, r

LEMMA EvaluationType ==
    ASSUME NEW metrics \in Evaluations
    PROVE  /\ metrics.return \in Int /\ metrics.sharpe \in Int
           /\ metrics.trades \in Nat /\ metrics.drawdown \in Nat
BY WindowsAssumption DEF Evaluations

LEMMA EvaluateOosStep ==
    ASSUME IInv, NEW metrics \in Evaluations, EvaluateOos(metrics)
    PROVE  IInv'
<1> DEFINE last == [oos |-> OutOfSample(window), params |-> InSample(window)]
           T == [oos : [start : Nat, stop : Nat], params : [start : Nat, stop : Nat]]
<1>1. /\ window \in Nat /\ window < NWindows /\ NWindows \in Nat /\ OosLen >= 1
      /\ window' = window + 1 /\ step' = "optimize" /\ UNCHANGED <<params, verdict>>
      /\ judged' = Append(judged, last)
      /\ step = "evaluate_oos"
  BY WindowsAssumption DEF IInv, Progress, EvaluateOos
<1>2. last \in T
  BY <1>1, SliceType
<1>3. judged \in Seq(T) /\ Len(judged) = window
  BY DEF IInv, WalkedSoFar
<1> HIDE DEF last
<1>4. /\ judged' \in Seq(T) /\ Len(judged') = window + 1
      /\ \A i \in 1..window : judged'[i] = judged[i]
      /\ judged'[window + 1] = last
  BY <1>1, <1>2, <1>3, AppendProperties
<1>5. \A i \in 1..(window + 1) :
        judged'[i] = [oos |-> OutOfSample(i - 1), params |-> InSample(i - 1)]
  <2>1. ASSUME NEW i \in 1..(window + 1)
        PROVE  judged'[i] = [oos |-> OutOfSample(i - 1), params |-> InSample(i - 1)]
    <3>1. CASE i = window + 1
      <4>1. i - 1 = window
        BY <1>1, <3>1
      <4> QED
        BY <1>4, <3>1, <4>1, Zenon DEF last
    <3>2. CASE i # window + 1
      <4>1. i \in 1..window
        BY <1>1, <2>1, <3>2
      <4> QED
        BY <1>4, <4>1 DEF IInv, WalkedSoFar
    <3> QED
      BY <3>1, <3>2
  <2> QED
    BY <2>1
<1>6. WalkedSoFar'
  BY <1>1, <1>4, <1>5 DEF WalkedSoFar
<1>7. Progress'
  BY <1>1 DEF Progress
<1>8. totals' \in [isReturn : Int, oosReturn : Int, trades : Nat, sharpe : Int, worst : Nat]
  <2> DEFINE ret    == totals.oosReturn + metrics.return
             trades == totals.trades + metrics.trades
             sharpe == totals.sharpe + metrics.sharpe
             worst  == IF metrics.drawdown > totals.worst THEN metrics.drawdown ELSE totals.worst
  <2>1. totals \in [isReturn : Int, oosReturn : Int, trades : Nat, sharpe : Int, worst : Nat]
    BY DEF IInv, VerdictOnTotals
  <2>2. ret \in Int /\ trades \in Nat /\ sharpe \in Int /\ worst \in Nat
    BY <2>1, EvaluationType
  <2> HIDE DEF ret, trades, sharpe, worst
  <2>3. totals' = [totals EXCEPT !.oosReturn = ret, !.trades = trades,
                                 !.sharpe = sharpe, !.worst = worst]
    BY <1>1 DEF EvaluateOos, ret, trades, sharpe, worst
  <2> QED
    BY <2>1, <2>2, <2>3
<1>9. verdict' = None
  BY <1>1 DEF IInv, VerdictOnTotals
<1>10. VerdictOnTotals'
  BY <1>8, <1>9 DEF VerdictOnTotals
<1> QED
  BY <1>6, <1>7, <1>10 DEF IInv

LEMMA NextIInv == IInv /\ [Next]_vars => IInv'
<1> SUFFICES ASSUME IInv, [Next]_vars PROVE IInv'
  OBVIOUS
<1>1. /\ window \in Nat /\ NWindows \in Nat /\ OosLen \in Int
      /\ step # "written" => verdict = None
  <2>1. window \in Nat /\ NWindows \in Nat /\ OosLen \in Int
    BY OosLenType, WindowsAssumption DEF IInv, Progress
  <2>2. step # "written" => verdict = None
    BY Zenon DEF IInv, VerdictOnTotals
  <2> QED
    BY <2>1, <2>2
<1>2. CASE MakeWindows
  <2>1. Progress'
    BY <1>1, <1>2 DEF IInv, Progress, MakeWindows
  <2>2. WalkedSoFar' /\ VerdictOnTotals'
    BY <1>1, <1>2 DEF IInv, WalkedSoFar, VerdictOnTotals, MakeWindows
  <2> QED
    BY <2>1, <2>2 DEF IInv
<1>3. CASE OptimizeWindow
  <2>1. Progress'
    BY <1>1, <1>3 DEF IInv, Progress, OptimizeWindow
  <2>2. WalkedSoFar' /\ VerdictOnTotals'
    BY <1>1, <1>3 DEF IInv, WalkedSoFar, VerdictOnTotals, OptimizeWindow
  <2> QED
    BY <2>1, <2>2 DEF IInv
<1>4. ASSUME NEW metrics \in Evaluations, EvaluateIs(metrics) PROVE IInv'
  <2>1. Progress'
    BY <1>1, <1>4 DEF IInv, Progress, EvaluateIs
  <2>2. WalkedSoFar'
    BY <1>4 DEF IInv, WalkedSoFar, EvaluateIs
  <2>3. totals' \in [isReturn : Int, oosReturn : Int, trades : Nat, sharpe : Int, worst : Nat]
    BY <1>4, EvaluationType DEF IInv, VerdictOnTotals, EvaluateIs
  <2>4. verdict' = None
    BY <1>1, <1>4 DEF EvaluateIs
  <2>5. VerdictOnTotals'
    BY <2>3, <2>4 DEF VerdictOnTotals
  <2> QED
    BY <2>1, <2>2, <2>5 DEF IInv
<1>5. ASSUME NEW metrics \in Evaluations, EvaluateOos(metrics) PROVE IInv'
  BY <1>5, EvaluateOosStep
<1>6. CASE WriteVerdict
  <2>1. /\ UNCHANGED <<window, params, judged, totals>> /\ step' = "written"
        /\ step = "optimize" /\ window = NWindows
    BY <1>6 DEF WriteVerdict
  <2>2. Progress' /\ WalkedSoFar'
    BY <2>1 DEF IInv, Progress, WalkedSoFar
  <2>3. Gates' = Gates
    BY <2>1 DEF Gates, WfePasses
  <2>4. verdict' = [gates |-> Gates, cleared |-> \A g \in GateNames : Gates[g]]
    BY <1>6 DEF WriteVerdict
  <2>5. verdict'.cleared = (\A g \in GateNames : Gates[g])
    BY <2>4
  <2>6. VerdictOnTotals'
    BY <2>1, <2>3, <2>5 DEF IInv, VerdictOnTotals
  <2> QED
    BY <2>2, <2>6 DEF IInv
<1>7. CASE UNCHANGED vars
  BY <1>7 DEF IInv, Progress, WalkedSoFar, VerdictOnTotals, Gates, WfePasses, vars
<1> QED
  BY <1>2, <1>3, <1>4, <1>5, <1>6, <1>7 DEF Next

THEOREM IInvHolds == Spec => []IInv
<1> QED
  BY InitIInv, NextIInv, PTL DEF Spec

\* wfo.py:3-5, 38-54: no parameters are judged on a bar that the optimizer could
\* have seen, or that does not exist.
LEMMA InvNoLookahead == IInv => NoLookahead
<1> SUFFICES ASSUME IInv, NEW i \in DOMAIN judged
             PROVE  LET j == judged[i]
                    IN  /\ BarsOf(j.oos) # {} /\ BarsOf(j.params) # {}
                        /\ BarsOf(j.oos) \union BarsOf(j.params) \subseteq 0..(NBars - 1)
                        /\ \A seen \in BarsOf(j.params), b \in BarsOf(j.oos) : seen < b
  BY DEF NoLookahead
<1>1. i \in Nat /\ i - 1 \in Nat /\ i - 1 < NWindows /\ i \in 1..window /\ OosLen >= 1
  <2>1. i \in 1..window /\ window \in 0..NWindows
    BY LenProperties DEF IInv, Progress, WalkedSoFar
  <2> QED
    BY <2>1, WindowsAssumption DEF IInv, Progress
<1>2. judged[i].oos = OutOfSample(i - 1) /\ judged[i].params = InSample(i - 1)
  BY <1>1, SMTT(20) DEF IInv, WalkedSoFar
<1> DEFINE seen == InSample(i - 1)
           oos  == OutOfSample(i - 1)
<1>3. /\ seen.start \in Nat /\ seen.start < seen.stop /\ seen.stop = oos.start
      /\ oos.stop = oos.start + OosLen /\ oos.start \in Nat /\ oos.stop \in Nat
      /\ oos.stop <= NBars
  BY <1>1, WindowBounds
<1> HIDE DEF seen, oos
<1>4. NBars \in Nat /\ OosLen \in Nat
  BY WindowsAssumption, OosLenType
<1>5. oos.start \in BarsOf(oos) /\ seen.start \in BarsOf(seen)
  BY <1>1, <1>3, <1>4 DEF BarsOf
<1>6. BarsOf(oos) \union BarsOf(seen) \subseteq 0..(NBars - 1)
  BY <1>1, <1>3, <1>4 DEF BarsOf
<1>7. \A a \in BarsOf(seen), b \in BarsOf(oos) : a < b
  BY <1>3 DEF BarsOf
<1> QED
  BY <1>2, <1>5, <1>6, <1>7 DEF seen, oos

\* So no run of the walk ever looks ahead.
THEOREM NeverLooksAhead == Spec => []NoLookahead
<1> QED
  BY InvNoLookahead, IInvHolds, PTL

\* wfo.py:5: "each OOS segment is touched exactly once".
LEMMA InvOosTouchedOnce == IInv => OosTouchedOnce
<1> SUFFICES ASSUME IInv
             PROVE  \A i, k \in DOMAIN judged :
                      /\ i # k => BarsOf(judged[i].oos) \intersect BarsOf(judged[k].oos) = {}
                      /\ k = i + 1 => judged[k].oos.start = judged[i].oos.stop
  BY DEF OosTouchedOnce
<1>1. ASSUME NEW i \in DOMAIN judged
      PROVE  i \in Int /\ i - 1 \in Nat /\ judged[i].oos = OutOfSample(i - 1)
  <2>1. i \in 1..window /\ window \in 0..NWindows
    BY LenProperties DEF IInv, Progress, WalkedSoFar
  <2> QED
    BY <2>1, WindowsAssumption, SMTT(20) DEF IInv, WalkedSoFar
<1>2. ASSUME NEW i \in DOMAIN judged, NEW k \in DOMAIN judged, i < k
      PROVE  /\ BarsOf(judged[i].oos) \intersect BarsOf(judged[k].oos) = {}
             /\ k = i + 1 => judged[k].oos.start = judged[i].oos.stop
  <2>1. /\ i \in Int /\ k \in Int /\ i - 1 \in Nat /\ k - 1 \in Nat
        /\ judged[i].oos = OutOfSample(i - 1) /\ judged[k].oos = OutOfSample(k - 1)
    BY <1>1
  <2>2. i - 1 < k - 1 /\ (k = i + 1 => k - 1 = (i - 1) + 1)
    BY <1>2, <2>1
  <2>3. /\ k = i + 1 => judged[k].oos.start = judged[i].oos.stop
        /\ judged[i].oos.stop <= judged[k].oos.start
        /\ judged[i].oos.stop \in Int /\ judged[k].oos.start \in Int
    BY <2>1, <2>2, SegmentsInOrder
  <2>4. BarsOf(judged[i].oos) \intersect BarsOf(judged[k].oos) = {}
    BY <2>3 DEF BarsOf
  <2> QED
    BY <2>3, <2>4
<1>3. \A i, k \in DOMAIN judged : i < k \/ i = k \/ k < i
  BY <1>1
<1>4. \A i, k \in DOMAIN judged : k = i + 1 => i < k
  BY <1>1
<1> QED
  BY <1>2, <1>3, <1>4

\* So no bar is judged twice, and none in between is left out.
THEOREM OosTouchedOnceAlways == Spec => []OosTouchedOnce
<1> QED
  BY InvOosTouchedOnce, IInvHolds, PTL

\* wfo.py:88-126: the clearance cannot be had on part of the walk, on too few
\* trades or on in-sample returns.
LEMMA InvClearedMeansEarned == IInv => ClearedMeansEarned
<1> SUFFICES ASSUME IInv, verdict # None, verdict.cleared
             PROVE  /\ Len(judged) = NWindows
                    /\ totals.trades >= MinTrades /\ totals.worst <= MaxDrawdown
                    /\ totals.sharpe >= MinSharpe * NWindows
                    /\ MinWfePct > 0 =>
                        /\ totals.isReturn > 0
                        /\ 100 * totals.oosReturn * IsOosRatio >= MinWfePct * totals.isReturn
  BY DEF ClearedMeansEarned
<1>1. window = NWindows /\ step = "written" /\ \A g \in GateNames : Gates[g]
  BY DEF IInv, VerdictOnTotals
<1>2. /\ Gates.wfe /\ Gates.oos_trades /\ Gates.oos_sharpe /\ Gates.oos_max_drawdown
  BY <1>1 DEF GateNames
<1>3. /\ WfePasses /\ totals.trades >= MinTrades
      /\ totals.sharpe >= MinSharpe * window /\ totals.worst <= MaxDrawdown
  BY <1>2 DEF Gates
<1>4. Len(judged) = NWindows
  BY <1>1 DEF IInv, WalkedSoFar
<1>5. ASSUME MinWfePct > 0
      PROVE  /\ totals.isReturn > 0
             /\ 100 * totals.oosReturn * IsOosRatio >= MinWfePct * totals.isReturn
  <2> DEFINE kept == 100 * totals.oosReturn * IsOosRatio
             asked == MinWfePct * totals.isReturn
  <2>1. /\ totals.isReturn \in Int /\ totals.oosReturn \in Int
        /\ MinWfePct \in Nat /\ IsOosRatio \in Nat
        /\ OosLen \in Nat /\ OosLen >= 1
    BY <1>1, OosLenType, WindowsAssumption DEF IInv, Progress, VerdictOnTotals
  <2>2. totals.isReturn > 0
    BY <1>3, <1>5, <2>1 DEF WfePasses
  <2>3. 100 * totals.oosReturn * (IsOosRatio * OosLen) >= MinWfePct * totals.isReturn * OosLen
    BY <1>3, <2>2 DEF WfePasses, IsLen
  <2>4. kept \in Int /\ asked \in Int
    BY <2>1
  <2>5. 100 * totals.oosReturn * (IsOosRatio * OosLen) = kept * OosLen
    BY <2>1
  <2> HIDE DEF kept, asked
  <2>6. kept * OosLen >= asked * OosLen
    BY <2>3, <2>5 DEF asked
  <2>7. kept >= asked
    BY <2>1, <2>4, <2>6
  <2> QED
    BY <2>2, <2>7 DEF kept, asked
<1> QED
  BY <1>1, <1>3, <1>4, <1>5

\* So a clearance is earned on the whole walk.
THEOREM ClearanceIsEarned == Spec => []ClearedMeansEarned
<1> QED
  BY InvClearedMeansEarned, IInvHolds, PTL

----------------------------------------------------------------------------
\* The results directory (Clearance), for any strategies, verdicts and times: of a
\* name that no other name continues, the last verdict decides.

\* The newest file of a strategy has the verdict of its last run.
NewestOf(s, f) ==
    /\ f \in files /\ f.strategy = s
    /\ \A g \in files \ {f} : g.strategy = s => g.at < f.at

LastOnFile ==
    \A s \in Strategies :
        (\E g \in files : g.strategy = s) => \E f \in files : NewestOf(s, f) /\ f.cleared = lastRun[s]

PaperInv ==
    /\ clock \in Nat
    /\ files \subseteq [strategy : Strategies, at : Nat, cleared : BOOLEAN]
    /\ lastRun \in [Strategies -> BOOLEAN \union {None}]
    /\ \A f \in files : f.at <= clock
    /\ LastOnFile

LEMMA InitPaperInv == PaperInit => PaperInv
BY DEF PaperInit, PaperInv, LastOnFile

\* wfo.py:102-121: a file of the same second is overwritten, all others are older.
LEMMA RunWfoStep ==
    ASSUME PaperInv, NEW s \in Strategies, NEW cleared \in BOOLEAN, RunWfo(s, cleared)
    PROVE  PaperInv'
<1> DEFINE kept == {f \in files : ~(f.strategy = s /\ f.at = clock)}
<1>0. [strategy |-> s, at |-> clock, cleared |-> cleared]
        \in [strategy : Strategies, at : Nat, cleared : BOOLEAN]
  BY DEF PaperInv
<1>1. PICK new \in [strategy : Strategies, at : Nat, cleared : BOOLEAN] :
        /\ new = [strategy |-> s, at |-> clock, cleared |-> cleared]
        /\ new.strategy = s /\ new.at = clock /\ new.cleared = cleared
  BY <1>0
<1>2. /\ files' = kept \union {new} /\ clock' = clock
      /\ lastRun' = [lastRun EXCEPT ![s] = cleared]
  BY <1>1 DEF RunWfo
<1>3. \A f \in kept : f \in files /\ f.at \in Nat /\ f.at <= clock /\ (f.strategy = s => f.at < clock)
  BY DEF PaperInv
<1>4. /\ clock' \in Nat /\ lastRun' \in [Strategies -> BOOLEAN \union {None}]
      /\ files' \subseteq [strategy : Strategies, at : Nat, cleared : BOOLEAN]
      /\ \A f \in files' : f.at <= clock'
  BY <1>1, <1>2, <1>3 DEF PaperInv
<1>5. ASSUME NEW t \in Strategies, NEW g \in files', g.strategy = t
      PROVE  \E f \in files' : NewestOf(t, f)' /\ f.cleared = lastRun'[t]
  <2>1. CASE t = s
    <3>1. NewestOf(s, new)'
      BY <1>1, <1>2, <1>3 DEF NewestOf
    <3>2. new.cleared = lastRun'[s] /\ new \in files'
      BY <1>1, <1>2 DEF PaperInv
    <3> QED
      BY <2>1, <3>1, <3>2
  <2>2. CASE t # s
    <3>1. g \in files /\ lastRun'[t] = lastRun[t]
      BY <1>1, <1>2, <1>5, <2>2 DEF PaperInv
    <3>2. PICK f \in files : NewestOf(t, f) /\ f.cleared = lastRun[t]
      BY <1>5, <3>1 DEF PaperInv, LastOnFile
    <3>3. f \in files'
      BY <1>2, <2>2, <3>2 DEF NewestOf
    <3>4. NewestOf(t, f)'
      BY <1>1, <1>2, <2>2, <3>2, <3>3 DEF NewestOf
    <3> QED
      BY <3>1, <3>2, <3>3, <3>4
  <2> QED
    BY <2>1, <2>2
<1>6. LastOnFile'
  BY <1>5 DEF LastOnFile
<1> QED
  BY <1>4, <1>6 DEF PaperInv

LEMMA NextPaperInv == PaperInv /\ [PaperNext]_paper => PaperInv'
<1> SUFFICES ASSUME PaperInv, [PaperNext]_paper PROVE PaperInv'
  OBVIOUS
<1>1. ASSUME NEW s \in Strategies, NEW cleared \in BOOLEAN, RunWfo(s, cleared) PROVE PaperInv'
  BY <1>1, RunWfoStep
<1>2. CASE Tick
  <2>1. clock \in Nat /\ clock' = clock + 1 /\ UNCHANGED <<files, lastRun>>
    BY <1>2 DEF PaperInv, Tick
  <2> QED
    BY <2>1 DEF PaperInv, LastOnFile, NewestOf
<1>3. ASSUME UNCHANGED <<clock, files, lastRun>> PROVE PaperInv'
  BY <1>3 DEF PaperInv, LastOnFile, NewestOf
<1>4. CASE \E s \in Strategies : StartPaper(s)
  BY <1>3, <1>4 DEF StartPaper
<1>5. CASE StopPaper \/ UNCHANGED paper
  BY <1>3, <1>5 DEF StopPaper, paper
<1> QED
  BY <1>1, <1>2, <1>4, <1>5 DEF PaperNext

\* run_paper.py:49-55: the last of the sorted files is the newest one.
LEMMA LatestIsNewest ==
    ASSUME PaperInv, NEW s \in Strategies, Continuations[s] = {}, Matching(s) # {}
    PROVE  Latest(s) \in files /\ Latest(s).cleared = lastRun[s]
<1>1. \A f : f \in Matching(s) <=> f \in files /\ f.strategy = s
  BY DEF Matching
<1>2. PICK f \in files : NewestOf(s, f) /\ f.cleared = lastRun[s]
  BY <1>1 DEF PaperInv, LastOnFile
<1>3. \A g \in Matching(s) : g.at \in Nat
  BY <1>1 DEF PaperInv
<1>4. \A g, h \in Matching(s) : SortsBefore(s, g, h) <=> g.at < h.at
  BY <1>1 DEF SortsBefore
<1>5. f \in Matching(s) /\ \A g \in Matching(s) \ {f} : SortsBefore(s, g, f)
  BY <1>1, <1>2, <1>4 DEF NewestOf
<1>6. ASSUME NEW x \in Matching(s), \A g \in Matching(s) \ {x} : SortsBefore(s, g, x)
      PROVE  x = f
  BY <1>3, <1>4, <1>5, <1>6
<1>7. Latest(s) = f
  BY <1>5, <1>6 DEF Latest
<1> QED
  BY <1>2, <1>7

\* The property, in the form of one step.
LEMMA StartUnderInv ==
    ASSUME PaperInv, NEW s \in Strategies, StartPaper(s), Continuations[s] = {}
    PROVE  lastRun[s] = TRUE
<1>1. Latest(s) \in files /\ Latest(s).cleared = lastRun[s] /\ Latest(s).cleared
  BY LatestIsNewest DEF StartPaper
<1>2. Latest(s).cleared \in BOOLEAN
  BY <1>1 DEF PaperInv
<1> QED
  BY <1>1, <1>2

\* wfo.py:102-121: whatever runs are judged and filed when, the newest file of a
\* strategy has the verdict of its last run, and none is of a later second.
THEOREM PaperInvHolds == PaperSpec => []PaperInv
<1> QED
  BY InitPaperInv, NextPaperInv, PTL DEF PaperSpec

\* run_paper.py:48 "Refuse to trade anything WFO has not cleared": whatever runs
\* were judged when, the file that is read is that of the strategy's last run.
THEOREM LastVerdictDecides == PaperSpec => StartsOnLastVerdict
<1>1. PaperInv => \A s \in Strategies : StartPaper(s) /\ Continuations[s] = {} => lastRun[s] = TRUE
  BY StartUnderInv
<1> QED
  BY <1>1, PaperInvHolds, PTL DEF StartsOnLastVerdict

----------------------------------------------------------------------------
\* The programs side by side.

\* Each step of the composition does to the walk what a step of Wfo does, starts
\* it anew, or nothing.
LEMMA PromotionStepsWalk ==
    ASSUME [PromotionNext]_all
    PROVE  [Next]_vars \/ Init'
<1>1. CASE UNCHANGED all
  BY <1>1 DEF all, vars
<1>2. ASSUME NEW s \in Strategies, StartWfo(s) PROVE Init'
  BY <1>2 DEF StartWfo, Init, NoTotals
<1>3. CASE CutWindows
  BY <1>3 DEF CutWindows, Next
<1>4. CASE TrainWindow
  BY <1>4 DEF TrainWindow, Raise, Next
<1>5. CASE RunIs
  BY <1>5 DEF RunIs, Raise, Next
<1>6. CASE RunOos
  BY <1>6 DEF RunOos, Raise, Next
<1>7. CASE FinishWalk
  BY <1>7 DEF FinishWalk, Conclude, Next
<1>8. CASE CompareNews \/ PaperMoves
  BY <1>8 DEF CompareNews, PaperMoves
<1> QED
  BY <1>1, <1>2, <1>3, <1>4, <1>5, <1>6, <1>7, <1>8 DEF PromotionNext, Walk

\* A verdict is true or false, and it is that of the whole walk.
LEMMA VerdictShape ==
    ASSUME IInv, job \in Strategies \union {None}, FinishWalk
    PROVE  /\ job \in Strategies /\ job' = None
           /\ verdict'.cleared \in BOOLEAN /\ RunWfo(job, verdict'.cleared)
           /\ step' = "written" /\ Len(judged) = NWindows
           /\ exit' = IF verdict'.cleared THEN "code 0" ELSE "code 1"
<1>1. /\ job \in Strategies /\ job' = None /\ WriteVerdict
      /\ exit' = IF verdict'.cleared THEN "code 0" ELSE "code 1"
      /\ RunWfo(job, verdict'.cleared)
  BY DEF FinishWalk, Conclude, FileVerdict
<1>2. verdict' = [gates |-> Gates, cleared |-> \A g \in GateNames : Gates[g]]
  BY <1>1 DEF WriteVerdict
<1>3. verdict'.cleared = (\A g \in GateNames : Gates[g])
  BY <1>2
<1>4. verdict'.cleared \in BOOLEAN
  BY <1>3
<1>5. step' = "written" /\ window = NWindows
  BY <1>1 DEF WriteVerdict
<1>6. Len(judged) = NWindows
  BY <1>5 DEF IInv, WalkedSoFar
<1> QED
  BY <1>1, <1>4, <1>5, <1>6

\* Each step does to clock, files and sessions what a step of Clearance does.
LEMMA PromotionStepsPaper ==
    ASSUME IInv, job \in Strategies \union {None}, [PromotionNext]_all
    PROVE  [PaperNext]_paper
<1>1. CASE UNCHANGED all
  BY <1>1 DEF all, paper
<1>2. CASE Walk \/ CompareNews
  BY <1>2 DEF Walk, CompareNews
<1>3. CASE FinishWalk
  BY <1>3, VerdictShape DEF PaperNext
<1>4. CASE PaperMoves
  BY <1>4 DEF PaperMoves, PaperNext
<1> QED
  BY <1>1, <1>2, <1>3, <1>4 DEF PromotionNext

PromotionInv == IInv /\ PaperInv /\ job \in Strategies \union {None}

LEMMA InitPromotionInv == PromotionInit => PromotionInv
BY InitIInv, InitPaperInv DEF PromotionInit, PromotionInv, RunnerInit

LEMMA JobStep ==
    ASSUME job \in Strategies \union {None}, [PromotionNext]_all
    PROVE  job' \in Strategies \union {None}
<1>1. CASE UNCHANGED all
  BY <1>1 DEF all, runner
<1>2. ASSUME NEW s \in Strategies, StartWfo(s) PROVE job' \in Strategies \union {None}
  BY <1>2 DEF StartWfo
<1>3. CASE CutWindows \/ TrainWindow
  BY <1>3 DEF CutWindows, TrainWindow, Raise
<1>4. CASE RunIs \/ RunOos
  BY <1>4 DEF RunIs, RunOos, Raise, runner
<1>5. CASE FinishWalk
  BY <1>5 DEF FinishWalk, Conclude
<1>6. CASE CompareNews \/ PaperMoves
  BY <1>6 DEF CompareNews, PaperMoves, runner
<1> QED
  BY <1>1, <1>2, <1>3, <1>4, <1>5, <1>6 DEF PromotionNext, Walk

LEMMA NextPromotionInv == PromotionInv /\ [PromotionNext]_all => PromotionInv'
<1>1. Init' => IInv'
  BY InitIInv, PTL
<1> SUFFICES ASSUME PromotionInv, [PromotionNext]_all PROVE PromotionInv'
  OBVIOUS
<1>2. IInv'
  BY <1>1, PromotionStepsWalk, NextIInv DEF PromotionInv
<1>3. PaperInv'
  BY PromotionStepsPaper, NextPaperInv DEF PromotionInv
<1> QED
  BY <1>2, <1>3, JobStep DEF PromotionInv

\* wfo.py:200-335, ab_sentiment.py, run_paper.py: the invariants of a walk and of the
\* results directory hold together in every interleaving of the programs.
THEOREM PromotionInvHolds == PromotionSpec => []PromotionInv
<1> QED
  BY InitPromotionInv, NextPromotionInv, PTL DEF PromotionSpec

\* wfo.py:3-5: however walks fail, follow each other or run beside sessions, none
\* looks ahead,
THEOREM WalksNeverLookAhead == PromotionSpec => []NoLookahead
<1> QED
  BY PromotionInvHolds, InvNoLookahead, PTL DEF PromotionInv

\* wfo.py:5: none judges a bar twice,
THEOREM WalksTouchOosOnce == PromotionSpec => []OosTouchedOnce
<1> QED
  BY PromotionInvHolds, InvOosTouchedOnce, PTL DEF PromotionInv

\* wfo.py:7-9: and what any of them clears has been earned.
THEOREM WalksEarnClearance == PromotionSpec => []ClearedMeansEarned
<1> QED
  BY PromotionInvHolds, InvClearedMeansEarned, PTL DEF PromotionInv

\* wfo.py:12-13: only a walk that has come to its end changes the results, in its
\* own name, by the verdict with which it exits.
THEOREM OnlyEndedWalksFile == PromotionSpec => OnlyConcludedWalksCount
<1>1. ASSUME PromotionInv, [PromotionNext]_all, lastRun' # lastRun \/ files' # files
      PROVE  /\ step' = "written" /\ Len(judged) = NWindows
             /\ lastRun' = [lastRun EXCEPT ![job] = (exit' = "code 0")]
             /\ \A f \in files' \ files : f.strategy = job /\ f.cleared = (exit' = "code 0")
  <2>1. FinishWalk
    <3>1. ~UNCHANGED all /\ ~(Walk \/ CompareNews)
      BY <1>1 DEF all, paper, Walk, CompareNews
    <3>2. ~PaperMoves
      BY <1>1 DEF PaperMoves, Tick, StartPaper, StopPaper
    <3> QED
      BY <1>1, <3>1, <3>2 DEF PromotionNext
  <2>2. /\ verdict'.cleared \in BOOLEAN /\ RunWfo(job, verdict'.cleared)
        /\ step' = "written" /\ Len(judged) = NWindows
        /\ exit' = IF verdict'.cleared THEN "code 0" ELSE "code 1"
    BY <1>1, <2>1, VerdictShape DEF PromotionInv
  <2>3. verdict'.cleared = (exit' = "code 0")
    BY <2>2
  <2>4. \A f \in files' \ files :
          f = [strategy |-> job, at |-> clock, cleared |-> verdict'.cleared]
    BY <2>2 DEF RunWfo
  <2>5. lastRun' = [lastRun EXCEPT ![job] = verdict'.cleared]
    BY <2>2 DEF RunWfo
  <2>6. lastRun' = [lastRun EXCEPT ![job] = (exit' = "code 0")]
    BY <2>3, <2>5, Zenon
  <2>7. \A f \in files' \ files : f.strategy = job /\ f.cleared = verdict'.cleared
    BY <2>4
  <2>8. \A f \in files' \ files : f.strategy = job /\ f.cleared = (exit' = "code 0")
    BY <2>3, <2>7, Zenon
  <2> QED
    BY <2>2, <2>6, <2>8, Zenon
<1> QED
  BY <1>1, PromotionInvHolds, PTL DEF PromotionSpec, OnlyConcludedWalksCount

\* The composition implements the gate that Clearance specifies.
THEOREM PromotionImplementsClearance == PromotionSpec => PaperSpec
<1>1. PromotionInit => PaperInit
  BY DEF PromotionInit
<1>2. PromotionInv /\ [PromotionNext]_all => [PaperNext]_paper
  BY PromotionStepsPaper DEF PromotionInv
<1> QED
  BY <1>1, <1>2, PromotionInvHolds, PTL DEF PromotionSpec, PaperSpec

\* run_paper.py:48 "Refuse to trade anything WFO has not cleared": a session of a
\* name that no other continues starts only if the strategy's last walk cleared it.
THEOREM PromotedByLastVerdict == PromotionSpec => StartsOnLastVerdict
<1> QED
  BY PromotionImplementsClearance, LastVerdictDecides, PTL

----------------------------------------------------------------------------
\* What a model is fitted on.  A frame in time order, masked to a span of days.

\* storage.py:53-65, run_backtest.py:125-126
LEMMA RunOfDaysShape ==
    ASSUME NEW frame \in Seq(Bars), InTimeOrder(frame), NEW first \in Nat, NEW last \in Int
    PROVE  /\ RunOfDays(frame, first, last) \in Seq(Bars)
           /\ InTimeOrder(RunOfDays(frame, first, last))
           /\ \A t \in DOMAIN RunOfDays(frame, first, last) :
                RunOfDays(frame, first, last)[t].day \in first..last
<1> DEFINE kept == {t \in DOMAIN frame : frame[t].day \in first..last}
<1>1. CASE kept = {}
  <2>1. RunOfDays(frame, first, last) = <<>>
    BY <1>1 DEF RunOfDays
  <2> QED
    BY <2>1 DEF InTimeOrder
<1>2. CASE kept # {}
  <2> DEFINE a == Min(kept)
             b == Max(kept)
  <2>1. /\ Len(frame) \in Nat /\ DOMAIN frame = 1..Len(frame) /\ kept \in SUBSET (1..Len(frame))
        /\ \A t \in DOMAIN frame : frame[t] \in Bars
    OBVIOUS
  <2>2. RunOfDays(frame, first, last) = SubSeq(frame, a, b)
    BY <1>2 DEF RunOfDays
  <2>3. a \in kept /\ b \in kept /\ a <= b
    <3> HIDE DEF kept
    <3>1. a \in kept /\ b \in kept /\ \A y \in kept : a <= y
      BY <1>2, <2>1, Ends
    <3> QED
      BY <3>1
  <2> HIDE DEF kept, a, b
  <2>4. /\ a \in 1..Len(frame) /\ b \in 1..Len(frame)
        /\ frame[a].day \in first..last /\ frame[b].day \in first..last
    BY <2>1, <2>3 DEF kept
  <2>5. /\ SubSeq(frame, a, b) \in Seq(Bars) /\ DOMAIN SubSeq(frame, a, b) = 1..(b - a + 1)
        /\ \A t \in 1..(b - a + 1) : SubSeq(frame, a, b)[t] = frame[a + t - 1]
    BY <2>1, <2>3, <2>4
  <2>6. \A t \in 1..(b - a + 1) : a + t - 1 \in DOMAIN frame /\ a <= a + t - 1 /\ a + t - 1 <= b
    BY <2>1, <2>3, <2>4
  <2>7. ASSUME NEW t \in 1..(b - a + 1)
        PROVE  SubSeq(frame, a, b)[t].day \in first..last
    <3> DEFINE m == a + t - 1
    <3>1. m \in DOMAIN frame /\ a <= m /\ m <= b /\ a \in DOMAIN frame /\ b \in DOMAIN frame
      BY <2>1, <2>4, <2>6
    <3> HIDE DEF m
    <3>2. /\ frame[a].day <= frame[m].day /\ frame[m].day <= frame[b].day
          /\ {frame[a].day, frame[m].day, frame[b].day} \subseteq Nat
      <4>1. frame[a].day \in Nat /\ frame[m].day \in Nat /\ frame[b].day \in Nat
        BY <2>1, <3>1 DEF Bars
      <4> QED
        BY <2>1, <3>1, <4>1, SMTT(20) DEF InTimeOrder
    <3>3. SubSeq(frame, a, b)[t] = frame[m]
      BY <2>5 DEF m
    <3>4. first <= frame[a].day /\ frame[b].day <= last
      <4>1. \A d \in first..last : first <= d /\ d <= last
        OBVIOUS
      <4> QED
        BY <2>4, <4>1
    <3>5. frame[m].day \in first..last
      BY <3>2, <3>4, SMTT(20)
    <3> QED
      BY <3>3, <3>5
  <2>8. InTimeOrder(SubSeq(frame, a, b))
    <3> SUFFICES ASSUME NEW t \in 1..(b - a + 1), NEW u \in 1..(b - a + 1), t < u
                 PROVE  SubSeq(frame, a, b)[t].day < SubSeq(frame, a, b)[u].day
      BY <2>5 DEF InTimeOrder
    <3>1. a + t - 1 \in DOMAIN frame /\ a + u - 1 \in DOMAIN frame /\ a + t - 1 < a + u - 1
      BY <2>6, <2>4
    <3> QED
      BY <2>5, <3>1 DEF InTimeOrder
  <2> QED
    BY <2>2, <2>5, <2>7, <2>8
<1> QED
  BY <1>1, <1>2

LEMMA BetweenShape ==
    ASSUME store \in Histories, NEW first \in Nat, NEW last \in Int
    PROVE  /\ Between(first, last) \in Seq(Seq(Bars))
           /\ \A s \in DOMAIN Between(first, last) :
                /\ InTimeOrder(Between(first, last)[s])
                /\ \A t \in DOMAIN Between(first, last)[s] :
                     Between(first, last)[s][t].day \in first..last
<1>1. store.bars \in Seq(Seq(Bars)) /\ \A s \in DOMAIN store.bars : InTimeOrder(store.bars[s])
  BY RunnersAssumption
<1>2. Len(store.bars) \in Nat /\ DOMAIN store.bars = 1..Len(store.bars)
      /\ \A s \in DOMAIN store.bars : store.bars[s] \in Seq(Bars)
  BY <1>1
<1>3. \A s \in DOMAIN store.bars : Between(first, last)[s] = RunOfDays(store.bars[s], first, last)
  BY DEF Between
<1>4. DOMAIN Between(first, last) = 1..Len(store.bars)
  BY <1>2 DEF Between
<1>5. \A s \in DOMAIN store.bars :
        /\ Between(first, last)[s] \in Seq(Bars)
        /\ InTimeOrder(Between(first, last)[s])
        /\ \A t \in DOMAIN Between(first, last)[s] : Between(first, last)[s][t].day \in first..last
  BY <1>1, <1>2, <1>3, RunOfDaysShape
<1>6. Between(first, last) \in [1..Len(store.bars) -> Seq(Bars)]
  BY <1>2, <1>4, <1>5 DEF Between
<1>7. Between(first, last) \in Seq(Seq(Bars))
  BY <1>2, <1>6, IsASeq
<1> QED
  BY <1>2, <1>4, <1>5, <1>7

----------------------------------------------------------------------------
\* Labels.

LEMMA FrameType ==
    ASSUME NEW frame \in Seq(Bars)
    PROVE  /\ Len(frame) \in Nat /\ DOMAIN frame = 1..Len(frame)
           /\ \A t \in 1..Len(frame) : /\ frame[t] \in Bars
                                       /\ frame[t].day \in Nat /\ frame[t].low \in Int
                                       /\ frame[t].high \in Int /\ frame[t].close \in Int
<1>1. /\ Len(frame) \in Nat /\ DOMAIN frame = 1..Len(frame)
      /\ \A t \in 1..Len(frame) : frame[t] \in Bars
  OBVIOUS
<1>2. \A bar \in Bars : bar.day \in Nat /\ bar.low \in Int /\ bar.high \in Int /\ bar.close \in Int
  BY DEF Bars
<1> QED
  BY <1>1, <1>2

LEMMA ScannedIsAhead ==
    ASSUME NEW frame \in Seq(Bars), NEW t \in Nat
    PROVE  Scanned(frame, t) = {j \in DOMAIN frame : t < j /\ j <= t + Horizon}
<1>1. Horizon \in Nat
  BY TrainingAssumption
<1>2. Scanned(frame, t) \subseteq {j \in DOMAIN frame : t < j /\ j <= t + Horizon}
  BY <1>1, FrameType DEF Scanned, Least
<1>3. {j \in DOMAIN frame : t < j /\ j <= t + Horizon} \subseteq Scanned(frame, t)
  BY <1>1, FrameType DEF Scanned, Least
<1> QED
  BY <1>2, <1>3

Touches(frame, t) == {j \in Scanned(frame, t) : HitsStop(frame, t, j) \/ HitsTarget(frame, t, j)}

Tells(frame, t, label) ==
    LET later == {j \in DOMAIN frame : t < j /\ j <= t + Horizon}
        won   == \E j \in later : /\ HitsTarget(frame, t, j)
                                  /\ \A k \in later : k <= j => ~HitsStop(frame, t, k)
        lost  == \E j \in later : /\ HitsStop(frame, t, j)
                                  /\ \A k \in later : k < j => ~HitsTarget(frame, t, k)
        expired == t + Horizon \in DOMAIN frame
    IN  IF label = 1 THEN won ELSE ~won /\ (lost \/ expired)

\* labels.py:33-75
LEMMA LabelTells ==
    ASSUME NEW frame \in Seq(Bars), NEW t \in DOMAIN frame, Label(frame, t) # None
    PROVE  Label(frame, t) \in 0..1 /\ Tells(frame, t, Label(frame, t))
<1> DEFINE later == {j \in DOMAIN frame : t < j /\ j <= t + Horizon}
           T == Touches(frame, t)
           m == Min(T)
           won   == \E j \in later : /\ HitsTarget(frame, t, j)
                                     /\ \A k \in later : k <= j => ~HitsStop(frame, t, k)
           lost  == \E j \in later : /\ HitsStop(frame, t, j)
                                     /\ \A k \in later : k < j => ~HitsTarget(frame, t, k)
<1>1. /\ t \in Nat /\ Len(frame) \in Nat /\ DOMAIN frame = 1..Len(frame) /\ later \in SUBSET (1..Len(frame))
      /\ Horizon \in Nat \ {0}
  BY FrameType, TrainingAssumption
<1>2. Scanned(frame, t) = later
  BY <1>1, ScannedIsAhead
<1>3. T = {j \in later : HitsStop(frame, t, j) \/ HitsTarget(frame, t, j)}
  BY <1>2 DEF Touches
<1>4. Label(frame, t) = IF T # {} THEN Outcome(frame, t, m)
                        ELSE IF t + Horizon <= Len(frame) THEN 0 ELSE None
  BY DEF Label, Touches
<1>5. /\ won => Tells(frame, t, 1)
      /\ ~won /\ (lost \/ t + Horizon \in DOMAIN frame) => Tells(frame, t, 0)
  BY DEF Tells
<1> HIDE DEF later, T, m, won, lost
<1>6. CASE T = {}
  <2>1. Label(frame, t) = 0 /\ t + Horizon \in DOMAIN frame
    BY <1>1, <1>4, <1>6
  <2>2. \A j \in later : ~HitsTarget(frame, t, j)
    BY <1>3, <1>6
  <2>3. ~won
    BY <2>2 DEF won
  <2> QED
    BY <1>5, <2>1, <2>3
<1>7. CASE T # {}
  <2>1. m \in T /\ \A j \in T : m <= j
    <3>1. T \in SUBSET (1..Len(frame))
      BY <1>1, <1>3
    <3> QED
      BY <1>1, <1>7, <3>1, Ends DEF m
  <2>2. m \in later /\ (HitsStop(frame, t, m) \/ HitsTarget(frame, t, m))
    BY <1>3, <2>1
  <2>3. \A k \in later : k < m => ~HitsStop(frame, t, k) /\ ~HitsTarget(frame, t, k)
    <3>1. \A k \in later : k < m => k \notin T
      BY <1>1, <2>1, <2>2
    <3> QED
      BY <1>3, <3>1
  <2>4. Label(frame, t) = IF HitsStop(frame, t, m) THEN 0 ELSE 1
    BY <1>4, <1>7 DEF Outcome
  <2>5. CASE HitsStop(frame, t, m)
    <3>1. Label(frame, t) = 0
      BY <2>4, <2>5
    <3>2. lost
      BY <2>2, <2>3, <2>5 DEF lost
    <3>3. ASSUME NEW j \in later, HitsTarget(frame, t, j)
          PROVE  m <= j
      BY <1>3, <2>1, <3>3
    <3>4. ~won
      BY <2>2, <2>5, <3>3 DEF won
    <3> QED
      BY <1>5, <3>1, <3>2, <3>4
  <2>6. CASE ~HitsStop(frame, t, m)
    <3>1. Label(frame, t) = 1 /\ HitsTarget(frame, t, m)
      BY <2>2, <2>4, <2>6
    <3>2. ASSUME NEW k \in later, k <= m PROVE ~HitsStop(frame, t, k)
      <4>1. k \in Nat /\ m \in Nat
        BY <1>1, <2>2
      <4>2. k < m \/ k = m
        BY <3>2, <4>1
      <4> QED
        BY <2>3, <2>6, <4>2
    <3>3. won
      BY <2>2, <3>1, <3>2 DEF won
    <3> QED
      BY <1>5, <3>1, <3>3
  <2> QED
    BY <2>5, <2>6
<1> QED
  BY <1>6, <1>7

----------------------------------------------------------------------------
\* Stacked rows.

LEMMA RowFields ==
    ASSUME NEW s \in Nat, NEW frame \in Seq(Bars), NEW t \in DOMAIN frame, Label(frame, t) # None
    PROVE  /\ Row(s, frame, t) \in Rows
           /\ Row(s, frame, t).symbol = s /\ Row(s, frame, t).at = t
           /\ Row(s, frame, t).day = frame[t].day
           /\ Row(s, frame, t).label = Label(frame, t)
<1>1. t \in Nat /\ frame[t].day \in Nat /\ Label(frame, t) \in 0..1
  BY FrameType, LabelTells
<1> QED
  BY <1>1 DEF Row, Rows

Ordered(frames) == frames \in Seq(Seq(Bars)) /\ \A s \in DOMAIN frames : InTimeOrder(frames[s])

UsableAt(frame, from) ==
    {t \in DOMAIN frame : frame[t].day >= from /\ Complete(frame, t) /\ Label(frame, t) # None}

RowsOfSymbol(frames, from, s) == {Row(s, frames[s], t) : t \in UsableAt(frames[s], from)}

LEMMA UsableRowsFields ==
    ASSUME NEW frames, Ordered(frames), NEW from \in Int
    PROVE  /\ UsableRows(frames, from) = UNION {RowsOfSymbol(frames, from, s) : s \in DOMAIN frames}
           /\ UsableRows(frames, from) \subseteq Rows
           /\ \A r \in UsableRows(frames, from) :
                /\ r.symbol \in DOMAIN frames /\ r.at \in UsableAt(frames[r.symbol], from)
                /\ r = Row(r.symbol, frames[r.symbol], r.at)
                /\ r.day = frames[r.symbol][r.at].day /\ r.day >= from
                /\ r.label = Label(frames[r.symbol], r.at)
<1>1. UsableRows(frames, from) = UNION {RowsOfSymbol(frames, from, s) : s \in DOMAIN frames}
  BY DEF UsableRows, RowsOfSymbol, UsableAt
<1>2. \A s \in DOMAIN frames : s \in Nat /\ frames[s] \in Seq(Bars)
  BY DEF Ordered
<1>3. ASSUME NEW r \in UsableRows(frames, from)
      PROVE  /\ r \in Rows
             /\ r.symbol \in DOMAIN frames /\ r.at \in UsableAt(frames[r.symbol], from)
             /\ r = Row(r.symbol, frames[r.symbol], r.at)
             /\ r.day = frames[r.symbol][r.at].day /\ r.day >= from
             /\ r.label = Label(frames[r.symbol], r.at)
  <2>1. PICK s \in DOMAIN frames : r \in RowsOfSymbol(frames, from, s)
    BY <1>1
  <2>2. PICK t \in UsableAt(frames[s], from) : r = Row(s, frames[s], t)
    BY <2>1 DEF RowsOfSymbol
  <2>3. t \in DOMAIN frames[s] /\ frames[s][t].day >= from /\ Label(frames[s], t) # None
    BY DEF UsableAt
  <2>4. /\ r \in Rows /\ r.symbol = s /\ r.at = t
        /\ r.day = frames[s][t].day /\ r.label = Label(frames[s], t)
    BY <1>2, <2>2, <2>3, RowFields
  <2> QED
    BY <2>2, <2>3, <2>4
<1> QED
  BY <1>1, <1>3

LEMMA UsableRowsFinite ==
    ASSUME NEW frames, Ordered(frames), NEW from \in Int
    PROVE  IsFiniteSet(UsableRows(frames, from))
<1> DEFINE R == [s \in DOMAIN frames |-> RowsOfSymbol(frames, from, s)]
           perSymbol == {RowsOfSymbol(frames, from, s) : s \in DOMAIN frames}
<1>1. Len(frames) \in Nat /\ DOMAIN frames = 1..Len(frames) /\ \A s \in DOMAIN frames : frames[s] \in Seq(Bars)
  BY DEF Ordered
<1>2. ASSUME NEW s \in DOMAIN frames PROVE IsFiniteSet(RowsOfSymbol(frames, from, s))
  <2> DEFINE D == UsableAt(frames[s], from)
             f == [t \in D |-> Row(s, frames[s], t)]
             Q == RowsOfSymbol(frames, from, s)
  <2>1. Len(frames[s]) \in Nat /\ D \subseteq 1..Len(frames[s])
    BY <1>1, FrameType DEF UsableAt
  <2>2. IsFiniteSet(D)
    <3>1. IsFiniteSet(1..Len(frames[s]))
      BY <2>1, FS_Interval
    <3> QED
      BY <2>1, <3>1, FS_Subset
  <2>3. f \in Surjection(D, Q)
    BY DEF Surjection, RowsOfSymbol
  <2> QED
    BY <2>2, <2>3, FS_Surjection
<1>3. IsFiniteSet(perSymbol)
  <2>1. IsFiniteSet(DOMAIN frames)
    BY <1>1, FS_Interval
  <2>2. R \in Surjection(DOMAIN frames, perSymbol)
    BY DEF Surjection
  <2> QED
    BY <2>1, <2>2, FS_Surjection
<1>4. IsFiniteSet(UNION perSymbol)
  BY <1>2, <1>3, FS_UNION
<1> QED
  BY <1>4, UsableRowsFields

Sortable(rows) ==
    /\ rows \subseteq Rows /\ IsFiniteSet(rows)
    /\ \A r, q \in rows : r # q => StackedBefore(r, q) \/ StackedBefore(q, r)

\* storage.py:27: of a symbol there is one bar a day.
LEMMA UsableRowsSortable ==
    ASSUME NEW frames, Ordered(frames), NEW from \in Int
    PROVE  Sortable(UsableRows(frames, from))
<1>1. UsableRows(frames, from) \subseteq Rows /\ IsFiniteSet(UsableRows(frames, from))
  BY UsableRowsFields, UsableRowsFinite
<1>2. ASSUME NEW r \in UsableRows(frames, from), NEW q \in UsableRows(frames, from), r # q
      PROVE  StackedBefore(r, q) \/ StackedBefore(q, r)
  <2>1. r.day \in Nat /\ q.day \in Nat /\ r.symbol \in Nat /\ q.symbol \in Nat
    BY <1>1 DEF Rows
  <2>2. ASSUME r.day = q.day, r.symbol = q.symbol PROVE FALSE
    <3> DEFINE frame == frames[r.symbol]
    <3>1. /\ r.symbol \in DOMAIN frames
          /\ r.at \in DOMAIN frame /\ q.at \in DOMAIN frame
          /\ r = Row(r.symbol, frame, r.at) /\ q = Row(r.symbol, frame, q.at)
          /\ frame[r.at].day = frame[q.at].day
      BY <2>2, UsableRowsFields DEF UsableAt
    <3>2. InTimeOrder(frame) /\ frame \in Seq(Bars)
      BY <3>1 DEF Ordered
    <3> HIDE DEF frame
    <3>3. r.at \in Nat /\ q.at \in Nat /\ frame[r.at].day \in Nat
      BY <3>1, <3>2, FrameType
    <3>4. ~(r.at < q.at) /\ ~(q.at < r.at)
      BY <3>1, <3>2, <3>3 DEF InTimeOrder
    <3>5. r.at = q.at
      BY <3>3, <3>4
    <3> QED
      BY <1>2, <3>1, <3>5
  <2> QED
    BY <2>1, <2>2 DEF StackedBefore
<1> QED
  BY <1>1, <1>2 DEF Sortable

Before(rows, q) == {r \in rows : StackedBefore(r, q)}

\* train_lgbm.py:61-66 (concat and sort by time): every place is taken, in the order of days.
LEMMA StackedIsSorted ==
    ASSUME NEW rows, Sortable(rows)
    PROVE  /\ Stacked(rows) \in Seq(rows)
           /\ \A i, j \in 1..Len(Stacked(rows)) : i <= j => Stacked(rows)[i].day <= Stacked(rows)[j].day
<1> DEFINE n == Cardinality(rows)
           rank == [q \in rows |-> Cardinality(Before(rows, q))]
           R == {p \in rows \X rows : StackedBefore(p[1], p[2])}
<1>1. /\ \A r \in rows : r.day \in Nat /\ r.symbol \in Nat
      /\ IsFiniteSet(rows) /\ n \in Nat
  BY FS_CardinalityType DEF Sortable, Rows
<1>2. \A r, q \in rows : <<r, q>> \in R <=> StackedBefore(r, q)
  OBVIOUS
<1>3. StrictlyOrders(R, rows)
  <2> HIDE DEF R
  <2>1. \A r \in rows : ~StackedBefore(r, r)
    BY <1>1 DEF StackedBefore
  <2>2. \A r, q \in rows : r # q => StackedBefore(r, q) \/ StackedBefore(q, r)
    BY DEF Sortable
  <2>3. \A r, q, z \in rows : StackedBefore(r, q) /\ StackedBefore(q, z) => StackedBefore(r, z)
    BY <1>1 DEF StackedBefore
  <2> QED
    BY <1>2, <2>1, <2>2, <2>3 DEF StrictlyOrders
<1>4. \A q \in rows : AheadOf(R, rows, q) = Before(rows, q)
  BY <1>2 DEF AheadOf, Before
<1> HIDE DEF R, n
<1>5. \A q \in rows : rank[q] \in Nat
  <2>1. \A q \in rows : IsFiniteSet(Before(rows, q))
    BY <1>1, <1>3, <1>4, PlacesTaken
  <2> QED
    BY <2>1, FS_CardinalityType
<1>6. /\ \A r, q \in rows : StackedBefore(r, q) => rank[r] < rank[q]
      /\ \A i \in 0..(n - 1) : \E q \in rows : rank[q] = i
  <2>1. /\ \A r, q \in rows : <<r, q>> \in R <=>
              Cardinality(AheadOf(R, rows, r)) < Cardinality(AheadOf(R, rows, q))
        /\ \A i \in 0..(Cardinality(rows) - 1) : \E q \in rows : Cardinality(AheadOf(R, rows, q)) = i
    BY <1>1, <1>3, PlacesTaken
  <2> QED
    BY <1>2, <1>4, <2>1 DEF n
<1>7. \A i \in 1..n : Stacked(rows)[i] \in rows /\ rank[Stacked(rows)[i]] = i - 1
  <2>1. ASSUME NEW i \in 1..n
        PROVE  Stacked(rows)[i] \in rows /\ rank[Stacked(rows)[i]] = i - 1
    <3>1. i - 1 \in 0..(n - 1)
      BY <1>1
    <3>2. \E q \in rows : Cardinality(Before(rows, q)) = i - 1
      BY <1>6, <3>1
    <3>3. Stacked(rows)[i] = CHOOSE q \in rows : Cardinality(Before(rows, q)) = i - 1
      BY DEF Stacked, Before, n
    <3> QED
      BY <3>2, <3>3
  <2> QED
    BY <2>1
<1> HIDE DEF rank
<1>8. Stacked(rows) \in Seq(rows) /\ Len(Stacked(rows)) = n
  <2>1. Stacked(rows) \in [1..n -> rows]
    BY <1>7 DEF Stacked, n
  <2> QED
    BY <1>1, <2>1
<1>9. ASSUME NEW i \in 1..n, NEW j \in 1..n, i <= j
      PROVE  Stacked(rows)[i].day <= Stacked(rows)[j].day
  <2> DEFINE r == Stacked(rows)[i]
             q == Stacked(rows)[j]
  <2>1. r \in rows /\ q \in rows /\ rank[r] = i - 1 /\ rank[q] = j - 1
    BY <1>7
  <2>2. ~(rank[q] < rank[r])
    BY <1>9, <2>1
  <2> HIDE DEF r, q
  <2>3. ~StackedBefore(q, r)
    BY <1>6, <2>1, <2>2
  <2>4. ~(q.day < r.day)
    BY <2>3 DEF StackedBefore
  <2>5. r.day <= q.day
    BY <1>1, <2>1, <2>4
  <2> QED
    BY <2>5 DEF r, q
<1> QED
  BY <1>8, <1>9

LEMMA Hundredths ==
    ASSUME NEW n \in Nat, NEW p \in Nat, NEW q \in Nat, p <= q, q <= 100
    PROVE  /\ (n * p) \div 100 \in Nat /\ (n * q) \div 100 \in Nat
           /\ (n * p) \div 100 <= (n * q) \div 100 /\ (n * q) \div 100 <= n
<1>1. n * p \in Nat /\ n * q \in Nat /\ n * p <= n * q /\ n * q <= n * 100
  OBVIOUS
<1> DEFINE a == n * p
           b == n * q
<1>2. a \in Nat /\ b \in Nat /\ a <= b /\ b <= n * 100
  BY <1>1
<1> HIDE DEF a, b
<1>3. a \div 100 \in Nat /\ b \div 100 \in Nat /\ a \div 100 <= b \div 100 /\ b \div 100 <= n
  BY <1>2
<1> QED
  BY <1>3 DEF a, b

\* train_lgbm.py:31-35
LEMMA SplitIsChronological ==
    ASSUME NEW S, NEW rows \in Seq(S)
    PROVE  /\ Split(rows) \in [train : Seq(S), valid : Seq(S), test : Seq(S)]
           /\ \E end \in Nat :
                /\ \A r \in ToSet(Split(rows).train) :
                     \E i \in 1..Len(rows) : i <= end /\ r = rows[i]
                /\ \A r \in ToSet(Split(rows).valid) \union ToSet(Split(rows).test) :
                     \E j \in 1..Len(rows) : end < j /\ r = rows[j]
<1> DEFINE n == Len(rows)
           a == (n * TrainPct) \div 100
           b == (n * (TrainPct + ValidPct)) \div 100
           train == SubSeq(rows, 1, a)
           valid == SubSeq(rows, a + 1, b)
           test  == SubSeq(rows, b + 1, n)
<1>1. Split(rows) = [train |-> train, valid |-> valid, test |-> test]
  BY DEF Split
<1>2. n \in Nat /\ \A i \in 1..n : rows[i] \in S
  OBVIOUS
<1>3. a \in Nat /\ b \in Nat /\ a <= b /\ b <= n
  <2>1. TrainPct \in Nat /\ TrainPct + ValidPct \in Nat /\ TrainPct + ValidPct <= 100
        /\ TrainPct <= TrainPct + ValidPct
    BY TrainingAssumption
  <2> HIDE DEF n
  <2> QED
    BY <1>2, <2>1, Hundredths, ZenonT(40)
<1> HIDE DEF n, a, b
<1>4. /\ train \in Seq(S) /\ \A i \in DOMAIN train : i \in 1..a /\ train[i] = rows[i]
  <2>1. \A i \in 1..a : rows[i] \in S
    BY <1>2, <1>3
  <2>2. train \in Seq(S) /\ Len(train) = a /\ \A i \in 1..a : train[i] = rows[i]
    BY <1>3, <2>1, SubSeqProperties
  <2> HIDE DEF train
  <2> QED
    BY <2>2
<1>5. /\ valid \in Seq(S) /\ \A i \in DOMAIN valid : a + i \in 1..n /\ valid[i] = rows[a + i] /\ i \in Nat \ {0}
  <2>1. \A i \in (a+1)..b : rows[i] \in S
    BY <1>2, <1>3
  <2>2. valid \in Seq(S) /\ Len(valid) = b - a /\ \A i \in 1..(b - a) : valid[i] = rows[a + i]
    BY <1>3, <2>1, SubSeqProperties
  <2> HIDE DEF valid
  <2>3. DOMAIN valid = 1..(b - a)
    BY <2>2
  <2> QED
    BY <1>2, <1>3, <2>2, <2>3
<1>6. /\ test \in Seq(S) /\ \A i \in DOMAIN test : b + i \in 1..n /\ test[i] = rows[b + i] /\ i \in Nat \ {0}
  <2>1. \A i \in (b+1)..n : rows[i] \in S
    BY <1>2, <1>3
  <2>2. test \in Seq(S) /\ Len(test) = n - b /\ \A i \in 1..(n - b) : test[i] = rows[b + i]
    BY <1>2, <1>3, <2>1, SubSeqProperties
  <2> HIDE DEF test
  <2>3. DOMAIN test = 1..(n - b)
    BY <2>2
  <2> QED
    BY <1>2, <1>3, <2>2, <2>3
<1> HIDE DEF train, valid, test
<1>7. ASSUME NEW r \in ToSet(train) PROVE \E i \in 1..n : i <= a /\ r = rows[i]
  <2>1. PICK i \in DOMAIN train : r = train[i]
    BY DEF ToSet
  <2> QED
    BY <1>2, <1>3, <1>4, <2>1
<1>8. ASSUME NEW r \in ToSet(valid) \union ToSet(test) PROVE \E j \in 1..n : a < j /\ r = rows[j]
  <2>1. CASE r \in ToSet(valid)
    <3>1. PICK i \in DOMAIN valid : r = valid[i]
      BY <2>1 DEF ToSet
    <3>2. a < a + i
      BY <1>3, <1>5
    <3> QED
      BY <1>5, <3>1, <3>2
  <2>2. CASE r \in ToSet(test)
    <3>1. PICK i \in DOMAIN test : r = test[i]
      BY <2>2 DEF ToSet
    <3>2. a < b + i
      BY <1>3, <1>6
    <3> QED
      BY <1>6, <3>1, <3>2
  <2> QED
    BY <1>8, <2>1, <2>2
<1>9. /\ \A r \in ToSet(train) : \E i \in 1..n : i <= a /\ r = rows[i]
      /\ \A r \in ToSet(valid) \union ToSet(test) : \E j \in 1..n : a < j /\ r = rows[j]
  BY <1>7, <1>8
<1>10. Split(rows).train = train /\ Split(rows).valid = valid /\ Split(rows).test = test
  BY <1>1
<1>11. Split(rows) \in [train : Seq(S), valid : Seq(S), test : Seq(S)]
  BY <1>1, <1>4, <1>5, <1>6
<1>12. /\ \A r \in ToSet(Split(rows).train) : \E i \in 1..n : i <= a /\ r = rows[i]
       /\ \A r \in ToSet(Split(rows).valid) \union ToSet(Split(rows).test) :
            \E j \in 1..n : a < j /\ r = rows[j]
  BY <1>9, <1>10, Zenon
<1> QED
  BY <1>3, <1>11, <1>12, Zenon DEF n

\* train_lgbm.py:37-78: what a fit has fitted on and held out.
LEMMA FitShape ==
    ASSUME NEW frames, Ordered(frames), NEW from \in Int, Fit(frames, from).status = "ok"
    PROVE  LET parts == Fit(frames, from).parts
               rows  == UsableRows(frames, from)
           IN  /\ parts \in [train : Seq(rows), valid : Seq(rows), test : Seq(rows)]
               /\ \A fitted \in ToSet(parts.train),
                     other \in ToSet(parts.valid) \union ToSet(parts.test) : fitted.day <= other.day
               /\ RowsOf(parts) \subseteq rows
<1> DEFINE rows  == UsableRows(frames, from)
           line  == Stacked(rows)
           parts == Split(line)
<1>1. Fit(frames, from).parts = parts
  BY DEF Fit
<1>2. Sortable(rows)
  BY UsableRowsSortable
<1> HIDE DEF rows
<1>3. line \in Seq(rows) /\ \A i, j \in 1..Len(line) : i <= j => line[i].day <= line[j].day
  BY <1>2, StackedIsSorted
<1> HIDE DEF line
<1>4. /\ parts \in [train : Seq(rows), valid : Seq(rows), test : Seq(rows)]
      /\ \E end \in Nat :
            /\ \A r \in ToSet(parts.train) : \E i \in 1..Len(line) : i <= end /\ r = line[i]
            /\ \A r \in ToSet(parts.valid) \union ToSet(parts.test) :
                 \E j \in 1..Len(line) : end < j /\ r = line[j]
  BY <1>3, SplitIsChronological
<1> HIDE DEF parts
<1>5. ASSUME NEW fitted \in ToSet(parts.train),
             NEW other \in ToSet(parts.valid) \union ToSet(parts.test)
      PROVE  fitted.day <= other.day
  <2>1. PICK i \in 1..Len(line), j \in 1..Len(line) : i < j /\ fitted = line[i] /\ other = line[j]
    BY <1>4
  <2> QED
    BY <1>3, <2>1
<1>6. RowsOf(parts) \subseteq rows
  <2>1. parts.train \in Seq(rows) /\ parts.valid \in Seq(rows) /\ parts.test \in Seq(rows)
    BY <1>4
  <2>2. \A q \in Seq(rows) : ToSet(q) \subseteq rows
    BY DEF ToSet
  <2> QED
    BY <2>1, <2>2 DEF RowsOf
<1> QED
  BY <1>1, <1>4, <1>5, <1>6 DEF rows

----------------------------------------------------------------------------
\* Windows of bars.

LEMMA LeadInShape ==
    ASSUME store \in Histories, NEW slice \in [start : Nat, stop : Nat]
    PROVE  /\ Ordered(BarsWithLeadIn(slice))
           /\ \A s \in DOMAIN BarsWithLeadIn(slice) : \A t \in DOMAIN BarsWithLeadIn(slice)[s] :
                /\ BarsWithLeadIn(slice)[s][t].day \in Nat
                /\ BarsWithLeadIn(slice)[s][t].day <= slice.stop - 1
<1> DEFINE first == Max({0, slice.start - WarmupDays})
           last == slice.stop - 1
<1>1. first \in Nat /\ last \in Int
  <2>1. slice.start - WarmupDays \in Int
    BY RunnersAssumption
  <2> DEFINE d == slice.start - WarmupDays
  <2> HIDE DEF d
  <2>2. Max({0, d}) \in Nat
    <3>1. CASE d <= 0
      <4>1. \A x \in {0, d} : (\A y \in {0, d} : x >= y) => x \in Nat
        BY <2>1, <3>1 DEF d
      <4>2. \E x \in {0, d} : \A y \in {0, d} : x >= y
        BY <2>1, <3>1 DEF d
      <4> QED
        BY <4>1, <4>2 DEF Max
    <3>2. CASE d > 0
      <4>1. \A x \in {0, d} : (\A y \in {0, d} : x >= y) => x \in Nat
        BY <2>1, <3>2 DEF d
      <4>2. \E x \in {0, d} : \A y \in {0, d} : x >= y
        BY <2>1, <3>2 DEF d
      <4> QED
        BY <4>1, <4>2 DEF Max
    <3> QED
      BY <2>1, <3>1, <3>2 DEF d
  <2> QED
    BY <2>2 DEF d
<1>2. BarsWithLeadIn(slice) = Between(first, last)
  BY DEF BarsWithLeadIn
<1> HIDE DEF first, last
<1>3. /\ Between(first, last) \in Seq(Seq(Bars))
      /\ \A s \in DOMAIN Between(first, last) :
           /\ InTimeOrder(Between(first, last)[s])
           /\ \A t \in DOMAIN Between(first, last)[s] :
                Between(first, last)[s][t].day \in first..last
  BY <1>1, BetweenShape
<1>4. \A d \in first..last : d \in Nat /\ d <= last
  BY <1>1
<1> QED
  BY <1>2, <1>3, <1>4 DEF Ordered, last

\* The model of window k: fitted on the k-th in-sample span.
FittedOn(k) == FitWindow(InSample(k - 1))

RunnerInv ==
    /\ store \in Histories
    /\ judges \in Seq(Nat \union {None}) /\ Len(judges) = window
    /\ artifacts \in Seq([train : Seq(Rows), valid : Seq(Rows), test : Seq(Rows)])
    /\ \A k \in 1..Len(artifacts) : FittedOn(k).status = "ok" /\ artifacts[k] = FittedOn(k).parts
    /\ \A i \in 1..Len(judges) : judges[i] # None => judges[i] = i /\ i <= Len(artifacts)
    /\ job # None /\ job \in Trained =>
         Len(artifacts) = window + IF step \in {"evaluate_is", "evaluate_oos"} THEN 1 ELSE 0

LEMMA InitRunnerInv == Init /\ RunnerInit => RunnerInv
BY DEF Init, RunnerInit, RunnerInv

LEMMA FittedShape ==
    ASSUME store \in Histories, NEW k \in Nat \ {0}, FittedOn(k).status = "ok"
    PROVE  LET frames == BarsWithLeadIn(InSample(k - 1))
               rows   == UsableRows(frames, InSample(k - 1).start)
               parts  == FittedOn(k).parts
           IN  /\ Ordered(frames) /\ rows \subseteq Rows
               /\ parts \in [train : Seq(Rows), valid : Seq(Rows), test : Seq(Rows)]
               /\ RowsOf(parts) \subseteq rows
               /\ \A fitted \in ToSet(parts.train),
                     other \in ToSet(parts.valid) \union ToSet(parts.test) : fitted.day <= other.day
<1> DEFINE frames == BarsWithLeadIn(InSample(k - 1))
           from   == InSample(k - 1).start
           rows   == UsableRows(frames, from)
           parts  == FittedOn(k).parts
<1>1. InSample(k - 1) \in [start : Nat, stop : Nat] /\ from \in Int
  <2>1. k - 1 \in Nat
    OBVIOUS
  <2>2. InSample(k - 1) \in [start : Nat, stop : Nat]
    BY <2>1, SliceType
  <2> QED
    BY <2>2
<1>2. Ordered(frames)
  BY <1>1, LeadInShape
<1>3. FittedOn(k) = Fit(frames, from)
  BY DEF FittedOn, FitWindow
<1> HIDE DEF frames, from
<1>4. rows \subseteq Rows
  BY <1>1, <1>2, UsableRowsFields
<1>5. /\ parts \in [train : Seq(rows), valid : Seq(rows), test : Seq(rows)]
      /\ RowsOf(parts) \subseteq rows
      /\ \A fitted \in ToSet(parts.train),
            other \in ToSet(parts.valid) \union ToSet(parts.test) : fitted.day <= other.day
  BY <1>1, <1>2, <1>3, FitShape
<1> HIDE DEF rows, parts
<1>6. parts \in [train : Seq(Rows), valid : Seq(Rows), test : Seq(Rows)]
  <2>1. Seq(rows) \subseteq Seq(Rows)
    BY <1>4, SeqMonotonic
  <2> QED
    BY <1>5, <2>1
<1> QED
  BY <1>2, <1>4, <1>5, <1>6 DEF rows, parts, frames, from

\* Steps that leave artifacts and judges, and do not go from one call to another
\* that counts the artifacts otherwise.
LEMMA RunnerKept ==
    ASSUME RunnerInv, UNCHANGED <<store, artifacts, judges, window>>,
           \/ job' = None
           \/ job' = job /\ (step' \in {"evaluate_is", "evaluate_oos"}
                             <=> step \in {"evaluate_is", "evaluate_oos"})
    PROVE  RunnerInv'
<1>1. \A k : FittedOn(k)' = FittedOn(k)
  BY DEF FittedOn, FitWindow, BarsWithLeadIn, Between
<1>2. /\ store' \in Histories /\ judges' \in Seq(Nat \union {None}) /\ Len(judges') = window'
      /\ artifacts' \in Seq([train : Seq(Rows), valid : Seq(Rows), test : Seq(Rows)])
      /\ \A i \in 1..Len(judges') : judges'[i] # None => judges'[i] = i /\ i <= Len(artifacts')
  BY DEF RunnerInv
<1>3. \A k \in 1..Len(artifacts') : FittedOn(k)'.status = "ok" /\ artifacts'[k] = FittedOn(k)'.parts
  BY <1>1 DEF RunnerInv
<1>4. job' # None /\ job' \in Trained =>
         Len(artifacts') = window' + IF step' \in {"evaluate_is", "evaluate_oos"} THEN 1 ELSE 0
  BY DEF RunnerInv
<1> QED
  BY <1>2, <1>3, <1>4 DEF RunnerInv

\* run_backtest.py:128-137
LEMMA TrainWindowStep ==
    ASSUME IInv, RunnerInv, TrainWindow
    PROVE  RunnerInv'
<1> DEFINE fit == FitWindow(InSample(window))
           n == Len(artifacts)
           Parts == [train : Seq(Rows), valid : Seq(Rows), test : Seq(Rows)]
<1>1. CASE job \in Trained /\ fit.status # "ok"
  <2>1. job' = None /\ UNCHANGED <<store, artifacts, judges, window>>
    BY <1>1 DEF TrainWindow, Raise, vars
  <2> QED
    BY <2>1, RunnerKept
<1>2. CASE ~(job \in Trained /\ fit.status # "ok")
  <2>1. /\ job # None /\ step = "optimize" /\ step' = "evaluate_is"
        /\ UNCHANGED <<store, job, judges, window>>
        /\ artifacts' = IF job \in Trained THEN Append(artifacts, fit.parts) ELSE artifacts
        /\ window \in Nat
    BY <1>2, WindowsAssumption DEF TrainWindow, OptimizeWindow, IInv, Progress
  <2>2. \A k : FittedOn(k)' = FittedOn(k)
    BY <2>1 DEF FittedOn, FitWindow, BarsWithLeadIn, Between
  <2>3. /\ store \in Histories /\ judges \in Seq(Nat \union {None}) /\ Len(judges) = window
        /\ artifacts \in Seq(Parts) /\ n \in Nat
        /\ \A k \in 1..n : FittedOn(k).status = "ok" /\ artifacts[k] = FittedOn(k).parts
        /\ \A i \in 1..Len(judges) : judges[i] # None => judges[i] = i /\ i <= n
    BY DEF RunnerInv
  <2>4. CASE job \notin Trained
    <3>1. artifacts' = artifacts
      BY <2>1, <2>4
    <3>2. \A k \in 1..Len(artifacts') : FittedOn(k)'.status = "ok" /\ artifacts'[k] = FittedOn(k)'.parts
      BY <2>2, <2>3, <3>1
    <3>3. \A i \in 1..Len(judges') : judges'[i] # None => judges'[i] = i /\ i <= Len(artifacts')
      BY <2>1, <2>3, <3>1
    <3> QED
      BY <2>1, <2>3, <2>4, <3>1, <3>2, <3>3 DEF RunnerInv
  <2>5. CASE job \in Trained
    <3>1. n = window /\ fit.status = "ok" /\ artifacts' = Append(artifacts, fit.parts)
      BY <1>2, <2>1, <2>5 DEF RunnerInv
    <3>2. fit = FittedOn(n + 1)
      <4>1. (n + 1) - 1 = window
        BY <2>3, <3>1
      <4> QED
        BY <4>1, Zenon DEF FittedOn
    <3>3. FittedOn(n + 1).status = "ok" /\ n + 1 \in Nat \ {0}
      BY <2>3, <3>1, <3>2
    <3>4. fit.parts \in Parts
      BY <2>3, <3>2, <3>3, FittedShape
    <3> HIDE DEF fit, n
    <3>5. /\ artifacts' \in Seq(Parts) /\ Len(artifacts') = n + 1
          /\ \A k \in 1..n : artifacts'[k] = artifacts[k]
          /\ artifacts'[n + 1] = fit.parts
      BY <2>3, <3>1, <3>4, AppendProperties DEF n
    <3>6. ASSUME NEW k \in 1..Len(artifacts')
          PROVE  FittedOn(k)'.status = "ok" /\ artifacts'[k] = FittedOn(k)'.parts
      <4>1. CASE k = n + 1
        <5>1. FittedOn(k)' = fit /\ artifacts'[k] = fit.parts
          BY <2>2, <3>2, <3>5, <4>1, Zenon
        <5> QED
          BY <3>1, <5>1
      <4>2. CASE k # n + 1
        <5>1. k \in 1..n
          BY <2>3, <3>5, <3>6, <4>2
        <5>2. FittedOn(k)' = FittedOn(k)
          BY <2>2
        <5> QED
          BY <2>3, <3>5, <5>1, <5>2
      <4> QED
        BY <4>1, <4>2
    <3>7. \A i \in 1..Len(judges') : judges'[i] # None => judges'[i] = i /\ i <= Len(artifacts')
      BY <2>1, <2>3, <3>5
    <3>8. Len(artifacts') = window' + 1
      BY <2>1, <3>1, <3>5
    <3> QED
      BY <2>1, <2>3, <3>5, <3>6, <3>7, <3>8 DEF RunnerInv
  <2> QED
    BY <2>4, <2>5
<1> QED
  BY <1>1, <1>2

\* run_backtest.py:146-172
LEMMA RunOosStep ==
    ASSUME IInv, RunnerInv, RunOos
    PROVE  RunnerInv'
<1> DEFINE failure == EvaluationFails(OutOfSample(window))
           n == Len(artifacts)
           judge == IF job \in Trained THEN n ELSE None
<1>1. CASE failure # None
  <2>1. job' = None /\ UNCHANGED <<store, artifacts, judges, window>>
    BY <1>1 DEF RunOos, Raise, vars
  <2> QED
    BY <2>1, RunnerKept
<1>2. CASE failure = None
  <2>1. /\ job # None /\ step = "evaluate_oos" /\ step' = "optimize" /\ window' = window + 1
        /\ UNCHANGED <<store, job, artifacts>>
        /\ judges' = Append(judges, judge)
        /\ window \in Nat
    <3>1. /\ job # None /\ judges' = Append(judges, judge)
          /\ UNCHANGED <<store, job, artifacts>>
          /\ \E metrics \in Evaluations : EvaluateOos(metrics)
      BY <1>2 DEF RunOos
    <3>2. step = "evaluate_oos" /\ step' = "optimize" /\ window' = window + 1
      BY <3>1 DEF EvaluateOos
    <3>3. window \in Nat
      BY WindowsAssumption DEF IInv, Progress
    <3> QED
      BY <3>1, <3>2, <3>3
  <2>2. \A k : FittedOn(k)' = FittedOn(k)
    BY <2>1 DEF FittedOn, FitWindow, BarsWithLeadIn, Between
  <2>3. /\ store \in Histories /\ judges \in Seq(Nat \union {None}) /\ Len(judges) = window
        /\ artifacts \in Seq([train : Seq(Rows), valid : Seq(Rows), test : Seq(Rows)]) /\ n \in Nat
        /\ \A k \in 1..n : FittedOn(k).status = "ok" /\ artifacts[k] = FittedOn(k).parts
        /\ \A i \in 1..Len(judges) : judges[i] # None => judges[i] = i /\ i <= n
        /\ job \in Trained => n = window + 1
    BY <2>1 DEF RunnerInv
  <2> HIDE DEF n
  <2>4. judge \in Nat \union {None} /\ (judge # None => judge = window + 1 /\ window + 1 <= n)
    BY <2>1, <2>3
  <2> HIDE DEF judge
  <2>5. /\ judges' \in Seq(Nat \union {None}) /\ Len(judges') = window + 1
        /\ \A i \in 1..window : judges'[i] = judges[i]
        /\ judges'[window + 1] = judge
    BY <2>1, <2>3, <2>4, AppendProperties
  <2>6. \A i \in 1..Len(judges') : judges'[i] # None => judges'[i] = i /\ i <= n
    <3>1. ASSUME NEW i \in 1..Len(judges'), judges'[i] # None PROVE judges'[i] = i /\ i <= n
      <4>1. i = window + 1 \/ i \in 1..window
        BY <2>1, <2>5
      <4> QED
        BY <2>3, <2>4, <2>5, <3>1, <4>1
    <3> QED
      BY <3>1
  <2>7. \A k \in 1..Len(artifacts') : FittedOn(k)'.status = "ok" /\ artifacts'[k] = FittedOn(k)'.parts
    BY <2>1, <2>2, <2>3 DEF n
  <2>8. job' # None /\ job' \in Trained => Len(artifacts') = window' + 0
    BY <2>1, <2>3 DEF n
  <2> QED
    BY <2>1, <2>3, <2>5, <2>6, <2>7, <2>8 DEF RunnerInv, n
<1> QED
  BY <1>1, <1>2

LEMMA RunnerStep ==
    ASSUME IInv, RunnerInv, [PromotionNext]_all
    PROVE  RunnerInv'
<1>1. CASE UNCHANGED all
  BY <1>1, RunnerKept DEF all, vars, runner
<1>2. ASSUME NEW s \in Strategies, StartWfo(s) PROVE RunnerInv'
  BY <1>2 DEF StartWfo, RunnerInv
<1>3. CASE CutWindows
  <2>1. /\ UNCHANGED <<store, artifacts, judges, window>> /\ job' \in {None, job}
        /\ step = "windows" /\ step' \in {"optimize", "ConfigError"}
    BY <1>3 DEF CutWindows, MakeWindows
  <2> QED
    BY <2>1, RunnerKept
<1>4. CASE TrainWindow
  BY <1>4, TrainWindowStep
<1>5. CASE RunIs
  <2>1. CASE EvaluationFails(InSample(window)) # None
    <3>1. job' = None /\ UNCHANGED <<store, artifacts, judges, window>>
      BY <1>5, <2>1 DEF RunIs, Raise, vars
    <3> QED
      BY <3>1, RunnerKept
  <2>2. CASE EvaluationFails(InSample(window)) = None
    <3>1. /\ UNCHANGED <<store, artifacts, judges, window, job>>
          /\ step = "evaluate_is" /\ step' = "evaluate_oos"
      BY <1>5, <2>2 DEF RunIs, EvaluateIs, runner
    <3> QED
      BY <3>1, RunnerKept
  <2> QED
    BY <2>1, <2>2
<1>6. CASE RunOos
  BY <1>6, RunOosStep
<1>7. CASE FinishWalk
  <2>1. UNCHANGED <<store, artifacts, judges, window>> /\ job' = None
    BY <1>7 DEF FinishWalk, Conclude, WriteVerdict
  <2> QED
    BY <2>1, RunnerKept
<1>8. CASE CompareNews \/ PaperMoves
  <2>1. UNCHANGED <<store, artifacts, judges, window, job, step>>
    BY <1>8 DEF CompareNews, PaperMoves, vars, runner
  <2> QED
    BY <2>1, RunnerKept
<1> QED
  BY <1>1, <1>2, <1>3, <1>4, <1>5, <1>6, <1>7, <1>8 DEF PromotionNext, Walk

\* run_backtest.py:1-3
LEMMA InvTrainedOnThePast == IInv /\ RunnerInv => TrainedOnThePast
<1> SUFFICES ASSUME IInv, RunnerInv, NEW i \in DOMAIN judges, judges[i] # None
             PROVE  LET artifact == artifacts[judges[i]]
                        held     == ToSet(artifact.valid) \union ToSet(artifact.test)
                    IN  /\ \A row \in RowsOf(artifact) :
                              /\ row.day \in BarsOf(InSample(i - 1))
                              /\ \A day \in ReadBy(BarsWithLeadIn(InSample(i - 1)), row) :
                                    day < judged[i].oos.start
                        /\ \A fitted \in ToSet(artifact.train), other \in held : fitted.day <= other.day
  BY DEF TrainedOnThePast
<1> DEFINE slice  == InSample(i - 1)
           frames == BarsWithLeadIn(slice)
           rows   == UsableRows(frames, slice.start)
           parts  == FittedOn(i).parts
<1>1. /\ store \in Histories /\ i \in Nat \ {0} /\ i \in 1..window /\ i <= Len(artifacts) /\ judges[i] = i
      /\ FittedOn(i).status = "ok" /\ artifacts[i] = parts
  <2>1. /\ DOMAIN judges = 1..window /\ window \in Nat /\ Len(artifacts) \in Nat
        /\ i \in 1..Len(judges)
    BY WindowsAssumption DEF RunnerInv, IInv, Progress
  <2>2. judges[i] = i /\ i <= Len(artifacts) /\ i \in 1..Len(artifacts)
    BY <2>1 DEF RunnerInv
  <2> QED
    BY <2>1, <2>2 DEF RunnerInv
<1>2. /\ slice \in [start : Nat, stop : Nat] /\ i - 1 \in Nat
  <2>1. i - 1 \in Nat
    BY <1>1
  <2> QED
    BY <2>1, SliceType
<1>3. judged[i].oos.start = slice.stop
  <2>1. judged[i].oos = OutOfSample(i - 1)
    BY <1>1 DEF IInv, WalkedSoFar
  <2>2. OutOfSample(i - 1).start = slice.stop
    BY DEF OutOfSample, InSample, Slice
  <2> QED
    BY <2>1, <2>2
<1>4. /\ Ordered(frames)
      /\ \A s \in DOMAIN frames : \A t \in DOMAIN frames[s] :
           frames[s][t].day \in Nat /\ frames[s][t].day <= slice.stop - 1
  BY <1>1, <1>2, LeadInShape
<1>5. /\ RowsOf(parts) \subseteq rows
      /\ \A fitted \in ToSet(parts.train),
            other \in ToSet(parts.valid) \union ToSet(parts.test) : fitted.day <= other.day
  BY <1>1, FittedShape
<1> HIDE DEF frames, parts
<1>6. ASSUME NEW row \in rows
      PROVE  /\ row.day \in BarsOf(slice)
             /\ \A day \in ReadBy(frames, row) : day < slice.stop
  <2>1. /\ row.symbol \in DOMAIN frames /\ row.at \in UsableAt(frames[row.symbol], slice.start)
        /\ row.day = frames[row.symbol][row.at].day /\ row.day >= slice.start
    BY <1>2, <1>4, UsableRowsFields
  <2> DEFINE frame == frames[row.symbol]
  <2>2. row.at \in DOMAIN frame /\ frame \in Seq(Bars)
    BY <1>4, <2>1 DEF UsableAt, Ordered
  <2>3. \A t \in DOMAIN frame : frame[t].day \in Nat /\ frame[t].day <= slice.stop - 1
    BY <1>4, <2>1
  <2>4. row.day \in BarsOf(slice)
    BY <1>2, <2>1, <2>2, <2>3 DEF BarsOf
  <2> HIDE DEF frame
  <2>5. 1..row.at \union Scanned(frame, row.at) \subseteq DOMAIN frame
    <3>1. row.at \in Nat /\ Len(frame) \in Nat /\ DOMAIN frame = 1..Len(frame)
      BY <2>2, FrameType
    <3>2. Scanned(frame, row.at) \subseteq DOMAIN frame
      BY <2>2, <3>1, ScannedIsAhead
    <3>3. 1..row.at \subseteq DOMAIN frame
      BY <2>2, <3>1
    <3> QED
      BY <3>2, <3>3
  <2>6. \A day \in ReadBy(frames, row) : \E t \in DOMAIN frame : day = frame[t].day
    BY <2>5 DEF ReadBy, frame
  <2>7. \A day \in ReadBy(frames, row) : day < slice.stop
    BY <1>2, <2>3, <2>6
  <2> QED
    BY <2>4, <2>7
<1>7. artifacts[judges[i]] = parts
  BY <1>1
<1>8. \A row \in RowsOf(parts) : /\ row.day \in BarsOf(slice)
                                 /\ \A day \in ReadBy(frames, row) : day < judged[i].oos.start
  BY <1>3, <1>5, <1>6
<1> QED
  BY <1>5, <1>7, <1>8, Zenon DEF frames

\* labels.py:33-75
LEMMA InvLabelsTellOutcome == RunnerInv => LabelsTellOutcome
<1> SUFFICES ASSUME RunnerInv, NEW i \in DOMAIN artifacts, NEW row \in RowsOf(artifacts[i])
             PROVE  Tells(BarsWithLeadIn(InSample(i - 1))[row.symbol], row.at, row.label)
  BY DEF LabelsTellOutcome, Tells
<1> DEFINE slice  == InSample(i - 1)
           frames == BarsWithLeadIn(slice)
           rows   == UsableRows(frames, slice.start)
           parts  == FittedOn(i).parts
<1>1. /\ store \in Histories /\ i \in Nat \ {0} /\ FittedOn(i).status = "ok" /\ artifacts[i] = parts
  <2>1. DOMAIN artifacts = 1..Len(artifacts) /\ Len(artifacts) \in Nat
    BY DEF RunnerInv
  <2> QED
    BY <2>1 DEF RunnerInv
<1>2. Ordered(frames) /\ row \in rows /\ slice.start \in Int
  <2>1. slice \in [start : Nat, stop : Nat]
    <3>1. i - 1 \in Nat
      BY <1>1
    <3> QED
      BY <3>1, SliceType
  <2>2. Ordered(frames) /\ RowsOf(parts) \subseteq rows
    BY <1>1, FittedShape
  <2> QED
    BY <1>1, <2>1, <2>2
<1> HIDE DEF frames
<1>3. /\ row.symbol \in DOMAIN frames /\ row.at \in UsableAt(frames[row.symbol], slice.start)
      /\ row.label = Label(frames[row.symbol], row.at)
  BY <1>2, UsableRowsFields
<1>4. /\ frames[row.symbol] \in Seq(Bars) /\ row.at \in DOMAIN frames[row.symbol]
      /\ Label(frames[row.symbol], row.at) # None
  BY <1>2, <1>3 DEF UsableAt, Ordered
<1>5. Tells(frames[row.symbol], row.at, Label(frames[row.symbol], row.at))
  BY <1>4, LabelTells
<1> QED
  BY <1>3, <1>5, Zenon DEF frames

----------------------------------------------------------------------------
\* The comparison.

Alike(f, g) ==
    /\ f \in Seq(Bars) /\ g \in Seq(Bars) /\ Len(f) = Len(g)
    /\ \A t \in 1..Len(f) : /\ f[t].day = g[t].day /\ f[t].low = g[t].low
                            /\ f[t].high = g[t].high /\ f[t].close = g[t].close
                            /\ f[t].gap = g[t].gap

LEMMA AlikeComplete ==
    ASSUME NEW f, NEW g, Alike(f, g)
    PROVE  /\ \A t \in 1..Len(f) : Complete(f, t) <=> Complete(g, t)
           /\ HasGap(f) <=> HasGap(g)
<1>1. FeatureWarmup \in Nat /\ FeatureWarmup >= 1 /\ Len(f) \in Nat /\ Len(g) = Len(f)
  BY TrainingAssumption DEF Alike
<1>2. \A t \in 1..Len(f) : Complete(f, t) <=> Complete(g, t)
  <2>1. ASSUME NEW t \in 1..Len(f), t > FeatureWarmup PROVE t - 1 \in 1..Len(f)
    BY <1>1, <2>1
  <2> QED
    BY <2>1 DEF Complete, Alike
<1>3. \A u \in 2..Len(f) : /\ f[u - 1].gap = g[u - 1].gap
                           /\ 1..(u - 1) \subseteq 1..Len(f)
  <2>1. \A u \in 2..Len(f) : u - 1 \in 1..Len(f) /\ 1..(u - 1) \subseteq 1..Len(f)
    BY <1>1
  <2> QED
    BY <2>1 DEF Alike
<1>4. ASSUME NEW u \in 2..Len(f)
      PROVE  (f[u - 1].gap /\ \E t \in 1..(u - 1) : Complete(f, t))
               <=> (g[u - 1].gap /\ \E t \in 1..(u - 1) : Complete(g, t))
  <2>1. \A t \in 1..(u - 1) : Complete(f, t) <=> Complete(g, t)
    BY <1>2, <1>3
  <2> QED
    BY <1>3, <2>1
<1>5. HasGap(f) <=> HasGap(g)
  BY <1>1, <1>4 DEF HasGap
<1> QED
  BY <1>2, <1>5

LEMMA AlikeLabel ==
    ASSUME NEW f, NEW g, Alike(f, g), NEW t \in 1..Len(f)
    PROVE  Label(f, t) = Label(g, t)
<1>1. /\ t \in Nat /\ Len(f) \in Nat /\ Len(g) = Len(f) /\ f \in Seq(Bars) /\ g \in Seq(Bars)
      /\ DOMAIN f = 1..Len(f) /\ DOMAIN g = 1..Len(f)
  BY DEF Alike
<1>2. Scanned(f, t) = Scanned(g, t)
  BY <1>1 DEF Scanned
<1>3. Scanned(f, t) \subseteq 1..Len(f)
  BY <1>1, ScannedIsAhead
<1>4. \A j \in 1..Len(f) : /\ HitsStop(f, t, j) <=> HitsStop(g, t, j)
                           /\ HitsTarget(f, t, j) <=> HitsTarget(g, t, j)
  BY DEF HitsStop, HitsTarget, Alike
<1>5. Touches(f, t) = Touches(g, t)
  BY <1>2, <1>3, <1>4 DEF Touches
<1>6. VolatilityKnown(f, t) <=> VolatilityKnown(g, t)
  <2>1. \A u \in 2..t : u \in 1..Len(f) /\ u - 1 \in 1..Len(f)
    BY <1>1
  <2>2. \A u \in 2..t : f[u].close = g[u].close /\ f[u - 1].close = g[u - 1].close
    BY <2>1 DEF Alike
  <2>3. \A u, v \in 2..t : (f[u].close * f[v - 1].close # f[v].close * f[u - 1].close)
                             <=> (g[u].close * g[v - 1].close # g[v].close * g[u - 1].close)
    BY <2>2
  <2> QED
    BY <2>3 DEF VolatilityKnown
<1> DEFINE m == Min(Touches(f, t))
<1>7. m = Min(Touches(g, t))
  BY <1>5, Zenon
<1>8. Touches(f, t) # {} => m \in 1..Len(f)
  <2>1. Touches(f, t) \subseteq 1..Len(f)
    BY <1>3 DEF Touches
  <2> QED
    BY <1>1, <2>1, Ends
<1>9. /\ Label(f, t) = IF ~VolatilityKnown(f, t) THEN None
                       ELSE IF Touches(f, t) # {} THEN Outcome(f, t, m)
                       ELSE IF t + Horizon <= Len(f) THEN 0 ELSE None
      /\ Label(g, t) = IF ~VolatilityKnown(g, t) THEN None
                       ELSE IF Touches(g, t) # {} THEN Outcome(g, t, Min(Touches(g, t)))
                       ELSE IF t + Horizon <= Len(g) THEN 0 ELSE None
  BY Zenon DEF Label, Touches
<1> HIDE DEF m
<1>10. Touches(f, t) # {} => Outcome(f, t, m) = Outcome(g, t, m)
  BY <1>4, <1>8 DEF Outcome
<1>11. Label(g, t) = IF ~VolatilityKnown(f, t) THEN None
                     ELSE IF Touches(f, t) # {} THEN Outcome(g, t, m)
                     ELSE IF t + Horizon <= Len(f) THEN 0 ELSE None
  BY <1>1, <1>5, <1>6, <1>7, <1>9, Zenon
<1> QED
  BY <1>9, <1>10, <1>11

LEMMA AlikeFrames ==
    ASSUME NEW frames, Ordered(frames), NEW others, Ordered(others), NEW from \in Int,
           DOMAIN frames = DOMAIN others,
           \A s \in DOMAIN frames : Alike(frames[s], others[s])
    PROVE  /\ UsableRows(frames, from) = UsableRows(others, from)
           /\ (\E s \in DOMAIN frames : HasGap(frames[s])) <=> (\E s \in DOMAIN others : HasGap(others[s]))
           /\ Fit(frames, from) = Fit(others, from)
<1>1. ASSUME NEW s \in DOMAIN frames
      PROVE  RowsOfSymbol(frames, from, s) = RowsOfSymbol(others, from, s)
  <2> DEFINE f == frames[s]
             g == others[s]
  <2>1. Alike(f, g) /\ DOMAIN f = 1..Len(f) /\ DOMAIN g = 1..Len(f)
    BY DEF Alike
  <2> HIDE DEF f, g
  <2>2. \A t \in 1..Len(f) : /\ f[t].day = g[t].day /\ (Complete(f, t) <=> Complete(g, t))
                             /\ Label(f, t) = Label(g, t)
    BY <2>1, AlikeComplete, AlikeLabel DEF Alike
  <2>3. UsableAt(f, from) = UsableAt(g, from) /\ UsableAt(f, from) \subseteq 1..Len(f)
    BY <2>1, <2>2 DEF UsableAt
  <2>4. \A t \in UsableAt(f, from) : Row(s, f, t) = Row(s, g, t)
    BY <2>2, <2>3 DEF Row
  <2> QED
    BY <2>3, <2>4 DEF RowsOfSymbol, f, g
<1>2. {RowsOfSymbol(frames, from, s) : s \in DOMAIN frames}
        = {RowsOfSymbol(others, from, s) : s \in DOMAIN others}
  BY <1>1
<1>3. UsableRows(frames, from) = UsableRows(others, from)
  BY <1>2, UsableRowsFields, Zenon
<1>4. (\E s \in DOMAIN frames : HasGap(frames[s])) <=> (\E s \in DOMAIN others : HasGap(others[s]))
  BY AlikeComplete
<1>5. Fit(frames, from) = Fit(others, from)
  <2> DEFINE parts == Split(Stacked(UsableRows(frames, from)))
  <2>1. parts = Split(Stacked(UsableRows(others, from)))
    BY <1>3, Zenon
  <2>2. Fit(frames, from) = IF \E s \in DOMAIN frames : HasGap(frames[s]) THEN [status |-> "DataValidationError"]
                            ELSE IF parts.train = <<>> THEN [status |-> "ValueError"]
                            ELSE [status |-> "ok", parts |-> parts]
    BY Zenon DEF Fit
  <2>3. Fit(others, from) = IF \E s \in DOMAIN others : HasGap(others[s]) THEN [status |-> "DataValidationError"]
                            ELSE IF parts.train = <<>> THEN [status |-> "ValueError"]
                            ELSE [status |-> "ok", parts |-> parts]
    BY <2>1, Zenon DEF Fit
  <2> HIDE DEF parts
  <2> QED
    BY <1>4, <2>2, <2>3
<1> QED
  BY <1>3, <1>4, <1>5

\* ab_sentiment.py:40-58 (merge_sentiment): a left join changes no other column.
LEMMA VariantIsAlike ==
    ASSUME NEW frames, Ordered(frames), NEW variant
    PROVE  /\ Ordered(Variant(frames, variant)) /\ DOMAIN frames = DOMAIN Variant(frames, variant)
           /\ \A s \in DOMAIN frames : Alike(frames[s], Variant(frames, variant)[s])
<1> DEFINE others == [s \in DOMAIN frames |-> MergeSentiment(frames[s], store.news[s])]
<1>1. /\ Len(frames) \in Nat /\ DOMAIN frames = 1..Len(frames)
      /\ \A s \in DOMAIN frames : frames[s] \in Seq(Bars) /\ InTimeOrder(frames[s])
  BY DEF Ordered
<1>2. \A s \in DOMAIN frames : Alike(frames[s], frames[s])
  BY <1>1 DEF Alike
<1>3. ASSUME NEW f \in Seq(Bars), InTimeOrder(f), NEW news
      PROVE  Alike(f, MergeSentiment(f, news)) /\ InTimeOrder(MergeSentiment(f, news))
  <2> DEFINE g == MergeSentiment(f, news)
  <2>1. /\ Len(f) \in Nat /\ DOMAIN f = 1..Len(f) /\ \A t \in 1..Len(f) : f[t] \in Bars
    OBVIOUS
  <2>2. ASSUME NEW bar \in Bars, NEW b \in BOOLEAN
        PROVE  LET c == [bar EXCEPT !.news = b]
               IN  /\ c \in Bars /\ c.day = bar.day /\ c.low = bar.low /\ c.high = bar.high
                   /\ c.close = bar.close /\ c.gap = bar.gap
    BY DEF Bars
  <2>3. DOMAIN g = 1..Len(f) /\ \A t \in 1..Len(f) : g[t] = [f[t] EXCEPT !.news = f[t].day \in news]
    BY <2>1 DEF MergeSentiment
  <2>4. ASSUME NEW t \in 1..Len(f)
        PROVE  /\ g[t] \in Bars /\ g[t].day = f[t].day /\ g[t].low = f[t].low
               /\ g[t].high = f[t].high /\ g[t].close = f[t].close /\ g[t].gap = f[t].gap
    <3>1. CASE f[t].day \in news
      <4>1. g[t] = [f[t] EXCEPT !.news = TRUE]
        BY <2>3, <3>1
      <4> QED
        BY <2>1, <2>2, <4>1, ZenonT(40)
    <3>2. CASE f[t].day \notin news
      <4>0. (f[t].day \in news) = FALSE
        BY <3>2
      <4>1. g[t] = [f[t] EXCEPT !.news = FALSE]
        BY <2>3, <4>0, Zenon
      <4> QED
        BY <2>1, <2>2, <4>1
    <3> QED
      BY <3>1, <3>2
  <2>5. g \in Seq(Bars) /\ Len(g) = Len(f)
    <3>1. g \in [1..Len(f) -> Bars]
      BY <2>1, <2>4 DEF MergeSentiment
    <3> QED
      BY <2>1, <3>1
  <2> HIDE DEF g
  <2>6. Alike(f, g)
    BY <2>4, <2>5 DEF Alike
  <2>7. InTimeOrder(g)
    BY <1>3, <2>1, <2>3, <2>4 DEF InTimeOrder
  <2> QED
    BY <2>6, <2>7 DEF g
<1>4. \A s \in DOMAIN frames : Alike(frames[s], others[s]) /\ InTimeOrder(others[s]) /\ others[s] \in Seq(Bars)
  <2>1. \A s \in DOMAIN frames : Alike(frames[s], others[s]) /\ InTimeOrder(others[s])
    BY <1>1, <1>3
  <2> QED
    BY <2>1 DEF Alike
<1>5. Ordered(others) /\ DOMAIN others = DOMAIN frames
  <2>1. others \in [1..Len(frames) -> Seq(Bars)]
    BY <1>1, <1>4
  <2> QED
    BY <1>1, <1>4, <2>1 DEF Ordered
<1>6. Variant(frames, variant) = IF variant = "base" THEN frames ELSE others
  BY DEF Variant
<1> HIDE DEF others
<1> QED
  BY <1>2, <1>4, <1>5, <1>6

Measures == [w \in 0..(NWindows - 1) |-> [variant \in {"base", "news"} |-> Measure(w, variant)]]

\* A summary is that of every window, and none of them raised.
AbInv ==
    \/ ab = None
    \/ ab = [failed |-> TRUE]
    \/ /\ ab = [failed |-> FALSE, measures |-> Measures]
       /\ \A w \in 0..(NWindows - 1), v \in {"base", "news"} : Measure(w, v).status = "ok"

LEMMA AbStep ==
    ASSUME AbInv, [PromotionNext]_all
    PROVE  AbInv'
<1>1. UNCHANGED store
  BY DEF PromotionNext, all, Walk, StartWfo, CutWindows, TrainWindow, RunIs, RunOos, Raise,
         FinishWalk, Conclude, CompareNews, PaperMoves, runner
<1>2. \A w, v : Measure(w, v)' = Measure(w, v)
  BY <1>1 DEF Measure, Variant, BarsWithLeadIn, Between
<1>3. Measures' = Measures
  BY <1>2 DEF Measures
<1>4. CASE UNCHANGED ab
  BY <1>2, <1>3, <1>4 DEF AbInv
<1>5. CASE CompareNews
  <2>1. ab' = IF \E w \in 0..(NWindows - 1), v \in {"base", "news"} : Measure(w, v).status # "ok"
              THEN [failed |-> TRUE] ELSE [failed |-> FALSE, measures |-> Measures]
    BY <1>5 DEF CompareNews, Compare, Measures
  <2> QED
    BY <1>2, <1>3, <2>1 DEF AbInv
<1> QED
  BY <1>4, <1>5 DEF PromotionNext, all, Walk, FinishWalk, PaperMoves

LEMMA MeasureShape ==
    ASSUME store \in Histories, NEW w \in 0..(NWindows - 1), NEW variant, Measure(w, variant).status = "ok"
    PROVE  LET inSample == BarsWithLeadIn(InSample(w))
               oos      == BarsWithLeadIn(OutOfSample(w))
               start    == InSample(w).start
           IN  /\ Fit(inSample, start).status = "ok"
               /\ Measure(w, variant).fitted = ToSet(Fit(inSample, start).parts.train)
               /\ Measure(w, variant).scored = UsableRows(oos, 0)
<1> DEFINE inSample == BarsWithLeadIn(InSample(w))
           oos      == BarsWithLeadIn(OutOfSample(w))
           start    == InSample(w).start
           fit      == Fit(Variant(inSample, variant), start)
<1>1. /\ w \in Nat /\ InSample(w) \in [start : Nat, stop : Nat] /\ start \in Int
      /\ OutOfSample(w) \in [start : Nat, stop : Nat]
  BY WindowsAssumption, SliceType
<1>2. Ordered(inSample) /\ Ordered(oos)
  BY <1>1, LeadInShape
<1> HIDE DEF inSample, oos, start
<1>3. fit = Fit(inSample, start)
  BY <1>1, <1>2, VariantIsAlike, AlikeFrames
<1>4. UsableRows(Variant(oos, variant), 0) = UsableRows(oos, 0)
  BY <1>2, VariantIsAlike, AlikeFrames
<1>5. Measure(w, variant) =
        IF fit.status # "ok" THEN [status |-> fit.status]
        ELSE IF \E s \in DOMAIN Variant(oos, variant) : HasGap(Variant(oos, variant)[s])
             THEN [status |-> "DataValidationError"]
        ELSE [status |-> "ok", fitted |-> ToSet(fit.parts.train),
              scored |-> UsableRows(Variant(oos, variant), 0)]
  BY Zenon DEF Measure, OosRows, inSample, oos, start
<1> HIDE DEF fit
<1>6. /\ fit.status = "ok" /\ Measure(w, variant).fitted = ToSet(fit.parts.train)
      /\ Measure(w, variant).scored = UsableRows(Variant(oos, variant), 0)
  BY <1>5
<1> QED
  BY <1>3, <1>4, <1>6, Zenon DEF inSample, oos, start

\* ab_sentiment.py:7-10
LEMMA InvComparisonIsPaired == RunnerInv /\ AbInv => ComparisonIsPaired
<1> SUFFICES ASSUME RunnerInv, AbInv, ab # None, ~ab.failed, NEW w \in DOMAIN ab.measures
             PROVE  LET base == ab.measures[w]["base"]
                        news == ab.measures[w]["news"]
                    IN  /\ base.fitted = news.fitted /\ base.scored = news.scored
                        /\ Defined(base) = Defined(news)
                        /\ \A row \in base.fitted : row.day < OutOfSample(w).start
                        /\ Days(base.scored) \subseteq 0..(OutOfSample(w).stop - 1)
  BY DEF ComparisonIsPaired
<1> DEFINE base == Measure(w, "base")
           news == Measure(w, "news")
           inSample == BarsWithLeadIn(InSample(w))
           oos      == BarsWithLeadIn(OutOfSample(w))
           start    == InSample(w).start
           fit      == Fit(inSample, start)
<1>1. /\ ab = [failed |-> FALSE, measures |-> Measures]
      /\ \A x \in 0..(NWindows - 1), v \in {"base", "news"} : Measure(x, v).status = "ok"
  BY DEF AbInv
<1>2. w \in 0..(NWindows - 1) /\ ab.measures[w]["base"] = base /\ ab.measures[w]["news"] = news
  <2>1. ab.measures = Measures
    BY <1>1
  <2> QED
    BY <2>1 DEF Measures
<1>3. /\ w \in Nat /\ InSample(w) \in [start : Nat, stop : Nat] /\ start \in Int
      /\ OutOfSample(w) \in [start : Nat, stop : Nat]
      /\ InSample(w).stop = OutOfSample(w).start
  <2>1. w \in Nat
    BY <1>2, WindowsAssumption
  <2>2. InSample(w).stop = OutOfSample(w).start
    BY DEF InSample, OutOfSample, Slice
  <2> QED
    BY <2>1, <2>2, SliceType
<1>4. store \in Histories
  BY DEF RunnerInv
<1>5. /\ fit.status = "ok"
      /\ base.fitted = ToSet(fit.parts.train) /\ news.fitted = ToSet(fit.parts.train)
      /\ base.scored = UsableRows(oos, 0) /\ news.scored = UsableRows(oos, 0)
  BY <1>1, <1>2, <1>4, MeasureShape
<1>6. /\ Ordered(inSample) /\ Ordered(oos)
      /\ \A s \in DOMAIN inSample : \A t \in DOMAIN inSample[s] : inSample[s][t].day <= InSample(w).stop - 1
      /\ \A s \in DOMAIN oos : \A t \in DOMAIN oos[s] :
           oos[s][t].day \in Nat /\ oos[s][t].day <= OutOfSample(w).stop - 1
  BY <1>3, <1>4, LeadInShape
<1> HIDE DEF base, news, inSample, oos, fit
<1>7. Defined(base) = Defined(news)
  BY <1>5, Zenon DEF Defined
<1>8. ASSUME NEW row \in base.fitted PROVE row.day < OutOfSample(w).start
  <2>1. row \in UsableRows(inSample, start)
    <3>1. RowsOf(fit.parts) \subseteq UsableRows(inSample, start)
      BY <1>3, <1>5, <1>6, FitShape DEF fit
    <3> QED
      BY <1>5, <3>1 DEF RowsOf
  <2>2. /\ row.symbol \in DOMAIN inSample /\ row.at \in DOMAIN inSample[row.symbol]
        /\ row \in Rows /\ row.day = inSample[row.symbol][row.at].day
    BY <1>3, <1>6, <2>1, UsableRowsFields DEF UsableAt
  <2>3. row.day \in Nat /\ row.day <= InSample(w).stop - 1
    BY <1>6, <2>2 DEF Rows
  <2> QED
    BY <1>3, <2>3
<1>9. ASSUME NEW row \in base.scored PROVE row.day \in 0..(OutOfSample(w).stop - 1)
  <2>1. row \in UsableRows(oos, 0)
    BY <1>5
  <2>2. /\ row.symbol \in DOMAIN oos /\ row.at \in DOMAIN oos[row.symbol]
        /\ row.day = oos[row.symbol][row.at].day
    BY <1>6, <2>1, UsableRowsFields DEF UsableAt
  <2>3. row.day \in Nat /\ row.day <= OutOfSample(w).stop - 1
    BY <1>6, <2>2
  <2> QED
    BY <1>3, <2>3
<1>10. Days(base.scored) \subseteq 0..(OutOfSample(w).stop - 1)
  BY <1>9 DEF Days
<1>11. base.fitted = news.fitted /\ base.scored = news.scored
  BY <1>5
<1> QED
  BY <1>2, <1>7, <1>8, <1>10, <1>11, Zenon

----------------------------------------------------------------------------
\* Types.

Typed ==
    /\ params \in [start : Nat, stop : Nat] \union {None}
    /\ verdict \in [gates : [GateNames -> BOOLEAN], cleared : BOOLEAN] \union {None}
    /\ exit \in {"code 0", "code 1", None} \union Exceptions
    /\ walks \in 0..MaxWalks
    /\ clock \in 0..MaxClock
    /\ session \in Strategies \union {None}

LEMMA GatesType == Gates \in [GateNames -> BOOLEAN]
<1>1. DOMAIN Gates = GateNames
  BY DEF Gates, GateNames
<1>2. \A g \in GateNames : Gates[g] \in BOOLEAN
  <2>1. Gates.windows \in BOOLEAN
    BY DEF Gates
  <2>2. Gates.wfe \in BOOLEAN
    <3>1. Gates.wfe = WfePasses
      BY DEF Gates
    <3>2. WfePasses \in BOOLEAN
      <4>1. CASE totals.isReturn > 0
        <5> DEFINE kept  == 100 * totals.oosReturn * IsLen
                   asked == MinWfePct * totals.isReturn * OosLen
        <5>1. WfePasses = (kept >= asked)
          BY <4>1, Zenon DEF WfePasses
        <5> HIDE DEF kept, asked
        <5>2. (kept >= asked) \in BOOLEAN
          OBVIOUS
        <5> QED
          BY <5>1, <5>2, Zenon
      <4>2. CASE ~(totals.isReturn > 0)
        BY <4>2 DEF WfePasses
      <4> QED
        BY <4>1, <4>2
    <3> QED
      BY <3>1, <3>2, Zenon
  <2>3. Gates.oos_trades \in BOOLEAN
    BY DEF Gates
  <2>4. Gates.oos_sharpe \in BOOLEAN
    BY DEF Gates
  <2>5. Gates.oos_max_drawdown \in BOOLEAN
    BY DEF Gates
  <2> QED
    BY <2>1, <2>2, <2>3, <2>4, <2>5 DEF GateNames
<1>3. Gates = [g \in GateNames |-> Gates[g]]
  BY <1>1, Zenon DEF Gates
<1> QED
  BY <1>2, <1>3, Zenon

LEMMA FitStatus ==
    ASSUME NEW frames, NEW from
    PROVE  Fit(frames, from).status \in {"ok", "DataValidationError", "ValueError"}
<1> DEFINE parts == Split(Stacked(UsableRows(frames, from)))
           gap == \E s \in DOMAIN frames : HasGap(frames[s])
<1>1. \/ Fit(frames, from) = [status |-> "DataValidationError"]
      \/ Fit(frames, from) = [status |-> "ValueError"]
      \/ Fit(frames, from) = [status |-> "ok", parts |-> parts]
  BY Zenon DEF Fit
<1> HIDE DEF parts
<1> QED
  BY <1>1

LEMMA TypedStep ==
    ASSUME PromotionInv, Typed, [PromotionNext]_all
    PROVE  Typed'
<1>1. CASE UNCHANGED all
  BY <1>1 DEF Typed, all, vars, runner, paper
<1>2. ASSUME NEW s \in Strategies, StartWfo(s), UNCHANGED <<ab, paper>> PROVE Typed'
  <2>1. walks' \in 0..MaxWalks
    <3>1. walks < MaxWalks /\ walks' = walks + 1
      BY <1>2 DEF StartWfo
    <3> QED
      <4>1. walks \in 0..MaxWalks
        BY DEF Typed
      <4>2. MaxWalks \in Nat
        BY RunnersAssumption
      <4> QED
        BY <3>1, <4>1, <4>2
  <2>2. exit' \in {"ConfigError", None}
    BY <1>2 DEF StartWfo
  <2>3. params' = None /\ verdict' = None /\ UNCHANGED <<clock, session>>
    BY <1>2 DEF StartWfo, paper
  <2> QED
    BY <2>1, <2>2, <2>3 DEF Typed, Exceptions
<1>3. ASSUME NEW exception \in Exceptions, Raise(exception), UNCHANGED paper PROVE Typed'
  BY <1>3 DEF Typed, Raise, vars, paper
<1>4. CASE CutWindows /\ UNCHANGED paper
  BY <1>4 DEF Typed, CutWindows, MakeWindows, Exceptions, paper
<1>5. CASE TrainWindow /\ UNCHANGED paper
  <2> DEFINE fit == FitWindow(InSample(window))
  <2>1. CASE job \in Trained /\ fit.status # "ok"
    <3>1. fit.status \in Exceptions
      BY <2>1, FitStatus DEF FitWindow, Exceptions
    <3>2. Raise(fit.status)
      BY <1>5, <2>1 DEF TrainWindow
    <3> QED
      BY <1>3, <1>5, <3>1, <3>2
  <2>2. CASE ~(job \in Trained /\ fit.status # "ok")
    <3>1. OptimizeWindow /\ UNCHANGED <<exit, walks, paper>>
      BY <1>5, <2>2 DEF TrainWindow
    <3>2. params' = InSample(window) /\ verdict' = verdict /\ window \in Nat
      BY <3>1, WindowsAssumption DEF OptimizeWindow, PromotionInv, IInv, Progress
    <3>3. params' \in [start : Nat, stop : Nat]
      BY <3>2, SliceType
    <3> QED
      BY <3>1, <3>2, <3>3 DEF Typed, paper
  <2> QED
    BY <2>1, <2>2
<1>6. ASSUME NEW slice, EvaluationFails(slice) # None PROVE EvaluationFails(slice) \in Exceptions
  BY <1>6 DEF EvaluationFails, Exceptions
<1>7. CASE RunIs /\ UNCHANGED paper
  <2> DEFINE failure == EvaluationFails(InSample(window))
  <2>1. CASE failure # None
    <3>1. Raise(failure)
      BY <1>7, <2>1 DEF RunIs
    <3> QED
      BY <1>3, <1>6, <1>7, <2>1, <3>1
  <2>2. CASE failure = None
    <3>1. UNCHANGED <<params, verdict, exit, walks, paper>>
      BY <1>7, <2>2 DEF RunIs, EvaluateIs, runner
    <3> QED
      BY <3>1 DEF Typed, paper
  <2> QED
    BY <2>1, <2>2
<1>8. CASE RunOos /\ UNCHANGED paper
  <2> DEFINE failure == EvaluationFails(OutOfSample(window))
  <2>1. CASE failure # None
    <3>1. Raise(failure)
      BY <1>8, <2>1 DEF RunOos
    <3> QED
      BY <1>3, <1>6, <1>8, <2>1, <3>1
  <2>2. CASE failure = None
    <3>1. UNCHANGED <<params, verdict, exit, walks, paper>>
      BY <1>8, <2>2 DEF RunOos, EvaluateOos
    <3> QED
      BY <3>1 DEF Typed, paper
  <2> QED
    BY <2>1, <2>2
<1>9. CASE FinishWalk
  <2>1. /\ verdict'.cleared \in BOOLEAN /\ exit' \in {"code 0", "code 1"}
        /\ UNCHANGED <<params, walks, clock, session>>
    BY <1>9, VerdictShape DEF PromotionInv, FinishWalk, Conclude, WriteVerdict, RunWfo, FileVerdict
  <2>2. verdict' = [gates |-> Gates, cleared |-> verdict'.cleared]
    <3>1. verdict' = [gates |-> Gates, cleared |-> \A g \in GateNames : Gates[g]]
      BY <1>9 DEF FinishWalk, Conclude, WriteVerdict
    <3> QED
      BY <3>1, Zenon
  <2>3. verdict' \in [gates : [GateNames -> BOOLEAN], cleared : BOOLEAN]
    <3> DEFINE cleared == verdict'.cleared
    <3>1. cleared \in BOOLEAN /\ verdict' = [gates |-> Gates, cleared |-> cleared]
      BY <2>1, <2>2, Zenon
    <3> HIDE DEF cleared
    <3> QED
      BY <3>1, GatesType
  <2> QED
    BY <2>1, <2>3 DEF Typed
<1>10. CASE CompareNews
  BY <1>10 DEF Typed, CompareNews, vars, runner, paper
<1>11. CASE PaperMoves
  <2>1. UNCHANGED <<params, verdict, exit, walks>>
    BY <1>11 DEF PaperMoves, vars, runner
  <2>2. clock' \in 0..MaxClock
    <3>1. clock' = clock \/ (clock < MaxClock /\ clock' = clock + 1)
      BY <1>11 DEF PaperMoves, Tick, StartPaper, StopPaper
    <3> QED
      <4>1. clock \in 0..MaxClock
        BY DEF Typed
      <4>2. MaxClock \in Nat
        BY NamesAssumption
      <4> QED
        BY <3>1, <4>1, <4>2
  <2>3. session' \in Strategies \union {None}
    BY <1>11 DEF Typed, PaperMoves, Tick, StartPaper, StopPaper
  <2> QED
    BY <2>1, <2>2, <2>3 DEF Typed
<1> QED
  BY <1>1, <1>2, <1>4, <1>5, <1>7, <1>8, <1>9, <1>10, <1>11 DEF PromotionNext, Walk

DataInv == RunnerInv /\ AbInv /\ Typed

LEMMA InitDataInv == PromotionInit => DataInv
BY InitRunnerInv, RunnersAssumption, NamesAssumption
   DEF PromotionInit, DataInv, Init, RunnerInit, AbInit, PaperInit, AbInv, Typed

\* run_backtest.py, train_lgbm.py, ab_sentiment.py: what the programs hold and have
\* fitted on, in every interleaving.
THEOREM DataInvHolds == PromotionSpec => []DataInv
<1>1. PromotionInv /\ DataInv /\ [PromotionNext]_all => DataInv'
  BY RunnerStep, AbStep, TypedStep DEF PromotionInv, DataInv
<1> QED
  BY <1>1, InitDataInv, PromotionInvHolds, PTL DEF PromotionSpec

\* run_backtest.py:1-3 "Retrains the model on each window's in-sample bars": what
\* judges a window was fitted in that window on in-sample rows alone, none of whose
\* features or labels has read a day that it judges.
THEOREM AlwaysTrainedOnThePast == PromotionSpec => []TrainedOnThePast
<1> QED
  BY InvTrainedOnThePast, PromotionInvHolds, DataInvHolds, PTL DEF PromotionInv, DataInv

\* labels.py:33-75: every label that a model was fitted or scored on tells which
\* barrier was touched first.
THEOREM LabelsAlwaysTell == PromotionSpec => []LabelsTellOutcome
<1> QED
  BY InvLabelsTellOutcome, DataInvHolds, PTL DEF DataInv

\* ab_sentiment.py:7-10: with and without the news column, the same rows are fitted
\* on and the same rows scored.
THEOREM ComparisonAlwaysPaired == PromotionSpec => []ComparisonIsPaired
<1> QED
  BY InvComparisonIsPaired, DataInvHolds, PTL DEF DataInv

LEMMA InvTypes == PromotionInv /\ DataInv => PromotionTypeOK
<1> SUFFICES ASSUME PromotionInv, DataInv PROVE PromotionTypeOK
  OBVIOUS
<1>1. TypeOK
  <2>1. /\ window \in 0..NWindows
        /\ step \in {"windows", "optimize", "evaluate_is", "evaluate_oos", "written", "ConfigError"}
        /\ judged \in Seq([oos : [start : Nat, stop : Nat], params : [start : Nat, stop : Nat]])
        /\ totals \in [isReturn : Int, oosReturn : Int, trades : Nat, sharpe : Int, worst : Nat]
    BY DEF PromotionInv, IInv, Progress, WalkedSoFar, VerdictOnTotals
  <2> QED
    BY <2>1, Zenon DEF DataInv, Typed, TypeOK
<1>2. RunnerTypeOK
  <2>1. judges \in Seq(DOMAIN artifacts \union {None})
    <3>1. /\ judges \in Seq(Nat \union {None}) /\ DOMAIN artifacts = 1..Len(artifacts)
          /\ \A i \in 1..Len(judges) : judges[i] # None => judges[i] = i /\ i <= Len(artifacts)
      BY DEF DataInv, RunnerInv
    <3>2. /\ Len(judges) \in Nat /\ DOMAIN judges = 1..Len(judges)
          /\ judges = [i \in 1..Len(judges) |-> judges[i]]
      BY <3>1
    <3>3. \A i \in 1..Len(judges) : judges[i] \in DOMAIN artifacts \union {None}
      BY <3>1, <3>2
    <3> QED
      BY <3>2, <3>3, IsASeq
  <2> QED
    BY <2>1 DEF PromotionInv, DataInv, RunnerInv, Typed, RunnerTypeOK
<1>3. PaperTypeOK
  <2>1. files \subseteq Files
    <3>1. ASSUME NEW f \in files PROVE f \in Files
      <4>1. /\ f \in [strategy : Strategies, at : Nat, cleared : BOOLEAN]
            /\ f.at <= clock /\ clock \in 0..MaxClock
        BY DEF PromotionInv, PaperInv, DataInv, Typed
      <4>2. f.at \in 0..MaxClock
        BY <4>1, NamesAssumption
      <4> QED
        BY <4>1, <4>2 DEF Files
    <3> QED
      BY <3>1
  <2> QED
    BY <2>1 DEF PromotionInv, PaperInv, DataInv, Typed, PaperTypeOK
<1> QED
  BY <1>1, <1>2, <1>3 DEF PromotionTypeOK

\* The variables of the programs keep their types.
THEOREM PromotionTypeCorrect == PromotionSpec => []PromotionTypeOK
<1> QED
  BY InvTypes, PromotionInvHolds, DataInvHolds, PTL
=============================================================================
