-------------------------------- MODULE Clearance --------------------------------
(****************************************************************************)
(* The gate between research and trading: run_wfo (src/backtest/wfo.py)     *)
(* writes results files, load_clearance (scripts/run_paper.py) decides from *)
(* them whether a paper session for a strategy may start.  A file is named  *)
(* <strategy>_<second>.yaml, so a file of the same strategy and second is   *)
(* overwritten, and the glob <strategy>_*.yaml also takes in the files of   *)
(* every strategy whose name continues <strategy>_; those sort after,       *)
(* letters after digits.                                                    *)
(****************************************************************************)
EXTENDS Common, StrategyNames, FiniteSets, FiniteSetsExt

CONSTANTS
    Continuations,  \* [Strategies -> SUBSET Strategies]: names that go on from it
    MaxClock        \* bound: seconds

ASSUME NamesAssumption ==
    /\ Continuations \in [Strategies -> SUBSET Strategies]
    /\ \A s \in Strategies : s \notin Continuations[s] /\ Cardinality(Continuations[s]) <= 1
    /\ MaxClock \in Nat

VARIABLES
    clock,
    files,     \* the results directory: [strategy, at, cleared]
    lastRun,   \* the verdict of the last WFO of each strategy, None before it
    session    \* the strategy that a started paper session was cleared for, or None

paper == <<clock, files, lastRun, session>>

Files == [strategy : Strategies, at : 0..MaxClock, cleared : BOOLEAN]

PaperTypeOK ==
    /\ clock \in 0..MaxClock
    /\ files \subseteq Files
    /\ lastRun \in [Strategies -> BOOLEAN \union {None}]
    /\ session \in Strategies \union {None}

PaperInit ==
    /\ clock = 0 /\ files = {}
    /\ lastRun = [s \in Strategies |-> None]
    /\ session = None

Tick ==
    /\ clock < MaxClock
    /\ clock' = clock + 1
    /\ UNCHANGED <<files, lastRun, session>>

\* Wrong on purpose: the file is written before the gates are judged.
RunWfoUnjudged(s, cleared) ==
    /\ files' = files \union {[strategy |-> s, at |-> clock, cleared |-> None]}
    /\ lastRun' = [lastRun EXCEPT ![s] = cleared]
    /\ UNCHANGED <<clock, session>>

\* run_wfo of an unchanged strategy is judged again and writes its file.
RunWfo(s, cleared) ==
    /\ files' = {f \in files : ~(f.strategy = s /\ f.at = clock)}
                  \union {[strategy |-> s, at |-> clock, cleared |-> cleared]}
    /\ lastRun' = [lastRun EXCEPT ![s] = cleared]
    /\ UNCHANGED <<clock, session>>

Matching(s) == {f \in files : f.strategy \in {s} \union Continuations[s]}

\* Wrong on purpose: the oldest file is read.
SortsAfter(s, f, g) ==
    \/ f.strategy = s /\ g.strategy # s
    \/ f.strategy = g.strategy /\ f.at > g.at

\* The last of the sorted names: a continuation's, if there is one, then time.
SortsBefore(s, f, g) ==
    \/ f.strategy = s /\ g.strategy # s
    \/ f.strategy = g.strategy /\ f.at < g.at

Latest(s) ==
    CHOOSE f \in Matching(s) : \A g \in Matching(s) \ {f} : SortsBefore(s, g, f)

\* load_clearance raises SystemExit otherwise.
StartPaper(s) ==
    /\ session = None
    /\ Matching(s) # {}
    /\ Latest(s).cleared
    /\ session' = s
    /\ UNCHANGED <<clock, files, lastRun>>

StopPaper ==
    /\ session # None
    /\ session' = None
    /\ UNCHANGED <<clock, files, lastRun>>

PaperNext ==
    \/ Tick
    \/ \E s \in Strategies, cleared \in BOOLEAN : RunWfo(s, cleared)
    \/ \E s \in Strategies : StartPaper(s)
    \/ StopPaper

PaperSpec == PaperInit /\ [][PaperNext]_paper

----------------------------------------------------------------------------

\* run_paper.py:48 "Refuse to trade anything WFO has not cleared", for a name no
\* other strategy continues: the file that is read is that of the last run, so
\* a strategy that failed a later WFO does not start on an older clearance.
StartsOnLastVerdict ==
    [][\A s \in Strategies :
        StartPaper(s) /\ Continuations[s] = {} => lastRun[s] = TRUE]_paper

\* The same for every strategy that run_backtest knows.
StartsOnOwnVerdict ==
    [][\A s \in Strategies : StartPaper(s) => lastRun[s] = TRUE]_paper
=============================================================================
