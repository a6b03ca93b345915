-------------------------------- MODULE Promotion --------------------------------
(****************************************************************************)
(* From bars to a paper session: runs of run_backtest and ab_sentiment over *)
(* one database, the results files they leave, and run_paper, which starts  *)
(* on them.  The programs share the results directory and nothing else.     *)
(****************************************************************************)
EXTENDS AbSentiment, Clearance

all == <<vars, runner, ab, paper>>

PromotionInit == Init /\ RunnerInit /\ AbInit /\ PaperInit

\* A walk in progress, which the paper program does not see.
Walk ==
    /\ \/ \E s \in Strategies : StartWfo(s)
       \/ CutWindows
       \/ TrainWindow
       \/ RunIs
       \/ RunOos
    /\ UNCHANGED <<ab, paper>>

\* Wrong on purpose: the file takes the name of another strategy.
FileVerdictUnder(s) == RunWfo(CHOOSE other \in Strategies : other # s, verdict'.cleared)

FileVerdict(s) == RunWfo(s, verdict'.cleared)

\* run_wfo writes its file and main exits.
FinishWalk ==
    /\ Conclude
    /\ FileVerdict(job)
    /\ UNCHANGED ab

\* It reads the database, which no program here writes: when it runs makes no
\* difference, so it does at the beginning or not at all.
CompareNews ==
    /\ walks = 0 /\ clock = 0
    /\ Compare
    /\ UNCHANGED <<vars, runner, paper>>

PaperMoves ==
    /\ \/ Tick
       \/ \E s \in Strategies : StartPaper(s)
       \/ StopPaper
    /\ UNCHANGED <<vars, runner, ab>>

PromotionNext == Walk \/ FinishWalk \/ CompareNews \/ PaperMoves

PromotionSpec == PromotionInit /\ [][PromotionNext]_all

PromotionTypeOK == TypeOK /\ RunnerTypeOK /\ PaperTypeOK

----------------------------------------------------------------------------

\* run_paper.py:48, wfo.py:12-13: a verdict that lets a session start was written
\* by a walk of that strategy that ended: whatever raised, was refused or is
\* still under way left the results directory as it was.
OnlyConcludedWalksCount ==
    [][lastRun' # lastRun \/ files' # files =>
        /\ step' = "written" /\ Len(judged) = NWindows
        /\ lastRun' = [lastRun EXCEPT ![job] = (exit' = "code 0")]
        /\ \A f \in files' \ files : f.strategy = job /\ f.cleared = (exit' = "code 0")]_all
=============================================================================
