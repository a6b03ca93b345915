--------------------------------- MODULE Research ---------------------------------
(****************************************************************************)
(* The programs that fill the database and choose universes: sync_data,     *)
(* score_news, run_screener and build_universe of scripts/, on BarStorage   *)
(* (src/data/storage.py).  Each is a loop over fetches; DuckDB lets one     *)
(* process at a time open the file, so one program runs at a time.  They    *)
(* feed the walks of Promotion, and each other through the universe files.  *)
(****************************************************************************)
EXTENDS DataClients, Screener, NewsScores

CONSTANTS
    Assets,          \* symbols that pass apply_static_filters and fetch_active_symbols
    ConfigUniverse,  \* strategy.universe, a sequence of symbols
    Spans,           \* the --start and --end that are used, as sets of days
    SyncDays,        \* values of --sync-days that are used
    BatchSize,       \* universe_builder.batch_size
    Weekend,         \* days that run_screener skips
    SectorMaps,      \* sector maps to rank with; run_screener passes none
    MaxRuns          \* bound: programs started

Today == Max(Days) + 1
BarAt == [open : Int, high : Int, low : Int, close : Int, volume : Nat, vwap : Int \union {None}]
Programs == {"sync_data", "score_news", "run_screener", "build_universe"}

ASSUME ResearchAssumption ==
    /\ Feeds[1].news \in [Symbols -> Seq(Headlines)]
    /\ Assets \subseteq Symbols /\ ConfigUniverse \in Seq(Symbols)
    /\ \A span \in Spans : span \subseteq Days
    /\ SyncDays \subseteq 0..Cardinality(Days \ Weekend)
    /\ BatchSize \in Nat \ {0} /\ MaxRuns \in Nat
    /\ \A map \in SectorMaps : DOMAIN map = Symbols
    /\ None # "ok"

VARIABLES
    job,        \* the program that runs, or None
    bars,       \* table bars: a bar or None for every symbol and day
    scores,     \* table news_sentiment: per symbol and day, or None
    universes,  \* the last file of run_screener and of build_universe, or None
    exit,       \* "ok" or the exception of the last program
    runs

db == <<job, bars, scores, universes, exit, runs>>
research == <<clients, db>>

ResearchTypeOK ==
    /\ CallTypeOK
    /\ \/ job = None
       \/ /\ job.program \in Programs
          /\ \A i \in DOMAIN job.units : job.units[i].symbols \subseteq Symbols
          /\ \E n \in 0..Len(job.units) : job.todo = SubSeq(job.units, n + 1, Len(job.units))
          /\ job.rows \subseteq Symbols \X Days
          /\ DOMAIN job.left \subseteq Symbols \X Days
    /\ \A key \in Symbols \X Days :
          /\ bars[key] \in BarAt \union {None}
          /\ scores[key] \in [sum : Int, n : 1..MaxPerDay] \union {None}
    /\ universes \in [{"run_screener", "build_universe"} -> Seq(Symbols) \union {None}]
    /\ exit \in {"ok", "ConfigError", "error", None}
    /\ runs \in 0..MaxRuns

ResearchInit ==
    /\ ClientsInit
    /\ job = None /\ exit = None /\ runs = 0
    /\ bars = [key \in Symbols \X Days |-> None]
    /\ scores = [key \in Symbols \X Days |-> None]
    /\ universes = [program \in {"run_screener", "build_universe"} |-> None]

Start(program, todo) ==
    /\ job = None /\ runs < MaxRuns
    /\ runs' = runs + 1
    /\ job' = [program |-> program, units |-> todo, todo |-> todo, rows |-> {}, left |-> <<>>]
    /\ exit' = None
    /\ UNCHANGED <<clients, bars, scores, universes>>

\* load_universe: build_universe writes the key that is read, run_screener another;
\* an empty list is refused too.  None: ConfigError.
LoadUniverse(asked) ==
    IF asked = "config" THEN ConfigUniverse
    ELSE IF asked = "build_universe" /\ universes[asked] # <<>> THEN universes[asked]
    ELSE None

Refuse ==
    /\ job = None /\ runs < MaxRuns
    /\ runs' = runs + 1 /\ exit' = "ConfigError"
    /\ UNCHANGED <<clients, job, bars, scores, universes>>

\* sync_data and score_news: symbol after symbol.
StartPerSymbol(program, asked, span, paged) ==
    LET names == LoadUniverse(asked)
        of    == IF program = "sync_data" THEN "bars" ELSE "news"
    IN  /\ asked # "config" => universes[asked] # None
        /\ IF names = None THEN Refuse
           ELSE Start(program,
                      [i \in DOMAIN names |-> Unit(of, {names[i]}, span, TRUE, paged)])

StartSync(asked, span, paged) == StartPerSymbol("sync_data", asked, span, paged)
StartScoring(asked, span)     == StartPerSymbol("score_news", asked, span, TRUE)

\* run_screener: the whole market, weekday after weekday, yesterday first.
StartScreener(n) ==
    LET weekdays == Days \ Weekend
    IN  Start("run_screener",
              [k \in 1..n |-> Unit("bars", Symbols, {FromEnd(weekdays, k)}, FALSE, FALSE)])

\* Wrong on purpose: a last batch that is not full is left out.
FullBatches == Cardinality(Assets) \div BatchSize

Batches == (Cardinality(Assets) + BatchSize - 1) \div BatchSize

\* build_universe: batches of the active symbols in the order of their names.
StartBuild(span) ==
    LET Nth(s) == Cardinality({x \in Assets : x < s})
    IN  Start("build_universe",
              [b \in 1..Batches |->
                  Unit("bars", {s \in Assets : Nth(s) \div BatchSize = b - 1}, span, FALSE, TRUE)])

Asking(step) ==
    /\ job # None /\ job.left = <<>> /\ job.todo # <<>>
    /\ step
    /\ UNCHANGED db

Ask       == Asking(Fetch(Head(job.todo)))
AskAgain  == Asking(Retry)
TurnPage  == Asking(NextPage)

BarRows(rows) == [key \in rows |-> feed.bars[key]]

\* A row for each day with headlines.
ScoreRows(rows) ==
    LET Fetched(s) == {r[2] : r \in {x \in rows : x[1] = s}}
    IN  [key \in {<<r[1], feed.news[r[1]][r[2]].day>> : r \in rows} |->
            DayScore(feed.news[key[1]], Fetched(key[1]), key[2])]

\* The rows of a fetch are there: build_universe keeps them, the others insert them.
Deliver ==
    /\ job # None /\ Return
    /\ job' = [job EXCEPT !.todo = Tail(@),
                          !.rows = IF job.program = "build_universe" THEN @ \union Got ELSE @,
                          !.left = IF job.program = "build_universe" THEN @
                                   ELSE IF job.program = "score_news" THEN ScoreRows(Got)
                                   ELSE BarRows(Got)]
    /\ UNCHANGED <<bars, scores, universes, exit, runs>>

\* One execution of executemany.  Lists are in the order of days; in what order the
\* symbols of one day come is up to the provider.
NextLeft(key) ==
    /\ job # None /\ key \in DOMAIN job.left
    /\ \A other \in DOMAIN job.left : key[2] <= other[2]
    /\ job' = [job EXCEPT !.left = Restrict(@, DOMAIN @ \ {key})]
    /\ UNCHANGED <<clients, universes, exit, runs>>

\* BarStorage.insert_bars: INSERT OR REPLACE, and no transaction around the rows:
\* each is committed by itself.
InsertBar ==
    /\ \E key \in Symbols \X Days :
          /\ NextLeft(key) /\ job.program # "score_news"
          /\ bars' = [bars EXCEPT ![key] = job.left[key]]
    /\ UNCHANGED scores

\* BarStorage.insert_daily_sentiment: the same.
InsertScore ==
    /\ \E key \in Symbols \X Days :
          /\ NextLeft(key) /\ job.program = "score_news"
          /\ scores' = [scores EXCEPT ![key] = job.left[key]]
    /\ UNCHANGED bars

\* The process is killed, or an insert raises: the rows that were committed stay.
Interrupt ==
    /\ job # None /\ call = None
    /\ job' = None /\ exit' = "error"
    /\ UNCHANGED <<clients, bars, scores, universes, runs>>

\* Wrong on purpose: what came before the failure is kept, and the loop goes on.
AbortAndGoOn ==
    /\ job # None /\ Fail
    /\ job' = [job EXCEPT !.todo = Tail(@),
                          !.left = IF call.unit.of = "bars" THEN BarRows(call.got) ELSE <<>>]
    /\ UNCHANGED <<bars, scores, universes, exit, runs>>

\* Nothing catches the exception of a fetch; the process may be killed in it.
Abort ==
    /\ job # None /\ Fail
    /\ job' = None /\ exit' = "error"
    /\ UNCHANGED <<bars, scores, universes, runs>>

\* get_all_bars over twice the demanded history, and of it what stage 1 lets through.
Scope(table) ==
    LET keys == {key \in Assets \X Days : table[key] # None /\ key[2] >= Today - 2 * MinHistory}
    IN  [key \in keys |-> table[key]]

NoSectors == [s \in Symbols |-> None]

\* A file is written; without any row select_liquid_universe raises.
Finish ==
    /\ job # None /\ job.left = <<>> /\ job.todo = <<>> /\ call = None
    /\ IF job.program = "build_universe" /\ job.rows = {}
       THEN exit' = "error" /\ UNCHANGED universes
       ELSE /\ exit' = "ok"
            /\ \/ /\ job.program \in {"sync_data", "score_news"}
                  /\ UNCHANGED universes
               \/ /\ job.program = "run_screener"
                  /\ \E list \in Funnel(Scope(bars), NoSectors) :
                        universes' = [universes EXCEPT ![job.program] = list]
               \/ /\ job.program = "build_universe"
                  /\ \E list \in LiquidUniverses([key \in job.rows |-> feed.bars[key]]) :
                        universes' = [universes EXCEPT ![job.program] = list]
    /\ job' = None
    /\ UNCHANGED <<clients, bars, scores, runs>>

\* Prices are revised over night, between two programs.
Overnight ==
    /\ job = None
    /\ Revise
    /\ UNCHANGED db

Begin ==
    \/ \E asked \in {"config"} \union DOMAIN universes, span \in Spans :
          \/ \E paged \in BOOLEAN : StartSync(asked, span, paged)
          \/ StartScoring(asked, span)
    \/ \E n \in SyncDays : StartScreener(n)
    \/ \E span \in Spans : StartBuild(span)

\* One step of a program: every request is answered or times out.
Proceed ==
    Ask \/ AskAgain \/ Abort \/ TurnPage \/ Deliver \/ InsertBar \/ InsertScore \/ Finish

ResearchNext == Begin \/ Overnight \/ Proceed \/ Interrupt

ResearchSpec == ResearchInit /\ [][ResearchNext]_research /\ WF_research(Proceed)

----------------------------------------------------------------------------

\* storage.py:60, alpaca_data.py:54-67: rows are committed one by one, but only of a
\* fetch that has ended, after retries and over all pages, and a strict one with
\* nothing but valid rows; each as the provider has it; and oldest first, so that a
\* program that is interrupted leaves a span synced up to some day and untouched after.
CommitsOldestFirst ==
    [][bars' # bars =>
        LET unit == job.units[Len(job.units) - Len(job.todo)]
        IN  /\ unit.strict => BadRows(unit) = {}
            /\ \E key \in Rows(unit) \ BadRows(unit) :
                  /\ bars' = [bars EXCEPT ![key] = feed.bars[key]]
                  /\ \A r \in Rows(unit) \ BadRows(unit) :
                        r[2] < key[2] => bars[r] = feed.bars[r]]_research

OfDay(news, d, k) == {j \in 1..k : news[j].day = d}

\* Positions of the earliest headlines of a day.
Early(news, d) ==
    {i \in DOMAIN news : news[i].day = d /\ Cardinality(OfDay(news, d, i)) <= MaxPerDay}

\* storage.py:45-47 "a re-sync overwrites": a program that ends well leaves in the
\* tables all that it was to fetch and as it is served, whatever earlier programs,
\* on other spans or prices or interrupted in the middle, have left there.
OkMeansSynced ==
    [][job # None /\ exit' = "ok" =>
        \A i \in DOMAIN job.units :
            LET unit == job.units[i]
            IN  /\ job.program \in {"sync_data", "run_screener"} =>
                      /\ unit.strict => BadRows(unit) = {}
                      /\ \A key \in Rows(unit) \ BadRows(unit) : bars'[key] = feed.bars[key]
                /\ job.program = "score_news" =>
                      \A s \in unit.symbols, d \in unit.days :
                          Early(feed.news[s], d) # {} =>
                              scores'[<<s, d>>] =
                                  [sum |-> SumOfScores(feed.news[s], Early(feed.news[s], d)),
                                   n   |-> Cardinality(Early(feed.news[s], d))]]_research

\* Whatever the sectors, a candidate is left out only for better ones: the universe
\* is full of them, or its sector is.
LeavesOutTheWorse(list, candidates, sectorOf) ==
    LET scored == Scored(candidates)
        chosen == {x \in scored : x.symbol \in ToSet(list)}
        Peers(x)  == {y \in chosen : sectorOf[y.symbol] = sectorOf[x.symbol]}
        Better(x) == {y \in chosen : Beats(y, x)}
    IN  /\ Cardinality(chosen) = Len(list)
        /\ \A x \in chosen : sectorOf[x.symbol] # None => Cardinality(Peers(x)) <= MaxPerSector
        /\ \A x \in scored \ chosen :
              \/ Cardinality(Better(x)) = UniverseSize
              \/ sectorOf[x.symbol] # None /\ Cardinality(Better(x) \intersect Peers(x)) = MaxPerSector

\* run_screener.py:123-139, screener.py:94-97: a universe is ranked only when each
\* of the days that were to be synced is in the table, newest first or not; and
\* with any sector map the ranking of that table leaves out the worse.
ScreenedIsBest ==
    [][universes'["run_screener"] # universes["run_screener"] =>
        /\ \A i \in DOMAIN job.units : \A key \in Rows(job.units[i]) :
              Valid(feed.bars[key]) => bars[key] = feed.bars[key]
        /\ LET candidates == Candidates(Scope(bars))
           IN  /\ LeavesOutTheWorse(universes'["run_screener"], candidates, NoSectors)
               /\ \A sectorOf \in SectorMaps :
                     LeavesOutTheWorse(RankUniverse(candidates, sectorOf), candidates, sectorOf)]_research

\* universe_builder.py:21-27: over all batches together, no active symbol with
\* bars enough and price enough is more liquid than one that was chosen instead.
BuiltIsMostLiquid ==
    [][universes'["build_universe"] # universes["build_universe"] =>
        LET list == universes'["build_universe"]
            span == UNION {{key[2] : key \in {k \in job.rows : k[1] = s}} : s \in Assets}
            Good(s) == {d \in span : <<s, d>> \in DOMAIN feed.bars /\ Valid(feed.bars[<<s, d>>])}
            Mdv(s) == MedianTwice({<<d, DollarVolume(feed.bars[<<s, d>>])>> : d \in Good(s)})
        IN  \A s \in Assets \ ToSet(list), i \in DOMAIN list :
                \/ Good(s) = {} \/ Cardinality(Good(s)) < MinDays
                \/ MedianTwice({<<d, feed.bars[<<s, d>>].close>> : d \in Good(s)}) < 2 * MinPrice
                \/ Len(list) = TopN /\ Mdv(s) <= Mdv(list[i])]_research

\* score_news.py:36, run_backtest.py:55-58: the score that a bar of day d sees
\* comes from the earliest headlines of one day before d, whatever was fetched in
\* whichever order, and nothing published on d or later changes it.
NewsIsOlderThanBar ==
    \A s \in Symbols, d \in Days :
        LET table == [e \in Days |-> scores[<<s, e>>]]
            seen  == Lookup(table, d)
            news  == feed.news[s]
        IN  \/ seen = Neutral
            \/ \E e \in Days : /\ e < d /\ e >= d - LookbackDays
                               /\ seen.n = Cardinality(Early(news, e))
                               /\ seen.sum = SumOfScores(news, Early(news, e))

\* alpaca_data.py:175-192: retries are bounded, so every program comes to an end.
EveryProgramEnds == job # None ~> job = None
=============================================================================
