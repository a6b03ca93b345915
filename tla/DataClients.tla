-------------------------------- MODULE DataClients --------------------------------
(****************************************************************************)
(* src/data/alpaca_data.py, src/data/polygon_client.py, src/data/models.py: *)
(* one fetch from a data provider.  A fetch asks for the rows of some       *)
(* symbols and days, page after page where the endpoint has pages, every    *)
(* page up to MaxTries times.  A row is <<symbol, n>>: n is the day of a    *)
(* bar, or the position of a headline among the news of its symbol.         *)
(****************************************************************************)
EXTENDS Common, Sequences, FiniteSets

CONSTANTS
    Symbols, Days,  \* numbers; symbols in the order of their names
    NaN,            \* a price that is not finite
    Feeds,          \* what the providers have, one after the other, see below
    MaxTries,       \* _MAX_TRIES
    PageSize        \* _PAGE_LIMIT

\* A bar as it comes; vwap is None where the row has none.
FeedBars ==
    [open : Int \union {NaN}, high : Int \union {NaN}, low : Int \union {NaN},
     close : Int \union {NaN}, volume : Int, vwap : Int \union {NaN, None}]

\* A feed is [bars, news]: bars from <<symbol, day>>; news of every symbol, as in
\* NewsScores, which are never revised.
ASSUME ClientsAssumption ==
    /\ Symbols \subseteq Nat /\ Days \subseteq Nat
    /\ IsFiniteSet(Symbols) /\ IsFiniteSet(Days)
    /\ {MaxTries, PageSize} \subseteq Nat \ {0}
    /\ NaN \notin Int
    /\ Len(Feeds) \in Nat \ {0}
    /\ \A i \in 1..Len(Feeds) :
          /\ DOMAIN Feeds[i].bars \subseteq Symbols \X Days
          /\ \A key \in DOMAIN Feeds[i].bars : Feeds[i].bars[key] \in FeedBars
          /\ DOMAIN Feeds[i].news = Symbols /\ Feeds[i].news = Feeds[1].news

VARIABLES
    edition,   \* the feed that the providers serve now: prices are revised
    call       \* the fetch under way, or None

clients == <<edition, call>>

feed == Feeds[edition]

\* What is fetched: bars of a list of symbols, or their news; strict says that a
\* bad bar is an error, paged that the endpoint hands out pages.
Unit(of, symbols, days, strict, paged) ==
    [of |-> of, symbols |-> symbols, days |-> days, strict |-> strict, paged |-> paged]

Prices(bar) ==
    {bar.open, bar.high, bar.low, bar.close} \union (IF bar.vwap = None THEN {} ELSE {bar.vwap})

\* Wrong on purpose: only the order of the prices is checked.
ValidOrder(bar) ==
    NaN \in Prices(bar) \/ (bar.low <= Least(bar.open, bar.close) /\ bar.high >= bar.close)

\* validate_bar.
Valid(bar) ==
    /\ \A price \in Prices(bar) : price # NaN /\ price > 0
    /\ bar.volume >= 0
    /\ bar.low <= Least(bar.open, bar.close)
    /\ \A price \in {bar.open, bar.close} : price <= bar.high

Published(s, days) ==
    {<<s, i>> : i \in {i \in DOMAIN feed.news[s] : feed.news[s][i].day \in days}}

Rows(unit) ==
    IF unit.of = "bars"
    THEN {key \in DOMAIN feed.bars : key[1] \in unit.symbols /\ key[2] \in unit.days}
    ELSE UNION {Published(s, unit.days) : s \in unit.symbols}

BadRows(unit) == {r \in Rows(unit) : unit.of = "bars" /\ ~Valid(feed.bars[r])}

\* The provider sorts by symbol and time, and cuts.
Rank(unit, row) ==
    Cardinality({r \in Rows(unit) : r[1] < row[1] \/ (r[1] = row[1] /\ r[2] < row[2])})

Page(unit, p) ==
    {r \in Rows(unit) : unit.paged => Rank(unit, r) \div PageSize = p - 1}

IsLastPage(unit, p) == ~unit.paged \/ p * PageSize >= Cardinality(Rows(unit))

CallTypeOK ==
    /\ edition \in 1..Len(Feeds)
    /\ \/ call = None
       \/ /\ call.unit \in [of : {"bars", "news"}, symbols : SUBSET Symbols, days : SUBSET Days,
                            strict : BOOLEAN, paged : BOOLEAN]
          /\ call.page \in Nat \ {0} /\ call.tries \in 0..(MaxTries - 1)
          /\ call.got \subseteq Rows(call.unit)

ClientsInit == edition = 1 /\ call = None

\* The providers revise their prices: a split or a dividend has adjusted them.
Revise ==
    /\ edition < Len(Feeds)
    /\ edition' = edition + 1
    /\ UNCHANGED call

Fetch(unit) ==
    /\ call = None
    /\ call' = [unit |-> unit, page |-> 1, tries |-> 0, got |-> {}]
    /\ UNCHANGED edition

\* Wrong on purpose: the tries start over.
RetryForever ==
    /\ call # None
    /\ call' = [call EXCEPT !.tries = (@ + 1) % MaxTries]
    /\ UNCHANGED edition

\* A status of 429, or of 500 and more, and tries left.
Retry ==
    /\ call # None /\ call.tries + 1 < MaxTries
    /\ call' = [call EXCEPT !.tries = @ + 1]
    /\ UNCHANGED edition

\* Wrong on purpose: a strict fetch leaves its bad rows out too.
ArrivedLeniently == call # None

\* A page has come; in a strict fetch all its rows must be valid.
Arrived ==
    /\ call # None
    /\ call.unit.strict => Page(call.unit, call.page) \intersect BadRows(call.unit) = {}

Got == call.got \union (Page(call.unit, call.page) \ BadRows(call.unit))

NextPage ==
    /\ Arrived /\ ~IsLastPage(call.unit, call.page)
    /\ call' = [call EXCEPT !.page = @ + 1, !.tries = 0, !.got = Got]
    /\ UNCHANGED edition

\* The fetch returns Got.
Return ==
    /\ Arrived /\ IsLastPage(call.unit, call.page)
    /\ call' = None
    /\ UNCHANGED edition

\* The exception that ends the fetch: a transport error or another status of 400
\* and more at once, the retryable ones after the last try, a bad bar in a page.
Fail ==
    /\ call # None
    /\ call' = None
    /\ UNCHANGED edition
=============================================================================
