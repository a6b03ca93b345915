------------------------------ MODULE ClientProofs ------------------------------
(****************************************************************************)
(* Theorems about the programs that talk to the data providers: the streams *)
(* of a session (StreamManager), for any number of calls of start(), any    *)
(* backoff and any outages; and the fetches, tables and universes of the    *)
(* research programs (Research), for any market, news, page size, number of *)
(* programs and failures.  The two share nothing but this module.           *)
(****************************************************************************)
EXTENDS StreamManager, Research, FiniteTheorems, SequenceTheorems

----------------------------------------------------------------------------
\* StreamManager.

\* The delays.  Nothing the provers know relates a power to the next one: subsets,
\* which the library counts, do.

\* Half of the subsets of 1..n+1 have n+1 as a member.
LEMMA PowerDoubles ==
    ASSUME NEW n \in Nat
    PROVE  2^n \in Nat \ {0} /\ 2^(n+1) = 2^n + 2^n
<1> DEFINE A == SUBSET (1..n)
           f == [T \in A |-> T \union {n+1}]
           B == {T \union {n+1} : T \in A}
<1>1. /\ IsFiniteSet(1..n) /\ Cardinality(1..n) = n
      /\ IsFiniteSet(1..n+1) /\ Cardinality(1..n+1) = n + 1
  BY FS_Interval
<1>2. IsFiniteSet(A) /\ Cardinality(A) = 2^n
  BY <1>1, FS_SUBSET
<1>3. Cardinality(SUBSET (1..n+1)) = 2^(n+1)
  BY <1>1, FS_SUBSET
<1>4. ExistsBijection(A, B)
  <2>1. f \in [A -> B] /\ \A T \in B : \E U \in A : f[U] = T
    OBVIOUS
  <2>2. ASSUME NEW T \in A, NEW U \in A, f[T] = f[U] PROVE T = U
    <3>1. T \union {n+1} = U \union {n+1} /\ n+1 \notin T /\ n+1 \notin U
      BY <2>2
    <3> QED
      BY <3>1
  <2>3. f \in Bijection(A, B)
    BY <2>1, <2>2 DEF Bijection, Injection, Surjection, IsInjective
  <2> QED
    BY <2>3 DEF ExistsBijection
<1>5. IsFiniteSet(B) /\ Cardinality(B) = 2^n
  BY <1>2, <1>4, FS_Bijection
<1>6. SUBSET (1..n+1) = A \union B
  <2>1. ASSUME NEW T \in SUBSET (1..n+1) PROVE T \in A \union B
    <3>1. T \ {n+1} \in A
      OBVIOUS
    <3>2. CASE n+1 \in T
      <4>1. T = (T \ {n+1}) \union {n+1}
        BY <3>2
      <4> QED
        BY <3>1, <4>1
    <3>3. CASE n+1 \notin T
      BY <3>3
    <3> QED
      BY <3>2, <3>3
  <2>2. ASSUME NEW T \in A PROVE T \in SUBSET (1..n+1) /\ T \union {n+1} \in SUBSET (1..n+1)
    OBVIOUS
  <2>3. \A T \in B : T \in SUBSET (1..n+1)
    BY <2>2
  <2> DEFINE C == SUBSET (1..n+1)
  <2>4. (\A T \in C : T \in A \union B) /\ (\A T \in A : T \in C) /\ (\A T \in B : T \in C)
    BY <2>1, <2>2, <2>3
  <2> HIDE DEF A, B, C
  <2>5. C = A \union B
    BY <2>4
  <2> QED
    BY <2>5 DEF C
<1>7. A \cap B = {}
  OBVIOUS
<1> HIDE DEF A, B
<1>8. Cardinality(A \union B) = 2^n + 2^n - 0
  <2>1. Cardinality(A \union B) = Cardinality(A) + Cardinality(B) - Cardinality(A \cap B)
    BY <1>2, <1>5, FS_Union
  <2>2. Cardinality(A \cap B) = 0
    BY <1>7, FS_EmptySet
  <2> QED
    BY <1>2, <1>5, <2>1, <2>2
<1>9. 2^n \in Nat \ {0}
  <2>1. A # {}
    BY DEF A
  <2> QED
    BY <1>2, <2>1, FS_CardinalityType, FS_EmptySet
<1>10. 2^(n+1) = 2^n + 2^n - 0
  BY <1>3, <1>6, <1>8, Zenon
<1> QED
  BY <1>9, <1>10

\* stream_manager.py:76-79: each attempt waits twice as long as the one before,
\* up to the cap.
LEMMA DelaysDouble ==
    /\ BackoffDelay(0) = BackoffInitial
    /\ \A n \in Nat : /\ BackoffDelay(n) \in BackoffInitial..BackoffCap
                      /\ BackoffDelay(n+1) = Least(2 * BackoffDelay(n), BackoffCap)
    /\ BackoffDelay(MaxAttempt) = BackoffCap
<1>1. BackoffInitial \in Nat \ {0} /\ BackoffCap \in Nat /\ BackoffInitial <= BackoffCap
  BY BackoffAssumption
<1>2. 2^0 = 1
  OBVIOUS
<1>3. BackoffDelay(0) = BackoffInitial
  BY <1>1, <1>2 DEF BackoffDelay, Least
<1>4. \A n \in Nat : BackoffInitial * 2^n \in Nat
  <2>1. \A n \in Nat : 2^n \in Nat
    BY PowerDoubles
  <2> QED
    BY <1>1, <2>1
<1>5. \A n \in Nat : BackoffInitial * 2^(n+1) = 2 * (BackoffInitial * 2^n)
  <2> SUFFICES ASSUME NEW n \in Nat
               PROVE  BackoffInitial * 2^(n+1) = 2 * (BackoffInitial * 2^n)
    OBVIOUS
  <2>1. \A p \in Nat : BackoffInitial * (p + p) = 2 * (BackoffInitial * p)
    BY <1>1
  <2>2. 2^n \in Nat \ {0} /\ 2^(n+1) = 2^n + 2^n
    BY PowerDoubles
  <2> QED
    BY <2>1, <2>2
<1>6. \A n \in Nat : BackoffInitial * 2^n >= BackoffInitial
  <2> SUFFICES ASSUME NEW n \in Nat PROVE BackoffInitial * 2^n >= BackoffInitial
    OBVIOUS
  <2>1. \A p \in Nat \ {0} : BackoffInitial * p >= BackoffInitial
    BY <1>1
  <2>2. 2^n \in Nat \ {0}
    BY PowerDoubles
  <2> QED
    BY <2>1, <2>2
<1>7. \A n \in Nat : /\ BackoffDelay(n) \in BackoffInitial..BackoffCap
                     /\ BackoffDelay(n+1) = Least(2 * BackoffDelay(n), BackoffCap)
  <2> SUFFICES ASSUME NEW n \in Nat
               PROVE  /\ BackoffDelay(n) \in BackoffInitial..BackoffCap
                      /\ BackoffDelay(n+1) = Least(2 * BackoffDelay(n), BackoffCap)
    OBVIOUS
  <2> DEFINE now  == BackoffInitial * 2^n
             next == BackoffInitial * 2^(n+1)
  <2>1. now \in Nat /\ next = 2 * now /\ now >= BackoffInitial
    BY <1>4, <1>5, <1>6
  <2>2. BackoffDelay(n) = Least(now, BackoffCap) /\ BackoffDelay(n+1) = Least(next, BackoffCap)
    BY DEF BackoffDelay
  <2> HIDE DEF now, next
  <2> QED
    BY <1>1, <2>1, <2>2 DEF Least
<1>8. BackoffDelay(MaxAttempt) = BackoffCap
  <2>1. BackoffInitial * 2^MaxAttempt >= BackoffCap /\ MaxAttempt \in Nat
    BY BackoffAssumption
  <2>2. BackoffInitial * 2^MaxAttempt \in Nat
    BY <1>4, <2>1
  <2> QED
    BY <1>1, <2>1, <2>2 DEF BackoffDelay, Least
<1> QED
  BY <1>3, <1>7, <1>8

LoopStates == [at : {"off", "resync", "connected", "sleeping", "dead"},
               attempt : 0..MaxAttempt, delay : 0..BackoffCap]

\* The last wait is that of the last attempt counted.
Waited(l) ==
    \/ loop[l].attempt = 0 /\ loop[l].delay = 0
    \/ loop[l].attempt # 0 /\ loop[l].delay = BackoffDelay(loop[l].attempt - 1)
    \/ loop[l].attempt = MaxAttempt /\ loop[l].delay = BackoffCap

WaitInv == loop \in [Loops -> LoopStates] /\ \A l \in Loops : Waited(l)

LEMMA InitWaitInv == Init => WaitInv
BY BackoffAssumption DEF Init, WaitInv, Waited, LoopStates

\* What a step may do to the wait of a loop.
WaitStep(l) ==
    loop[l].at # "sleeping" /\ loop'[l].at = "sleeping" =>
        /\ loop'[l].delay \in BackoffInitial..BackoffCap
        /\ \/ loop'[l].delay = Least(2 * loop[l].delay, BackoffCap)
           \/ loop'[l].delay = BackoffInitial
                /\ (loop[l].at = "connected" \/ loop[l].delay = 0)

\* A loop that only moves keeps its count and its wait.
LEMMA MovesOn ==
    ASSUME WaitInv, NEW place \in {"resync", "connected", "dead"}, NEW l \in Loops,
           loop' = [loop EXCEPT ![l].at = place]
    PROVE  WaitInv' /\ \A k \in Loops : WaitStep(k)
<1>1. loop' \in [Loops -> LoopStates]
  BY DEF WaitInv, LoopStates
<1>2. \A k \in Loops : /\ loop'[k].attempt = loop[k].attempt /\ loop'[k].delay = loop[k].delay
                       /\ loop'[k].at = loop[k].at \/ loop'[k].at = place
  BY DEF WaitInv, LoopStates
<1> QED
  BY <1>1, <1>2 DEF WaitInv, Waited, WaitStep

\* stream_manager.py:73-102: what follows the try block.
LEMMA BackOffWaits ==
    ASSUME WaitInv, NEW l \in Loops, NEW healthy \in BOOLEAN, BackOff(l, healthy),
           healthy => loop[l].at = "connected"
    PROVE  WaitInv' /\ \A k \in Loops : WaitStep(k)
<1> DEFINE attempt == IF healthy THEN 0 ELSE loop[l].attempt
           counted == Least(attempt + 1, MaxAttempt)
           waiting == [at |-> "sleeping", attempt |-> counted, delay |-> BackoffDelay(attempt)]
<1>1. /\ loop \in [Loops -> LoopStates] /\ Waited(l) /\ MaxAttempt \in Nat \ {0}
      /\ loop[l].attempt \in 0..MaxAttempt /\ loop[l].delay \in 0..BackoffCap
      /\ BackoffInitial \in Nat \ {0} /\ BackoffCap \in Nat
  BY BackoffAssumption DEF WaitInv, LoopStates
<1>2. attempt \in 0..MaxAttempt
  BY <1>1
<1>3. CASE attempt >= FloatMaxExp
  <2>1. loop' = [loop EXCEPT ![l].at = "dead"]
    BY <1>3 DEF BackOff
  <2> QED
    BY <2>1, MovesOn
<1>4. CASE ~(attempt >= FloatMaxExp)
  <2>1. loop' = [loop EXCEPT ![l] = waiting]
    BY <1>4 DEF BackOff
  <2>2. /\ counted \in 1..MaxAttempt
        /\ counted = attempt + 1 \/ (attempt = MaxAttempt /\ counted = MaxAttempt)
    BY <1>1, <1>2 DEF Least
  <2>3. BackoffDelay(attempt) \in BackoffInitial..BackoffCap
    BY <1>2, DelaysDouble
  <2>4. BackoffDelay(attempt) \in 0..BackoffCap
    BY <1>1, <2>3
  <2>5. /\ BackoffDelay(0) = BackoffInitial /\ BackoffDelay(MaxAttempt) = BackoffCap
        /\ attempt # 0 => BackoffDelay(attempt) = Least(2 * BackoffDelay(attempt - 1), BackoffCap)
    <3>1. attempt # 0 => attempt - 1 \in Nat /\ (attempt - 1) + 1 = attempt
      BY <1>2
    <3> QED
      BY <3>1, DelaysDouble
  <2>6. \/ BackoffDelay(attempt) = Least(2 * loop[l].delay, BackoffCap)
        \/ BackoffDelay(attempt) = BackoffInitial
             /\ (loop[l].at = "connected" \/ loop[l].delay = 0)
    <3>1. CASE healthy
      BY <2>5, <3>1
    <3>2. CASE ~healthy
      <4>1. attempt = loop[l].attempt
        BY <3>2
      <4> HIDE DEF attempt
      <4>2. CASE attempt = 0 /\ loop[l].delay = 0
        BY <2>5, <4>2
      <4>3. CASE attempt # 0 /\ loop[l].delay = BackoffDelay(attempt - 1)
        BY <2>5, <4>3
      <4>4. CASE attempt = MaxAttempt /\ loop[l].delay = BackoffCap
        BY <1>1, <2>5, <4>4 DEF Least
      <4> QED
        BY <1>1, <4>1, <4>2, <4>3, <4>4 DEF Waited
    <3> QED
      BY <3>1, <3>2
  <2>7. counted # 0 /\ (BackoffDelay(attempt) = BackoffDelay(counted - 1)
                          \/ (counted = MaxAttempt /\ BackoffDelay(attempt) = BackoffCap))
    <3>1. attempt = counted - 1 \/ (counted = MaxAttempt /\ attempt = MaxAttempt)
      BY <1>2, <2>2
    <3> HIDE DEF attempt, counted
    <3> QED
      BY <2>2, <2>5, <3>1
  <2>8. waiting \in LoopStates
    <3> HIDE DEF attempt, counted
    <3>1. counted \in 0..MaxAttempt
      BY <1>1, <2>2
    <3> QED
      BY <2>4, <3>1 DEF LoopStates
  <2>9. /\ waiting.at = "sleeping" /\ waiting.attempt = counted
        /\ waiting.delay = BackoffDelay(attempt)
    OBVIOUS
  <2> HIDE DEF waiting, attempt, counted
  <2>10. /\ loop' \in [Loops -> LoopStates] /\ loop'[l] = waiting
         /\ \A k \in Loops \ {l} : loop'[k] = loop[k]
    BY <1>1, <2>1, <2>8
  <2>11. \A k \in Loops : Waited(k)'
    <3> SUFFICES ASSUME NEW k \in Loops PROVE Waited(k)'
      OBVIOUS
    <3>1. CASE k = l
      BY <2>7, <2>9, <2>10, <3>1 DEF Waited
    <3>2. CASE k # l
      BY <2>10, <3>2 DEF Waited, WaitInv
    <3> QED
      BY <3>1, <3>2
  <2>12. \A k \in Loops : WaitStep(k)
    <3> SUFFICES ASSUME NEW k \in Loops PROVE WaitStep(k)
      OBVIOUS
    <3>1. CASE k = l
      BY <2>3, <2>6, <2>9, <2>10, <3>1 DEF WaitStep
    <3>2. CASE k # l
      BY <2>10, <3>2 DEF WaitStep
    <3> QED
      BY <3>1, <3>2
  <2> QED
    BY <2>10, <2>11, <2>12 DEF WaitInv
<1> QED
  BY <1>3, <1>4

LEMMA NextWaits ==
    ASSUME WaitInv, [Next]_vars
    PROVE  WaitInv' /\ \A l \in Loops : WaitStep(l)
<1>1. ASSUME UNCHANGED loop PROVE WaitInv' /\ \A l \in Loops : WaitStep(l)
  BY <1>1 DEF WaitInv, Waited, WaitStep
<1>2. ASSUME NEW c \in Callers, StartStreams(c)
      PROVE  WaitInv' /\ \A l \in Loops : WaitStep(l)
  <2>1. CASE UNCHANGED loop
    BY <1>1, <2>1
  <2>2. CASE loop' = [l \in Loops |-> IF l[1] = c THEN [loop[l] EXCEPT !.at = "resync"]
                                                 ELSE loop[l]]
    <3>1. \A l \in Loops : loop[l] \in LoopStates
      BY DEF WaitInv
    <3>2. \A l \in Loops : LET moved == [loop[l] EXCEPT !.at = "resync"]
                           IN  /\ moved \in LoopStates /\ moved.at = "resync"
                               /\ moved.attempt = loop[l].attempt /\ moved.delay = loop[l].delay
      BY <3>1 DEF LoopStates
    <3>3. \A l \in Loops : /\ loop'[l] \in LoopStates
                           /\ loop'[l].attempt = loop[l].attempt
                           /\ loop'[l].delay = loop[l].delay
                           /\ loop'[l].at = "resync" \/ loop'[l].at = loop[l].at
      BY <2>2, <3>1, <3>2
    <3>4. loop' \in [Loops -> LoopStates]
      BY <2>2, <3>1, <3>2
    <3> QED
      BY <3>3, <3>4 DEF WaitInv, Waited, WaitStep
  <2> QED
    BY <1>2, <2>1, <2>2 DEF StartStreams
<1>3. ASSUME NEW l \in Loops, Resynced(l) \/ Wake(l)
      PROVE  WaitInv' /\ \A k \in Loops : WaitStep(k)
  <2>1. \E place \in {"resync", "connected", "dead"} : loop' = [loop EXCEPT ![l].at = place]
    BY <1>3 DEF Resynced, Wake
  <2> QED
    BY <2>1, MovesOn
<1>4. ASSUME NEW l \in Loops, ResyncFails(l)
      PROVE  WaitInv' /\ \A k \in Loops : WaitStep(k)
  BY <1>4, BackOffWaits DEF ResyncFails
<1>5. ASSUME NEW l \in Loops, NEW healthy \in BOOLEAN, StreamEnds(l, healthy)
      PROVE  WaitInv' /\ \A k \in Loops : WaitStep(k)
  BY <1>5, BackOffWaits DEF StreamEnds
<1>6. CASE OutageBegins \/ OutageEnds \/ UNCHANGED vars
  BY <1>1, <1>6 DEF OutageBegins, OutageEnds, vars
<1> QED
  BY <1>2, <1>3, <1>4, <1>5, <1>6 DEF Next

\* stream_manager.py:8-9, 76-79: for every initial delay and cap, each failed attempt
\* waits twice as long as the last, never less than the initial delay or more
\* than the cap, and only a connection starts the doubling again.
THEOREM BackoffAlwaysDoubles == Spec => BackoffNeverShrinks
<1>1. WaitInv /\ [Next]_vars => WaitInv'
  BY NextWaits
<1>2. WaitInv /\ [Next]_vars => [\A l \in Loops : WaitStep(l)]_vars
  BY NextWaits
<1>3. WaitInv /\ [Next]_vars =>
        [\A l \in Loops :
            loop[l].at # "sleeping" /\ loop'[l].at = "sleeping" =>
                /\ loop'[l].delay \in BackoffInitial..BackoffCap
                /\ \/ loop'[l].delay = Least(2 * loop[l].delay, BackoffCap)
                   \/ loop'[l].delay = BackoffInitial
                        /\ (loop[l].at = "connected" \/ loop[l].delay = 0)]_vars
  BY <1>2 DEF WaitStep
<1> QED
  BY <1>1, <1>3, InitWaitInv, PTL DEF Spec, BackoffNeverShrinks

----------------------------------------------------------------------------
\* A fetch of Research, page after page.

Units ==
    [of : {"bars", "news"}, symbols : SUBSET Symbols, days : SUBSET Days,
     strict : BOOLEAN, paged : BOOLEAN]

LEMMA FeedType ==
    ASSUME edition \in 1..Len(Feeds)
    PROVE  /\ DOMAIN feed.bars \subseteq Symbols \X Days
           /\ \A key \in DOMAIN feed.bars : feed.bars[key] \in FeedBars
           /\ feed.news = Feeds[1].news
           /\ feed.news \in [Symbols -> Seq(Headlines)]
BY ClientsAssumption, ResearchAssumption DEF feed

\* models.py:33-63: what passes validation may be stored.
LEMMA ValidType ==
    ASSUME NEW bar \in FeedBars, Valid(bar)
    PROVE  bar \in BarAt
<1>1. ASSUME NEW price \in Prices(bar), price \in Int \union {NaN} PROVE price \in Int
  BY <1>1 DEF Valid
<1>2. {bar.open, bar.high, bar.low, bar.close} \subseteq Prices(bar) /\ (bar.vwap # None => bar.vwap \in Prices(bar))
  BY DEF Prices
<1>3. /\ bar.open \in Int /\ bar.high \in Int /\ bar.low \in Int /\ bar.close \in Int
      /\ bar.vwap \in Int \union {None}
  BY <1>1, <1>2 DEF FeedBars
<1>4. bar.volume \in Nat
  BY DEF Valid, FeedBars
<1> QED
  BY <1>3, <1>4 DEF BarAt, FeedBars

LEMMA RowsType ==
    ASSUME edition \in 1..Len(Feeds), NEW unit \in Units
    PROVE  /\ unit.of = "bars" => /\ Rows(unit) \subseteq DOMAIN feed.bars
                                  /\ Rows(unit) \subseteq Symbols \X Days
           /\ IsFiniteSet(Rows(unit))
           /\ Rows(unit) \subseteq Symbols \X Nat
<1>1. CASE unit.of = "bars"
  <2>1. Rows(unit) \subseteq DOMAIN feed.bars /\ DOMAIN feed.bars \subseteq Symbols \X Days
    BY <1>1, FeedType DEF Rows
  <2>2. IsFiniteSet(Symbols \X Days)
    BY ClientsAssumption, FS_Product
  <2>3. IsFiniteSet(Rows(unit))
    BY <2>1, <2>2, FS_Subset
  <2>4. Symbols \X Days \subseteq Symbols \X Nat
    BY ClientsAssumption
  <2> QED
    BY <2>1, <2>3, <2>4
<1>2. CASE unit.of # "bars"
  <2> DEFINE of == [s \in Symbols |-> Published(s, unit.days)]
  <2>1. Rows(unit) = UNION {of[s] : s \in unit.symbols}
    <3>1. \A s \in unit.symbols : of[s] = Published(s, unit.days)
      BY DEF Units
    <3> HIDE DEF of
    <3> QED
      BY <1>2, <3>1 DEF Rows
  <2>2. ASSUME NEW s \in unit.symbols
        PROVE  IsFiniteSet(of[s]) /\ of[s] \subseteq Symbols \X Nat
    <3>1. s \in Symbols /\ feed.news[s] \in Seq(Headlines)
      BY FeedType DEF Units
    <3>2. Len(feed.news[s]) \in Nat /\ DOMAIN feed.news[s] = 1..Len(feed.news[s])
      BY <3>1
    <3>3. of[s] = Published(s, unit.days)
      BY <3>1
    <3>4. IsFiniteSet(1..Len(feed.news[s])) /\ IsFiniteSet({s})
      <4> HIDE DEF of
      <4>1. 1 \in Int /\ Len(feed.news[s]) \in Int
        BY <3>2
      <4>2. IsFiniteSet({s})
        BY FS_Singleton
      <4> QED
        BY <4>1, <4>2, FS_Interval
    <3>5. IsFiniteSet({s} \X (1..Len(feed.news[s])))
      BY <3>4, FS_Product
    <3>6. of[s] \subseteq {s} \X (1..Len(feed.news[s]))
      BY <3>2, <3>3 DEF Published
    <3>7. {s} \X (1..Len(feed.news[s])) \subseteq Symbols \X Nat
      BY <3>1, <3>2
    <3> QED
      BY <3>5, <3>6, <3>7, FS_Subset
  <2>3. IsFiniteSet(unit.symbols)
    BY ClientsAssumption, FS_Subset DEF Units
  <2> HIDE DEF of
  <2>4. IsFiniteSet({of[s] : s \in unit.symbols})
    BY <2>3, ImageIsFinite
  <2>5. IsFiniteSet(UNION {of[s] : s \in unit.symbols})
    BY <2>2, <2>4, FS_UNION
  <2>6. UNION {of[s] : s \in unit.symbols} \subseteq Symbols \X Nat
    BY <2>2
  <2> QED
    BY <1>2, <2>1, <2>5, <2>6
<1> QED
  BY <1>1, <1>2

\* The rows of the pages before page p.
EarlierRows(unit, p) == {r \in Rows(unit) : unit.paged /\ Rank(unit, r) \div PageSize < p - 1}

LEMMA RankType ==
    ASSUME edition \in 1..Len(Feeds), NEW unit \in Units, NEW row \in Rows(unit)
    PROVE  /\ Rank(unit, row) \in Nat
           /\ Cardinality(Rows(unit)) \in Nat
           /\ Rank(unit, row) < Cardinality(Rows(unit))
<1> DEFINE ahead == {r \in Rows(unit) : r[1] < row[1] \/ (r[1] = row[1] /\ r[2] < row[2])}
<1>1. IsFiniteSet(Rows(unit)) /\ row \in Symbols \X Nat
  BY RowsType
<1>2. row[1] \in Int /\ row[2] \in Int
  <2>1. row[1] \in Symbols /\ row[2] \in Nat
    BY <1>1
  <2>2. Symbols \subseteq Nat
    BY ClientsAssumption
  <2> DEFINE s == row[1]
             n == row[2]
  <2>3. s \in Symbols /\ n \in Nat
    BY <2>1
  <2> HIDE DEF ahead, s, n
  <2>4. s \in Int /\ n \in Int
    BY <2>2, <2>3
  <2> QED
    BY <2>4 DEF s, n
<1>3. ahead \subseteq Rows(unit) /\ row \notin ahead
  BY <1>2
<1>4. /\ IsFiniteSet(ahead) /\ Cardinality(ahead) <= Cardinality(Rows(unit))
      /\ Cardinality(ahead) # Cardinality(Rows(unit))
  BY <1>1, <1>3, FS_Subset
<1>5. Cardinality(ahead) \in Nat /\ Cardinality(Rows(unit)) \in Nat
  BY <1>1, <1>4, FS_CardinalityType
<1> QED
  BY <1>4, <1>5 DEF Rank

LEMMA QuotientBelow ==
    ASSUME NEW x \in Nat, NEW n \in Nat \ {0}, NEW p \in Nat, x < p * n
    PROVE  x \div n \in Nat /\ x \div n <= p - 1
<1> DEFINE q == x \div n
<1>1. q \in Nat /\ n * q <= x
  OBVIOUS
<1> HIDE DEF q
<1>2. ~(p <= q)
  <2> SUFFICES ASSUME p <= q PROVE FALSE
    OBVIOUS
  <2>1. n * p <= n * q
    BY <1>1
  <2> QED
    BY <1>1, <2>1
<1> QED
  BY <1>1, <1>2 DEF q

\* alpaca_data.py:76-102: the pages are one after the other, and the last is the last.
LEMMA PagesAddUp ==
    ASSUME edition \in 1..Len(Feeds), NEW unit \in Units, NEW p \in Nat \ {0}
    PROVE  /\ unit.paged => EarlierRows(unit, p) \union Page(unit, p) = EarlierRows(unit, p + 1)
           /\ IsLastPage(unit, p) => EarlierRows(unit, p) \union Page(unit, p) = Rows(unit)
           /\ EarlierRows(unit, 1) = {}
           /\ Page(unit, p) \subseteq Rows(unit)
<1>1. ASSUME NEW r \in Rows(unit)
      PROVE  /\ Rank(unit, r) \div PageSize \in Nat
             /\ IsLastPage(unit, p) /\ unit.paged => Rank(unit, r) \div PageSize <= p - 1
  <2>1. /\ Rank(unit, r) \in Nat /\ Cardinality(Rows(unit)) \in Nat
        /\ Rank(unit, r) < Cardinality(Rows(unit)) /\ PageSize \in Nat \ {0}
    BY RankType, ClientsAssumption
  <2>2. Rank(unit, r) \div PageSize \in Nat
    BY <2>1
  <2>3. IsLastPage(unit, p) /\ unit.paged => Rank(unit, r) < p * PageSize
    BY <2>1 DEF IsLastPage
  <2> QED
    BY <2>1, <2>2, <2>3, QuotientBelow
<1>2. unit.paged \in BOOLEAN
  BY DEF Units
<1> QED
  BY <1>1, <1>2 DEF EarlierRows, Page, IsLastPage

----------------------------------------------------------------------------
\* The programs and what they have left to fetch.

IsJob(j) ==
    /\ j = [program |-> j.program, units |-> j.units, todo |-> j.todo, rows |-> j.rows, left |-> j.left]
    /\ j.program \in Programs /\ j.units \in Seq(Units) /\ j.todo \in Seq(Units)
    /\ j.rows \subseteq Symbols \X Days /\ DOMAIN j.left \subseteq Symbols \X Days

\* What a program sets out to fetch.
Planned(program, units) ==
    /\ \A i \in DOMAIN units : units[i].of = IF program = "score_news" THEN "news" ELSE "bars"
    /\ program = "build_universe" =>
          /\ \A i \in DOMAIN units : ~units[i].strict /\ units[i].symbols \subseteq Assets
          /\ \A i, j \in DOMAIN units : units[i].days = units[j].days
          /\ \A s \in Assets : \E i \in DOMAIN units : s \in units[i].symbols

\* How many of the units are done.
Done == Len(job.units) - Len(job.todo)

JobInv ==
    /\ edition \in 1..Len(Feeds)
    /\ job # None =>
          /\ IsJob(job) /\ Planned(job.program, job.units)
          /\ Len(job.todo) <= Len(job.units)
          /\ job.todo = SubSeq(job.units, Done + 1, Len(job.units))

\* A fetch has got what is valid of the pages before the one it asks for, and all
\* the rows of the last fetch are in the table.
FetchInv ==
    call # None =>
        /\ job # None /\ job.todo # <<>> /\ call.unit = Head(job.todo) /\ DOMAIN job.left = {}
        /\ call \in [unit : Units, page : Nat \ {0}, tries : 0..(MaxTries - 1), got : SUBSET (Symbols \X Nat)]
        /\ call.got = EarlierRows(call.unit, call.page) \ BadRows(call.unit)
        /\ call.unit.strict => EarlierRows(call.unit, call.page) \intersect BadRows(call.unit) = {}

UniversesTyped == universes \in [{"run_screener", "build_universe"} -> Seq(Symbols) \union {None}]

\* alpaca_data.py:76-102, polygon_client.py:50-122: on the last page all is there.
LEMMA GotIsWhole ==
    ASSUME JobInv, FetchInv, Arrived, IsLastPage(call.unit, call.page)
    PROVE  /\ Got = Rows(call.unit) \ BadRows(call.unit)
           /\ call.unit.strict => BadRows(call.unit) = {}
<1> DEFINE u == call.unit
           p == call.page
<1>1. u \in Units /\ p \in Nat \ {0}
  BY DEF FetchInv, Arrived
<1> HIDE DEF u, p
<1>2. EarlierRows(u, p) \union Page(u, p) = Rows(u)
  BY <1>1, PagesAddUp DEF JobInv, u, p
<1>3. BadRows(u) \subseteq Rows(u)
  BY DEF BadRows
<1> QED
  BY <1>2, <1>3 DEF FetchInv, Arrived, Got, u, p

\* score_news.py:60-68: a score is of a symbol and of a day of its news.
LEMMA ScoreRowsType ==
    ASSUME edition \in 1..Len(Feeds), NEW unit \in Units, unit.of = "news",
           NEW rows, rows \subseteq Rows(unit)
    PROVE  /\ DOMAIN ScoreRows(rows) \subseteq Symbols \X Days
           /\ \A key \in DOMAIN ScoreRows(rows) : key[1] \in unit.symbols /\ key[2] \in unit.days
<1>1. DOMAIN ScoreRows(rows) = {<<r[1], feed.news[r[1]][r[2]].day>> : r \in rows}
  BY DEF ScoreRows
<1>2. unit.symbols \subseteq Symbols /\ unit.days \subseteq Days
  BY DEF Units
<1>3. \A r \in rows : r[1] \in unit.symbols /\ feed.news[r[1]][r[2]].day \in unit.days
  BY DEF Rows, Published
<1> QED
  BY <1>1, <1>2, <1>3

\* The tail of the rest of a list is the rest from the next place on.
LEMMA RestOfSeq ==
    ASSUME NEW S, NEW seq \in Seq(S), NEW d \in 0..(Len(seq) - 1)
    PROVE  /\ Head(SubSeq(seq, d + 1, Len(seq))) = seq[d + 1]
           /\ Tail(SubSeq(seq, d + 1, Len(seq))) = SubSeq(seq, d + 2, Len(seq))
<1>1. Len(seq) \in Nat
  BY LenProperties
<1> DEFINE m == d + 1
           n == Len(seq)
<1>2. m \in 1..n /\ n \in m..n /\ m + 1 = d + 2
  BY <1>1
<1> HIDE DEF m, n
<1>3. Head(SubSeq(seq, m, n)) = seq[m] /\ Tail(SubSeq(seq, m, n)) = SubSeq(seq, m + 1, n)
  <2>1. m \in 1..Len(seq) /\ n \in m..Len(seq)
    BY <1>2 DEF n
  <2> QED
    BY <2>1, HeadTailOfSubSeq, Zenon
<1>4. m = d + 1 /\ n = Len(seq)
  BY DEF m, n
<1> QED
  BY <1>2, <1>3, <1>4, Zenon

LEMMA HeadOfTodo ==
    ASSUME JobInv, job # None, job.todo # <<>>
    PROVE  /\ Done \in 0..(Len(job.units) - 1) /\ Done + 1 \in DOMAIN job.units
           /\ Head(job.todo) = job.units[Done + 1] /\ Head(job.todo) \in Units
           /\ Tail(job.todo) = SubSeq(job.units, Done + 2, Len(job.units))
           /\ Tail(job.todo) \in Seq(Units) /\ Len(Tail(job.todo)) = Len(job.todo) - 1
<1>1. /\ job.units \in Seq(Units) /\ job.todo \in Seq(Units)
      /\ Len(job.todo) <= Len(job.units) /\ job.todo = SubSeq(job.units, Done + 1, Len(job.units))
  BY DEF JobInv, IsJob
<1> DEFINE units == job.units
           todo == job.todo
           n == Len(units)
           d == Done
<1>2. /\ n \in Nat /\ Len(todo) \in Nat /\ Len(todo) # 0 /\ d = n - Len(todo)
      /\ Head(todo) \in Units /\ Tail(todo) \in Seq(Units) /\ Len(Tail(todo)) = Len(todo) - 1
      /\ DOMAIN units = 1..n /\ Len(todo) <= n
  <2>1. n \in Nat /\ Len(todo) \in Nat /\ DOMAIN units = 1..n /\ Len(todo) <= n
    BY <1>1
  <2>2. Len(todo) # 0
    BY <1>1, EmptySeq
  <2>3. Head(todo) \in Units /\ Tail(todo) \in Seq(Units) /\ Len(Tail(todo)) = Len(todo) - 1
    BY <1>1, HeadTailProperties
  <2>4. d = n - Len(todo)
    BY DEF Done
  <2> QED
    BY <2>1, <2>2, <2>3, <2>4
<1>3. todo = SubSeq(units, d + 1, n) /\ units \in Seq(Units) /\ Len(todo) <= n
  BY <1>1
<1> HIDE DEF units, todo, n, d
<1>4. d + 1 \in 1..n /\ n \in (d + 1)..n /\ (d + 1) + 1 = d + 2
  BY <1>2, <1>3
<1>5. Head(SubSeq(units, d + 1, n)) = units[d + 1] /\ Tail(SubSeq(units, d + 1, n)) = SubSeq(units, d + 2, n)
  <2>1. d \in 0..(Len(units) - 1)
    BY <1>2, <1>4 DEF n
  <2> QED
    BY <1>3, <2>1, RestOfSeq, Zenon DEF n
<1>6. /\ d \in 0..(n - 1) /\ d + 1 \in DOMAIN units
      /\ Head(todo) = units[d + 1] /\ Tail(todo) = SubSeq(units, d + 2, n)
  <2>1. d \in 0..(n - 1) /\ d + 1 \in DOMAIN units
    BY <1>2, <1>4
  <2>2. Head(todo) = units[d + 1] /\ Tail(todo) = SubSeq(units, d + 2, n)
    BY <1>3, <1>5
  <2> QED
    BY <2>1, <2>2
<1> QED
  BY <1>2, <1>6 DEF units, todo, n, d

\* run_screener.py:123-132: as many weekdays back as there are.
LEMMA FromEndType ==
    ASSUME NEW days \in SUBSET Days, NEW k \in 1..Cardinality(days)
    PROVE  FromEnd(days, k) \in days
<1> DEFINE R == {p \in days \X days : p[1] > p[2]}
<1>1. IsFiniteSet(days) /\ days \subseteq Nat
  BY ClientsAssumption, FS_Subset
<1>2. \A d, e \in days : <<d, e>> \in R <=> d > e
  OBVIOUS
<1> HIDE DEF R
<1>3. StrictlyOrders(R, days)
  <2>1. \A d \in days : d \in Int
    BY <1>1
  <2> QED
    BY <1>2, <2>1 DEF StrictlyOrders
<1>4. \A d \in days : AheadOf(R, days, d) = {e \in days : e > d}
  BY <1>2 DEF AheadOf
<1>5. k - 1 \in 0..(Cardinality(days) - 1)
  BY <1>1, FS_CardinalityType
<1>6. \E d \in days : Cardinality(AheadOf(R, days, d)) = k - 1
  <2>1. \A i \in 0..(Cardinality(days) - 1) : \E d \in days : Cardinality(AheadOf(R, days, d)) = i
    <3>1. IsFiniteSet(days) /\ Cardinality(days) \in Nat
      BY <1>1, FS_CardinalityType
    <3> QED
      BY <1>3, <3>1, PlacesTaken
  <2> QED
    BY <1>5, <2>1
<1>7. \E d \in days : Cardinality({e \in days : e > d}) = k - 1
  BY <1>4, <1>6
<1> QED
  BY <1>7 DEF FromEnd

----------------------------------------------------------------------------
\* What a program starts with.

LEMMA StartShape ==
    ASSUME JobInv, NEW program \in Programs, NEW todo \in Seq(Units), Planned(program, todo),
           Start(program, todo)
    PROVE  /\ job = None /\ UNCHANGED <<clients, bars, scores, universes>>
           /\ IsJob(job') /\ Planned(job'.program, job'.units)
           /\ job'.todo = job'.units /\ Len(job'.todo) <= Len(job'.units)
           /\ job'.todo = SubSeq(job'.units, 0 + 1, Len(job'.units))
           /\ job'.rows = {} /\ DOMAIN job'.left = {} /\ job'.program = program
<1>1. todo = SubSeq(todo, 1, Len(todo)) /\ Len(todo) \in Nat
  BY SubSeqFull
<1> QED
  BY <1>1 DEF Start, IsJob

\* sync_data.py:40-44, score_news.py:58-59: one symbol after the other.
LEMMA PerSymbolShape ==
    ASSUME UniversesTyped, NEW program \in {"sync_data", "score_news"},
           NEW asked \in {"config", "run_screener", "build_universe"}, NEW span \in Spans,
           NEW paged \in BOOLEAN, StartPerSymbol(program, asked, span, paged)
    PROVE  Refuse \/ \E todo \in Seq(Units) : Planned(program, todo) /\ Start(program, todo)
<1> DEFINE names == LoadUniverse(asked)
           of    == IF program = "sync_data" THEN "bars" ELSE "news"
           U(i)  == Unit(of, {names[i]}, span, TRUE, paged)
           todo  == [i \in DOMAIN names |-> U(i)]
<1> SUFFICES ASSUME names # None PROVE \E t \in Seq(Units) : Planned(program, t) /\ Start(program, t)
  BY DEF StartPerSymbol
<1>1. names \in Seq(Symbols)
  BY ResearchAssumption DEF UniversesTyped, LoadUniverse
<1>2. Start(program, todo)
  BY DEF StartPerSymbol
<1> HIDE DEF names
<1>3. /\ Len(names) \in Nat /\ DOMAIN names = 1..Len(names)
      /\ \A i \in 1..Len(names) : names[i] \in Symbols
  BY <1>1
<1>4. span \in SUBSET Days
  BY ResearchAssumption
<1>5. of \in {"bars", "news"} /\ of = IF program = "score_news" THEN "news" ELSE "bars"
  OBVIOUS
<1> HIDE DEF of
<1>6. ASSUME NEW i \in 1..Len(names) PROVE U(i) \in Units /\ U(i).of = of
  <2>1. {names[i]} \in SUBSET Symbols
    BY <1>3
  <2> QED
    BY <1>4, <1>5, <2>1 DEF Unit, Units
<1> HIDE DEF U
<1>7. todo \in Seq(Units) /\ \A i \in DOMAIN todo : todo[i].of = of
  BY <1>3, <1>6
<1>8. Planned(program, todo)
  BY <1>5, <1>7 DEF Planned
<1> HIDE DEF todo
<1> QED
  BY <1>2, <1>7, <1>8

\* run_screener.py:123-132: weekday after weekday, the newest first.
LEMMA ScreenerShape ==
    ASSUME NEW n \in SyncDays, StartScreener(n)
    PROVE  \E todo \in Seq(Units) : Planned("run_screener", todo) /\ Start("run_screener", todo)
<1> DEFINE weekdays == Days \ Weekend
           U(k) == Unit("bars", Symbols, {FromEnd(weekdays, k)}, FALSE, FALSE)
           todo == [k \in 1..n |-> U(k)]
<1>1. n \in Nat /\ n <= Cardinality(weekdays) /\ Cardinality(weekdays) \in Nat
  <2>1. IsFiniteSet(weekdays)
    BY ClientsAssumption, FS_Subset
  <2>2. Cardinality(weekdays) \in Nat
    BY <2>1, FS_CardinalityType
  <2>3. n \in 0..Cardinality(weekdays)
    BY ResearchAssumption
  <2> QED
    BY <2>2, <2>3
<1>2. weekdays \in SUBSET Days
  OBVIOUS
<1>3. Start("run_screener", todo)
  BY DEF StartScreener
<1> HIDE DEF weekdays
<1>4. \A k \in 1..n : FromEnd(weekdays, k) \in Days
  <2>1. \A k \in 1..n : k \in 1..Cardinality(weekdays)
    BY <1>1
  <2> QED
    BY <1>2, <2>1, FromEndType
<1>5. ASSUME NEW k \in 1..n PROVE U(k) \in Units /\ U(k).of = "bars"
  <2>1. {FromEnd(weekdays, k)} \in SUBSET Days /\ Symbols \in SUBSET Symbols
    BY <1>4
  <2> QED
    BY <2>1 DEF Unit, Units
<1> HIDE DEF U
<1>6. todo \in Seq(Units) /\ \A i \in DOMAIN todo : todo[i].of = "bars"
  BY <1>1, <1>5
<1>7. Planned("run_screener", todo)
  BY <1>6 DEF Planned
<1> HIDE DEF todo
<1> QED
  BY <1>3, <1>6, <1>7

\* Rounded up, the batches have room for all.
LEMMA RoundedUp ==
    ASSUME NEW n \in Nat, NEW b \in Nat \ {0}, NEW x \in Nat, x < n
    PROVE  /\ (n + b - 1) \div b \in Nat
           /\ x \div b \in Nat
           /\ (x \div b) + 1 \in 1..((n + b - 1) \div b)
<1> DEFINE q == x \div b
           m == (n + b - 1) \div b
<1>1. q \in Nat /\ b * q <= x
  OBVIOUS
<1>2. m \in Nat /\ n + b - 1 < b * (m + 1)
  <2>1. n + b - 1 \in Nat
    OBVIOUS
  <2> QED
    BY <2>1
<1> HIDE DEF q, m
<1>3. q + 1 <= m
  <2> SUFFICES ASSUME m <= q PROVE FALSE
    BY <1>1, <1>2
  <2>1. b * m <= b * q
    BY <1>1, <1>2
  <2>2. b * (m + 1) = b * m + b
    BY <1>2
  <2>3. b * m \in Int /\ b * q \in Int
    BY <1>1, <1>2
  <2> QED
    BY <1>1, <1>2, <2>1, <2>2, <2>3
<1> QED
  BY <1>1, <1>2, <1>3 DEF q, m

\* build_universe.py:39-57: each active symbol is in a batch, over the same span.
LEMMA BuildShape ==
    ASSUME NEW span \in Spans, StartBuild(span)
    PROVE  \E todo \in Seq(Units) : Planned("build_universe", todo) /\ Start("build_universe", todo)
<1> DEFINE Nth(s) == Cardinality({x \in Assets : x < s})
           Batch(b) == {s \in Assets : Nth(s) \div BatchSize = b - 1}
           U(b) == Unit("bars", Batch(b), span, FALSE, TRUE)
           todo == [b \in 1..Batches |-> U(b)]
<1>1. Start("build_universe", todo)
  BY DEF StartBuild
<1>2. /\ IsFiniteSet(Assets) /\ Assets \subseteq Symbols /\ Assets \subseteq Nat
      /\ span \in SUBSET Days /\ Cardinality(Assets) \in Nat /\ BatchSize \in Nat \ {0}
  <2>1. Assets \subseteq Symbols /\ Assets \subseteq Nat /\ span \in SUBSET Days /\ BatchSize \in Nat \ {0}
    BY ResearchAssumption, ClientsAssumption
  <2>2. IsFiniteSet(Assets)
    BY <2>1, ClientsAssumption, FS_Subset
  <2> QED
    BY <2>1, <2>2, FS_CardinalityType
<1>3. ASSUME NEW s \in Assets PROVE Nth(s) \in Nat /\ Nth(s) < Cardinality(Assets)
  <2>1. {x \in Assets : x < s} \subseteq Assets /\ s \notin {x \in Assets : x < s}
    BY <1>2
  <2>2. /\ IsFiniteSet({x \in Assets : x < s}) /\ Nth(s) <= Cardinality(Assets)
        /\ Nth(s) # Cardinality(Assets)
    BY <1>2, <2>1, FS_Subset
  <2>3. Nth(s) \in Nat
    BY <2>2, FS_CardinalityType
  <2> QED
    BY <1>2, <2>2, <2>3
<1>4. Batches \in Nat
  <2>1. Cardinality(Assets) + BatchSize - 1 \in Nat
    BY <1>2
  <2> QED
    BY <1>2, <2>1 DEF Batches
<1>5. ASSUME NEW s \in Assets PROVE \E b \in 1..Batches : s \in Batch(b)
  <2> DEFINE n == Nth(s)
  <2>1. n \in Nat /\ n < Cardinality(Assets)
    BY <1>3
  <2> HIDE DEF n
  <2>2. n \div BatchSize \in Nat /\ (n \div BatchSize) + 1 \in 1..Batches
    BY <1>2, <2>1, RoundedUp DEF Batches
  <2>3. n \div BatchSize = ((n \div BatchSize) + 1) - 1
    BY <2>2
  <2>4. s \in Batch((n \div BatchSize) + 1)
    BY <2>3 DEF n
  <2> QED
    BY <2>2, <2>4
<1> HIDE DEF Batch
<1>6. \A b \in 1..Batches : Batch(b) \subseteq Assets
  BY DEF Batch
<1>7. ASSUME NEW b \in 1..Batches
      PROVE  /\ U(b) \in Units /\ U(b).of = "bars" /\ U(b).symbols = Batch(b)
             /\ U(b).days = span /\ U(b).strict = FALSE
  <2>1. Batch(b) \in SUBSET Symbols
    BY <1>2, <1>6
  <2> QED
    BY <1>2, <2>1 DEF Unit, Units
<1> HIDE DEF U
<1>8. /\ todo \in Seq(Units) /\ DOMAIN todo = 1..Batches
      /\ \A b \in 1..Batches : /\ todo[b].of = "bars" /\ todo[b].symbols = Batch(b)
                               /\ todo[b].days = span /\ ~todo[b].strict
  <2>1. \A b \in 1..Batches : U(b) \in Units
    BY <1>7
  <2>2. todo \in Seq(Units) /\ DOMAIN todo = 1..Batches
    BY <1>4, <2>1
  <2>3. \A b \in 1..Batches : todo[b] = U(b)
    OBVIOUS
  <2> QED
    BY <1>7, <2>2, <2>3
<1> HIDE DEF todo
<1>9. Planned("build_universe", todo)
  BY <1>5, <1>6, <1>8 DEF Planned
<1> QED
  BY <1>1, <1>8, <1>9

LEMMA BeginShape ==
    ASSUME UniversesTyped, Begin
    PROVE  \/ Refuse
           \/ \E program \in Programs : \E todo \in Seq(Units) :
                 Planned(program, todo) /\ Start(program, todo)
<1>1. DOMAIN universes = {"run_screener", "build_universe"}
  BY DEF UniversesTyped
<1>2. ASSUME NEW asked \in {"config"} \union DOMAIN universes, NEW span \in Spans, NEW paged \in BOOLEAN,
             StartSync(asked, span, paged)
      PROVE  Refuse \/ \E todo \in Seq(Units) : Planned("sync_data", todo) /\ Start("sync_data", todo)
  BY <1>1, <1>2, PerSymbolShape DEF StartSync
<1>3. ASSUME NEW asked \in {"config"} \union DOMAIN universes, NEW span \in Spans, StartScoring(asked, span)
      PROVE  Refuse \/ \E todo \in Seq(Units) : Planned("score_news", todo) /\ Start("score_news", todo)
  BY <1>1, <1>3, PerSymbolShape DEF StartScoring
<1> QED
  BY <1>2, <1>3, ScreenerShape, BuildShape DEF Begin, Programs

----------------------------------------------------------------------------
\* The ranking of Screener.

\* Different candidates are different symbols.
Listed(C) ==
    /\ IsFiniteSet(C) /\ \A m \in C : m.symbol \in Symbols
    /\ \A m, k \in C : m.symbol = k.symbol => m = k

LEMMA MetricsSymbol ==
    ASSUME NEW rows, NEW s
    PROVE  Metrics(rows, s).symbol = s
BY DEF Metrics

\* screener.py:40-88: one candidate per symbol.
LEMMA CandidatesListed ==
    ASSUME NEW rows, \A key \in DOMAIN rows : key[1] \in Symbols
    PROVE  Listed(Candidates(rows))
<1> DEFINE f == [s \in Symbols |-> Metrics(rows, s)]
           all == {f[s] : s \in Symbols}
<1>1. IsFiniteSet(all)
  <2> HIDE DEF f
  <2> QED
    BY ClientsAssumption, ImageIsFinite
<1>2. \A m \in Candidates(rows) : \E s \in Symbols : m = Metrics(rows, s)
  BY DEF Candidates
<1>3. Candidates(rows) \subseteq all
  BY <1>2
<1>4. IsFiniteSet(Candidates(rows))
  BY <1>1, <1>3, FS_Subset
<1> QED
  BY <1>2, <1>4, MetricsSymbol DEF Listed

Scores == [symbol : Symbols, score : Int]

\* screener.py:102-106: whole scores, one per symbol.
LEMMA ScoredShape ==
    ASSUME NEW C, Listed(C)
    PROVE  /\ IsFiniteSet(Scored(C)) /\ Scored(C) \subseteq Scores
           /\ \A x, y \in Scored(C) : x.symbol = y.symbol => x = y
<1> DEFINE Ranks(m) == RankTwice(C, LAMBDA x, y : x.last * y.past < y.last * x.past, m)
                       + RankTwice(C, LAMBDA x, y : x.mdv < y.mdv, m)
                       + RankTwice(C, LAMBDA x, y : x.range > y.range, m)
           f == [m \in C |-> [symbol |-> m.symbol, score |-> Ranks(m)]]
<1>1. Scored(C) = {f[m] : m \in C}
  BY DEF Scored
<1>2. \A D \in SUBSET C : Cardinality(D) \in Nat
  BY FS_Subset, FS_CardinalityType DEF Listed
<1>3. ASSUME NEW m \in C PROVE Ranks(m) \in Int
  BY <1>2 DEF RankTwice
<1> HIDE DEF Ranks
<1>4. \A m \in C : f[m] \in Scores /\ f[m].symbol = m.symbol
  BY <1>3 DEF Scores, Listed
<1> HIDE DEF f
<1>5. IsFiniteSet({f[m] : m \in C})
  BY ImageIsFinite DEF Listed
<1> QED
  BY <1>1, <1>4, <1>5 DEF Listed

\* screener.py:107-111: the best first, each once.
LEMMA RankedShape ==
    ASSUME NEW scored, IsFiniteSet(scored), scored \subseteq Scores,
           \A x, y \in scored : x.symbol = y.symbol => x = y
    PROVE  /\ Ranked(scored) \in Seq(scored) /\ Len(Ranked(scored)) = Cardinality(scored)
           /\ \A x \in scored : \E i \in 1..Len(Ranked(scored)) : Ranked(scored)[i] = x
           /\ \A i, j \in 1..Len(Ranked(scored)) :
                 /\ Ranked(scored)[i].symbol = Ranked(scored)[j].symbol => i = j
                 /\ Beats(Ranked(scored)[i], Ranked(scored)[j]) <=> i < j
<1> DEFINE R == {p \in scored \X scored : Beats(p[1], p[2])}
           n == Cardinality(scored)
           Place(x) == Cardinality(AheadOf(R, scored, x))
           list == Ranked(scored)
<1>1. \A x, y \in scored : <<x, y>> \in R <=> Beats(x, y)
  OBVIOUS
<1>2. \A x \in scored : x.score \in Int /\ x.symbol \in Nat
  BY ClientsAssumption DEF Scores
<1> HIDE DEF R
<1>3. StrictlyOrders(R, scored)
  <2>1. \A x \in scored : ~Beats(x, x)
    BY <1>2 DEF Beats
  <2>2. \A x, y \in scored : x # y => Beats(x, y) \/ Beats(y, x)
    BY <1>2 DEF Beats
  <2>3. \A x, y, z \in scored : Beats(x, y) /\ Beats(y, z) => Beats(x, z)
    BY <1>2 DEF Beats
  <2> QED
    BY <1>1, <2>1, <2>2, <2>3 DEF StrictlyOrders
<1>4. \A x \in scored : AheadOf(R, scored, x) = {y \in scored : Beats(y, x)}
  BY <1>1 DEF AheadOf
<1>5. n \in Nat
  BY FS_CardinalityType
<1>6. /\ \A x \in scored : Place(x) \in 0..(n - 1)
      /\ \A x, y \in scored : <<x, y>> \in R <=> Place(x) < Place(y)
      /\ \A x, y \in scored : Place(x) = Place(y) => x = y
      /\ \A i \in 0..(n - 1) : \E x \in scored : Place(x) = i
  BY <1>3, <1>5, PlacesTaken
<1>7. ASSUME NEW i \in 1..n PROVE list[i] \in scored /\ Place(list[i]) = i - 1
  <2>1. i - 1 \in 0..(n - 1)
    BY <1>5
  <2>2. \E x \in scored : Place(x) = i - 1
    BY <1>6, <2>1
  <2>3. \E x \in scored : Cardinality({y \in scored : Beats(y, x)}) = i - 1
    BY <1>4, <2>2
  <2>4. list[i] = CHOOSE x \in scored : Cardinality({y \in scored : Beats(y, x)}) = i - 1
    BY DEF Ranked
  <2> QED
    BY <1>4, <2>3, <2>4
<1>8. DOMAIN list = 1..n /\ list = [i \in 1..n |-> list[i]]
  <2> DEFINE Nth(i) == CHOOSE x \in scored : Cardinality({y \in scored : Beats(y, x)}) = i - 1
  <2>1. list = [i \in 1..n |-> Nth(i)]
    BY DEF Ranked
  <2> HIDE DEF list, n, Nth
  <2> QED
    BY <2>1
<1> HIDE DEF list, n, Place
<1>9. list \in Seq(scored) /\ Len(list) = n
  <2>1. list \in [1..n -> scored]
    BY <1>7, <1>8
  <2> QED
    BY <1>5, <2>1
<1>10. ASSUME NEW x \in scored PROVE \E i \in 1..n : list[i] = x
  <2>1. Place(x) \in 0..(n - 1) /\ Place(x) + 1 \in 1..n /\ (Place(x) + 1) - 1 = Place(x)
    BY <1>5, <1>6
  <2>2. list[Place(x) + 1] \in scored /\ Place(list[Place(x) + 1]) = Place(x)
    BY <1>7, <2>1
  <2> QED
    BY <1>6, <2>1, <2>2
<1>11. ASSUME NEW i \in 1..n, NEW j \in 1..n
       PROVE  /\ list[i].symbol = list[j].symbol => i = j
              /\ Beats(list[i], list[j]) <=> i < j
  <2>1. /\ list[i] \in scored /\ list[j] \in scored /\ Place(list[i]) = i - 1 /\ Place(list[j]) = j - 1
    BY <1>7
  <2>2. list[i].symbol = list[j].symbol => i = j
    BY <2>1
  <2>3. /\ Beats(list[i], list[j]) <=> <<list[i], list[j]>> \in R
        /\ <<list[i], list[j]>> \in R <=> Place(list[i]) < Place(list[j])
    BY <1>1, <1>6, <2>1
  <2>4. i - 1 < j - 1 <=> i < j
    BY <1>5
  <2> QED
    BY <2>1, <2>2, <2>3, <2>4
<1> QED
  BY <1>9, <1>10, <1>11 DEF list, n

\* The greedy loop over the ranked names.
Taken(selected, s, sectorOf) ==
    IF Len(selected) = UniverseSize \/ SectorFull(selected, s, sectorOf)
    THEN selected ELSE Append(selected, s)

IsGreedy(after, ranked, sectorOf) ==
    after = [i \in 0..Len(ranked) |->
                IF i = 0 THEN <<>> ELSE Taken(after[i - 1], ranked[i].symbol, sectorOf)]

Greedy(ranked, sectorOf) == CHOOSE after : IsGreedy(after, ranked, sectorOf)

LEMMA GreedyRuns ==
    ASSUME NEW ranked, Len(ranked) \in Nat,
           \A k \in 1..Len(ranked) : ranked[k].symbol \in Symbols, NEW sectorOf
    PROVE  /\ IsGreedy(Greedy(ranked, sectorOf), ranked, sectorOf)
           /\ \A k \in 0..Len(ranked) : Greedy(ranked, sectorOf)[k] \in Seq(Symbols)
<1> DEFINE n == Len(ranked)
           V == Seq(Symbols)
           step == [p \in (1..n) \X V |-> Taken(p[2], ranked[p[1]].symbol, sectorOf)]
           g == Greedy(ranked, sectorOf)
<1>1. n \in Nat /\ \A k \in 1..n : ranked[k].symbol \in Symbols
  OBVIOUS
<1>2. ASSUME NEW k \in 1..n, NEW v \in V PROVE Taken(v, ranked[k].symbol, sectorOf) \in V
  <2>1. ranked[k].symbol \in Symbols
    BY <1>1
  <2>2. Append(v, ranked[k].symbol) \in V
    BY <2>1
  <2> QED
    BY <2>2 DEF Taken
<1> HIDE DEF V
<1>3. \A k \in 1..n : \A v \in V : step[<<k, v>>] = Taken(v, ranked[k].symbol, sectorOf)
  OBVIOUS
<1>4. <<>> \in V
  BY DEF V
<1> HIDE DEF step, n
<1>5. StepsIn(V, step, n)
  BY <1>2, <1>3 DEF StepsIn
<1>6. PICK f \in [0..n -> V] : IsLoop(f, <<>>, step, n)
  BY <1>1, <1>4, <1>5, LoopExists
<1>7. ASSUME NEW k \in 0..n
      PROVE  f[k] = IF k = 0 THEN <<>> ELSE Taken(f[k - 1], ranked[k].symbol, sectorOf)
  <2>1. f[k] = IF k = 0 THEN <<>> ELSE step[<<k, f[k - 1]>>]
    BY <1>6 DEF IsLoop
  <2>2. k # 0 => k \in 1..n /\ f[k - 1] \in V
    BY <1>1
  <2> QED
    BY <1>3, <2>1, <2>2
<1>8. IsGreedy(f, ranked, sectorOf)
  <2>1. f = [k \in 0..n |-> f[k]]
    OBVIOUS
  <2> QED
    BY <1>7, <2>1 DEF IsGreedy, n
<1>9. IsGreedy(g, ranked, sectorOf)
  BY <1>8 DEF Greedy
<1>10. \A k \in 0..n : g[k] = IF k = 0 THEN <<>> ELSE Taken(g[k - 1], ranked[k].symbol, sectorOf)
  BY <1>9 DEF IsGreedy, n
<1> HIDE DEF g
<1>11. \A k \in 0..n : g[k] \in V
  <2> DEFINE I == {k \in 0..n : g[k] \in V}
  <2>1. 0 \in I
    BY <1>1, <1>4, <1>10
  <2>2. ASSUME NEW k \in 1..n, k - 1 \in I PROVE k \in I
    <3>1. k \in 0..n /\ k # 0 /\ g[k] = Taken(g[k - 1], ranked[k].symbol, sectorOf)
      BY <1>1, <1>10
    <3> QED
      BY <1>2, <2>2, <3>1
  <2>3. \A k \in 0..n : k \in I
    <3> HIDE DEF I
    <3> QED
      BY <1>1, <2>1, <2>2, LoopKeeps
  <2> QED
    BY <2>3
<1> QED
  BY <1>9, <1>11 DEF g, n, V

\* screener.py:91-124: the list is what the loop ends with.
LEMMA RankUniverseIs ==
    ASSUME NEW C, NEW sectorOf
    PROVE  RankUniverse(C, sectorOf) = Greedy(Ranked(Scored(C)), sectorOf)[Len(Ranked(Scored(C)))]
BY DEF RankUniverse, Greedy, IsGreedy, Taken

\* Positions of names that were selected so far, and those of a sector.
Chosen(list, names, k) == {j \in 1..k : names[j] \in ToSet(list)}
OfSector(P, names, sectorOf, v) == {j \in P : sectorOf[names[j]] = v}
Ahead(P, j) == {i \in P : i < j}

\* A name is passed over only when the universe, or its sector, was full of earlier ones.
GreedyInv(list, names, sectorOf, k) ==
    /\ list \in Seq(Symbols)
    /\ \A i \in DOMAIN list : \E j \in 1..k : list[i] = names[j]
    /\ Cardinality(Chosen(list, names, k)) = Len(list) /\ Len(list) <= UniverseSize
    /\ \A v : v # None =>
          /\ Cardinality({i \in DOMAIN list : sectorOf[list[i]] = v}) =
                Cardinality(OfSector(Chosen(list, names, k), names, sectorOf, v))
          /\ Cardinality(OfSector(Chosen(list, names, k), names, sectorOf, v)) <= MaxPerSector
    /\ \A j \in (1..k) \ Chosen(list, names, k) :
          \/ Cardinality(Ahead(Chosen(list, names, k), j)) = UniverseSize
          \/ /\ sectorOf[names[j]] # None
             /\ Cardinality(Ahead(OfSector(Chosen(list, names, k), names, sectorOf, sectorOf[names[j]]), j))
                   = MaxPerSector

LEMMA GreedyStep ==
    ASSUME NEW names \in Seq(Symbols), \A i, j \in 1..Len(names) : names[i] = names[j] => i = j,
           NEW sectorOf, NEW k \in 1..Len(names), NEW list, GreedyInv(list, names, sectorOf, k - 1)
    PROVE  GreedyInv(Taken(list, names[k], sectorOf), names, sectorOf, k)
<1> DEFINE P == Chosen(list, names, k - 1)
           Mates(v) == OfSector(P, names, sectorOf, v)
           full == Len(list) = UniverseSize \/ SectorFull(list, names[k], sectorOf)
           next == Taken(list, names[k], sectorOf)
           Q == Chosen(next, names, k)
           m == Len(list)
<1>1. /\ k \in Nat /\ Len(names) \in Nat /\ k <= Len(names) /\ k \in 1..Len(names) /\ k - 1 \in Nat
      /\ names[k] \in Symbols /\ list \in Seq(Symbols) /\ m \in Nat /\ DOMAIN list = 1..m
      /\ UniverseSize \in Nat /\ MaxPerSector \in Nat
  BY ScreenerAssumption DEF GreedyInv
<1>2. /\ \A i \in DOMAIN list : \E j \in 1..(k - 1) : list[i] = names[j]
      /\ Cardinality(P) = m /\ m <= UniverseSize
      /\ \A v : v # None =>
            /\ Cardinality({i \in DOMAIN list : sectorOf[list[i]] = v}) = Cardinality(Mates(v))
            /\ Cardinality(Mates(v)) <= MaxPerSector
      /\ \A j \in (1..(k - 1)) \ P :
            \/ Cardinality(Ahead(P, j)) = UniverseSize
            \/ /\ sectorOf[names[j]] # None
               /\ Cardinality(Ahead(Mates(sectorOf[names[j]]), j)) = MaxPerSector
  BY DEF GreedyInv
<1>3. names[k] \notin ToSet(list)
  <2> SUFFICES ASSUME names[k] \in ToSet(list) PROVE FALSE
    OBVIOUS
  <2>1. PICK i \in DOMAIN list : list[i] = names[k]
    BY DEF ToSet
  <2>2. PICK j \in 1..(k - 1) : names[k] = names[j]
    BY <1>2, <2>1
  <2>3. j \in 1..Len(names) /\ j # k
    BY <1>1
  <2> QED
    BY <1>1, <2>2, <2>3
<1>4. P \subseteq 1..(k - 1) /\ IsFiniteSet(P) /\ \A D \in SUBSET P : IsFiniteSet(D) /\ Cardinality(D) \in Nat
  <2>1. P \subseteq 1..(k - 1)
    BY DEF Chosen
  <2>2. IsFiniteSet(1..(k - 1))
    BY <1>1, FS_Interval
  <2>3. IsFiniteSet(P)
    BY <2>1, <2>2, FS_Subset
  <2> QED
    BY <2>1, <2>3, FS_Subset, FS_CardinalityType
<1>5. \A v : Mates(v) \in SUBSET P
  BY DEF OfSector
<1>6. k \notin P /\ \A j \in 1..(k - 1) : j < k /\ j \in 1..k
  BY <1>1, <1>4
<1>7. CASE full
  <2>1. next = list
    BY <1>7 DEF Taken
  <2>2. Q = P
    BY <1>1, <1>3, <2>1 DEF Chosen
  <2>3. ASSUME NEW v, v # None
        PROVE  /\ Cardinality({i \in DOMAIN list : sectorOf[list[i]] = v}) = Cardinality(Mates(v))
               /\ Cardinality(Mates(v)) <= MaxPerSector
    BY <1>2, <2>3
  <2>4. Ahead(P, k) = P /\ \A v : Ahead(Mates(v), k) = Mates(v)
    BY <1>4, <1>5, <1>6 DEF Ahead
  <2>5. \/ Cardinality(Ahead(P, k)) = UniverseSize
        \/ /\ sectorOf[names[k]] # None
           /\ Cardinality(Ahead(Mates(sectorOf[names[k]]), k)) = MaxPerSector
    <3>1. CASE m = UniverseSize
      BY <1>2, <2>4, <3>1
    <3>2. CASE SectorFull(list, names[k], sectorOf)
      <4> DEFINE v == sectorOf[names[k]]
      <4>1. v # None /\ Cardinality({i \in DOMAIN list : sectorOf[list[i]] = v}) >= MaxPerSector
        BY <3>2 DEF SectorFull
      <4> HIDE DEF v
      <4>2. Cardinality(Mates(v)) >= MaxPerSector /\ Cardinality(Mates(v)) <= MaxPerSector
        BY <2>3, <4>1
      <4>3. Cardinality(Mates(v)) \in Nat
        BY <1>4, <1>5
      <4>4. Cardinality(Mates(v)) = MaxPerSector
        BY <1>1, <4>2, <4>3
      <4> QED
        BY <2>4, <4>1, <4>4 DEF v
    <3> QED
      BY <1>7, <3>1, <3>2
  <2>6. \A j \in (1..k) \ P :
            \/ Cardinality(Ahead(P, j)) = UniverseSize
            \/ /\ sectorOf[names[j]] # None
               /\ Cardinality(Ahead(Mates(sectorOf[names[j]]), j)) = MaxPerSector
    <3>1. \A j \in (1..k) \ P : j = k \/ j \in (1..(k - 1)) \ P
      BY <1>1
    <3> QED
      BY <1>2, <2>5, <3>1
  <2>7. \A i \in DOMAIN list : \E j \in 1..k : list[i] = names[j]
    BY <1>2, <1>6
  <2>8. /\ Chosen(list, names, k) = P /\ Taken(list, names[k], sectorOf) = list
        /\ Cardinality(P) = Len(list) /\ Len(list) <= UniverseSize /\ list \in Seq(Symbols)
    BY <1>1, <1>2, <2>1, <2>2
  <2>9. GreedyInv(list, names, sectorOf, k)
    BY <2>3, <2>6, <2>7, <2>8 DEF GreedyInv
  <2> QED
    BY <2>8, <2>9
<1>8. CASE ~full
  <2>1. next = Append(list, names[k])
    BY <1>8 DEF Taken
  <2>2. /\ next \in Seq(Symbols) /\ Len(next) = m + 1 /\ DOMAIN next = 1..(m + 1)
        /\ next[m + 1] = names[k] /\ \A i \in 1..m : next[i] = list[i]
    BY <1>1, <2>1
  <2> HIDE DEF next
  <2>3. ToSet(next) = ToSet(list) \union {names[k]}
    <3>1. \A i \in 1..(m + 1) : i = m + 1 \/ i \in 1..m
      BY <1>1
    <3>2. \A i \in 1..m : i \in 1..(m + 1)
      BY <1>1
    <3>3. m + 1 \in 1..(m + 1)
      BY <1>1
    <3> QED
      <4>1. ToSet(next) = {next[i] : i \in 1..(m + 1)} /\ ToSet(list) = {list[i] : i \in 1..m}
        BY <1>1, <2>2 DEF ToSet
      <4> QED
        BY <2>2, <3>1, <3>2, <3>3, <4>1, SMTT(20)
  <2>4. Q = P \union {k}
    <3>1. \A j \in 1..(k - 1) : names[j] # names[k]
      BY <1>1
    <3>2. \A j \in 1..k : j = k \/ j \in 1..(k - 1)
      BY <1>1
    <3>3. k \in 1..k
      BY <1>1
    <3> QED
      BY <1>6, <2>3, <3>1, <3>2, <3>3 DEF Chosen
  <2>5. Cardinality(Q) = Len(next) /\ Len(next) <= UniverseSize
    <3>1. Cardinality(P \union {k}) = Cardinality(P) + 1
      BY <1>4, <1>6, FS_AddElement
    <3>2. m # UniverseSize /\ Cardinality(P) = m /\ m <= UniverseSize /\ Len(next) = m + 1
      BY <1>2, <1>8, <2>2
    <3> HIDE DEF P, Q, m
    <3> QED
      BY <1>1, <2>4, <3>1, <3>2
  <2>6. ASSUME NEW v, v # None
        PROVE  /\ Cardinality({i \in DOMAIN next : sectorOf[next[i]] = v}) =
                    Cardinality(OfSector(Q, names, sectorOf, v))
               /\ Cardinality(OfSector(Q, names, sectorOf, v)) <= MaxPerSector
    <3> DEFINE old == {i \in DOMAIN list : sectorOf[list[i]] = v}
               new == {i \in DOMAIN next : sectorOf[next[i]] = v}
    <3>1. Cardinality(old) = Cardinality(Mates(v)) /\ Cardinality(Mates(v)) <= MaxPerSector
      BY <1>2, <2>6
    <3>2. IsFiniteSet(old) /\ Cardinality(Mates(v)) \in Nat /\ IsFiniteSet(Mates(v))
      <4>1. IsFiniteSet(1..m) /\ old \subseteq 1..m
        <5>1. old \subseteq 1..m
          BY <1>1
        <5> HIDE DEF m
        <5>2. IsFiniteSet(1..m)
          BY <1>1, FS_Interval
        <5> QED
          BY <5>1, <5>2
      <4> QED
        BY <1>4, <1>5, <4>1, FS_Subset
    <3>3. CASE sectorOf[names[k]] = v
      <4>1. new = old \union {m + 1} /\ m + 1 \notin old
        <5>1. \A i \in 1..(m + 1) : i = m + 1 \/ i \in 1..m
          BY <1>1
        <5>2. \A i \in 1..m : i \in 1..(m + 1) /\ i # m + 1
          BY <1>1
        <5>3. m + 1 \in 1..(m + 1)
          BY <1>1
        <5> QED
          BY <1>1, <2>2, <3>3, <5>1, <5>2, <5>3
      <4>2. OfSector(Q, names, sectorOf, v) = Mates(v) \union {k} /\ k \notin Mates(v)
        BY <1>6, <2>4, <3>3 DEF OfSector
      <4>3. Cardinality(new) = Cardinality(old) + 1
        <5> HIDE DEF old, new
        <5> QED
          BY <3>2, <4>1, FS_AddElement
      <4>4. Cardinality(OfSector(Q, names, sectorOf, v)) = Cardinality(Mates(v)) + 1
        BY <3>2, <4>2, FS_AddElement
      <4>5. ~(Cardinality(old) >= MaxPerSector)
        BY <1>8, <2>6, <3>3 DEF SectorFull
      <4> HIDE DEF old, new, Mates, Q
      <4>6. Cardinality(Mates(v)) + 1 <= MaxPerSector
        BY <1>1, <3>1, <3>2, <4>5
      <4>7. Cardinality(new) = Cardinality(OfSector(Q, names, sectorOf, v))
        BY <3>1, <4>3, <4>4
      <4> QED
        BY <4>4, <4>6, <4>7 DEF new
    <3>4. CASE sectorOf[names[k]] # v
      <4>1. new = old
        <5>1. \A i \in 1..(m + 1) : i = m + 1 \/ i \in 1..m
          BY <1>1
        <5>2. \A i \in 1..m : i \in 1..(m + 1)
          BY <1>1
        <5> QED
          BY <1>1, <2>2, <3>4, <5>1, <5>2
      <4>2. OfSector(Q, names, sectorOf, v) = Mates(v)
        BY <2>4, <3>4 DEF OfSector
      <4> HIDE DEF old, new
      <4> QED
        BY <3>1, <4>1, <4>2 DEF new
    <3> QED
      BY <3>3, <3>4
  <2>7. ASSUME NEW j \in (1..k) \ Q
        PROVE  \/ Cardinality(Ahead(Q, j)) = UniverseSize
               \/ /\ sectorOf[names[j]] # None
                  /\ Cardinality(Ahead(OfSector(Q, names, sectorOf, sectorOf[names[j]]), j)) = MaxPerSector
    <3>1. j \in (1..(k - 1)) \ P /\ ~(k < j)
      BY <1>1, <2>4, <2>7
    <3>2. Ahead(Q, j) = Ahead(P, j)
      BY <2>4, <3>1 DEF Ahead
    <3>3. Ahead(OfSector(Q, names, sectorOf, sectorOf[names[j]]), j) = Ahead(Mates(sectorOf[names[j]]), j)
      BY <2>4, <3>1 DEF Ahead, OfSector
    <3> QED
      BY <1>2, <3>1, <3>2, <3>3
  <2>8. \A i \in DOMAIN next : \E j \in 1..k : next[i] = names[j]
    <3>1. \A i \in 1..(m + 1) : i = m + 1 \/ i \in 1..m
      BY <1>1
    <3>2. k \in 1..k
      BY <1>1
    <3> QED
      BY <1>1, <1>2, <1>6, <2>2, <3>1, <3>2
  <2> QED
    BY <2>2, <2>5, <2>6, <2>7, <2>8 DEF GreedyInv, next
<1> QED
  BY <1>7, <1>8

LEMMA GreedyHolds ==
    ASSUME NEW names \in Seq(Symbols), \A i, j \in 1..Len(names) : names[i] = names[j] => i = j,
           NEW ranked, Len(ranked) = Len(names), \A i \in 1..Len(names) : ranked[i].symbol = names[i],
           NEW sectorOf
    PROVE  \A k \in 0..Len(names) : GreedyInv(Greedy(ranked, sectorOf)[k], names, sectorOf, k)
<1> DEFINE n == Len(names)
           g == Greedy(ranked, sectorOf)
           I == {k \in 0..n : GreedyInv(g[k], names, sectorOf, k)}
<1>1. n \in Nat /\ \A k \in 1..n : ranked[k].symbol \in Symbols
  OBVIOUS
<1>2. IsGreedy(g, ranked, sectorOf)
  BY <1>1, GreedyRuns
<1>3. \A k \in 0..n : g[k] = IF k = 0 THEN <<>> ELSE Taken(g[k - 1], names[k], sectorOf)
  <2> HIDE DEF g
  <2>1. \A k \in 0..n : g[k] = IF k = 0 THEN <<>> ELSE Taken(g[k - 1], ranked[k].symbol, sectorOf)
    BY <1>2 DEF IsGreedy
  <2>2. \A k \in 0..n : k # 0 => k \in 1..n
    BY <1>1
  <2> QED
    BY <2>1, <2>2
<1> HIDE DEF g
<1>4. 0 \in I
  <2>1. g[0] = <<>> /\ 0 \in 0..n
    BY <1>1, <1>3
  <2>2. /\ Chosen(<<>>, names, 0) = {} /\ DOMAIN <<>> = {} /\ <<>> \in Seq(Symbols) /\ Len(<<>>) = 0
        /\ 1..0 = {}
    BY DEF Chosen
  <2>3. \A v : OfSector({}, names, sectorOf, v) = {}
    BY DEF OfSector
  <2>4. Cardinality({}) = 0 /\ 0 <= UniverseSize /\ 0 <= MaxPerSector
    <3>1. UniverseSize \in Nat /\ MaxPerSector \in Nat
      BY ScreenerAssumption
    <3> QED
      BY <3>1, FS_EmptySet
  <2>6. ASSUME NEW list, list = <<>> PROVE GreedyInv(list, names, sectorOf, 0)
    <3>1. /\ Chosen(list, names, 0) = {} /\ DOMAIN list = {} /\ list \in Seq(Symbols) /\ Len(list) = 0
      BY <2>2, <2>6
    <3>2. \A v : {i \in DOMAIN list : sectorOf[list[i]] = v} = {}
      BY <3>1
    <3>3. Cardinality(Chosen(list, names, 0)) = Len(list) /\ Len(list) <= UniverseSize
      <4>1. Cardinality(Chosen(list, names, 0)) = 0
        BY <3>1, <2>4, Zenon
      <4>2. Len(list) = 0
        BY <3>1
      <4> QED
        BY <2>4, <4>1, <4>2, Zenon
    <3>4. ASSUME NEW v
          PROVE  /\ Cardinality({i \in DOMAIN list : sectorOf[list[i]] = v}) =
                      Cardinality(OfSector(Chosen(list, names, 0), names, sectorOf, v))
                 /\ Cardinality(OfSector(Chosen(list, names, 0), names, sectorOf, v)) <= MaxPerSector
      <4>1. /\ {i \in DOMAIN list : sectorOf[list[i]] = v} = {}
            /\ OfSector(Chosen(list, names, 0), names, sectorOf, v) = {}
        BY <2>3, <3>1, <3>2, Zenon
      <4> QED
        BY <2>4, <4>1, Zenon
    <3> QED
      BY <2>2, <3>1, <3>3, <3>4 DEF GreedyInv
  <2> QED
    BY <2>1, <2>6
<1>5. ASSUME NEW k \in 1..n, k - 1 \in I PROVE k \in I
  <2>1. k \in 0..n /\ k # 0 /\ g[k] = Taken(g[k - 1], names[k], sectorOf)
    BY <1>1, <1>3
  <2>2. GreedyInv(g[k - 1], names, sectorOf, k - 1)
    BY <1>5
  <2>3. GreedyInv(Taken(g[k - 1], names[k], sectorOf), names, sectorOf, k)
    BY <2>2, GreedyStep
  <2> QED
    BY <2>1, <2>3
<1>6. \A k \in 0..n : k \in I
  <2> HIDE DEF I, n
  <2> QED
    BY <1>1, <1>4, <1>5, LoopKeeps
<1> QED
  BY <1>6 DEF g

\* screener.py:91-124: the list is of candidates, and leaves out only the worse.
LEMMA RankUniverseShape ==
    ASSUME NEW C, Listed(C), NEW sectorOf
    PROVE  /\ RankUniverse(C, sectorOf) \in Seq(Symbols)
           /\ LeavesOutTheWorse(RankUniverse(C, sectorOf), C, sectorOf)
<1> DEFINE scored == Scored(C)
           ranked == Ranked(scored)
           n == Len(ranked)
           names == [i \in 1..n |-> ranked[i].symbol]
           list == RankUniverse(C, sectorOf)
           P == Chosen(list, names, n)
           Same(x) == OfSector(P, names, sectorOf, sectorOf[x.symbol])
<1>1. /\ IsFiniteSet(scored) /\ scored \subseteq Scores
      /\ \A x, y \in scored : x.symbol = y.symbol => x = y
  BY ScoredShape
<1>2. /\ ranked \in Seq(scored)
      /\ \A x \in scored : \E i \in 1..n : ranked[i] = x
      /\ \A i, j \in 1..n : /\ ranked[i].symbol = ranked[j].symbol => i = j
                            /\ Beats(ranked[i], ranked[j]) <=> i < j
  BY <1>1, RankedShape
<1>3. list = Greedy(ranked, sectorOf)[n]
  BY RankUniverseIs
<1> HIDE DEF scored
<1>4. n \in Nat /\ \A i \in 1..n : ranked[i] \in scored
  BY <1>2
<1> HIDE DEF ranked, list
<1>5. \A i \in 1..n : ranked[i].symbol \in Symbols
  BY <1>1, <1>4 DEF Scores
<1> HIDE DEF n
<1>6. /\ names \in Seq(Symbols) /\ Len(names) = n
      /\ \A i \in 1..n : names[i] = ranked[i].symbol
      /\ \A i, j \in 1..n : names[i] = names[j] => i = j
  BY <1>2, <1>4, <1>5
<1> HIDE DEF names
<1>7. GreedyInv(list, names, sectorOf, n)
  <2>1. n \in 0..n /\ Len(ranked) = Len(names)
    BY <1>4, <1>6 DEF n
  <2> QED
    BY <1>3, <1>6, <2>1, GreedyHolds
<1>8. /\ P \subseteq 1..n /\ IsFiniteSet(P) /\ \A D \in SUBSET P : IsFiniteSet(D)
      /\ \A i \in P : ranked[i] \in scored /\ names[i] = ranked[i].symbol
  <2>1. P \subseteq 1..n
    BY DEF Chosen
  <2>2. IsFiniteSet(1..n)
    BY <1>4, FS_Interval
  <2>3. IsFiniteSet(P)
    BY <2>1, <2>2, FS_Subset
  <2> HIDE DEF P
  <2> QED
    BY <1>4, <1>6, <2>1, <2>3, FS_Subset
\* A set of positions has as many members as it has names.
<1>9. ASSUME NEW D \in SUBSET P
      PROVE  Cardinality({ranked[i] : i \in D}) = Cardinality(D)
  <2>1. \A i, j \in D : ranked[i] = ranked[j] => i = j
    BY <1>2, <1>8
  <2>2. IsFiniteSet(D)
    BY <1>8
  <2> QED
    BY <2>1, <2>2, AsManyImages
<1> DEFINE chosen == {x \in scored : x.symbol \in ToSet(list)}
           Peers(x)  == {y \in chosen : sectorOf[y.symbol] = sectorOf[x.symbol]}
           Better(x) == {y \in chosen : Beats(y, x)}
<1>10. chosen = {ranked[i] : i \in P}
  <2>1. ASSUME NEW x \in chosen PROVE x \in {ranked[i] : i \in P}
    <3>1. PICK i \in 1..n : ranked[i] = x
      BY <1>2
    <3>2. i \in P
      BY <1>6, <3>1 DEF Chosen
    <3> QED
      BY <3>1, <3>2
  <2>2. ASSUME NEW i \in P PROVE ranked[i] \in chosen
    <3>1. ranked[i] \in scored /\ names[i] = ranked[i].symbol
      BY <1>8
    <3>2. names[i] \in ToSet(list)
      BY DEF Chosen
    <3> QED
      BY <3>1, <3>2
  <2> HIDE DEF chosen, P
  <2> QED
    BY <2>1, <2>2
<1>11. ASSUME NEW x \in scored PROVE Peers(x) = {ranked[i] : i \in Same(x)}
  BY <1>8, <1>10 DEF OfSector
<1>12. ASSUME NEW x \in scored, NEW j \in 1..n, ranked[j] = x
       PROVE  /\ Better(x) = {ranked[i] : i \in Ahead(P, j)}
              /\ Better(x) \intersect Peers(x) = {ranked[i] : i \in Ahead(Same(x), j)}
  <2>1. \A i \in P : Beats(ranked[i], x) <=> i < j
    BY <1>2, <1>8, <1>12
  <2>2. Better(x) = {ranked[i] : i \in Ahead(P, j)}
    BY <1>10, <2>1 DEF Ahead
  <2>3. Better(x) \intersect Peers(x) = {ranked[i] : i \in Ahead(Same(x), j)}
    BY <1>8, <1>10, <2>1 DEF Ahead, OfSector
  <2> QED
    BY <2>2, <2>3
<1>13. Cardinality(chosen) = Len(list)
  <2>1. Cardinality({ranked[i] : i \in P}) = Cardinality(P)
    BY <1>9
  <2> QED
    BY <1>7, <1>10, <2>1 DEF GreedyInv
<1>14. ASSUME NEW x \in chosen, sectorOf[x.symbol] # None
       PROVE  Cardinality(Peers(x)) <= MaxPerSector
  <2>1. Same(x) \in SUBSET P
    BY DEF OfSector
  <2>2. Cardinality(Peers(x)) = Cardinality(Same(x))
    BY <1>9, <1>11, <2>1
  <2>3. Cardinality(Same(x)) <= MaxPerSector
    BY <1>7, <1>14 DEF GreedyInv
  <2> QED
    BY <2>2, <2>3
<1>15. ASSUME NEW x \in scored \ chosen
       PROVE  \/ Cardinality(Better(x)) = UniverseSize
              \/ sectorOf[x.symbol] # None /\ Cardinality(Better(x) \intersect Peers(x)) = MaxPerSector
  <2>1. PICK j \in 1..n : ranked[j] = x
    BY <1>2
  <2>2. j \notin P /\ names[j] = x.symbol
    BY <1>6, <1>10, <2>1
  <2>3. \/ Cardinality(Ahead(P, j)) = UniverseSize
        \/ sectorOf[x.symbol] # None /\ Cardinality(Ahead(Same(x), j)) = MaxPerSector
    BY <1>7, <2>2 DEF GreedyInv
  <2>4. Ahead(P, j) \in SUBSET P /\ Ahead(Same(x), j) \in SUBSET P
    BY DEF Ahead, OfSector
  <2>5. /\ Cardinality({ranked[i] : i \in Ahead(P, j)}) = Cardinality(Ahead(P, j))
        /\ Cardinality({ranked[i] : i \in Ahead(Same(x), j)}) = Cardinality(Ahead(Same(x), j))
    BY <1>9, <2>4
  <2>6. /\ Cardinality(Better(x)) = Cardinality(Ahead(P, j))
        /\ Cardinality(Better(x) \intersect Peers(x)) = Cardinality(Ahead(Same(x), j))
    BY <1>12, <2>1, <2>5
  <2> QED
    BY <2>3, <2>6
<1>16. list \in Seq(Symbols)
  BY <1>7 DEF GreedyInv
<1>17. LeavesOutTheWorse(list, C, sectorOf)
  BY <1>13, <1>14, <1>15 DEF LeavesOutTheWorse, scored
<1> QED
  BY <1>16, <1>17 DEF list

----------------------------------------------------------------------------
\* Every step keeps the programs and their fetches in order.

\* universe_builder.py:37-39: a list of symbols, as long as there are eligible ones.
EligibleOf(rows) ==
    {[symbol |-> s, mdv |-> MedianTwice({<<d, DollarVolume(rows[<<s, d>>])>> : d \in History(rows, s)})] :
        s \in {s \in {key[1] : key \in DOMAIN rows} :
                 /\ Cardinality(History(rows, s)) >= MinDays
                 /\ MedianTwice({<<d, rows[<<s, d>>].close>> : d \in History(rows, s)}) >= 2 * MinPrice}}

LEMMA LiquidShape ==
    ASSUME NEW rows, \A key \in DOMAIN rows : key[1] \in Symbols, NEW list \in LiquidUniverses(rows)
    PROVE  LET size == Least(TopN, Cardinality(EligibleOf(rows)))
           IN  /\ IsFiniteSet(EligibleOf(rows)) /\ size \in Nat /\ list \in Seq(Symbols)
               /\ \E picks \in [1..size -> EligibleOf(rows)] :
                     /\ list = [i \in 1..size |-> picks[i].symbol]
                     /\ \A i, j \in 1..size : i < j => picks[i] # picks[j]
                     /\ \A x \in EligibleOf(rows), i \in 1..size : x \in ToSet(picks) \/ picks[i].mdv >= x.mdv
<1> DEFINE eligible == EligibleOf(rows)
           size == Least(TopN, Cardinality(eligible))
           Entry(s) == [symbol |-> s,
                        mdv |-> MedianTwice({<<d, DollarVolume(rows[<<s, d>>])>> : d \in History(rows, s)})]
           f == [s \in Symbols |-> Entry(s)]
           all == {f[s] : s \in Symbols}
<1>1. \A x \in eligible : \E s \in Symbols : x = Entry(s)
  BY DEF EligibleOf
<1>2. IsFiniteSet(all)
  <2> HIDE DEF f
  <2> QED
    BY ClientsAssumption, ImageIsFinite
<1>3. \A x \in eligible : x.symbol \in Symbols
  <2>1. \A s \in Symbols : Entry(s).symbol = s
    OBVIOUS
  <2> HIDE DEF Entry, eligible
  <2> QED
    BY <1>1, <2>1
<1>4. IsFiniteSet(eligible)
  <2>1. \A s \in Symbols : Entry(s) \in all
    OBVIOUS
  <2> HIDE DEF all, Entry
  <2> QED
    BY <1>1, <1>2, <2>1, FS_Subset
<1>5. PICK picks \in [1..size -> eligible] :
          /\ list = [i \in 1..size |-> picks[i].symbol]
          /\ \A i, j \in 1..size : i < j => picks[i] # picks[j]
          /\ \A x \in eligible, i \in 1..size : x \in ToSet(picks) \/ picks[i].mdv >= x.mdv
  BY DEF LiquidUniverses, EligibleOf
<1> HIDE DEF eligible
<1>6. size \in Nat
  <2>1. Cardinality(eligible) \in Nat /\ TopN \in Nat
    BY <1>4, FS_CardinalityType, ScreenerAssumption
  <2> QED
    BY <2>1 DEF Least
<1> HIDE DEF size
<1>7. list \in Seq(Symbols)
  BY <1>3, <1>5, <1>6
<1> QED
  BY <1>4, <1>5, <1>6, <1>7 DEF eligible, size

\* While the edition stays, so do the rows of every fetch.
LEMMA SameEdition ==
    ASSUME edition' = edition
    PROVE  /\ EarlierRows(call.unit, call.page)' = EarlierRows(call'.unit, call'.page)
           /\ BadRows(call.unit)' = BadRows(call'.unit)
<1>1. feed' = feed
  BY DEF feed
<1>2. Rows(call.unit)' = Rows(call'.unit)
  BY <1>1 DEF Rows, Published
<1>3. BadRows(call.unit)' = BadRows(call'.unit)
  BY <1>1, <1>2 DEF BadRows
<1>4. EarlierRows(call.unit, call.page)' = EarlierRows(call'.unit, call'.page)
  BY <1>2 DEF EarlierRows, Rank
<1> QED
  BY <1>3, <1>4

\* What is true of every program that runs.
ProgramInv == JobInv /\ FetchInv /\ UniversesTyped

LEMMA InitProgramInv == ResearchInit => ProgramInv
<1>1. Len(Feeds) \in Nat \ {0}
  BY ClientsAssumption
<1> QED
  BY <1>1 DEF ResearchInit, ClientsInit, ProgramInv, JobInv, FetchInv, UniversesTyped

LEMMA IdleInv ==
    ASSUME ProgramInv, job = None, UNCHANGED call, UNCHANGED universes, edition' \in 1..Len(Feeds),
           job' # None => /\ IsJob(job') /\ Planned(job'.program, job'.units)
                          /\ job'.todo = job'.units /\ Len(job'.todo) <= Len(job'.units)
                          /\ job'.todo = SubSeq(job'.units, 0 + 1, Len(job'.units))
    PROVE  ProgramInv'
<1>1. call = None /\ FetchInv'
  BY DEF ProgramInv, FetchInv
<1>2. UniversesTyped'
  BY DEF ProgramInv, UniversesTyped
<1>3. JobInv'
  <2> SUFFICES ASSUME job' # None
               PROVE  /\ IsJob(job') /\ Planned(job'.program, job'.units)
                      /\ Len(job'.todo) <= Len(job'.units)
                      /\ job'.todo = SubSeq(job'.units, Done' + 1, Len(job'.units))
    BY DEF JobInv
  <2>1. Len(job'.units) \in Nat
    BY DEF IsJob
  <2>2. Done' = 0
    BY <2>1 DEF Done
  <2> QED
    BY <2>2
<1> QED
  BY <1>1, <1>2, <1>3 DEF ProgramInv

LEMMA BeginKeeps == ProgramInv /\ Begin => ProgramInv'
<1> SUFFICES ASSUME ProgramInv, Begin PROVE ProgramInv'
  OBVIOUS
<1>1. CASE Refuse
  BY <1>1, IdleInv DEF Refuse, clients, ProgramInv, JobInv
<1>2. CASE \E program \in Programs : \E todo \in Seq(Units) : Planned(program, todo) /\ Start(program, todo)
  <2>1. PICK program \in Programs, todo \in Seq(Units) : Planned(program, todo) /\ Start(program, todo)
    BY <1>2
  <2>2. /\ job = None /\ UNCHANGED <<clients, bars, scores, universes>>
        /\ IsJob(job') /\ Planned(job'.program, job'.units)
        /\ job'.todo = job'.units /\ Len(job'.todo) <= Len(job'.units)
        /\ job'.todo = SubSeq(job'.units, 0 + 1, Len(job'.units))
    BY <2>1, StartShape DEF ProgramInv
  <2> QED
    BY <2>2, IdleInv DEF clients, ProgramInv, JobInv
<1> QED
  BY <1>1, <1>2, BeginShape DEF ProgramInv

LEMMA OvernightKeeps == ProgramInv /\ Overnight => ProgramInv'
<1> SUFFICES ASSUME ProgramInv, Overnight PROVE ProgramInv'
  OBVIOUS
<1>1. edition' \in 1..Len(Feeds)
  BY ClientsAssumption DEF Overnight, Revise, ProgramInv, JobInv
<1> QED
  BY <1>1, IdleInv DEF Overnight, Revise, db

\* A step of a fetch, which changes nothing else.
LEMMA AskingKeeps ==
    ASSUME ProgramInv, job # None, UNCHANGED edition, UNCHANGED db, FetchInv'
    PROVE  ProgramInv'
<1>1. JobInv' /\ UniversesTyped'
  BY DEF ProgramInv, JobInv, Done, UniversesTyped, db
<1> QED
  BY <1>1 DEF ProgramInv

LEMMA AskKeeps == ProgramInv /\ Ask => ProgramInv'
<1> SUFFICES ASSUME ProgramInv, Ask PROVE ProgramInv'
  OBVIOUS
<1> DEFINE u == Head(job.todo)
<1>1. /\ job # None /\ job.todo # <<>> /\ UNCHANGED db /\ UNCHANGED edition /\ job.left = <<>>
      /\ call' = [unit |-> u, page |-> 1, tries |-> 0, got |-> {}]
  BY DEF Ask, Asking, Fetch
<1>2. u \in Units /\ edition \in 1..Len(Feeds)
  BY <1>1, HeadOfTodo DEF ProgramInv, JobInv
<1>3. EarlierRows(u, 1) = {}
  BY <1>2, PagesAddUp
<1>4. job' # None /\ job'.todo # <<>> /\ u = Head(job'.todo) /\ DOMAIN job'.left = {}
  BY <1>1 DEF db
<1> HIDE DEF u
<1>5. /\ call'.unit = u /\ call'.page = 1 /\ call'.got = {} /\ call'.tries = 0
      /\ call' \in [unit : Units, page : Nat \ {0}, tries : 0..(MaxTries - 1), got : SUBSET (Symbols \X Nat)]
  <2>1. 0 \in 0..(MaxTries - 1)
    BY ClientsAssumption
  <2> QED
    BY <1>1, <1>2, <2>1
<1>6. EarlierRows(call.unit, call.page)' = {}
  BY <1>1, <1>3, <1>5, SameEdition
<1>7. FetchInv'
  BY <1>4, <1>5, <1>6 DEF FetchInv
<1> QED
  BY <1>1, <1>7, AskingKeeps

LEMMA AskAgainKeeps == ProgramInv /\ AskAgain => ProgramInv'
<1> SUFFICES ASSUME ProgramInv, AskAgain PROVE ProgramInv'
  OBVIOUS
<1>1. /\ job # None /\ job.todo # <<>> /\ UNCHANGED db /\ UNCHANGED edition
      /\ call # None /\ call.tries + 1 < MaxTries /\ call' = [call EXCEPT !.tries = @ + 1]
  BY DEF AskAgain, Asking, Retry
<1>2. /\ call.unit = Head(job.todo) /\ DOMAIN job.left = {}
      /\ call \in [unit : Units, page : Nat \ {0}, tries : 0..(MaxTries - 1), got : SUBSET (Symbols \X Nat)]
      /\ call.got = EarlierRows(call.unit, call.page) \ BadRows(call.unit)
      /\ call.unit.strict => EarlierRows(call.unit, call.page) \intersect BadRows(call.unit) = {}
  BY <1>1 DEF ProgramInv, FetchInv
<1>3. /\ call'.unit = call.unit /\ call'.page = call.page /\ call'.got = call.got
      /\ call' \in [unit : Units, page : Nat \ {0}, tries : 0..(MaxTries - 1), got : SUBSET (Symbols \X Nat)]
  <2>1. call.tries + 1 \in 0..(MaxTries - 1)
    BY <1>1, <1>2, ClientsAssumption
  <2> QED
    BY <1>1, <1>2, <2>1
<1>4. /\ EarlierRows(call.unit, call.page)' = EarlierRows(call.unit, call.page)
      /\ BadRows(call.unit)' = BadRows(call.unit)
  BY <1>1, <1>3, SameEdition
<1>5. job' # None /\ job'.todo # <<>> /\ call'.unit = Head(job'.todo) /\ DOMAIN job'.left = {}
  BY <1>1, <1>2, <1>3 DEF db
<1>6. FetchInv'
  BY <1>2, <1>3, <1>4, <1>5 DEF FetchInv
<1> QED
  BY <1>1, <1>6, AskingKeeps

LEMMA TurnPageKeeps == ProgramInv /\ TurnPage => ProgramInv'
<1> SUFFICES ASSUME ProgramInv, TurnPage PROVE ProgramInv'
  OBVIOUS
<1> DEFINE u == call.unit
           p == call.page
<1>1. /\ job # None /\ job.todo # <<>> /\ UNCHANGED db /\ UNCHANGED edition
      /\ call # None /\ ~IsLastPage(u, p)
      /\ u.strict => Page(u, p) \intersect BadRows(u) = {}
      /\ call' = [call EXCEPT !.page = @ + 1, !.tries = 0, !.got = Got]
  BY DEF TurnPage, Asking, NextPage, Arrived
<1>2. /\ edition \in 1..Len(Feeds) /\ u = Head(job.todo) /\ DOMAIN job.left = {}
      /\ call \in [unit : Units, page : Nat \ {0}, tries : 0..(MaxTries - 1), got : SUBSET (Symbols \X Nat)]
      /\ call.got = EarlierRows(u, p) \ BadRows(u)
      /\ u.strict => EarlierRows(u, p) \intersect BadRows(u) = {}
  BY <1>1 DEF ProgramInv, FetchInv, JobInv
<1>3. Got = call.got \union (Page(u, p) \ BadRows(u))
  BY DEF Got
<1>4. /\ u \in Units /\ p \in Nat \ {0} /\ job' # None /\ job'.todo # <<>> /\ u = Head(job'.todo)
      /\ DOMAIN job'.left = {}
  BY <1>1, <1>2 DEF db
<1>5. u.paged
  BY <1>1, <1>4 DEF IsLastPage, Units
<1> HIDE DEF u, p
<1>6. /\ EarlierRows(u, p) \union Page(u, p) = EarlierRows(u, p + 1)
      /\ Page(u, p) \subseteq Rows(u) /\ Rows(u) \subseteq Symbols \X Nat
  BY <1>2, <1>4, <1>5, PagesAddUp, RowsType
<1>7. /\ call'.unit = u /\ call'.page = p + 1 /\ call'.got = Got
      /\ call' \in [unit : Units, page : Nat \ {0}, tries : 0..(MaxTries - 1), got : SUBSET (Symbols \X Nat)]
  <2>1. 0 \in 0..(MaxTries - 1) /\ p + 1 \in Nat \ {0}
    BY <1>4, ClientsAssumption
  <2>2. Got \in SUBSET (Symbols \X Nat)
    BY <1>2, <1>3, <1>6
  <2> QED
    BY <1>1, <1>2, <2>1, <2>2 DEF u, p
<1>8. /\ EarlierRows(call.unit, call.page)' = EarlierRows(u, p + 1)
      /\ BadRows(call.unit)' = BadRows(u)
  BY <1>1, <1>7, SameEdition
<1>9. FetchInv'
  <2>1. Got = EarlierRows(u, p + 1) \ BadRows(u)
    BY <1>2, <1>3, <1>6
  <2>2. u.strict => EarlierRows(u, p + 1) \intersect BadRows(u) = {}
    BY <1>1, <1>2, <1>6
  <2> QED
    BY <1>4, <1>7, <1>8, <2>1, <2>2 DEF FetchInv
<1> QED
  BY <1>1, <1>9, AskingKeeps

\* alpaca_data.py:54-67: what a program is handed.
LEMMA DeliverShape ==
    ASSUME ProgramInv, Deliver
    PROVE  /\ job # None /\ call # None /\ job.todo # <<>> /\ call.unit = Head(job.todo)
           /\ call.unit \in Units /\ edition \in 1..Len(Feeds) /\ edition' = edition /\ call' = None
           /\ Got = Rows(call.unit) \ BadRows(call.unit) /\ (call.unit.strict => BadRows(call.unit) = {})
           /\ call.unit.of = IF job.program = "score_news" THEN "news" ELSE "bars"
           /\ job' = [job EXCEPT !.todo = Tail(@),
                                 !.rows = IF job.program = "build_universe" THEN @ \union Got ELSE @,
                                 !.left = IF job.program = "build_universe" THEN @
                                          ELSE IF job.program = "score_news" THEN ScoreRows(Got)
                                          ELSE BarRows(Got)]
           /\ DOMAIN job.left = {}
           /\ Done \in 0..(Len(job.units) - 1) /\ call.unit = job.units[Done + 1]
           /\ Done + 1 \in DOMAIN job.units
<1>1. /\ job # None /\ call # None /\ Arrived /\ IsLastPage(call.unit, call.page)
      /\ call' = None /\ edition' = edition
  BY DEF Deliver, Return, Arrived
<1>2. /\ job.todo # <<>> /\ call.unit = Head(job.todo) /\ call.unit \in Units
      /\ edition \in 1..Len(Feeds) /\ DOMAIN job.left = {}
  BY <1>1 DEF ProgramInv, FetchInv, JobInv
<1>3. /\ Done \in 0..(Len(job.units) - 1) /\ call.unit = job.units[Done + 1]
      /\ Done + 1 \in DOMAIN job.units
  BY <1>1, <1>2, HeadOfTodo DEF ProgramInv
<1>4. call.unit.of = IF job.program = "score_news" THEN "news" ELSE "bars"
  BY <1>1, <1>3 DEF ProgramInv, JobInv, Planned
<1>5. Got = Rows(call.unit) \ BadRows(call.unit) /\ (call.unit.strict => BadRows(call.unit) = {})
  BY <1>1, GotIsWhole DEF ProgramInv
<1> QED
  BY <1>1, <1>2, <1>3, <1>4, <1>5 DEF Deliver

LEMMA DeliverMoves ==
    ASSUME ProgramInv, Deliver
    PROVE  /\ IsJob(job') /\ job'.program = job.program /\ job'.units = job.units
           /\ job'.todo = Tail(job.todo)
           /\ job'.rows = IF job.program = "build_universe" THEN job.rows \union Got ELSE job.rows
           /\ job'.left = IF job.program = "build_universe" THEN job.left
                          ELSE IF job.program = "score_news" THEN ScoreRows(Got)
                          ELSE BarRows(Got)
           /\ Done \in Nat /\ Done' = Done + 1 /\ Len(job'.todo) <= Len(job'.units)
           /\ job'.todo = SubSeq(job'.units, Done' + 1, Len(job'.units))
<1> DEFINE rows == IF job.program = "build_universe" THEN job.rows \union Got ELSE job.rows
           left == IF job.program = "build_universe" THEN job.left
                   ELSE IF job.program = "score_news" THEN ScoreRows(Got)
                   ELSE BarRows(Got)
<1>1. /\ job # None /\ job.todo # <<>> /\ call.unit \in Units /\ edition \in 1..Len(Feeds)
      /\ call.unit.of = IF job.program = "score_news" THEN "news" ELSE "bars"
      /\ Got = Rows(call.unit) \ BadRows(call.unit)
  BY DeliverShape
<1>2. /\ IsJob(job) /\ Planned(job.program, job.units) /\ Len(job.todo) <= Len(job.units)
  BY <1>1 DEF ProgramInv, JobInv
<1>3. /\ Done \in 0..(Len(job.units) - 1) /\ Tail(job.todo) \in Seq(Units)
      /\ Tail(job.todo) = SubSeq(job.units, Done + 2, Len(job.units))
      /\ Len(Tail(job.todo)) = Len(job.todo) - 1 /\ Len(job.units) \in Nat /\ Len(job.todo) \in Nat
  <2>1. Len(job.units) \in Nat /\ Len(job.todo) \in Nat
    BY <1>2 DEF IsJob
  <2> QED
    BY <1>1, <2>1, HeadOfTodo DEF ProgramInv
<1>4. rows \subseteq Symbols \X Days /\ DOMAIN left \subseteq Symbols \X Days
  <2>1. job.rows \subseteq Symbols \X Days /\ DOMAIN job.left \subseteq Symbols \X Days
    BY <1>2 DEF IsJob
  <2>2. job.program # "score_news" => Got \subseteq Symbols \X Days /\ DOMAIN BarRows(Got) = Got
    BY <1>1, RowsType DEF BarRows
  <2>3. job.program = "score_news" => DOMAIN ScoreRows(Got) \subseteq Symbols \X Days
    <3>1. job.program = "score_news" => Got \subseteq Rows(call.unit) /\ call.unit.of = "news"
      BY <1>1
    <3> QED
      BY <1>1, <3>1, ScoreRowsType
  <2> QED
    BY <2>1, <2>2, <2>3
<1>5. job' = [job EXCEPT !.todo = Tail(job.todo), !.rows = rows, !.left = left]
  BY DeliverShape
<1> HIDE DEF rows, left
<1>6. /\ IsJob(job') /\ job'.program = job.program /\ job'.units = job.units
      /\ job'.todo = Tail(job.todo) /\ job'.rows = rows /\ job'.left = left
  BY <1>2, <1>3, <1>4, <1>5 DEF IsJob
<1>7. Done' = Done + 1 /\ Done \in Nat
  <2>1. Done = Len(job.units) - Len(job.todo) /\ Done' = Len(job.units) - Len(Tail(job.todo))
    BY <1>6 DEF Done
  <2> DEFINE a == Len(job.units)
             b == Len(job.todo)
             c == Len(Tail(job.todo))
             d == Done
  <2>2. a \in Nat /\ b \in Nat /\ c = b - 1 /\ d \in 0..(a - 1) /\ d = a - b /\ Done' = a - c
    BY <1>3, <2>1
  <2> HIDE DEF a, b, c, d
  <2>3. Done' = d + 1 /\ d \in Nat
    BY <2>2
  <2> QED
    BY <2>3 DEF d
<1>8. job'.todo = SubSeq(job'.units, Done' + 1, Len(job'.units))
  <2>1. Done' + 1 = Done + 2
    BY <1>7
  <2> QED
    BY <1>3, <1>6, <2>1
<1>9. Len(job'.todo) <= Len(job'.units)
  <2>1. Len(Tail(job.todo)) <= Len(job.units)
    BY <1>2, <1>3
  <2> QED
    BY <1>6, <2>1
<1> QED
  BY <1>6, <1>7, <1>8, <1>9 DEF rows, left

LEMMA DeliverKeeps == ProgramInv /\ Deliver => ProgramInv'
<1> SUFFICES ASSUME ProgramInv, Deliver PROVE ProgramInv'
  OBVIOUS
<1>1. job # None /\ edition' = edition /\ edition \in 1..Len(Feeds) /\ call' = None
  BY DeliverShape
<1>2. /\ IsJob(job') /\ job'.program = job.program /\ job'.units = job.units
      /\ Len(job'.todo) <= Len(job'.units)
      /\ job'.todo = SubSeq(job'.units, Done' + 1, Len(job'.units))
  BY DeliverMoves
<1>3. Planned(job'.program, job'.units)
  BY <1>1, <1>2 DEF ProgramInv, JobInv
<1>4. JobInv'
  BY <1>1, <1>2, <1>3 DEF JobInv
<1>5. FetchInv' /\ UniversesTyped'
  BY <1>1 DEF FetchInv, UniversesTyped, Deliver, ProgramInv
<1> QED
  BY <1>4, <1>5 DEF ProgramInv

LEMMA AbortKeeps == ProgramInv /\ (Abort \/ Interrupt) => ProgramInv'
BY DEF ProgramInv, Abort, Fail, Interrupt, clients, JobInv, FetchInv, UniversesTyped

\* storage.py:60, 85: a row that is committed is no longer left.
LEMMA CommitShape ==
    ASSUME ProgramInv, NEW key \in Symbols \X Days, NextLeft(key)
    PROVE  /\ job # None /\ call = None /\ IsJob(job') /\ job'.program = job.program
           /\ job'.units = job.units /\ job'.todo = job.todo /\ job'.rows = job.rows
           /\ key \in DOMAIN job.left /\ DOMAIN job'.left = DOMAIN job.left \ {key}
           /\ \A other \in DOMAIN job'.left : job'.left[other] = job.left[other]
           /\ \A other \in DOMAIN job.left : key[2] <= other[2]
           /\ Done' = Done
<1> DEFINE left == Restrict(job.left, DOMAIN job.left \ {key})
<1>1. /\ job # None /\ key \in DOMAIN job.left /\ job' = [job EXCEPT !.left = left]
      /\ \A other \in DOMAIN job.left : key[2] <= other[2]
  BY DEF NextLeft
<1>2. call = None
  BY <1>1 DEF ProgramInv, FetchInv
<1>3. IsJob(job)
  BY <1>1 DEF ProgramInv, JobInv
<1>4. /\ DOMAIN left = DOMAIN job.left \ {key}
      /\ \A other \in DOMAIN left : left[other] = job.left[other]
  BY DEF Restrict
<1> HIDE DEF left
<1>5. /\ job'.program = job.program /\ job'.units = job.units /\ job'.todo = job.todo
      /\ job'.rows = job.rows /\ job'.left = left /\ IsJob(job')
  BY <1>1, <1>3, <1>4 DEF IsJob
<1>6. Done' = Done
  BY <1>5 DEF Done
<1> QED
  BY <1>1, <1>2, <1>4, <1>5, <1>6

LEMMA CommitKeeps == ProgramInv /\ (InsertBar \/ InsertScore) => ProgramInv'
<1> SUFFICES ASSUME ProgramInv, NEW key \in Symbols \X Days, NextLeft(key) PROVE ProgramInv'
  BY DEF InsertBar, InsertScore
<1>1. /\ job # None /\ call = None /\ IsJob(job') /\ job'.program = job.program
      /\ job'.units = job.units /\ job'.todo = job.todo /\ Done' = Done
  BY CommitShape
<1>2. UNCHANGED <<edition, call, universes>>
  BY DEF NextLeft, clients
<1>3. JobInv'
  BY <1>1, <1>2 DEF ProgramInv, JobInv
<1>4. FetchInv' /\ UniversesTyped'
  BY <1>1, <1>2 DEF ProgramInv, FetchInv, UniversesTyped
<1> QED
  BY <1>3, <1>4 DEF ProgramInv

\* What a funnel and a selection start from are bars of symbols.
LEMMA FinishLists ==
    ASSUME ProgramInv, job # None
    PROVE  /\ \A list \in Funnel(Scope(bars), NoSectors) :
                 list \in Seq(Symbols) /\ LeavesOutTheWorse(list, Candidates(Scope(bars)), NoSectors)
           /\ \A list \in LiquidUniverses([key \in job.rows |-> feed.bars[key]]) : list \in Seq(Symbols)
           /\ Listed(Candidates(Scope(bars)))
<1> DEFINE table == Scope(bars)
           rows == [key \in job.rows |-> feed.bars[key]]
<1>1. \A key \in DOMAIN table : key[1] \in Symbols
  BY ResearchAssumption DEF Scope
<1>2. \A key \in DOMAIN rows : key[1] \in Symbols
  BY DEF ProgramInv, JobInv, IsJob
<1> HIDE DEF table, rows
<1>3. Listed(Candidates(table))
  BY <1>1, CandidatesListed
<1>4. \A list \in Funnel(table, NoSectors) :
          list \in Seq(Symbols) /\ LeavesOutTheWorse(list, Candidates(table), NoSectors)
  BY <1>3, RankUniverseShape DEF Funnel
<1>5. \A list \in LiquidUniverses(rows) : list \in Seq(Symbols)
  BY <1>2, LiquidShape
<1> QED
  BY <1>3, <1>4, <1>5 DEF table, rows

LEMMA FinishKeeps == ProgramInv /\ Finish => ProgramInv'
<1> SUFFICES ASSUME ProgramInv, Finish PROVE ProgramInv'
  OBVIOUS
<1>1. job # None /\ call = None /\ job' = None /\ UNCHANGED clients
  BY DEF Finish
<1>2. UniversesTyped'
  <2>1. \/ UNCHANGED universes
        \/ \E list \in Seq(Symbols) : universes' = [universes EXCEPT ![job.program] = list]
    BY <1>1, FinishLists DEF Finish
  <2> QED
    BY <2>1 DEF UniversesTyped, ProgramInv
<1>3. JobInv' /\ FetchInv'
  BY <1>1 DEF JobInv, FetchInv, ProgramInv, clients
<1> QED
  BY <1>2, <1>3 DEF ProgramInv

LEMMA NextProgramInv == ProgramInv /\ [ResearchNext]_research => ProgramInv'
<1>1. ASSUME ProgramInv, UNCHANGED research PROVE ProgramInv'
  <2>1. UNCHANGED <<edition, call, db>>
    BY <1>1 DEF research, clients
  <2>2. /\ EarlierRows(call.unit, call.page)' = EarlierRows(call.unit, call.page)
        /\ BadRows(call.unit)' = BadRows(call.unit)
    BY <2>1, SameEdition
  <2>3. FetchInv'
    BY <1>1, <2>1, <2>2 DEF ProgramInv, FetchInv, db
  <2>4. JobInv' /\ UniversesTyped'
    BY <1>1, <2>1 DEF ProgramInv, JobInv, Done, UniversesTyped, db
  <2> QED
    BY <2>3, <2>4 DEF ProgramInv
<1> QED
  BY <1>1, BeginKeeps, OvernightKeeps, AskKeeps, AskAgainKeeps, AbortKeeps, TurnPageKeeps,
     DeliverKeeps, CommitKeeps, FinishKeeps DEF ResearchNext, Proceed

THEOREM ProgramsKeepOrder == ResearchSpec => []ProgramInv
BY InitProgramInv, NextProgramInv, PTL DEF ResearchSpec

----------------------------------------------------------------------------
\* The table of bars, and what the programs that fetch bars have fetched.

\* The valid bars of edition e that a unit asks for.
WholeIn(e, unit) ==
    {key \in DOMAIN Feeds[e].bars :
        key[1] \in unit.symbols /\ key[2] \in unit.days /\ Valid(Feeds[e].bars[key])}

\* All of them are valid.
AllGood(e, unit) ==
    \A key \in DOMAIN Feeds[e].bars :
        key[1] \in unit.symbols /\ key[2] \in unit.days => Valid(Feeds[e].bars[key])

LEMMA WholeIs ==
    ASSUME NEW unit, unit.of = "bars"
    PROVE  /\ Rows(unit) \ BadRows(unit) = WholeIn(edition, unit)
           /\ {key \in Rows(unit) : Valid(feed.bars[key])} = WholeIn(edition, unit)
           /\ BadRows(unit) = {} <=> AllGood(edition, unit)
<1>1. /\ Rows(unit) = {key \in DOMAIN Feeds[edition].bars : key[1] \in unit.symbols /\ key[2] \in unit.days}
      /\ BadRows(unit) = {r \in Rows(unit) : ~Valid(Feeds[edition].bars[r])}
      /\ feed.bars = Feeds[edition].bars
  BY DEF Rows, BadRows, feed
<1> QED
  BY <1>1 DEF WholeIn, AllGood

LEMMA WholeType ==
    ASSUME edition \in 1..Len(Feeds), NEW unit
    PROVE  /\ WholeIn(edition, unit) \subseteq Symbols \X Days
           /\ \A key \in WholeIn(edition, unit) : feed.bars[key] \in BarAt
<1>1. WholeIn(edition, unit) \subseteq DOMAIN feed.bars /\ \A key \in WholeIn(edition, unit) : Valid(feed.bars[key])
  BY DEF WholeIn, feed
<1> QED
  BY <1>1, FeedType, ValidType

\* Of the fetches that have ended, the table has all that is not still to be inserted.
SyncedSoFar ==
    /\ \A i \in 1..Done : \A key \in WholeIn(edition, job.units[i]) :
          key \in DOMAIN job.left \/ bars[key] = Feeds[edition].bars[key]
    /\ \A i \in 1..Done : job.units[i].strict => AllGood(edition, job.units[i])
    /\ \A key \in DOMAIN job.left :
          /\ Done # 0 /\ key \in WholeIn(edition, job.units[Done])
          /\ job.left[key] = Feeds[edition].bars[key]

\* How far the program that runs has come.
FetchedInv ==
    job # None =>
        /\ job.program \in {"sync_data", "run_screener"} => SyncedSoFar
        /\ job.program = "build_universe" =>
              /\ DOMAIN job.left = {}
              /\ \A key : key \in job.rows <=> \E i \in 1..Done : key \in WholeIn(edition, job.units[i])

TablesInv ==
    /\ bars \in [Symbols \X Days -> BarAt \union {None}]
    /\ exit \in {"ok", "ConfigError", "error", None}
    /\ job # None => exit = None
    /\ runs \in 0..MaxRuns
    /\ FetchedInv

LEMMA InitTablesInv == ResearchInit => TablesInv
BY ResearchAssumption DEF ResearchInit, TablesInv, FetchedInv

LEMMA NothingFetched ==
    ASSUME job'.todo = job'.units, Len(job'.units) \in Nat, job'.rows = {}, DOMAIN job'.left = {}
    PROVE  FetchedInv'
<1>1. Done' = 0
  BY DEF Done
<1> QED
  BY <1>1 DEF FetchedInv, SyncedSoFar

LEMMA BeginFills == ProgramInv /\ TablesInv /\ Begin => TablesInv'
<1> SUFFICES ASSUME ProgramInv, TablesInv, Begin PROVE TablesInv'
  OBVIOUS
<1>1. CASE Refuse
  <2>1. runs' \in 0..MaxRuns /\ exit' = "ConfigError" /\ UNCHANGED bars /\ job = None /\ UNCHANGED job
    BY <1>1, ResearchAssumption DEF Refuse, TablesInv
  <2> QED
    BY <2>1 DEF TablesInv, FetchedInv
<1>2. CASE \E program \in Programs : \E todo \in Seq(Units) : Planned(program, todo) /\ Start(program, todo)
  <2>1. PICK program \in Programs, todo \in Seq(Units) : Planned(program, todo) /\ Start(program, todo)
    BY <1>2
  <2>2. UNCHANGED bars /\ IsJob(job') /\ job'.todo = job'.units /\ job'.rows = {} /\ DOMAIN job'.left = {}
    BY <2>1, StartShape DEF ProgramInv
  <2>3. Len(job'.units) \in Nat
    BY <2>2 DEF IsJob
  <2>4. runs' \in 0..MaxRuns /\ exit' = None
    BY <2>1, ResearchAssumption DEF Start, TablesInv
  <2>5. FetchedInv'
    BY <2>2, <2>3, NothingFetched
  <2> QED
    BY <2>2, <2>4, <2>5 DEF TablesInv
<1> QED
  BY <1>1, <1>2, BeginShape DEF ProgramInv

LEMMA DeliverFills == ProgramInv /\ TablesInv /\ Deliver => TablesInv'
<1> SUFFICES ASSUME ProgramInv, TablesInv, Deliver PROVE TablesInv'
  OBVIOUS
<1> DEFINE u == call.unit
           whole == WholeIn(edition, u)
<1>1. /\ job # None /\ edition' = edition /\ edition \in 1..Len(Feeds)
      /\ Got = Rows(u) \ BadRows(u) /\ (u.strict => BadRows(u) = {})
      /\ u.of = IF job.program = "score_news" THEN "news" ELSE "bars"
      /\ u = job.units[Done + 1] /\ DOMAIN job.left = {}
  BY DeliverShape
<1>2. /\ job'.program = job.program /\ job'.units = job.units
      /\ job'.rows = IF job.program = "build_universe" THEN job.rows \union Got ELSE job.rows
      /\ job'.left = IF job.program = "build_universe" THEN job.left
                     ELSE IF job.program = "score_news" THEN ScoreRows(Got)
                     ELSE BarRows(Got)
      /\ Done \in Nat /\ Done' = Done + 1
  BY DeliverMoves
<1>3. job.program # "score_news" => Got = whole /\ (u.strict => AllGood(edition, u))
  BY <1>1, WholeIs
<1>4. UNCHANGED <<bars, exit, runs>>
  BY DEF Deliver
<1>5. \A i \in 1..Done' : i = Done + 1 \/ i \in 1..Done
  BY <1>2
<1>6. Done + 1 \in 1..Done' /\ Done' # 0 /\ \A i \in 1..Done : i \in 1..Done'
  BY <1>2
<1>7. ASSUME job.program \in {"sync_data", "run_screener"} PROVE SyncedSoFar'
  <2>1. /\ DOMAIN job'.left = whole
        /\ \A key \in whole : job'.left[key] = Feeds[edition].bars[key]
    <3>1. Got = whole /\ job'.left = BarRows(Got)
      BY <1>2, <1>3, <1>7
    <3> QED
      BY <3>1 DEF BarRows, feed
  <2>2. SyncedSoFar
    BY <1>1, <1>7 DEF TablesInv, FetchedInv
  <2>3. ASSUME NEW i \in 1..Done', NEW key \in WholeIn(edition, job.units[i])
        PROVE  key \in DOMAIN job'.left \/ bars'[key] = Feeds[edition].bars[key]
    BY <1>1, <1>4, <1>5, <2>1, <2>2, <2>3 DEF SyncedSoFar
  <2>4. ASSUME NEW i \in 1..Done', job.units[i].strict PROVE AllGood(edition, job.units[i])
    BY <1>1, <1>3, <1>5, <1>7, <2>2, <2>4 DEF SyncedSoFar
  <2>5. ASSUME NEW key \in DOMAIN job'.left
        PROVE  /\ Done' # 0 /\ key \in WholeIn(edition, job.units[Done'])
               /\ job'.left[key] = Feeds[edition].bars[key]
    BY <1>1, <1>2, <1>6, <2>1
  <2> HIDE DEF whole
  <2> QED
    BY <1>1, <1>2, <2>3, <2>4, <2>5 DEF SyncedSoFar
<1>8. ASSUME job.program = "build_universe", NEW key
      PROVE  key \in job'.rows <=> \E i \in 1..Done' : key \in WholeIn(edition, job.units[i])
  <2>1. job'.rows = job.rows \union whole
    BY <1>2, <1>3, <1>8
  <2>2. key \in job.rows <=> \E i \in 1..Done : key \in WholeIn(edition, job.units[i])
    BY <1>1, <1>8 DEF TablesInv, FetchedInv
  <2> QED
    BY <1>1, <1>5, <1>6, <2>1, <2>2
<1>9. job.program = "build_universe" => DOMAIN job'.left = {}
  BY <1>1, <1>2
<1>10. FetchedInv'
  BY <1>1, <1>2, <1>7, <1>8, <1>9 DEF FetchedInv
<1> QED
  BY <1>1, <1>4, <1>10 DEF TablesInv

\* storage.py:60: the row that is next, and what it leaves for later.
LEMMA InsertShape ==
    ASSUME ProgramInv, TablesInv, NEW key \in Symbols \X Days, NextLeft(key),
           job.program # "score_news"
    PROVE  /\ job # None /\ SyncedSoFar /\ job.program \in {"sync_data", "run_screener"}
           /\ edition \in 1..Len(Feeds) /\ Done # 0 /\ key \in WholeIn(edition, job.units[Done])
           /\ job.left[key] = Feeds[edition].bars[key]
<1>1. job # None /\ key \in DOMAIN job.left
  BY DEF NextLeft
<1>2. /\ job.program \in Programs /\ edition \in 1..Len(Feeds)
  BY <1>1 DEF ProgramInv, JobInv, IsJob
<1>3. job.program # "build_universe"
  BY <1>1 DEF TablesInv, FetchedInv
<1>4. job.program \in {"sync_data", "run_screener"}
  BY <1>2, <1>3 DEF Programs
<1>5. SyncedSoFar
  BY <1>1, <1>4 DEF TablesInv, FetchedInv
<1> QED
  BY <1>1, <1>2, <1>4, <1>5 DEF SyncedSoFar

LEMMA InsertFills == ProgramInv /\ TablesInv /\ InsertBar => TablesInv'
<1> SUFFICES ASSUME ProgramInv, TablesInv, NEW key \in Symbols \X Days, NextLeft(key),
                    job.program # "score_news", bars' = [bars EXCEPT ![key] = job.left[key]]
             PROVE  TablesInv'
  BY DEF InsertBar
<1>1. /\ job # None /\ job'.program = job.program /\ job'.units = job.units
      /\ DOMAIN job'.left = DOMAIN job.left \ {key} /\ Done' = Done
      /\ \A other \in DOMAIN job'.left : job'.left[other] = job.left[other]
  BY CommitShape
<1>2. /\ SyncedSoFar /\ job.program \in {"sync_data", "run_screener"}
      /\ edition \in 1..Len(Feeds) /\ Done # 0 /\ key \in WholeIn(edition, job.units[Done])
      /\ job.left[key] = Feeds[edition].bars[key]
  BY InsertShape
<1>3. UNCHANGED <<edition, exit, runs>>
  BY DEF NextLeft, clients
<1>4. bars' \in [Symbols \X Days -> BarAt \union {None}]
  <2>1. job.left[key] \in BarAt
    BY <1>2, WholeType DEF feed
  <2> QED
    BY <2>1 DEF TablesInv
<1>5. DOMAIN bars = Symbols \X Days
  BY DEF TablesInv
<1>6. ASSUME NEW i \in 1..Done, NEW k \in WholeIn(edition, job.units[i])
      PROVE  k \in DOMAIN job'.left \/ bars'[k] = Feeds[edition].bars[k]
  <2>1. CASE k = key
    BY <1>2, <1>5, <2>1
  <2>2. CASE k # key
    <3>1. k \in DOMAIN job.left \/ bars[k] = Feeds[edition].bars[k]
      BY <1>2, <1>6 DEF SyncedSoFar
    <3>2. k \in Symbols \X Days
      BY <1>2, <1>6, WholeType
    <3>3. bars'[k] = bars[k]
      BY <1>5, <2>2, <3>2
    <3> QED
      BY <1>1, <2>2, <3>1, <3>3
  <2> QED
    BY <2>1, <2>2
<1>7. SyncedSoFar'
  BY <1>1, <1>2, <1>3, <1>6 DEF SyncedSoFar
<1>8. FetchedInv'
  BY <1>1, <1>2, <1>7 DEF FetchedInv
<1> QED
  BY <1>1, <1>3, <1>4, <1>8 DEF TablesInv

LEMMA InsertScoreFills == ProgramInv /\ TablesInv /\ InsertScore => TablesInv'
<1> SUFFICES ASSUME ProgramInv, TablesInv, NEW key \in Symbols \X Days, NextLeft(key),
                    job.program = "score_news", UNCHANGED bars
             PROVE  TablesInv'
  BY DEF InsertScore
<1>1. job # None /\ job'.program = "score_news"
  BY CommitShape
<1>2. UNCHANGED <<exit, runs>>
  BY DEF NextLeft
<1> QED
  BY <1>1, <1>2 DEF TablesInv, FetchedInv

LEMMA NextTablesInv == ProgramInv /\ TablesInv /\ [ResearchNext]_research => TablesInv'
<1> SUFFICES ASSUME ProgramInv, TablesInv, [ResearchNext]_research PROVE TablesInv'
  OBVIOUS
<1>1. ASSUME UNCHANGED db, UNCHANGED edition \/ job = None PROVE TablesInv'
  BY <1>1 DEF TablesInv, FetchedInv, SyncedSoFar, Done, db
<1>2. CASE Overnight \/ Ask \/ AskAgain \/ TurnPage \/ UNCHANGED research
  BY <1>1, <1>2 DEF Overnight, Ask, AskAgain, TurnPage, Asking, Fetch, Retry, NextPage, research, clients
<1>3. CASE Abort \/ Interrupt \/ Finish
  <2>1. job' = None /\ UNCHANGED <<bars, runs>> /\ exit' \in {"ok", "error"}
    BY <1>3 DEF Abort, Interrupt, Finish
  <2> QED
    BY <2>1 DEF TablesInv, FetchedInv
<1> QED
  BY <1>2, <1>3, BeginFills, DeliverFills, InsertFills, InsertScoreFills DEF ResearchNext, Proceed

LEMMA TablesAlways == ResearchSpec => []TablesInv
BY InitTablesInv, NextTablesInv, ProgramsKeepOrder, PTL DEF ResearchSpec

\* storage.py:60, alpaca_data.py:54-67: only an insert changes the table, by the next
\* row of a fetch that has ended.
LEMMA StepCommits ==
    ASSUME ProgramInv, TablesInv, [ResearchNext]_research, bars' # bars
    PROVE  LET unit == job.units[Len(job.units) - Len(job.todo)]
           IN  /\ unit.strict => BadRows(unit) = {}
               /\ \E key \in Rows(unit) \ BadRows(unit) :
                     /\ bars' = [bars EXCEPT ![key] = feed.bars[key]]
                     /\ \A r \in Rows(unit) \ BadRows(unit) :
                           r[2] < key[2] => bars[r] = feed.bars[r]
<1>1. InsertBar
  BY DEF ResearchNext, Begin, StartSync, StartScoring, StartPerSymbol, StartScreener, StartBuild, Start,
         Refuse, Overnight, Proceed, Ask, AskAgain, TurnPage, Asking, Deliver, InsertScore, Interrupt,
         Abort, Finish, research, db
<1>2. PICK key \in Symbols \X Days :
          NextLeft(key) /\ job.program # "score_news" /\ bars' = [bars EXCEPT ![key] = job.left[key]]
  BY <1>1 DEF InsertBar
<1> DEFINE unit == job.units[Done]
<1>3. /\ job # None /\ SyncedSoFar /\ Done # 0 /\ edition \in 1..Len(Feeds)
      /\ key \in WholeIn(edition, unit) /\ job.left[key] = Feeds[edition].bars[key]
  BY <1>2, InsertShape
<1>4. \A other \in DOMAIN job.left : key[2] <= other[2]
  BY <1>2, CommitShape
<1>5. Done \in DOMAIN job.units /\ Done \in 1..Done
  <2> DEFINE a == Len(job.units)
             b == Len(job.todo)
             d == Done
  <2>1. a \in Nat /\ b \in Nat /\ b <= a /\ d = a - b /\ d # 0 /\ DOMAIN job.units = 1..a
    BY <1>3 DEF ProgramInv, JobInv, IsJob, Done
  <2> HIDE DEF a, b, d
  <2>2. d \in 1..a /\ d \in 1..d
    BY <2>1
  <2> QED
    BY <2>1, <2>2 DEF d
<1>6. unit.of = "bars"
  BY <1>2, <1>3, <1>5 DEF ProgramInv, JobInv, Planned
<1>7. unit.strict => AllGood(edition, unit)
  BY <1>3, <1>5 DEF SyncedSoFar
<1>8. ASSUME NEW r \in WholeIn(edition, unit), r[2] < key[2] PROVE bars[r] = Feeds[edition].bars[r]
  <2>1. r \in Symbols \X Days /\ r[2] \in Int /\ key[2] \in Int
    <3>1. r \in Symbols \X Days
      BY <1>3, <1>8, WholeType
    <3>2. Days \subseteq Int
      BY ClientsAssumption
    <3> QED
      BY <3>1, <3>2
  <2>2. r \notin DOMAIN job.left
    BY <1>4, <1>8, <2>1
  <2> QED
    BY <1>3, <1>5, <1>8, <2>2 DEF SyncedSoFar
<1> HIDE DEF unit
<1>9. /\ unit.strict => BadRows(unit) = {}
      /\ \E k \in Rows(unit) \ BadRows(unit) :
            /\ bars' = [bars EXCEPT ![k] = feed.bars[k]]
            /\ \A r \in Rows(unit) \ BadRows(unit) : r[2] < k[2] => bars[r] = feed.bars[r]
  <2>1. feed.bars = Feeds[edition].bars
    BY DEF feed
  <2> QED
    BY <1>2, <1>3, <1>6, <1>7, <1>8, <2>1, WholeIs
<1> QED
  BY <1>9 DEF unit, Done

\* The table changes row after row, oldest first, by fetches that have ended, for any
\* market, pages, retries, failures and interruptions.
THEOREM AlwaysCommitsOldestFirst == ResearchSpec => CommitsOldestFirst
<1>1. ProgramInv /\ TablesInv /\ [ResearchNext]_research =>
          [bars' # bars =>
            LET unit == job.units[Len(job.units) - Len(job.todo)]
            IN  /\ unit.strict => BadRows(unit) = {}
                /\ \E key \in Rows(unit) \ BadRows(unit) :
                      /\ bars' = [bars EXCEPT ![key] = feed.bars[key]]
                      /\ \A r \in Rows(unit) \ BadRows(unit) :
                            r[2] < key[2] => bars[r] = feed.bars[r]]_research
  BY StepCommits
<1> QED
  BY <1>1, ProgramsKeepOrder, TablesAlways, PTL DEF CommitsOldestFirst, ResearchSpec

\* Only Finish writes a file, and then everything has been fetched.
LEMMA WritesAtTheEnd ==
    ASSUME ProgramInv, [ResearchNext]_research,
           NEW program \in {"run_screener", "build_universe"}, universes'[program] # universes[program]
    PROVE  /\ Finish /\ job # None /\ job.program = program /\ Done = Len(job.units)
           /\ DOMAIN job.left = {}
           /\ \A i \in DOMAIN job.units : i \in 1..Done /\ job.units[i] \in Units /\ job.units[i].of = "bars"
           /\ program = "run_screener" => universes'[program] \in Funnel(Scope(bars), NoSectors)
           /\ program = "build_universe" =>
                 universes'[program] \in LiquidUniverses([key \in job.rows |-> feed.bars[key]])
<1>1. Finish
  BY DEF ResearchNext, Begin, StartSync, StartScoring, StartPerSymbol, StartScreener, StartBuild, Start,
         Refuse, Overnight, Proceed, Ask, AskAgain, TurnPage, Asking, Abort, Deliver, NextLeft,
         InsertBar, InsertScore, Interrupt, research, db
<1>2. /\ job # None /\ job.left = <<>> /\ job.todo = <<>>
      /\ \/ UNCHANGED universes
         \/ /\ job.program = "run_screener"
            /\ \E list \in Funnel(Scope(bars), NoSectors) :
                  universes' = [universes EXCEPT ![job.program] = list]
         \/ /\ job.program = "build_universe"
            /\ \E list \in LiquidUniverses([key \in job.rows |-> feed.bars[key]]) :
                  universes' = [universes EXCEPT ![job.program] = list]
  BY <1>1 DEF Finish
<1>3. IsJob(job) /\ Planned(job.program, job.units) /\ DOMAIN universes = {"run_screener", "build_universe"}
  BY <1>2 DEF ProgramInv, JobInv, UniversesTyped
<1>4. /\ job.program = program
      /\ program = "run_screener" => universes'[program] \in Funnel(Scope(bars), NoSectors)
      /\ program = "build_universe" =>
            universes'[program] \in LiquidUniverses([key \in job.rows |-> feed.bars[key]])
  BY <1>2, <1>3
<1>5. /\ Len(job.units) \in Nat /\ DOMAIN job.units = 1..Len(job.units)
      /\ \A i \in DOMAIN job.units : job.units[i] \in Units
  BY <1>3 DEF IsJob
<1>6. Done = Len(job.units)
  BY <1>2, <1>5 DEF Done
<1>7. \A i \in DOMAIN job.units : job.units[i].of = "bars"
  BY <1>3, <1>4 DEF Planned
<1> QED
  BY <1>1, <1>2, <1>4, <1>5, <1>6, <1>7

\* run_screener.py:123-139, screener.py:91-124: a ranking sees every synced bar.
LEMMA StepScreensBest ==
    ASSUME ProgramInv, TablesInv, [ResearchNext]_research,
           universes'["run_screener"] # universes["run_screener"]
    PROVE  /\ \A i \in DOMAIN job.units : \A key \in Rows(job.units[i]) :
                 Valid(feed.bars[key]) => bars[key] = feed.bars[key]
           /\ LET candidates == Candidates(Scope(bars))
              IN  /\ LeavesOutTheWorse(universes'["run_screener"], candidates, NoSectors)
                  /\ \A sectorOf \in SectorMaps :
                        LeavesOutTheWorse(RankUniverse(candidates, sectorOf), candidates, sectorOf)
<1>1. /\ job # None /\ job.program = "run_screener" /\ DOMAIN job.left = {}
      /\ \A i \in DOMAIN job.units : i \in 1..Done /\ job.units[i].of = "bars"
      /\ universes'["run_screener"] \in Funnel(Scope(bars), NoSectors)
  BY WritesAtTheEnd
<1>2. ASSUME NEW i \in DOMAIN job.units, NEW key \in Rows(job.units[i]), Valid(feed.bars[key])
      PROVE  bars[key] = feed.bars[key]
  <2>1. key \in WholeIn(edition, job.units[i])
    BY <1>1, <1>2, WholeIs
  <2> QED
    BY <1>1, <2>1 DEF TablesInv, FetchedInv, SyncedSoFar, feed
<1>3. LeavesOutTheWorse(universes'["run_screener"], Candidates(Scope(bars)), NoSectors)
  BY <1>1, FinishLists
<1>4. \A sectorOf \in SectorMaps :
          LeavesOutTheWorse(RankUniverse(Candidates(Scope(bars)), sectorOf), Candidates(Scope(bars)), sectorOf)
  BY <1>1, FinishLists, RankUniverseShape
<1> QED
  BY <1>2, <1>3, <1>4

\* A universe is ranked on a whole table, and leaves out only what is worse, for any
\* market and sectors.
THEOREM AlwaysScreensBest == ResearchSpec => ScreenedIsBest
<1>1. ProgramInv /\ TablesInv /\ [ResearchNext]_research =>
          [universes'["run_screener"] # universes["run_screener"] =>
            /\ \A i \in DOMAIN job.units : \A key \in Rows(job.units[i]) :
                  Valid(feed.bars[key]) => bars[key] = feed.bars[key]
            /\ LET candidates == Candidates(Scope(bars))
               IN  /\ LeavesOutTheWorse(universes'["run_screener"], candidates, NoSectors)
                   /\ \A sectorOf \in SectorMaps :
                         LeavesOutTheWorse(RankUniverse(candidates, sectorOf), candidates, sectorOf)]_research
  BY StepScreensBest
<1> QED
  BY <1>1, ProgramsKeepOrder, TablesAlways, PTL DEF ScreenedIsBest, ResearchSpec

----------------------------------------------------------------------------
\* The most liquid symbols of build_universe.

\* universe_builder.py:33-34: a column of numbers has a median.
LEMMA NthValueType ==
    ASSUME NEW column, IsFiniteSet(column), \A x \in column : x[2] \in Int,
           NEW k \in 1..Cardinality(column)
    PROVE  NthValue(column, k) \in Int
<1> DEFINE values == {x[2] : x \in column}
           Under(v) == {x \in column : x[2] < v}
           UpTo(v) == {x \in column : x[2] <= v}
           enough == {v \in values : k <= Cardinality(UpTo(v))}
<1>1. Cardinality(column) \in Nat /\ k \in Nat
  BY FS_CardinalityType
<1>2. IsFiniteSet(values) /\ values \subseteq Int
  <2> DEFINE second == [x \in column |-> x[2]]
  <2>1. values = {second[x] : x \in column}
    OBVIOUS
  <2> HIDE DEF second
  <2>2. IsFiniteSet({second[x] : x \in column})
    BY ImageIsFinite
  <2> QED
    BY <2>1, <2>2
<1>3. \A v : Cardinality(UpTo(v)) \in Nat
  <2>1. \A v : UpTo(v) \subseteq column
    OBVIOUS
  <2> HIDE DEF UpTo
  <2> QED
    BY <2>1, FS_Subset, FS_CardinalityType
<1>4. values # {}
  <2>1. column # {}
    BY <1>1, FS_EmptySet
  <2> QED
    BY <2>1
<1>5. enough # {}
  <2> HIDE DEF values
  <2>1. Max(values) \in values /\ \A v \in values : v <= Max(values)
    BY <1>2, <1>4, GreatestMember
  <2>2. UpTo(Max(values)) = column
    BY <2>1 DEF values
  <2>3. Max(values) \in enough
    BY <1>1, <2>1, <2>2
  <2> QED
    BY <2>3
<1> DEFINE v == Min(enough)
<1>6. v \in enough /\ \A w \in enough : v <= w
  <2>1. IsFiniteSet(enough) /\ enough \subseteq Int
    BY <1>2, FS_Subset
  <2> HIDE DEF enough
  <2> QED
    BY <1>5, <2>1, LeastMember
<1> HIDE DEF v
<1>7. v \in values /\ v \in Int /\ k <= Cardinality(UpTo(v))
  BY <1>2, <1>6
<1>8. Cardinality(Under(v)) < k
  <2> DEFINE lower == {w \in values : w < v}
  <2>1. CASE lower = {}
    <3>1. Under(v) = {}
      BY <2>1
    <3> QED
      BY <1>1, <3>1, FS_EmptySet
  <2>2. CASE lower # {}
    <3>1. IsFiniteSet(lower) /\ lower \subseteq Int
      BY <1>2, FS_Subset
    <3> DEFINE w == Max(lower)
    <3>2. w \in lower /\ \A y \in lower : y <= w
      <4> HIDE DEF lower
      <4> QED
        BY <2>2, <3>1, GreatestMember
    <3> HIDE DEF w
    <3>3. w \in values /\ w < v /\ w \in Int
      BY <3>1, <3>2
    <3>4. w \notin enough
      BY <1>6, <1>7, <3>3
    <3>5. ~(k <= Cardinality(UpTo(w)))
      BY <3>3, <3>4
    <3>6. Under(v) = UpTo(w)
      <4>1. \A x \in column : x[2] \in values /\ x[2] \in Int
        BY <1>2
      <4>2. \A y \in values : y < v => y <= w
        BY <3>2
      <4>3. \A y \in values : y <= w => y < v
        BY <1>2, <1>7, <3>3
      <4> HIDE DEF values
      <4> QED
        BY <4>1, <4>2, <4>3
    <3> HIDE DEF Under, UpTo
    <3> QED
      BY <1>1, <1>3, <3>5, <3>6
  <2> QED
    BY <2>1, <2>2
<1>9. \E y \in values : Cardinality(Under(y)) < k /\ k <= Cardinality(UpTo(y))
  BY <1>7, <1>8
<1>10. NthValue(column, k) \in values
  BY <1>9 DEF NthValue
<1> QED
  BY <1>2, <1>10

LEMMA MedianType ==
    ASSUME NEW column, IsFiniteSet(column), \A x \in column : x[2] \in Int, column # {}
    PROVE  MedianTwice(column) \in Int
<1> DEFINE n == Cardinality(column)
<1>1. n \in Nat /\ n # 0
  BY FS_CardinalityType, FS_EmptySet
<1>2. MedianTwice(column) = NthValue(column, (n + 1) \div 2) + NthValue(column, (n + 2) \div 2)
  <2> DEFINE sum == SumOfMiddles(column)
  <2>1. {SumOfMiddles(c) : c \in {column}} = {sum}
    OBVIOUS
  <2> HIDE DEF sum
  <2>2. (CHOOSE m \in {sum} : TRUE) = sum
    OBVIOUS
  <2>3. MedianTwice(column) = CHOOSE m \in {sum} : TRUE
    BY <2>1 DEF MedianTwice
  <2>4. MedianTwice(column) = sum
    BY <2>2, <2>3
  <2> QED
    BY <2>4 DEF sum, SumOfMiddles
<1> HIDE DEF n
<1>3. (n + 1) \div 2 \in 1..n /\ (n + 2) \div 2 \in 1..n
  BY <1>1
<1>4. NthValue(column, (n + 1) \div 2) \in Int /\ NthValue(column, (n + 2) \div 2) \in Int
  BY <1>3, NthValueType DEF n
<1> QED
  BY <1>2, <1>4

\* What build_universe has of a symbol in the end.
GoodDays(s) ==
    LET span == UNION {{key[2] : key \in {k \in job.rows : k[1] = a}} : a \in Assets}
    IN  {d \in span : <<s, d>> \in DOMAIN feed.bars /\ Valid(feed.bars[<<s, d>>])}

\* build_universe.py:39-57: the batches together are the active symbols, over one span.
LEMMA BuiltHistory ==
    ASSUME ProgramInv, TablesInv, job # None, job.program = "build_universe", Done = Len(job.units),
           NEW s \in Assets
    PROVE  /\ GoodDays(s) = {d \in Days : <<s, d>> \in job.rows}
           /\ \A d \in GoodDays(s) : feed.bars[<<s, d>>] \in BarAt
           /\ IsFiniteSet(GoodDays(s))
<1>1. /\ edition \in 1..Len(Feeds) /\ IsJob(job) /\ Planned(job.program, job.units)
      /\ DOMAIN job.units = 1..Done
  BY DEF ProgramInv, JobInv, IsJob
<1>2. \A key : key \in job.rows <=> \E i \in 1..Done : key \in WholeIn(edition, job.units[i])
  BY DEF TablesInv, FetchedInv
<1>3. /\ \A i, j \in 1..Done : job.units[i].days = job.units[j].days
      /\ \E i \in 1..Done : s \in job.units[i].symbols
  BY <1>1 DEF Planned
<1>4. job.rows \subseteq Symbols \X Days
  BY <1>1 DEF IsJob
<1>5. ASSUME NEW d \in GoodDays(s) PROVE d \in Days /\ <<s, d>> \in job.rows
  <2>1. <<s, d>> \in DOMAIN feed.bars /\ Valid(feed.bars[<<s, d>>]) /\ \E k \in job.rows : d = k[2]
    BY <1>5 DEF GoodDays
  <2>2. PICK k \in job.rows : d = k[2]
    BY <2>1
  <2>3. PICK i \in 1..Done : k \in WholeIn(edition, job.units[i])
    BY <1>2, <2>2
  <2>4. d \in job.units[i].days
    BY <2>2, <2>3 DEF WholeIn
  <2>5. PICK j \in 1..Done : s \in job.units[j].symbols
    BY <1>3
  <2>6. d \in job.units[j].days
    BY <1>3, <2>4
  <2>7. <<s, d>> \in WholeIn(edition, job.units[j])
    BY <2>1, <2>5, <2>6 DEF WholeIn, feed
  <2>8. <<s, d>> \in job.rows
    BY <1>2, <2>7
  <2> QED
    BY <1>4, <2>8
<1>6. ASSUME NEW d \in Days, <<s, d>> \in job.rows
      PROVE  d \in GoodDays(s) /\ feed.bars[<<s, d>>] \in BarAt
  <2>1. PICK i \in 1..Done : <<s, d>> \in WholeIn(edition, job.units[i])
    BY <1>2, <1>6
  <2>2. /\ <<s, d>> \in DOMAIN feed.bars /\ Valid(feed.bars[<<s, d>>])
        /\ feed.bars[<<s, d>>] \in BarAt
    BY <1>1, <2>1, WholeType DEF WholeIn, feed
  <2>3. \E a \in Assets : \E k \in job.rows : k[1] = a /\ d = k[2]
    BY <1>6
  <2>4. d \in UNION {{key[2] : key \in {k \in job.rows : k[1] = a}} : a \in Assets}
    BY <2>3
  <2> QED
    BY <2>2, <2>4 DEF GoodDays
<1>7. GoodDays(s) = {d \in Days : <<s, d>> \in job.rows}
  BY <1>5, <1>6
<1>8. IsFiniteSet(GoodDays(s))
  BY <1>7, ClientsAssumption, FS_Subset
<1> QED
  BY <1>5, <1>6, <1>7, <1>8

\* A column of the good bars has a median.
LEMMA ColumnsType ==
    ASSUME NEW days, IsFiniteSet(days), NEW s, days # {},
           \A d \in days : feed.bars[<<s, d>>] \in BarAt
    PROVE  /\ MedianTwice({<<d, DollarVolume(feed.bars[<<s, d>>])>> : d \in days}) \in Int
           /\ MedianTwice({<<d, feed.bars[<<s, d>>].close>> : d \in days}) \in Int
<1> DEFINE f == [d \in days |-> <<d, DollarVolume(feed.bars[<<s, d>>])>>]
           g == [d \in days |-> <<d, feed.bars[<<s, d>>].close>>]
<1>1. ASSUME NEW d \in days PROVE f[d][2] \in Int /\ g[d][2] \in Int
  <2>1. feed.bars[<<s, d>>].close \in Int /\ feed.bars[<<s, d>>].volume \in Int
    BY DEF BarAt
  <2>2. feed.bars[<<s, d>>].close * feed.bars[<<s, d>>].volume \in Int
    BY <2>1
  <2> QED
    BY <2>1, <2>2 DEF DollarVolume
<1>2. /\ {<<d, DollarVolume(feed.bars[<<s, d>>])>> : d \in days} = {f[d] : d \in days}
      /\ {<<d, feed.bars[<<s, d>>].close>> : d \in days} = {g[d] : d \in days}
  OBVIOUS
<1> HIDE DEF f, g
<1>3. IsFiniteSet({f[d] : d \in days}) /\ IsFiniteSet({g[d] : d \in days})
  BY ImageIsFinite
<1>4. MedianTwice({f[d] : d \in days}) \in Int
  <2>1. {f[d] : d \in days} # {} /\ \A x \in {f[d] : d \in days} : x[2] \in Int
    BY <1>1
  <2> QED
    BY <1>3, <2>1, MedianType
<1>5. MedianTwice({g[d] : d \in days}) \in Int
  <2>1. {g[d] : d \in days} # {} /\ \A x \in {g[d] : d \in days} : x[2] \in Int
    BY <1>1
  <2> QED
    BY <1>3, <2>1, MedianType
<1> QED
  BY <1>2, <1>4, <1>5

\* universe_builder.py:21-39: what is left out is less liquid, or barely traded, or cheap.
LEMMA StepBuildsMostLiquid ==
    ASSUME ProgramInv, TablesInv, [ResearchNext]_research,
           universes'["build_universe"] # universes["build_universe"]
    PROVE  LET list == universes'["build_universe"]
               Mdv(s) == MedianTwice({<<d, DollarVolume(feed.bars[<<s, d>>])>> : d \in GoodDays(s)})
           IN  \A s \in Assets \ ToSet(list), i \in DOMAIN list :
                   \/ GoodDays(s) = {} \/ Cardinality(GoodDays(s)) < MinDays
                   \/ MedianTwice({<<d, feed.bars[<<s, d>>].close>> : d \in GoodDays(s)}) < 2 * MinPrice
                   \/ Len(list) = TopN /\ Mdv(s) <= Mdv(list[i])
<1> DEFINE list == universes'["build_universe"]
           Mdv(s) == MedianTwice({<<d, DollarVolume(feed.bars[<<s, d>>])>> : d \in GoodDays(s)})
           Price(s) == MedianTwice({<<d, feed.bars[<<s, d>>].close>> : d \in GoodDays(s)})
           rows == [key \in job.rows |-> feed.bars[key]]
           eligible == EligibleOf(rows)
           size == Least(TopN, Cardinality(eligible))
<1>1. /\ job # None /\ job.program = "build_universe" /\ Done = Len(job.units)
      /\ \A i \in DOMAIN job.units : i \in 1..Done
      /\ list \in LiquidUniverses(rows)
  BY WritesAtTheEnd
<1>2. /\ IsJob(job) /\ Planned(job.program, job.units)
      /\ \A key : key \in job.rows <=> \E i \in 1..Done : key \in WholeIn(edition, job.units[i])
      /\ DOMAIN job.units = 1..Done
  BY <1>1 DEF ProgramInv, JobInv, TablesInv, FetchedInv, IsJob
<1>3. \A key \in job.rows : key \in Symbols \X Days /\ key[1] \in Assets
  <2>1. job.rows \subseteq Symbols \X Days
    BY <1>2 DEF IsJob
  <2>2. ASSUME NEW key \in job.rows PROVE key[1] \in Assets
    <3>1. PICK i \in 1..Done : key \in WholeIn(edition, job.units[i])
      BY <1>2
    <3>2. job.units[i].symbols \subseteq Assets
      BY <1>1, <1>2 DEF Planned
    <3> QED
      BY <3>1, <3>2 DEF WholeIn
  <2> QED
    BY <2>1, <2>2
<1>4. Assets \subseteq Symbols
  BY ResearchAssumption
<1>5. ASSUME NEW s \in Assets
      PROVE  /\ GoodDays(s) = {d \in Days : <<s, d>> \in job.rows}
             /\ \A d \in GoodDays(s) : feed.bars[<<s, d>>] \in BarAt
             /\ IsFiniteSet(GoodDays(s))
  BY <1>1, BuiltHistory
<1>6. ASSUME NEW s \in Assets
      PROVE  /\ History(rows, s) = GoodDays(s)
             /\ \A d \in GoodDays(s) : rows[<<s, d>>] = feed.bars[<<s, d>>]
  <2>1. DOMAIN rows = job.rows
    OBVIOUS
  <2>2. \A d \in GoodDays(s) : <<s, d>> \in job.rows
    BY <1>5
  <2>3. \A key \in job.rows : key[1] = s => key = <<s, key[2]>> /\ key[2] \in Days
    BY <1>3
  <2> HIDE DEF rows
  <2>4. History(rows, s) = {d \in Days : <<s, d>> \in job.rows}
    BY <2>1, <2>3 DEF History
  <2>5. History(rows, s) = GoodDays(s)
    BY <1>5, <2>4
  <2> QED
    BY <2>2, <2>5 DEF rows
<1>7. ASSUME NEW s \in Assets
      PROVE  /\ MedianTwice({<<d, DollarVolume(rows[<<s, d>>])>> : d \in History(rows, s)}) = Mdv(s)
             /\ MedianTwice({<<d, rows[<<s, d>>].close>> : d \in History(rows, s)}) = Price(s)
  <2>1. /\ {<<d, DollarVolume(rows[<<s, d>>])>> : d \in History(rows, s)} =
               {<<d, DollarVolume(feed.bars[<<s, d>>])>> : d \in GoodDays(s)}
        /\ {<<d, rows[<<s, d>>].close>> : d \in History(rows, s)} =
               {<<d, feed.bars[<<s, d>>].close>> : d \in GoodDays(s)}
    <3> HIDE DEF rows
    <3> QED
      BY <1>6
  <2> QED
    BY <2>1
<1>8. \A s : s \in {key[1] : key \in DOMAIN rows} => s \in Assets
  BY <1>3
<1>9. /\ IsFiniteSet(eligible) /\ size \in Nat /\ list \in Seq(Symbols)
      /\ \E picks \in [1..size -> eligible] :
            /\ list = [i \in 1..size |-> picks[i].symbol]
            /\ \A i, j \in 1..size : i < j => picks[i] # picks[j]
            /\ \A x \in eligible, i \in 1..size : x \in ToSet(picks) \/ picks[i].mdv >= x.mdv
  <2>1. \A key \in DOMAIN rows : key[1] \in Symbols
    BY <1>3, <1>4
  <2> HIDE DEF rows, list
  <2> QED
    BY <1>1, <2>1, LiquidShape
<1>10. PICK picks \in [1..size -> eligible] :
            /\ list = [i \in 1..size |-> picks[i].symbol]
            /\ \A i, j \in 1..size : i < j => picks[i] # picks[j]
            /\ \A x \in eligible, i \in 1..size : x \in ToSet(picks) \/ picks[i].mdv >= x.mdv
  BY <1>9
<1>11. \A x \in eligible : x.symbol \in Assets /\ x.mdv = Mdv(x.symbol)
  <2> SUFFICES ASSUME NEW x \in eligible PROVE x.symbol \in Assets /\ x.mdv = Mdv(x.symbol)
    OBVIOUS
  <2> DEFINE Volume(s) == MedianTwice({<<d, DollarVolume(rows[<<s, d>>])>> : d \in History(rows, s)})
  <2>1. PICK s \in {key[1] : key \in DOMAIN rows} : x = [symbol |-> s, mdv |-> Volume(s)]
    BY DEF EligibleOf
  <2>2. s \in Assets /\ Volume(s) = Mdv(s)
    BY <1>7, <1>8
  <2> HIDE DEF Volume, Mdv, rows
  <2>3. x.symbol = s /\ x.mdv = Volume(s)
    BY <2>1
  <2> QED
    BY <2>2, <2>3
<1>12. ASSUME NEW s \in Assets, GoodDays(s) # {}, ~(Cardinality(GoodDays(s)) < MinDays),
              ~(Price(s) < 2 * MinPrice)
       PROVE  \E x \in eligible : x.symbol = s /\ x.mdv = Mdv(s)
  <2>1. s \in {key[1] : key \in DOMAIN rows}
    <3>1. PICK d \in GoodDays(s) : TRUE
      BY <1>12
    <3>2. <<s, d>> \in DOMAIN rows
      BY <1>5, <3>1
    <3> QED
      BY <3>2
  <2>2. Cardinality(History(rows, s)) >= MinDays
    <3>1. Cardinality(GoodDays(s)) \in Nat /\ MinDays \in Nat
      BY <1>5, FS_CardinalityType, ScreenerAssumption
    <3>2. Cardinality(GoodDays(s)) >= MinDays
      BY <1>12, <3>1
    <3> HIDE DEF rows
    <3> QED
      BY <1>6, <3>2
  <2>3. Price(s) >= 2 * MinPrice
    <3>1. Price(s) \in Int /\ MinPrice \in Nat
      <4> DEFINE days == GoodDays(s)
      <4>1. IsFiniteSet(days) /\ days # {} /\ \A d \in days : feed.bars[<<s, d>>] \in BarAt
        BY <1>5, <1>12
      <4> HIDE DEF days
      <4>2. MedianTwice({<<d, feed.bars[<<s, d>>].close>> : d \in days}) \in Int
        BY <4>1, ColumnsType
      <4> QED
        BY <4>2, ScreenerAssumption DEF days
    <3> HIDE DEF Price
    <3> QED
      BY <1>12, <3>1
  <2> HIDE DEF rows, Mdv, Price
  <2>4. [symbol |-> s,
         mdv |-> MedianTwice({<<d, DollarVolume(rows[<<s, d>>])>> : d \in History(rows, s)})] \in eligible
    BY <1>7, <2>1, <2>2, <2>3 DEF EligibleOf
  <2> QED
    BY <1>7, <2>4
<1> HIDE DEF Mdv, Price, rows, list, eligible
<1>13. ASSUME NEW s \in Assets \ ToSet(list), NEW i \in DOMAIN list, GoodDays(s) # {},
              ~(Cardinality(GoodDays(s)) < MinDays), ~(Price(s) < 2 * MinPrice)
       PROVE  Len(list) = TopN /\ Mdv(s) <= Mdv(list[i])
  <2>1. PICK x \in eligible : x.symbol = s /\ x.mdv = Mdv(s)
    BY <1>12, <1>13
  <2> HIDE DEF size
  <2>2. /\ size \in Nat /\ DOMAIN list = 1..size /\ Len(list) = size
        /\ \A j \in 1..size : list[j] = picks[j].symbol /\ picks[j] \in eligible
    BY <1>9, <1>10
  <2>3. \A j \in 1..size : picks[j] # x
    BY <1>13, <2>1, <2>2 DEF ToSet
  <2>4. x \notin ToSet(picks)
    BY <1>10, <2>3 DEF ToSet
  <2>5. Mdv(s) <= Mdv(list[i])
    <3>1. picks[i].mdv >= x.mdv /\ picks[i].mdv = Mdv(list[i])
      BY <1>10, <1>11, <1>13, <2>2, <2>4
    <3> QED
      BY <2>1, <3>1
  <2>6. size = TopN
    <3> SUFFICES ASSUME size # TopN PROVE FALSE
      OBVIOUS
    <3>1. size = Cardinality(eligible)
      BY DEF size, Least
    <3>2. \A j, k \in 1..size : picks[j] = picks[k] => j = k
      BY <1>10, <2>2
    <3>3. /\ picks \in [1..Cardinality(eligible) -> eligible]
          /\ \A j, k \in 1..Cardinality(eligible) : picks[j] = picks[k] => j = k
      BY <3>1, <3>2
    <3>4. \E j \in 1..Cardinality(eligible) : picks[j] = x
      <4>1. IsFiniteSet(eligible)
        BY <1>9
      <4>2. \A y \in eligible : \E j \in 1..Cardinality(eligible) : picks[j] = y
        BY <3>3, <4>1, ListsAll, ZenonT(40)
      <4> QED
        BY <4>2
    <3> QED
      BY <2>3, <3>1, <3>4
  <2> QED
    BY <2>2, <2>5, <2>6
<1> QED
  BY <1>13 DEF Mdv, Price, list

\* The files of build_universe, for any market, batches and revisions.
THEOREM AlwaysBuildsMostLiquid == ResearchSpec => BuiltIsMostLiquid
<1>1. ProgramInv /\ TablesInv /\ [ResearchNext]_research =>
          [universes'["build_universe"] # universes["build_universe"] =>
            LET list == universes'["build_universe"]
                span == UNION {{key[2] : key \in {k \in job.rows : k[1] = s}} : s \in Assets}
                Good(s) == {d \in span : <<s, d>> \in DOMAIN feed.bars /\ Valid(feed.bars[<<s, d>>])}
                Mdv(s) == MedianTwice({<<d, DollarVolume(feed.bars[<<s, d>>])>> : d \in Good(s)})
            IN  \A s \in Assets \ ToSet(list), i \in DOMAIN list :
                    \/ Good(s) = {} \/ Cardinality(Good(s)) < MinDays
                    \/ MedianTwice({<<d, feed.bars[<<s, d>>].close>> : d \in Good(s)}) < 2 * MinPrice
                    \/ Len(list) = TopN /\ Mdv(s) <= Mdv(list[i])]_research
  BY StepBuildsMostLiquid DEF GoodDays
<1> QED
  BY <1>1, ProgramsKeepOrder, TablesAlways, PTL DEF BuiltIsMostLiquid, ResearchSpec

----------------------------------------------------------------------------
\* The scores of score_news.

Keeping(kept, i, news, fetched, d) ==
    IF i \in fetched /\ news[i].day = d /\ Cardinality(kept) < MaxPerDay
    THEN kept \union {i} ELSE kept

IsCapping(after, news, fetched, d) ==
    after = [i \in 0..Len(news) |-> IF i = 0 THEN {} ELSE Keeping(after[i - 1], i, news, fetched, d)]

Capping(news, fetched, d) == CHOOSE after : IsCapping(after, news, fetched, d)

\* score_news.py:35-44: the loop of cap_by_day ends.
LEMMA CappingRuns ==
    ASSUME NEW news, Len(news) \in Nat, NEW fetched, NEW d
    PROVE  IsCapping(Capping(news, fetched, d), news, fetched, d)
<1> DEFINE n == Len(news)
           V == SUBSET (1..n)
           step == [p \in (1..n) \X V |-> Keeping(p[2], p[1], news, fetched, d)]
<1>1. n \in Nat
  OBVIOUS
<1>2. ASSUME NEW k \in 1..n, NEW v \in V PROVE Keeping(v, k, news, fetched, d) \in V
  BY DEF Keeping
<1>3. {} \in V
  OBVIOUS
<1> HIDE DEF V
<1>4. \A k \in 1..n : \A v \in V : step[<<k, v>>] = Keeping(v, k, news, fetched, d)
  OBVIOUS
<1> HIDE DEF step, n
<1>5. StepsIn(V, step, n)
  BY <1>2, <1>4 DEF StepsIn
<1>6. PICK f \in [0..n -> V] : IsLoop(f, {}, step, n)
  BY <1>1, <1>3, <1>5, LoopExists
<1>7. ASSUME NEW k \in 0..n
      PROVE  f[k] = IF k = 0 THEN {} ELSE Keeping(f[k - 1], k, news, fetched, d)
  <2>1. f[k] = IF k = 0 THEN {} ELSE step[<<k, f[k - 1]>>]
    BY <1>6 DEF IsLoop
  <2>2. k # 0 => k \in 1..n /\ f[k - 1] \in V
    BY <1>1
  <2> QED
    BY <1>4, <2>1, <2>2
<1>8. IsCapping(f, news, fetched, d)
  <2>1. f = [k \in 0..n |-> f[k]]
    OBVIOUS
  <2> QED
    BY <1>7, <2>1 DEF IsCapping, n
<1> QED
  BY <1>8 DEF Capping

\* The earliest of the first k headlines.
EarlyOf(news, d, k) ==
    {i \in 1..k : news[i].day = d /\ Cardinality(OfDay(news, d, i)) <= MaxPerDay}

\* score_news.py:35-44: with the whole of a day at hand, its earliest headlines are kept.
LEMMA CapIsEarly ==
    ASSUME NEW news \in Seq(Headlines), NEW fetched, NEW d,
           \A i \in DOMAIN news : news[i].day = d => i \in fetched
    PROVE  /\ Cap(news, fetched, d) = Early(news, d)
           /\ Cardinality(Early(news, d)) \in 0..MaxPerDay
           /\ (\E i \in DOMAIN news : news[i].day = d) => Early(news, d) # {}
<1> DEFINE n == Len(news)
           g == Capping(news, fetched, d)
           Count(k) == Cardinality(OfDay(news, d, k))
           kept(k) == EarlyOf(news, d, k)
           I == {k \in 0..n : g[k] = kept(k) /\ Cardinality(kept(k)) = Least(Count(k), MaxPerDay)}
<1>1. n \in Nat /\ DOMAIN news = 1..n /\ MaxPerDay \in Nat /\ MaxPerDay # 0
  BY NewsAssumption
<1>2. Cap(news, fetched, d) = g[n]
  BY DEF Cap, Capping, IsCapping, Keeping
<1>3. \A k \in 0..n : g[k] = IF k = 0 THEN {} ELSE Keeping(g[k - 1], k, news, fetched, d)
  <2> HIDE DEF g
  <2>1. IsCapping(g, news, fetched, d)
    BY <1>1, CappingRuns DEF g
  <2> QED
    BY <2>1 DEF IsCapping
<1> HIDE DEF g, n
<1>4. ASSUME NEW k \in 0..n
      PROVE  /\ IsFiniteSet(OfDay(news, d, k)) /\ Count(k) \in Nat
             /\ IsFiniteSet(kept(k)) /\ Cardinality(kept(k)) \in Nat
  <2>1. OfDay(news, d, k) \subseteq 1..k /\ kept(k) \subseteq 1..k
    BY DEF OfDay, EarlyOf
  <2>2. IsFiniteSet(1..k)
    BY <1>1, FS_Interval
  <2> QED
    BY <2>1, <2>2, FS_Subset, FS_CardinalityType
<1>5. 0 \in I
  <2>1. OfDay(news, d, 0) = {} /\ kept(0) = {}
    BY DEF OfDay, EarlyOf
  <2>2. Count(0) = 0 /\ Cardinality(kept(0)) = 0
    BY <2>1, FS_EmptySet
  <2>3. 0 \in 0..n /\ g[0] = {}
    BY <1>1, <1>3
  <2>4. Least(0, MaxPerDay) = 0
    BY <1>1 DEF Least
  <2> QED
    BY <2>1, <2>2, <2>3, <2>4
<1>6. ASSUME NEW k \in 1..n, k - 1 \in I PROVE k \in I
  <2>1. /\ k \in 0..n /\ k - 1 \in 0..n /\ k # 0 /\ k \in DOMAIN news
        /\ g[k] = Keeping(kept(k - 1), k, news, fetched, d)
        /\ Cardinality(kept(k - 1)) = Least(Count(k - 1), MaxPerDay)
    BY <1>1, <1>3, <1>6
  <2>2. /\ \A i \in 1..k : i = k \/ i \in 1..(k - 1)
        /\ \A i \in 1..(k - 1) : i \in 1..k /\ i # k
        /\ k \in 1..k
    BY <1>1
  <2>3. CASE news[k].day # d
    <3>1. OfDay(news, d, k) = OfDay(news, d, k - 1) /\ kept(k) = kept(k - 1)
      BY <2>2, <2>3 DEF OfDay, EarlyOf
    <3>2. g[k] = kept(k - 1)
      BY <2>1, <2>3 DEF Keeping
    <3> QED
      BY <2>1, <3>1, <3>2
  <2>4. CASE news[k].day = d
    <3> DEFINE c == Count(k - 1)
               K == kept(k - 1)
    <3>1. k \in fetched
      BY <2>1, <2>4
    <3>2. OfDay(news, d, k) = OfDay(news, d, k - 1) \union {k} /\ k \notin OfDay(news, d, k - 1)
      BY <2>2, <2>4 DEF OfDay
    <3>3. Count(k) = c + 1
      BY <1>4, <2>1, <3>2, FS_AddElement
    <3>4. c \in Nat /\ IsFiniteSet(K) /\ Cardinality(K) \in Nat /\ Cardinality(K) = Least(c, MaxPerDay)
      BY <1>4, <2>1
    <3>5. k \notin K
      BY <2>2 DEF EarlyOf
    <3>6. kept(k) = IF c + 1 <= MaxPerDay THEN K \union {k} ELSE K
      <4>1. Count(k) <= MaxPerDay <=> c + 1 <= MaxPerDay
        BY <3>3
      <4> QED
        BY <2>2, <2>4, <4>1 DEF EarlyOf
    <3> HIDE DEF c, K, Count, kept
    <3>7. g[k] = IF Cardinality(K) < MaxPerDay THEN K \union {k} ELSE K
      BY <2>1, <2>4, <3>1 DEF Keeping, K
    <3>8. Cardinality(K \union {k}) = Cardinality(K) + 1
      BY <3>4, <3>5, FS_AddElement
    <3>9. CASE c + 1 <= MaxPerDay
      <4>1. Cardinality(K) = c /\ Cardinality(K) < MaxPerDay
        BY <1>1, <3>4, <3>9 DEF Least
      <4>2. g[k] = K \union {k} /\ kept(k) = K \union {k}
        BY <3>6, <3>7, <3>9, <4>1
      <4>3. Cardinality(kept(k)) = c + 1
        BY <3>8, <4>1, <4>2
      <4>4. Least(c + 1, MaxPerDay) = c + 1
        BY <1>1, <3>4, <3>9 DEF Least
      <4> QED
        BY <2>1, <3>3, <4>2, <4>3, <4>4
    <3>10. CASE ~(c + 1 <= MaxPerDay)
      <4>1. Cardinality(K) = MaxPerDay /\ ~(Cardinality(K) < MaxPerDay)
        BY <1>1, <3>4, <3>10 DEF Least
      <4>2. g[k] = K /\ kept(k) = K
        BY <3>6, <3>7, <3>10, <4>1
      <4>3. Least(c + 1, MaxPerDay) = MaxPerDay
        BY <1>1, <3>4, <3>10 DEF Least
      <4> QED
        BY <2>1, <3>3, <4>1, <4>2, <4>3
    <3> QED
      BY <3>9, <3>10
  <2> QED
    BY <2>3, <2>4
<1>7. \A k \in 0..n : k \in I
  <2> HIDE DEF I
  <2> QED
    BY <1>1, <1>5, <1>6, LoopKeeps
<1>8. n \in 0..n
  BY <1>1
<1>9. g[n] = kept(n) /\ Cardinality(kept(n)) = Least(Count(n), MaxPerDay) /\ Count(n) \in Nat
  BY <1>4, <1>7, <1>8
<1>10. kept(n) = Early(news, d)
  BY <1>1 DEF Early, EarlyOf
<1>11. Least(Count(n), MaxPerDay) \in 0..MaxPerDay
  <2> HIDE DEF Count
  <2> QED
    BY <1>1, <1>9 DEF Least
<1>12. ASSUME NEW i \in DOMAIN news, news[i].day = d PROVE Early(news, d) # {}
  <2>1. i \in OfDay(news, d, n)
    BY <1>1, <1>12 DEF OfDay
  <2>2. Count(n) # 0
    BY <1>4, <1>8, <2>1, FS_EmptySet
  <2>3. Cardinality(kept(n)) # 0
    <3> HIDE DEF Count, kept
    <3> QED
      BY <1>1, <1>9, <2>2 DEF Least
  <2>4. kept(n) # {}
    BY <2>3, FS_EmptySet
  <2> HIDE DEF kept
  <2> QED
    BY <1>10, <2>4
<1> QED
  BY <1>2, <1>9, <1>10, <1>11, <1>12

\* What is stored of a day with headlines.
EarlyScore(key) ==
    LET news == Feeds[1].news[key[1]]
    IN  [sum |-> SumOfScores(news, Early(news, key[2])), n |-> Cardinality(Early(news, key[2]))]

HasNews(key) == Early(Feeds[1].news[key[1]], key[2]) # {}

\* Of the fetches that have ended, the table has the scores that are not still to be
\* inserted.
ScoredSoFar ==
    /\ \A i \in 1..Done : \A s \in job.units[i].symbols, e \in job.units[i].days :
          HasNews(<<s, e>>) => <<s, e>> \in DOMAIN job.left \/ scores[<<s, e>>] = EarlyScore(<<s, e>>)
    /\ \A key \in DOMAIN job.left : HasNews(key) /\ job.left[key] = EarlyScore(key)

\* A stored score is that of the earliest headlines of its day.
StoredInv ==
    /\ DOMAIN scores = Symbols \X Days
    /\ \A key \in Symbols \X Days :
          scores[key] = None \/ (HasNews(key) /\ scores[key] = EarlyScore(key))
    /\ job # None /\ job.program = "score_news" => ScoredSoFar

\* score_news.py:59-68: the rows of a fetch of news.
LEMMA ScoreRowsAre ==
    ASSUME edition \in 1..Len(Feeds), NEW u \in Units, u.of = "news"
    PROVE  /\ \A s \in u.symbols, e \in u.days : HasNews(<<s, e>>) => <<s, e>> \in DOMAIN ScoreRows(Rows(u))
           /\ \A key \in DOMAIN ScoreRows(Rows(u)) :
                 HasNews(key) /\ ScoreRows(Rows(u))[key] = EarlyScore(key)
<1> DEFINE rows == Rows(u)
           Fetched(s) == {r[2] : r \in {x \in rows : x[1] = s}}
           keys == {<<r[1], feed.news[r[1]][r[2]].day>> : r \in rows}
<1>1. rows = UNION {Published(s, u.days) : s \in u.symbols}
  BY DEF Rows
<1>2. /\ feed.news = Feeds[1].news /\ \A s \in Symbols : feed.news[s] \in Seq(Headlines)
      /\ u.symbols \subseteq Symbols
  BY FeedType DEF Units
<1>3. DOMAIN ScoreRows(rows) = keys
  BY DEF ScoreRows
<1>4. \A key \in keys : ScoreRows(rows)[key] = DayScore(feed.news[key[1]], Fetched(key[1]), key[2])
  BY DEF ScoreRows
<1> HIDE DEF rows
<1>5. ASSUME NEW s \in u.symbols, NEW i \in DOMAIN feed.news[s], feed.news[s][i].day \in u.days
      PROVE  <<s, i>> \in rows
  <2>1. <<s, i>> \in Published(s, u.days)
    BY <1>5 DEF Published
  <2> QED
    BY <1>1, <2>1
<1>6. \A r \in rows : /\ r[1] \in u.symbols /\ r[2] \in DOMAIN feed.news[r[1]]
                      /\ feed.news[r[1]][r[2]].day \in u.days
  BY <1>1 DEF Published
<1>7. ASSUME NEW s \in u.symbols, NEW e \in u.days, HasNews(<<s, e>>) PROVE <<s, e>> \in keys
  <2>1. PICK i \in Early(feed.news[s], e) : TRUE
    BY <1>2, <1>7 DEF HasNews
  <2>2. i \in DOMAIN feed.news[s] /\ feed.news[s][i].day = e
    BY DEF Early
  <2>3. <<s, i>> \in rows
    BY <1>5, <2>2
  <2>4. <<s, i>>[1] = s /\ <<s, i>>[2] = i
    OBVIOUS
  <2> QED
    BY <2>2, <2>3, <2>4
<1>8. ASSUME NEW key \in keys PROVE HasNews(key) /\ ScoreRows(rows)[key] = EarlyScore(key)
  <2>1. PICK r \in rows : key = <<r[1], feed.news[r[1]][r[2]].day>>
    BY <1>8
  <2> DEFINE s == r[1]
             e == feed.news[r[1]][r[2]].day
             news == feed.news[s]
             fetched == Fetched(s)
  <2>2. /\ s \in u.symbols /\ s \in Symbols /\ e \in u.days
        /\ r[2] \in DOMAIN news /\ news[r[2]].day = e /\ news \in Seq(Headlines)
    BY <1>2, <1>6
  <2>3. key[1] = s /\ key[2] = e
    BY <2>1
  <2>4. ScoreRows(rows)[key] = DayScore(news, fetched, e)
    BY <1>4, <2>3
  <2>5. news = Feeds[1].news[s]
    BY <1>2
  <2> HIDE DEF e
  <2>6. ASSUME NEW i \in DOMAIN news, news[i].day = e PROVE i \in fetched
    <3>1. <<s, i>> \in rows
      BY <1>5, <2>2, <2>6
    <3>2. <<s, i>>[1] = s /\ <<s, i>>[2] = i
      OBVIOUS
    <3> QED
      BY <3>1, <3>2
  <2> HIDE DEF s, news, fetched
  <2>7. Cap(news, fetched, e) = Early(news, e) /\ Early(news, e) # {}
    BY <2>2, <2>6, CapIsEarly
  <2>8. DayScore(news, fetched, e) = [sum |-> SumOfScores(news, Early(news, e)), n |-> Cardinality(Early(news, e))]
    BY <2>7 DEF DayScore
  <2> QED
    BY <2>3, <2>4, <2>5, <2>7, <2>8 DEF HasNews, EarlyScore
<1> QED
  BY <1>3, <1>7, <1>8 DEF rows

LEMMA DeliverScores == ProgramInv /\ StoredInv /\ Deliver => StoredInv'
<1> SUFFICES ASSUME ProgramInv, StoredInv, Deliver PROVE StoredInv'
  OBVIOUS
<1>1. UNCHANGED scores
  BY DEF Deliver
<1>2. /\ job'.program = job.program /\ job'.units = job.units /\ Done \in Nat /\ Done' = Done + 1
      /\ job.program = "score_news" => job'.left = ScoreRows(Got)
  BY DeliverMoves
<1>3. ASSUME job.program = "score_news" PROVE ScoredSoFar'
  <2> DEFINE u == call.unit
  <2>1. /\ edition \in 1..Len(Feeds) /\ u \in Units /\ u.of = "news" /\ Got = Rows(u) \ BadRows(u)
        /\ u = job.units[Done + 1] /\ job # None /\ DOMAIN job.left = {}
    BY <1>3, DeliverShape
  <2>2. job'.left = ScoreRows(Rows(u))
    <3>1. BadRows(u) = {}
      BY <2>1 DEF BadRows
    <3>2. Got = Rows(u)
      BY <2>1, <3>1
    <3> QED
      BY <1>2, <1>3, <3>2
  <2>3. \A i \in 1..Done' : i = Done + 1 \/ i \in 1..Done
    BY <1>2
  <2>4. ScoredSoFar
    BY <1>3, <2>1 DEF StoredInv
  <2>5. /\ \A s \in u.symbols, e \in u.days : HasNews(<<s, e>>) => <<s, e>> \in DOMAIN job'.left
        /\ \A key \in DOMAIN job'.left : HasNews(key) /\ job'.left[key] = EarlyScore(key)
    BY <2>1, <2>2, ScoreRowsAre
  <2>6. ASSUME NEW i \in 1..Done', NEW s \in job.units[i].symbols, NEW e \in job.units[i].days,
               HasNews(<<s, e>>)
        PROVE  <<s, e>> \in DOMAIN job'.left \/ scores'[<<s, e>>] = EarlyScore(<<s, e>>)
    BY <1>1, <2>1, <2>3, <2>4, <2>5, <2>6 DEF ScoredSoFar
  <2> QED
    BY <1>2, <2>5, <2>6 DEF ScoredSoFar
<1> QED
  BY <1>1, <1>2, <1>3 DEF StoredInv

LEMMA InsertScores == ProgramInv /\ StoredInv /\ InsertScore => StoredInv'
<1> SUFFICES ASSUME ProgramInv, StoredInv, NEW key \in Symbols \X Days, NextLeft(key),
                    job.program = "score_news", scores' = [scores EXCEPT ![key] = job.left[key]]
             PROVE  StoredInv'
  BY DEF InsertScore
<1>1. /\ job # None /\ job'.program = job.program /\ job'.units = job.units /\ key \in DOMAIN job.left
      /\ DOMAIN job'.left = DOMAIN job.left \ {key} /\ Done' = Done
      /\ \A other \in DOMAIN job'.left : job'.left[other] = job.left[other]
  BY CommitShape
<1>2. ScoredSoFar
  BY <1>1 DEF StoredInv
<1>3. HasNews(key) /\ job.left[key] = EarlyScore(key)
  BY <1>1, <1>2 DEF ScoredSoFar
<1>4. /\ DOMAIN scores = Symbols \X Days /\ DOMAIN scores' = Symbols \X Days
      /\ scores'[key] = EarlyScore(key) /\ \A k \in Symbols \X Days : k # key => scores'[k] = scores[k]
  BY <1>3 DEF StoredInv
<1>5. \A k \in Symbols \X Days : scores'[k] = None \/ (HasNews(k) /\ scores'[k] = EarlyScore(k))
  BY <1>3, <1>4 DEF StoredInv
<1>6. ASSUME NEW i \in 1..Done, NEW s \in job.units[i].symbols, NEW e \in job.units[i].days, HasNews(<<s, e>>)
      PROVE  <<s, e>> \in DOMAIN job'.left \/ scores'[<<s, e>>] = EarlyScore(<<s, e>>)
  <2>1. <<s, e>> \in DOMAIN job.left \/ scores[<<s, e>>] = EarlyScore(<<s, e>>)
    BY <1>2, <1>6 DEF ScoredSoFar
  <2>2. <<s, e>> \in Symbols \X Days
    <3>1. IsJob(job) /\ i \in DOMAIN job.units
      <4> DEFINE a == Len(job.units)
                 b == Len(job.todo)
                 d == Done
      <4>1. IsJob(job) /\ a \in Nat /\ b \in Nat /\ b <= a /\ d = a - b /\ DOMAIN job.units = 1..a
        BY <1>1 DEF ProgramInv, JobInv, IsJob, Done
      <4>2. i \in 1..d
        OBVIOUS
      <4> HIDE DEF a, b, d
      <4>3. i \in 1..a
        BY <4>1, <4>2
      <4> QED
        BY <4>1, <4>3
    <3>2. job.units[i] \in Units
      BY <3>1 DEF IsJob
    <3> QED
      BY <3>2 DEF Units
  <2> QED
    BY <1>1, <1>4, <2>1, <2>2
<1>7. ScoredSoFar'
  <2>1. \A k \in DOMAIN job'.left : HasNews(k) /\ job'.left[k] = EarlyScore(k)
    BY <1>1, <1>2 DEF ScoredSoFar
  <2> QED
    BY <1>1, <1>6, <2>1 DEF ScoredSoFar
<1> QED
  BY <1>1, <1>4, <1>5, <1>7 DEF StoredInv

LEMMA NextStoredInv == ProgramInv /\ StoredInv /\ [ResearchNext]_research => StoredInv'
<1> SUFFICES ASSUME ProgramInv, StoredInv, [ResearchNext]_research PROVE StoredInv'
  OBVIOUS
<1>1. CASE UNCHANGED db
  BY <1>1 DEF StoredInv, ScoredSoFar, Done, db
<1>2. CASE UNCHANGED scores /\ (job' = None \/ job'.program # "score_news")
  BY <1>2 DEF StoredInv
<1>3. CASE Begin
  <2>1. CASE Refuse
    BY <2>1, <1>2 DEF Refuse
  <2>2. CASE \E program \in Programs : \E todo \in Seq(Units) : Planned(program, todo) /\ Start(program, todo)
    <3>1. PICK program \in Programs, todo \in Seq(Units) : Planned(program, todo) /\ Start(program, todo)
      BY <2>2
    <3>2. UNCHANGED scores /\ IsJob(job') /\ job'.todo = job'.units /\ DOMAIN job'.left = {}
      BY <3>1, StartShape DEF ProgramInv
    <3>3. Done' = 0
      <4>1. Len(job'.units) \in Nat
        BY <3>2 DEF IsJob
      <4> QED
        BY <3>2, <4>1 DEF Done
    <3> QED
      BY <3>2, <3>3 DEF StoredInv, ScoredSoFar
  <2> QED
    BY <1>3, <2>1, <2>2, BeginShape DEF ProgramInv
<1>4. CASE InsertBar
  <2>1. PICK key \in Symbols \X Days : NextLeft(key) /\ job.program # "score_news"
    BY <1>4 DEF InsertBar
  <2>2. job'.program # "score_news" /\ UNCHANGED scores
    BY <1>4, <2>1, CommitShape DEF InsertBar
  <2> QED
    BY <1>2, <2>2
<1>5. CASE Abort \/ Interrupt \/ Finish
  BY <1>2, <1>5 DEF Abort, Interrupt, Finish
<1>6. CASE Overnight \/ Ask \/ AskAgain \/ TurnPage \/ UNCHANGED research
  BY <1>1, <1>6 DEF Overnight, Ask, AskAgain, TurnPage, Asking, research
<1> QED
  BY <1>3, <1>4, <1>5, <1>6, DeliverScores, InsertScores DEF ResearchNext, Proceed

LEMMA InitStoredInv == ResearchInit => StoredInv
BY DEF ResearchInit, StoredInv

LEMMA StoredAlways == ResearchSpec => []StoredInv
BY InitStoredInv, NextStoredInv, ProgramsKeepOrder, PTL DEF ResearchSpec

LEMMA StoredIsOlder == ProgramInv /\ StoredInv => NewsIsOlderThanBar
<1> SUFFICES ASSUME ProgramInv, StoredInv, NEW s \in Symbols, NEW d \in Days
             PROVE  LET table == [e \in Days |-> scores[<<s, e>>]]
                        seen  == Lookup(table, d)
                        news  == feed.news[s]
                    IN  \/ seen = Neutral
                        \/ \E e \in Days : /\ e < d /\ e >= d - LookbackDays
                                           /\ seen.n = Cardinality(Early(news, e))
                                           /\ seen.sum = SumOfScores(news, Early(news, e))
  BY DEF NewsIsOlderThanBar
<1> DEFINE table == [e \in Days |-> scores[<<s, e>>]]
           news == feed.news[s]
           window == {e \in Days : table[e] # None /\ e < d /\ e >= d - LookbackDays}
<1>1. news = Feeds[1].news[s]
  BY FeedType DEF ProgramInv, JobInv
<1>2. Lookup(table, d) = IF window = {} THEN Neutral ELSE table[Max(window)]
  BY DEF Lookup
<1>3. CASE window = {}
  BY <1>2, <1>3
<1>4. CASE window # {}
  <2>1. IsFiniteSet(window) /\ window \subseteq Int
    <3>1. window \subseteq Days
      OBVIOUS
    <3> HIDE DEF window
    <3>2. IsFiniteSet(Days) /\ Days \subseteq Nat
      BY ClientsAssumption
    <3>3. window \subseteq Int
      BY <3>1, <3>2
    <3> QED
      BY <3>1, <3>2, <3>3, FS_Subset
  <2> DEFINE e == Max(window)
  <2>2. e \in window
    <3> HIDE DEF window
    <3> QED
      BY <1>4, <2>1, GreatestMember
  <2> HIDE DEF e
  <2>3. /\ e \in Days /\ e < d /\ e >= d - LookbackDays /\ scores[<<s, e>>] # None
    BY <2>2
  <2>4. scores[<<s, e>>] = [sum |-> SumOfScores(news, Early(news, e)), n |-> Cardinality(Early(news, e))]
    <3>1. <<s, e>> \in Symbols \X Days
      BY <2>3
    <3>2. scores[<<s, e>>] = EarlyScore(<<s, e>>)
      BY <2>3, <3>1 DEF StoredInv
    <3> QED
      BY <1>1, <3>2 DEF EarlyScore
  <2>5. Lookup(table, d) = scores[<<s, e>>]
    BY <1>2, <1>4, <2>3 DEF e
  <2>6. /\ Lookup(table, d).n = Cardinality(Early(news, e))
        /\ Lookup(table, d).sum = SumOfScores(news, Early(news, e))
    <3> HIDE DEF table, news, window
    <3> QED
      BY <2>4, <2>5
  <2> QED
    BY <2>3, <2>6
<1> QED
  BY <1>3, <1>4

\* The score that vetoes an entry is older than its bar, and that of the earliest
\* headlines of its day, for any news and any order of the programs.
THEOREM NewsAlwaysOlder == ResearchSpec => []NewsIsOlderThanBar
BY StoredIsOlder, ProgramsKeepOrder, StoredAlways, PTL

\* storage.py:17-39: the types of the tables and of what is under way.
LEMMA StoredTypes ==
    ASSUME ProgramInv, TablesInv, StoredInv
    PROVE  ResearchTypeOK
<1>1. ASSUME NEW key \in Symbols \X Days
      PROVE  /\ bars[key] \in BarAt \union {None}
             /\ scores[key] \in [sum : Int, n : 1..MaxPerDay] \union {None}
  <2>1. PICK s \in Symbols, e \in Days : key = <<s, e>>
    OBVIOUS
  <2> DEFINE news == Feeds[1].news[s]
             early == Early(news, e)
             f == [i \in DOMAIN news |-> news[i].score]
  <2>2. news \in Seq(Headlines)
    BY ResearchAssumption
  <2> HIDE DEF news
  <2>3. Cardinality(early) \in 0..MaxPerDay
    BY <2>2, CapIsEarly
  <2>4. IsFiniteSet(early)
    <3>1. early \subseteq 1..Len(news) /\ Len(news) \in Nat
      BY <2>2 DEF Early
    <3>2. IsFiniteSet(1..Len(news))
      BY <3>1, FS_Interval
    <3> QED
      BY <3>1, <3>2, FS_Subset
  <2>5. ASSUME NEW i \in early PROVE f[i] \in Int
    <3>1. i \in DOMAIN news
      BY DEF Early
    <3>2. news[i] \in Headlines
      BY <2>2, <3>1
    <3> QED
      BY <3>1, <3>2 DEF Headlines
  <2>6. SumOfScores(news, early) \in Int
    <3> HIDE DEF early
    <3>1. SumFunctionOnSet(f, early) \in Int
      <4> HIDE DEF f
      <4> QED
        BY <2>4, <2>5, SumType
    <3> QED
      BY <3>1 DEF SumOfScores
  <2>7. early # {} => Cardinality(early) \in 1..MaxPerDay
    <3>1. early # {} => Cardinality(early) # 0
      BY <2>4, FS_EmptySet
    <3> HIDE DEF early
    <3> QED
      BY <2>3, <3>1, NewsAssumption
  <2>8. \/ scores[<<s, e>>] = None
        \/ early # {} /\ scores[<<s, e>>] = [sum |-> SumOfScores(news, early), n |-> Cardinality(early)]
    <3>1. scores[key] = None \/ (HasNews(key) /\ scores[key] = EarlyScore(key))
      BY DEF StoredInv
    <3> QED
      BY <2>1, <3>1 DEF HasNews, EarlyScore, news
  <2> HIDE DEF early
  <2>9. scores[<<s, e>>] \in [sum : Int, n : 1..MaxPerDay] \union {None}
    BY <2>6, <2>7, <2>8
  <2>10. bars[key] \in BarAt \union {None}
    BY DEF TablesInv
  <2> QED
    BY <2>1, <2>9, <2>10
<1>2. CallTypeOK
  <2>1. call # None =>
           /\ call \in [unit : Units, page : Nat \ {0}, tries : 0..(MaxTries - 1), got : SUBSET (Symbols \X Nat)]
           /\ call.got \subseteq Rows(call.unit)
    BY DEF ProgramInv, FetchInv, EarlierRows
  <2>2. call # None => call.unit \in Units
    BY <2>1
  <2> QED
    BY <2>1, <2>2 DEF CallTypeOK, Units, ProgramInv, JobInv
<1>3. ASSUME job # None
      PROVE  /\ job.program \in Programs
             /\ \A i \in DOMAIN job.units : job.units[i].symbols \subseteq Symbols
             /\ \E n \in 0..Len(job.units) : job.todo = SubSeq(job.units, n + 1, Len(job.units))
             /\ job.rows \subseteq Symbols \X Days
             /\ DOMAIN job.left \subseteq Symbols \X Days
  <2>1. /\ IsJob(job) /\ Len(job.todo) <= Len(job.units)
        /\ job.todo = SubSeq(job.units, Done + 1, Len(job.units))
    BY <1>3 DEF ProgramInv, JobInv
  <2>2. \A i \in DOMAIN job.units : job.units[i] \in Units
    BY <2>1 DEF IsJob
  <2>3. \A i \in DOMAIN job.units : job.units[i].symbols \subseteq Symbols
    BY <2>2 DEF Units
  <2>4. Done \in 0..Len(job.units)
    <3> DEFINE a == Len(job.units)
               b == Len(job.todo)
    <3>1. a \in Nat /\ b \in Nat /\ b <= a /\ Done = a - b
      BY <2>1 DEF IsJob, Done
    <3> HIDE DEF a, b
    <3>2. Done \in 0..a
      BY <3>1
    <3> QED
      BY <3>2 DEF a
  <2> QED
    BY <2>1, <2>3, <2>4 DEF IsJob
<1>4. /\ universes \in [{"run_screener", "build_universe"} -> Seq(Symbols) \union {None}]
      /\ exit \in {"ok", "ConfigError", "error", None} /\ runs \in 0..MaxRuns
  BY DEF ProgramInv, UniversesTyped, TablesInv
<1> QED
  BY <1>1, <1>2, <1>3, <1>4 DEF ResearchTypeOK

\* storage.py:45-47: a program that ends well has nothing left to fetch or to insert.
LEMMA StepOkSynced ==
    ASSUME ProgramInv, TablesInv, StoredInv, [ResearchNext]_research, job # None, exit' = "ok"
    PROVE  \A i \in DOMAIN job.units :
            LET unit == job.units[i]
            IN  /\ job.program \in {"sync_data", "run_screener"} =>
                      /\ unit.strict => BadRows(unit) = {}
                      /\ \A key \in Rows(unit) \ BadRows(unit) : bars'[key] = feed.bars[key]
                /\ job.program = "score_news" =>
                      \A s \in unit.symbols, d \in unit.days :
                          Early(feed.news[s], d) # {} =>
                              scores'[<<s, d>>] =
                                  [sum |-> SumOfScores(feed.news[s], Early(feed.news[s], d)),
                                   n   |-> Cardinality(Early(feed.news[s], d))]
<1>1. exit # "ok"
  BY ResearchAssumption DEF TablesInv
<1>2. Finish
  BY <1>1
  DEF ResearchNext, Begin, StartSync, StartScoring, StartPerSymbol, StartScreener, StartBuild, Start,
      Refuse, Overnight, Proceed, Ask, AskAgain, TurnPage, Asking, Deliver, NextLeft, InsertBar,
      InsertScore, Interrupt, Abort, research, db
<1>3. /\ DOMAIN job.left = {} /\ job.todo = <<>> /\ UNCHANGED <<bars, scores>>
  BY <1>2 DEF Finish
<1>4. /\ IsJob(job) /\ Planned(job.program, job.units) /\ edition \in 1..Len(Feeds)
  BY DEF ProgramInv, JobInv
<1>5. DOMAIN job.units = 1..Done
  BY <1>3, <1>4 DEF IsJob, Done
<1>6. ASSUME NEW i \in DOMAIN job.units, job.program \in {"sync_data", "run_screener"}
      PROVE  /\ job.units[i].strict => BadRows(job.units[i]) = {}
             /\ \A key \in Rows(job.units[i]) \ BadRows(job.units[i]) : bars'[key] = feed.bars[key]
  <2>1. SyncedSoFar /\ job.units[i].of = "bars"
    BY <1>4, <1>6 DEF TablesInv, FetchedInv, Planned
  <2>2. /\ Rows(job.units[i]) \ BadRows(job.units[i]) = WholeIn(edition, job.units[i])
        /\ BadRows(job.units[i]) = {} <=> AllGood(edition, job.units[i])
    BY <2>1, WholeIs
  <2> QED
    BY <1>3, <1>5, <2>1, <2>2 DEF SyncedSoFar, feed
<1>7. ASSUME NEW i \in DOMAIN job.units, job.program = "score_news",
             NEW s \in job.units[i].symbols, NEW d \in job.units[i].days, Early(feed.news[s], d) # {}
      PROVE  scores'[<<s, d>>] = [sum |-> SumOfScores(feed.news[s], Early(feed.news[s], d)),
                                  n   |-> Cardinality(Early(feed.news[s], d))]
  <2>1. feed.news = Feeds[1].news /\ ScoredSoFar
    BY <1>4, <1>7, FeedType DEF StoredInv
  <2>2. HasNews(<<s, d>>)
    BY <1>7, <2>1 DEF HasNews
  <2>3. scores[<<s, d>>] = EarlyScore(<<s, d>>)
    BY <1>3, <1>5, <2>1, <2>2 DEF ScoredSoFar
  <2> QED
    BY <1>3, <2>1, <2>3 DEF EarlyScore
<1> QED
  BY <1>6, <1>7

\* What a program was to fetch is in the tables when it ends well, for any market and
\* news, and whatever programs before it have left there.
THEOREM OkAlwaysMeansSynced == ResearchSpec => OkMeansSynced
<1>1. ProgramInv /\ TablesInv /\ StoredInv /\ [ResearchNext]_research =>
          [job # None /\ exit' = "ok" =>
            \A i \in DOMAIN job.units :
                LET unit == job.units[i]
                IN  /\ job.program \in {"sync_data", "run_screener"} =>
                          /\ unit.strict => BadRows(unit) = {}
                          /\ \A key \in Rows(unit) \ BadRows(unit) : bars'[key] = feed.bars[key]
                    /\ job.program = "score_news" =>
                          \A s \in unit.symbols, d \in unit.days :
                              Early(feed.news[s], d) # {} =>
                                  scores'[<<s, d>>] =
                                      [sum |-> SumOfScores(feed.news[s], Early(feed.news[s], d)),
                                       n   |-> Cardinality(Early(feed.news[s], d))]]_research
  BY StepOkSynced
<1> QED
  BY <1>1, ProgramsKeepOrder, TablesAlways, StoredAlways, PTL DEF OkMeansSynced, ResearchSpec

\* The types of the tables, the files and the programs, for any market and news.
THEOREM ResearchTypeCorrect == ResearchSpec => []ResearchTypeOK
BY StoredTypes, ProgramsKeepOrder, TablesAlways, StoredAlways, PTL
=============================================================================
