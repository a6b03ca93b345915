------------------------------ MODULE TrackerLife ------------------------------
(****************************************************************************)
(* One ExposureTracker from construction on: fills of any side and size in  *)
(* any order, positions opened, increased, reduced, closed and crossed      *)
(* through zero, re-synced from REST at any moment.                         *)
(****************************************************************************)
EXTENDS ExposureTracker

CONSTANTS
    Qtys, Prices,
    Snapshots,   \* REST answers: [positions, equity]
    MaxFills     \* bound: fills in a behaviour

\* A symbol of a REST answer, nothing held or whole shares at a price: each entered
\* at a tick or more, and worth that much where the answer says what they are worth.
IsListing(p) ==
    /\ p.qty \in Int /\ p.avgPrice \in Int /\ p.marketValue \in Int \union {None}
    /\ p.qty # 0 => /\ p.avgPrice > 0
                    /\ p.marketValue # None => Abs(p.marketValue) >= Abs(p.qty)

ASSUME TrackerInputs ==
    /\ Qtys \subseteq Nat \ {0}
    /\ Prices \subseteq Nat \ {0}
    /\ \A snapshot \in Snapshots :
          snapshot.equity \in Int /\ \A s \in Symbols : IsListing(snapshot.positions[s])
    /\ MaxFills \in Nat

VARIABLES tracker, fills

vars == <<tracker, fills>>

TypeOK ==
    /\ tracker \in Trackers
    /\ fills \in 0..MaxFills

Init ==
    /\ tracker = NewTracker
    /\ fills = 0

OnFill(fill) ==
    /\ fills < MaxFills
    /\ fills' = fills + 1
    /\ tracker' = TrackFill(tracker, fill)

Sync(snapshot) ==
    /\ tracker' = SyncFromApi(snapshot.positions, snapshot.equity)
    /\ UNCHANGED fills

Fills == [symbol : Symbols, side : Sides, qty : Qtys, price : Prices]

Next ==
    \/ \E fill \in Fills : OnFill(fill)
    \/ \E snapshot \in Snapshots : Sync(snapshot)

Spec == Init /\ [][Next]_vars

----------------------------------------------------------------------------

CostBasis(positions) ==
    SumFunctionOnSet([s \in Symbols |-> positions[s].qty * positions[s].avgPrice], Symbols)

Quantities(positions) == [s \in Symbols |-> positions[s].qty]

StatementOf(positions, equity) ==
    [holdings |-> Quantities(positions), cash |-> equity - CostBasis(positions)]

Account == INSTANCE Ledger WITH
    Statements <- {StatementOf(NewTracker.positions, 0)} \union
                  {StatementOf(sn.positions, sn.equity) : sn \in Snapshots},
    holdings <- Quantities(tracker.positions),
    cash <- tracker.equity - CostBasis(tracker.positions)

\* exposure_tracker.py:11-12: "equity between API syncs is tracked as sync
\* equity + realized P&L": whatever the order of fills, averaging entries,
\* partial closes and crossings of zero, what the tracker calls realized is
\* what an account that only moves cash and holdings would have earned at the
\* entry prices.
KeepsLedger == Account!Spec

TradedPrices ==
    Prices \union ({snapshot.positions[s].avgPrice : snapshot \in Snapshots, s \in Symbols} \ {0})

\* exposure_tracker.py:48-63: an entry price never leaves the range of the
\* prices at which shares were ever bought or sold; the risk limits and the
\* realized P&L of a later close are computed from it.
EntryPriceWasTraded ==
    \A s \in Held(tracker) :
        /\ \E low, high \in TradedPrices : tracker.positions[s].avgPrice \in low..high
        /\ tracker.positions[s].lastPrice > 0
=============================================================================
