---------------------------- MODULE LivePortfolio ----------------------------
(***************************************************************************)
(* LivePortfolioManager as an object: it is constructed, optionally        *)
(* rebuilt from the positions the broker holds, and then driven by         *)
(* evaluate_entry + admit and by release, in any order.  A restart is a    *)
(* new object, so it is a new behaviour that starts from a rebuild.        *)
(***************************************************************************)
EXTENDS SharedPool

CONSTANTS
    Symbols,
    SectorOf,    \* the sector_for callback: symbol -> sector or NoSector
    StopPcts,    \* stop distances a member may report
    Results,     \* realised P&L of a closed position
    Holdings,    \* lists of positions the broker may report at a restart
    MaxBooked    \* bound: |realised P&L| explored

\* No trade loses more than the capital put into it: see Exit.  The broker
\* holds no more than the deployment's capital and slots.
ASSUME PortfolioAssumption ==
    /\ IsFiniteSet(Symbols)
    /\ StopPcts \subseteq Nat \ {0}
    /\ Results \subseteq Int
    /\ \A list \in Holdings :
          /\ list \in Seq([symbol : Symbols, capital : Nat,
                           sector : {SectorOf[s] : s \in Symbols} \cup {NoSector}])
          /\ Cardinality(Held(Rebuild(list))) <= MaxPositions
          /\ Rebuild(list).cash \in Nat

VARIABLES
    pool,     \* the object: _positions and _cash
    booked    \* realised P&L since construction (history variable)

vars == <<pool, booked>>

Init ==
    /\ pool \in {NewPool} \cup {Rebuild(list) : list \in Holdings}
    /\ booked = 0

\* evaluate_entry admits the member and the driver calls admit.
Enter(s, stop) ==
    /\ Verdict(pool, s, stop, SectorOf[s]) = "admit"
    /\ Allocation(pool, stop) \in Nat
    /\ pool' = Admit(pool, s, Allocation(pool, stop), SectorOf[s])
    /\ UNCHANGED booked

\* release with the realised result of the trade.
Exit(s, result) ==
    /\ s \in Held(pool)
    /\ result >= -pool.positions[s].capital
    /\ booked + result \in -MaxBooked..MaxBooked
    /\ pool' = Release(pool, s, result)
    /\ booked' = booked + result

Next == \E s \in Symbols :
           \/ \E stop \in StopPcts \cup {NoStop} : Enter(s, stop)
           \/ \E result \in Results : Exit(s, result)

Spec == Init /\ [][Next]_vars
-----------------------------------------------------------------------------
TypeOK ==
    /\ Held(pool) \subseteq Symbols
    /\ \A s \in Held(pool) : pool.positions[s].capital \in Nat
    /\ pool.cash \in Int
    /\ booked \in Int

\* The cap holds across all members and the shared cash is never overdrawn,
\* whatever mix of sizing, exits and partial allocations led here.
PoolSafe ==
    /\ Cardinality(Held(pool)) <= MaxPositions
    /\ pool.cash >= 0

\* No rupee is lost or invented: free cash and locked capital add up to the
\* capital the deployment started with and the results it has realised.
CapitalConserved == Equity(pool) = TotalCapital + booked

\* The manager keeps the promise of SharedCapital.
Cash == pool.cash
Stake == [s \in Held(pool) |-> pool.positions[s].capital]

Capital == INSTANCE SharedCapital
    WITH Slots <- MaxPositions,
         free  <- Cash,
         stake <- Stake

RefinesSharedCapital == Capital!Spec
=============================================================================
