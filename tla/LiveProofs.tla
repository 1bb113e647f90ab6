------------------------------ MODULE LiveProofs ------------------------------
(***************************************************************************)
(* Proofs about LivePortfolio, the book of the live engine, for every pool *)
(* of symbols and any number of cycles and failures, and about             *)
(* SignalPipeline: what the backtest says of a bar, what the live engine   *)
(* says of it, and that neither reads what is still to come, for every     *)
(* parsed condition, timeframe and stream of minutes.                      *)
(***************************************************************************)
EXTENDS LivePortfolio, SignalPipeline, SumLemmas, SequenceTheorems
-----------------------------------------------------------------------------
(* The book of the live engine.                                            *)

\* The promise is inductive together with the types; a cash that is a natural
\* number is both the type and the safety half.
IInv ==
    /\ TypeOK
    /\ PoolSafe

\* A finite set of open symbols gains one element and its size grows by one;
\* losing one never makes it larger.
LEMMA HeldSizes ==
    ASSUME NEW S, NEW T, IsFiniteSet(T), S \subseteq T, NEW x
    PROVE  /\ Cardinality(S) \in Nat
           /\ x \notin S => Cardinality(S \cup {x}) = Cardinality(S) + 1
           /\ Cardinality(S \ {x}) <= Cardinality(S)
<1>1. IsFiniteSet(S)
  BY FS_Subset
<1>2. Cardinality(S) \in Nat
  BY <1>1, FS_CardinalityType
<1>3. x \notin S => Cardinality(S \cup {x}) = Cardinality(S) + 1
  BY <1>1, FS_AddElement
<1>4. Cardinality(S \ {x}) <= Cardinality(S)
  BY <1>1, FS_Subset, S \ {x} \subseteq S
<1> QED
  BY <1>2, <1>3, <1>4

\* The positions of a report are a sequence of lots.
LEMMA ReportTypes ==
    ASSUME NEW list \in Holdings
    PROVE  /\ Len(list) \in Nat /\ DOMAIN list = 1..Len(list)
           /\ \A i \in DOMAIN list : list[i].symbol \in Symbols /\ list[i].capital \in Nat
<1> DEFINE Sector == {SectorOf[s] : s \in Symbols} \cup {NoSector}
           Lot == [symbol : Symbols, capital : Nat, sector : Sector]
<1>1. list \in Seq(Lot)
  BY PortfolioAssumption
<1>2. \A lot \in Lot : lot.symbol \in Symbols /\ lot.capital \in Nat
  <2> HIDE DEF Sector
  <2> QED
    OBVIOUS
<1> HIDE DEF Lot
<1>3. Len(list) \in Nat /\ DOMAIN list = 1..Len(list) /\ \A i \in DOMAIN list : list[i] \in Lot
  BY <1>1
<1> QED
  BY <1>2, <1>3

\* A rebuilt pool keeps, for each symbol that was reported, the capital of one of
\* its positions.
LEMMA RebuiltTypes ==
    ASSUME NEW list \in Holdings
    PROVE  /\ Held(Rebuild(list)) = {list[i].symbol : i \in DOMAIN list}
           /\ Held(Rebuild(list)) \subseteq Symbols
           /\ \A s \in Held(Rebuild(list)) : Rebuild(list).positions[s].capital \in Nat
<1>1. Held(Rebuild(list)) = {list[i].symbol : i \in DOMAIN list}
  BY DEF Rebuild, Held
<1>2. /\ Len(list) \in Nat /\ DOMAIN list = 1..Len(list)
      /\ \A i \in DOMAIN list : list[i].symbol \in Symbols /\ list[i].capital \in Nat
  BY ReportTypes
<1>3. ASSUME NEW s \in {list[i].symbol : i \in DOMAIN list}
      PROVE  LastOf(list, s) \in DOMAIN list /\ list[LastOf(list, s)].symbol = s
  <2> DEFINE T == {n \in Nat : \E i \in DOMAIN list : list[i].symbol = s /\ n = Len(list) - i}
  <2>1. T \subseteq Nat /\ T # {}
    BY <1>2, SMTT(30)
  <2>2. PICK n \in T : \A m \in T : ~ (m < n)
    <3> HIDE DEF T
    <3> QED
      BY <2>1, LeastNumber
  <2>3. PICK i \in DOMAIN list : list[i].symbol = s /\ n = Len(list) - i
    OBVIOUS
  <2>4. \A j \in DOMAIN list : list[j].symbol = s => j <= i
    BY <1>2, <2>2, <2>3, SMTT(30)
  <2> QED
    BY <2>3, <2>4 DEF LastOf
<1>4. \A s \in Held(Rebuild(list)) :
         Rebuild(list).positions[s].capital = list[LastOf(list, s)].capital
  BY <1>1 DEF Rebuild
<1>5. ASSUME NEW s \in Held(Rebuild(list)) PROVE s \in Symbols /\ Rebuild(list).positions[s].capital \in Nat
  <2>1. LastOf(list, s) \in DOMAIN list /\ list[LastOf(list, s)].symbol = s
    BY <1>1, <1>3
  <2> QED
    BY <1>2, <1>4, <2>1
<1> QED
  BY <1>1, <1>5

\* The construction of the object, with or without a rebuild, establishes IInv.
LEMMA InitEstablishes == Init => IInv
<1> SUFFICES ASSUME Init PROVE IInv
  OBVIOUS
<1>1. CASE pool = NewPool
  <2>1. Held(pool) = {}
    BY <1>1 DEF NewPool, Held
  <2>2. Cardinality(Held(pool)) = 0
    BY <2>1, FS_EmptySet
  <2>3. pool.cash = TotalCapital
    BY <1>1 DEF NewPool
  <2> QED
    BY <2>1, <2>2, <2>3, PoolAssumption DEF IInv, TypeOK, PoolSafe, Init
<1>2. CASE \E list \in Holdings : pool = Rebuild(list)
  <2>1. PICK list \in Holdings : pool = Rebuild(list)
    BY <1>2
  <2>2. Rebuild(list).cash \in Nat /\ Cardinality(Held(Rebuild(list))) <= MaxPositions
    BY PortfolioAssumption
  <2> QED
    BY <2>1, <2>2, RebuiltTypes DEF IInv, TypeOK, PoolSafe, Init
<1> QED
  BY <1>1, <1>2 DEF Init

\* An admission takes a free slot and no more than the free cash.
LEMMA EnterPreserves ==
    ASSUME IInv, NEW s \in Symbols, NEW stop \in StopPcts \cup {NoStop}, Enter(s, stop)
    PROVE  IInv'
<1> DEFINE amount == Allocation(pool, stop)
<1>1. amount \in Nat /\ amount <= pool.cash
  <2>1. amount \in Nat
    BY DEF Enter
  <2> QED
    BY <2>1 DEF Allocation, Smaller, IInv, TypeOK
<1>2. s \notin Held(pool) /\ ~(Cardinality(Held(pool)) >= MaxPositions)
  BY DEF Enter, Verdict
<1>3. Cardinality(Held(pool)) \in Nat /\ Cardinality(Held(pool) \cup {s}) = Cardinality(Held(pool)) + 1
  BY <1>2, HeldSizes, PortfolioAssumption DEF IInv, TypeOK
<1>4. pool' = [positions |-> [x \in Held(pool) \cup {s} |->
                                 IF x = s
                                 THEN [capital |-> amount, sector |-> SectorOf[s]]
                                 ELSE pool.positions[x]],
               cash      |-> pool.cash - amount]
  BY <1>2 DEF Enter, Admit
<1>5. Held(pool)' = Held(pool) \cup {s}
  BY <1>4 DEF Held
<1>6. pool'.cash = pool.cash - amount
  BY <1>4
<1>7. \A x \in Held(pool)' :
         pool'.positions[x].capital = IF x = s THEN amount ELSE pool.positions[x].capital
  BY <1>4, <1>5
<1>8. TypeOK'
  BY <1>1, <1>5, <1>6, <1>7 DEF IInv, TypeOK, Enter
<1>9. PoolSafe'
  BY <1>1, <1>2, <1>3, <1>5, <1>6, PoolAssumption DEF IInv, TypeOK, PoolSafe
<1> QED
  BY <1>8, <1>9 DEF IInv

\* A release gives back at least nothing and frees the slot.
LEMMA ExitPreserves ==
    ASSUME IInv, NEW s \in Symbols, NEW result \in Results, Exit(s, result)
    PROVE  IInv'
<1>1. /\ s \in Held(pool)
      /\ result \in Int
      /\ pool.positions[s].capital \in Nat
      /\ pool.positions[s].capital + result >= 0
  BY PortfolioAssumption DEF Exit, IInv, TypeOK
<1>2. pool' = [positions |-> [x \in Held(pool) \ {s} |-> pool.positions[x]],
               cash      |-> pool.cash + pool.positions[s].capital + result]
  BY <1>1 DEF Exit, Release
<1>3. Held(pool)' = Held(pool) \ {s}
  BY <1>2 DEF Held
<1>4. Cardinality(Held(pool)) \in Nat /\ Cardinality(Held(pool) \ {s}) <= Cardinality(Held(pool))
  BY HeldSizes, PortfolioAssumption DEF IInv, TypeOK
<1>5. Cardinality(Held(pool) \ {s}) \in Nat
  BY HeldSizes, PortfolioAssumption, Held(pool) \ {s} \subseteq Symbols DEF IInv, TypeOK
<1>6. pool'.cash = pool.cash + pool.positions[s].capital + result
  BY <1>2
<1>7. \A x \in Held(pool)' : pool'.positions[x] = pool.positions[x]
  BY <1>2, <1>3
<1>8. TypeOK'
  BY <1>1, <1>3, <1>6, <1>7 DEF IInv, TypeOK, Exit
<1>9. PoolSafe'
  BY <1>1, <1>3, <1>4, <1>5, <1>6, PoolAssumption DEF IInv, TypeOK, PoolSafe
<1> QED
  BY <1>8, <1>9 DEF IInv

\* IInv holds in every reachable state.
LEMMA IInvAlways == Spec => []IInv
<1>1. IInv /\ [Next]_vars => IInv'
  <2> SUFFICES ASSUME IInv, [Next]_vars PROVE IInv'
    OBVIOUS
  <2>1. CASE Next
    BY <2>1, EnterPreserves, ExitPreserves DEF Next
  <2>2. CASE UNCHANGED vars
    BY <2>2 DEF vars, IInv, TypeOK, PoolSafe, Held
  <2> QED
    BY <2>1, <2>2
<1> QED
  BY <1>1, InitEstablishes, PTL DEF Spec

\* The cap and the cash of the live portfolio are safe in every reachable state
\* (portfolio_manager.py: "the single authority for a dynamic deployment's shared
\* capital and the max_positions cap across ALL active members").
THEOREM PoolAlwaysSafe == Spec => []PoolSafe
<1>1. IInv => PoolSafe
  BY DEF IInv
<1> QED
  BY <1>1, IInvAlways, PTL

\* The open symbols keep their type.
THEOREM TypeCorrect == Spec => []TypeOK
<1>1. IInv => TypeOK
  BY DEF IInv
<1> QED
  BY <1>1, IInvAlways, PTL

-----------------------------------------------------------------------------
(* The ledger.                                                             *)

\* The capital of the open positions as a function, whose sum CapitalOf is.
CapitalIn(p) == [s \in Held(p) |-> p.positions[s].capital]

LEMMA EquityIsSum == \A p : Equity(p) = p.cash + SumFunctionOnSet(CapitalIn(p), Held(p))
  BY DEF Equity, CapitalOf, SumFunction, CapitalIn

\* Every symbol is reported once, as a list of the positions of an account is.
OneLotPerSymbol ==
    \A list \in Holdings : \A i, j \in DOMAIN list : list[i].symbol = list[j].symbol => i = j

\* The object starts with the capital of the deployment, in cash or in positions.
LEMMA InitConserves ==
    ASSUME Init, OneLotPerSymbol
    PROVE  CapitalConserved
<1>1. CASE pool = NewPool
  <2>1. Held(pool) = {} /\ pool.cash = TotalCapital
    BY <1>1 DEF NewPool, Held
  <2> QED
    BY <2>1, EquityIsSum, SumEmpty, PoolAssumption DEF CapitalConserved, Init
<1>2. CASE \E list \in Holdings : pool = Rebuild(list)
  <2>1. PICK list \in Holdings : pool = Rebuild(list)
    BY <1>2
  <2> DEFINE D == DOMAIN list
             g == [i \in D |-> list[i].symbol]
             paid == [i \in D |-> list[i].capital]
  <2>2. /\ IsFiniteSet(D)
        /\ \A i \in D : list[i].capital \in Int
    <3>1. Len(list) \in Nat /\ D = 1..Len(list) /\ \A i \in D : list[i].capital \in Nat
      BY ReportTypes
    <3>2. IsFiniteSet(1..Len(list))
      BY <3>1, FS_Interval
    <3> QED
      BY <3>1, <3>2
  <2>3. \A i, j \in D : g[i] = g[j] => i = j
    BY DEF OneLotPerSymbol
  <2>4. Held(pool) = {g[i] : i \in D}
    BY <2>1, RebuiltTypes
  <2>5. \A i \in D : LastOf(list, list[i].symbol) = i
    BY PortfolioAssumption, <2>3 DEF LastOf
  <2>6. \A i \in D : CapitalIn(pool)[g[i]] = paid[i]
    BY <2>1, <2>4, <2>5 DEF CapitalIn, Rebuild, Held
  <2>7. SumFunctionOnSet(CapitalIn(pool), Held(pool)) = SumFunctionOnSet([i \in D |-> CapitalIn(pool)[g[i]]], D)
    <3>1. \A i \in D : CapitalIn(pool)[g[i]] \in Int
      BY <2>2, <2>6
    <3> HIDE DEF g, D
    <3> QED
      BY <2>2, <2>3, <2>4, <3>1, SumReindex
  <2>8. [i \in D |-> CapitalIn(pool)[g[i]]] = paid
    BY <2>6
  <2>9. pool.cash = TotalCapital - SumFunctionOnSet(paid, D)
    BY <2>1 DEF Rebuild, SumFunction
  <2>10. SumFunctionOnSet(paid, D) \in Int
    <3>1. \A i \in D : paid[i] \in Int
      BY <2>2
    <3> HIDE DEF paid, D
    <3> QED
      BY <2>2, <3>1, SumType
  <2> HIDE DEF paid, D, g
  <2> QED
    BY <2>7, <2>8, <2>9, <2>10, EquityIsSum, PoolAssumption DEF CapitalConserved, Init
<1> QED
  BY <1>1, <1>2 DEF Init

\* What an admission takes from the cash it adds to the positions.
LEMMA EnterConserves ==
    ASSUME IInv, CapitalConserved,
           NEW s \in Symbols, NEW stop \in StopPcts \cup {NoStop}, Enter(s, stop)
    PROVE  CapitalConserved'
<1> DEFINE amount == Allocation(pool, stop)
           S == Held(pool)
<1>1. amount \in Int /\ s \notin S /\ IsFiniteSet(S) /\ pool.cash \in Int
  BY FS_Subset, PortfolioAssumption DEF Enter, Verdict, IInv, TypeOK
<1>2. pool' = [positions |-> [x \in S \cup {s} |->
                                 IF x = s
                                 THEN [capital |-> amount, sector |-> SectorOf[s]]
                                 ELSE pool.positions[x]],
               cash      |-> pool.cash - amount]
  BY <1>1 DEF Enter, Admit
<1>3. Held(pool)' = S \cup {s}
  BY <1>2 DEF Held
<1>4. CapitalIn(pool)' = [x \in S \cup {s} |-> IF x = s THEN amount ELSE CapitalIn(pool)[x]]
  <2>1. \A x \in S \cup {s} :
           pool'.positions[x].capital = IF x = s THEN amount ELSE pool.positions[x].capital
    BY <1>2
  <2> QED
    BY <1>3, <2>1 DEF CapitalIn
<1>5. \A x \in S : CapitalIn(pool)[x] \in Int
  BY DEF CapitalIn, IInv, TypeOK
<1> DEFINE f == CapitalIn(pool)'
<1>6. /\ \A x \in S \cup {s} : f[x] \in Int
      /\ \A x \in S : f[x] = CapitalIn(pool)[x]
      /\ f[s] = amount
  BY <1>1, <1>4, <1>5
<1> HIDE DEF amount, S, f
<1>7. SumFunctionOnSet(f, S \cup {s}) = amount + SumFunctionOnSet(f, S)
  BY <1>1, <1>6, SumAdd
<1>8. SumFunctionOnSet(f, S) = SumFunctionOnSet(CapitalIn(pool), S)
  BY <1>1, <1>5, <1>6, SumSame
<1>9. SumFunctionOnSet(CapitalIn(pool), S) \in Int
  BY <1>1, <1>5, SumType
<1>10. /\ Equity(pool) = pool.cash + SumFunctionOnSet(CapitalIn(pool), S)
       /\ Equity(pool)' = pool'.cash + SumFunctionOnSet(f, S \cup {s})
  BY <1>3, EquityIsSum DEF S, f
<1>11. pool'.cash = pool.cash - amount
  BY <1>2
<1>12. Equity(pool)' = Equity(pool)
  BY <1>1, <1>7, <1>8, <1>9, <1>10, <1>11
<1> QED
  BY <1>12 DEF CapitalConserved, Enter

\* A release returns the capital of the position with the result of the trade.
LEMMA ExitConserves ==
    ASSUME IInv, CapitalConserved, NEW s \in Symbols, NEW result \in Results, Exit(s, result)
    PROVE  CapitalConserved'
<1> DEFINE S == Held(pool)
           f == CapitalIn(pool)
           g == CapitalIn(pool)'
<1>1. s \in S /\ IsFiniteSet(S) /\ IsFiniteSet(S \ {s}) /\ pool.cash \in Int /\ result \in Int
  BY FS_Subset, PortfolioAssumption DEF Exit, IInv, TypeOK
<1>2. pool' = [positions |-> [x \in S \ {s} |-> pool.positions[x]],
               cash      |-> pool.cash + pool.positions[s].capital + result]
  BY <1>1 DEF Exit, Release
<1>3. Held(pool)' = S \ {s}
  BY <1>2 DEF Held
<1>4. \A x \in S \ {s} : g[x] = f[x]
  BY <1>2, <1>3 DEF CapitalIn
<1>5. \A x \in S : f[x] \in Int
  BY DEF CapitalIn, IInv, TypeOK
<1>6. f[s] = pool.positions[s].capital
  BY <1>1 DEF CapitalIn
<1> HIDE DEF S, f, g
<1>7. SumFunctionOnSet(f, S) = f[s] + SumFunctionOnSet(f, S \ {s})
  BY <1>1, <1>5, SumRemove
<1>8. SumFunctionOnSet(f, S \ {s}) = SumFunctionOnSet(g, S \ {s})
  BY <1>1, <1>4, <1>5, SumSame
<1>9. SumFunctionOnSet(f, S \ {s}) \in Int /\ f[s] \in Int
  BY <1>1, <1>5, SumType
<1>10. /\ Equity(pool) = pool.cash + SumFunctionOnSet(f, S)
       /\ Equity(pool)' = pool'.cash + SumFunctionOnSet(g, S \ {s})
  BY <1>3, EquityIsSum DEF S, f, g
<1>11. pool'.cash = pool.cash + f[s] + result
  BY <1>2, <1>6
<1>12. Equity(pool)' = Equity(pool) + result
  BY <1>1, <1>7, <1>8, <1>9, <1>10, <1>11
<1>13. Equity(pool) = TotalCapital + booked /\ booked' = booked + result /\ booked \in Int
  BY DEF CapitalConserved, Exit, IInv, TypeOK
<1> QED
  BY <1>1, <1>12, <1>13, PoolAssumption DEF CapitalConserved

\* Free cash and locked capital are the starting capital and the realised results,
\* after every admission and release and after a restart that rebuilds the pool from
\* the positions of the broker, one per symbol (portfolio_manager.py: equity, rebuild).
\* With two lots of one symbol it is false: see the README, Divergences.
THEOREM NoRupeeLost ==
    ASSUME OneLotPerSymbol
    PROVE  Spec => []CapitalConserved
<1>1. Init => CapitalConserved
  BY InitConserves
<1>2. IInv /\ CapitalConserved /\ [Next]_vars => CapitalConserved'
  <2> SUFFICES ASSUME IInv, CapitalConserved, [Next]_vars PROVE CapitalConserved'
    OBVIOUS
  <2>1. CASE Next
    BY <2>1, EnterConserves, ExitConserves DEF Next
  <2>2. CASE UNCHANGED vars
    BY <2>2, EquityIsSum DEF vars, CapitalConserved
  <2> QED
    BY <2>1, <2>2
<1> QED
  BY <1>1, <1>2, IInvAlways, PTL DEF Spec
-----------------------------------------------------------------------------
(* The promise of SharedCapital.                                           *)

\* The abstract pool counts with the same Cardinality.
LEMMA SameCardinality == \A S : Capital!Cardinality(S) = Cardinality(S)
  BY DEF Capital!Cardinality, Cardinality

\* An admission is an Open of the abstract pool.
LEMMA EnterRefines ==
    ASSUME IInv, NEW s \in Symbols, NEW stop \in StopPcts \cup {NoStop}, Enter(s, stop)
    PROVE  Capital!Open(s)
<1> DEFINE amount == Allocation(pool, stop)
<1>1. amount \in 1..pool.cash
  <2>1. amount \in Nat
    BY DEF Enter
  <2>2. amount > 0
    BY <2>1 DEF Enter, Verdict
  <2> QED
    BY <2>1, <2>2 DEF Allocation, Smaller, IInv, TypeOK
<1>2. s \notin Held(pool) /\ ~(Cardinality(Held(pool)) >= MaxPositions)
  BY DEF Enter, Verdict
<1>3. Cardinality(Held(pool)) < MaxPositions
  <2>1. Cardinality(Held(pool)) \in Nat
    BY HeldSizes, PortfolioAssumption DEF IInv, TypeOK
  <2> QED
    BY <1>2, <2>1, PoolAssumption
<1>4. pool' = [positions |-> [x \in Held(pool) \cup {s} |->
                                 IF x = s
                                 THEN [capital |-> amount, sector |-> SectorOf[s]]
                                 ELSE pool.positions[x]],
               cash      |-> pool.cash - amount]
  BY <1>2 DEF Enter, Admit
<1>5. Held(pool)' = Held(pool) \cup {s}
  BY <1>4 DEF Held
<1>6. pool'.cash = pool.cash - amount
  BY <1>4
<1>7. Stake' = [x \in DOMAIN Stake \cup {s} |-> IF x = s THEN amount ELSE Stake[x]]
  <2>1. \A x \in Held(pool)' :
           pool'.positions[x].capital = IF x = s THEN amount ELSE pool.positions[x].capital
    BY <1>4, <1>5
  <2> QED
    BY <1>5, <2>1 DEF Stake
<1>8. DOMAIN Stake = Held(pool)
  BY DEF Stake
<1> QED
  BY <1>1, <1>2, <1>3, <1>6, <1>7, <1>8, SameCardinality DEF Capital!Open, Cash

\* A release is a Close of the abstract pool.
LEMMA ExitRefines ==
    ASSUME IInv, NEW s \in Symbols, NEW result \in Results, Exit(s, result)
    PROVE  Capital!Close(s)
<1>1. /\ s \in Held(pool)
      /\ result \in Int
      /\ pool.positions[s].capital \in Nat
      /\ pool.positions[s].capital + result >= 0
  BY PortfolioAssumption DEF Exit, IInv, TypeOK
<1>2. pool' = [positions |-> [x \in Held(pool) \ {s} |-> pool.positions[x]],
               cash      |-> pool.cash + pool.positions[s].capital + result]
  BY <1>1 DEF Exit, Release
<1>3. Held(pool)' = Held(pool) \ {s}
  BY <1>2 DEF Held
<1>4. pool'.cash = pool.cash + pool.positions[s].capital + result
  BY <1>2
<1>5. pool'.cash >= pool.cash /\ pool'.cash \in Nat
  BY <1>1, <1>4 DEF IInv, TypeOK, PoolSafe
<1>6. Stake' = [x \in DOMAIN Stake \ {s} |-> Stake[x]]
  <2>1. \A x \in Held(pool)' : pool'.positions[x] = pool.positions[x]
    BY <1>2, <1>3
  <2> QED
    BY <1>3, <2>1 DEF Stake
<1> QED
  BY <1>1, <1>5, <1>6 DEF Capital!Close, Cash, Stake

\* The live manager implements the abstract pool: it opens only into a free slot,
\* only with free cash, and a close gives back at least nothing.
THEOREM Refinement == Spec => RefinesSharedCapital
<1>1. Init => Capital!Init
  <2>1. DOMAIN Stake = Held(pool)
    BY DEF Stake
  <2> QED
    BY <2>1, InitEstablishes, SameCardinality DEF IInv, TypeOK, PoolSafe, Cash, Capital!Init
<1>2. IInv /\ [Next]_vars => [Capital!Next]_<<Cash, Stake>>
  <2> SUFFICES ASSUME IInv, [Next]_vars PROVE [Capital!Next]_<<Cash, Stake>>
    OBVIOUS
  <2>1. CASE Next
    BY <2>1, EnterRefines, ExitRefines DEF Next, Capital!Next
  <2>2. CASE UNCHANGED vars
    BY <2>2 DEF vars, Held, Cash, Stake
  <2> QED
    BY <2>1, <2>2
<1> QED
  BY <1>1, <1>2, IInvAlways, PTL DEF Spec, RefinesSharedCapital, Capital!Spec
-----------------------------------------------------------------------------
(* A parsed condition.                                                     *)

\* The operands of a node stand before it; the arguments of a call are those its
\* function takes.
LEMMA NodeParts ==
    ASSUME NEW e, IsParsed(e), NEW k \in DOMAIN e
    PROVE  /\ Len(e) \in Nat \ {0} /\ DOMAIN e = 1..Len(e) /\ k \in 1..Len(e)
           /\ e[k].kind \in {"number", "identifier", "unary", "not", "binary", "comparison", "boolean", "function"}
           /\ e[k].kind = "number" => e[k].value \in Nat
           /\ e[k].kind \in {"unary", "not"} => e[k].operand \in 1..(k - 1)
           /\ e[k].kind \in {"binary", "comparison", "boolean"} => e[k].left \in 1..(k - 1) /\ e[k].right \in 1..(k - 1)
           /\ e[k].kind = "function" =>
                 /\ e[k].name \in Functions /\ Arguments(e, e[k].name, e[k].args)
                 /\ e[k].args \in Seq(1..(k - 1)) /\ Len(e[k].args) \in {1, 2}
                 /\ e[k].args[1] \in 1..(k - 1) /\ e[k].args[Len(e[k].args)] \in 1..(k - 1)
<1>1. Len(e) \in Nat \ {0} /\ DOMAIN e = 1..Len(e) /\ e[k] \in Nodes(k)
      /\ (e[k].kind = "function" => Arguments(e, e[k].name, e[k].args))
  BY DEF IsParsed
<1>2. e[k].kind = "function" => e[k].name \in Functions /\ e[k].args \in Seq(1..(k - 1))
  BY <1>1 DEF Nodes
<1>3. e[k].kind = "function" => Len(e[k].args) \in {1, 2}
  BY <1>1, <1>2 DEF Arguments, Functions
<1>4. e[k].kind = "function" => e[k].args[1] \in 1..(k - 1) /\ e[k].args[Len(e[k].args)] \in 1..(k - 1)
  <2> DEFINE args == e[k].args
             P == 1..(k - 1)
  <2>1. ASSUME args \in Seq(P), Len(args) \in {1, 2} PROVE args[1] \in P /\ args[Len(args)] \in P
    <3> HIDE DEF args, P
    <3> QED
      BY <2>1
  <2> QED
    BY <1>2, <1>3, <2>1
<1>5. /\ e[k].kind \in {"number", "identifier", "unary", "not", "binary", "comparison", "boolean", "function"}
      /\ e[k].kind = "number" => e[k].value \in Nat
      /\ e[k].kind \in {"unary", "not"} => e[k].operand \in 1..(k - 1)
      /\ e[k].kind \in {"binary", "comparison", "boolean"} => e[k].left \in 1..(k - 1) /\ e[k].right \in 1..(k - 1)
  BY <1>1 DEF Nodes
<1> QED
  BY <1>1, <1>2, <1>3, <1>4, <1>5

\* What a call, and a node, says depends on the columns of its operands.
LEMMA CallLocal ==
    ASSUME NEW node, NEW e, NEW V, NEW W, NEW df, NEW i, NEW fast, node.kind = "function",
           V[node.args[1]] = W[node.args[1]],
           V[node.args[Len(node.args)]] = W[node.args[Len(node.args)]],
           node.name = "PREV" => V[node.args[2]] = W[node.args[2]]
    PROVE  ValueAt(node, e, V, df, i, fast) = ValueAt(node, e, W, df, i, fast)
<1>1. SlowCall(node, e, V, df, i) = SlowCall(node, e, W, df, i)
  BY DEF SlowCall
<1>2. FastCall(node, e, V, df, i) = FastCall(node, e, W, df, i)
  BY DEF FastCall
<1> QED
  BY <1>1, <1>2 DEF ValueAt

LEMMA FormulaLocal ==
    ASSUME NEW node, NEW e, NEW V, NEW W, NEW df, NEW ef, NEW i, NEW j, NEW fast, NEW slow,
           node.kind \in {"number", "identifier", "unary", "not", "binary", "comparison", "boolean"},
           node.kind = "identifier" => Column(node.name, df, i) = Column(node.name, ef, j),
           node.kind \in {"unary", "not"} => V[node.operand][i] = W[node.operand][j],
           node.kind \in {"binary", "comparison", "boolean"} =>
               V[node.left][i] = W[node.left][j] /\ V[node.right][i] = W[node.right][j]
    PROVE  ValueAt(node, e, V, df, i, fast) = ValueAt(node, e, W, ef, j, slow)
<1>1. CASE node.kind = "number"
  BY <1>1 DEF ValueAt
<1>2. CASE node.kind = "identifier"
  BY <1>2 DEF ValueAt
<1>3. CASE node.kind = "unary"
  BY <1>3 DEF ValueAt
<1>4. CASE node.kind = "not"
  BY <1>4 DEF ValueAt
<1>5. CASE node.kind = "binary"
  BY <1>5 DEF ValueAt
<1>6. CASE node.kind = "comparison"
  BY <1>6 DEF ValueAt
<1>7. CASE node.kind = "boolean"
  BY <1>7 DEF ValueAt
<1> QED
  BY <1>1, <1>2, <1>3, <1>4, <1>5, <1>6, <1>7

\* A node says what it says because of the nodes before it.
LEMMA ValueLocal ==
    ASSUME NEW e, IsParsed(e), NEW k \in DOMAIN e, NEW V, NEW W, \A o \in 1..(k - 1) : V[o] = W[o],
           NEW df, NEW i, NEW fast
    PROVE  ValueAt(e[k], e, V, df, i, fast) = ValueAt(e[k], e, W, df, i, fast)
<1>1. CASE e[k].kind = "function"
  <2>1. /\ V[e[k].args[1]] = W[e[k].args[1]]
        /\ V[e[k].args[Len(e[k].args)]] = W[e[k].args[Len(e[k].args)]]
        /\ e[k].name = "PREV" => V[e[k].args[2]] = W[e[k].args[2]]
    BY <1>1, NodeParts DEF Arguments
  <2> QED
    BY <1>1, <2>1, CallLocal
<1>2. CASE e[k].kind # "function"
  BY <1>2, NodeParts, FormulaLocal
<1> QED
  BY <1>1, <1>2

\* The recursion ends: there are columns that satisfy its equation.
UnfoldsTo(e, df, fast, V, n) ==
    V = [k \in 1..n |-> [i \in DOMAIN df.bars |-> ValueAt(e[k], e, V, df, i, fast)]]

LEMMA ColumnsExist ==
    ASSUME NEW e, IsParsed(e), NEW df, NEW fast
    PROVE  \E V : UnfoldsTo(e, df, fast, V, Len(e))
<1> DEFINE G == {n \in Nat : n <= Len(e) => \E V : UnfoldsTo(e, df, fast, V, n)}
<1>1. Len(e) \in Nat /\ DOMAIN e = 1..Len(e)
  BY DEF IsParsed
<1>2. 0 \in G
  <2>1. UnfoldsTo(e, df, fast, [k \in 1..0 |-> 0], 0)
    BY DEF UnfoldsTo
  <2> QED
    BY <2>1
<1>3. ASSUME NEW n \in Nat, n \in G PROVE n + 1 \in G
  <2> SUFFICES ASSUME n + 1 <= Len(e) PROVE \E V : UnfoldsTo(e, df, fast, V, n + 1)
    OBVIOUS
  <2>1. PICK V : UnfoldsTo(e, df, fast, V, n)
    BY <1>1, <1>3
  <2> DEFINE W == [k \in 1..(n + 1) |-> [i \in DOMAIN df.bars |-> ValueAt(e[k], e, V, df, i, fast)]]
  <2>2. ASSUME NEW k \in 1..n PROVE V[k] = W[k]
    <3>1. V = [o \in 1..n |-> [i \in DOMAIN df.bars |-> ValueAt(e[o], e, V, df, i, fast)]]
      BY <2>1 DEF UnfoldsTo
    <3>2. V[k] = [i \in DOMAIN df.bars |-> ValueAt(e[k], e, V, df, i, fast)]
      BY ONLY <3>1, k \in 1..n
    <3>3. W[k] = [i \in DOMAIN df.bars |-> ValueAt(e[k], e, V, df, i, fast)]
      OBVIOUS
    <3> QED
      BY ONLY <3>2, <3>3
  <2>3. ASSUME NEW k \in 1..(n + 1), NEW i \in DOMAIN df.bars
        PROVE  ValueAt(e[k], e, V, df, i, fast) = ValueAt(e[k], e, W, df, i, fast)
    <3> HIDE DEF W
    <3>1. k \in DOMAIN e /\ \A o \in 1..(k - 1) : o \in 1..n
      BY <1>1
    <3>2. \A o \in 1..(k - 1) : V[o] = W[o]
      BY <2>2, <3>1
    <3> QED
      BY <3>1, <3>2, ValueLocal
  <2>4. W = [k \in 1..(n + 1) |-> [i \in DOMAIN df.bars |-> ValueAt(e[k], e, W, df, i, fast)]]
    BY <2>3
  <2> HIDE DEF W
  <2> QED
    BY <2>4 DEF UnfoldsTo
<1> HIDE DEF G
<1>4. Len(e) \in G
  BY <1>1, <1>2, <1>3, InductionOnNumbers
<1> QED
  BY <1>1, <1>4 DEF G

\* The columns of every node of e, those of the nodes before it given.
Solves(V, e, df, fast) ==
    \A k \in DOMAIN e : /\ DOMAIN V[k] = DOMAIN df.bars
                        /\ \A i \in DOMAIN df.bars : V[k][i] = ValueAt(e[k], e, V, df, i, fast)

LEMMA ColumnsUnfold ==
    ASSUME NEW e, IsParsed(e), NEW df, NEW fast
    PROVE  Solves(Columns(e, df, fast), e, df, fast)
<1>1. DOMAIN e = 1..Len(e)
  BY DEF IsParsed
<1> DEFINE V == CHOOSE V : UnfoldsTo(e, df, fast, V, Len(e))
<1>2. Columns(e, df, fast) = V
  BY <1>1 DEF Columns, UnfoldsTo
<1>3. UnfoldsTo(e, df, fast, V, Len(e))
  BY ColumnsExist
<1>4. V = [k \in DOMAIN e |-> [i \in DOMAIN df.bars |-> ValueAt(e[k], e, V, df, i, fast)]]
  BY <1>1, <1>3 DEF UnfoldsTo
<1> HIDE DEF V
<1> QED
  BY <1>2, <1>4 DEF Solves

\* A literal says its number at every bar.
LEMMA LiteralColumn ==
    ASSUME NEW e, IsParsed(e), NEW k \in DOMAIN e, e[k].kind = "number",
           NEW df, NEW fast, NEW V, Solves(V, e, df, fast), NEW i \in DOMAIN df.bars
    PROVE  V[k][i] = e[k].value /\ e[k].value \in Nat
<1>1. V[k][i] = ValueAt(e[k], e, V, df, i, fast)
  BY DEF Solves
<1> QED
  BY <1>1, NodeParts DEF ValueAt

\* The arguments of a call: the first, and the last, which is its period.
LEMMA CallParts ==
    ASSUME NEW e, IsParsed(e), NEW k \in Calls(e), NEW args, args = e[k].args
    PROVE  /\ k \in DOMAIN e /\ e[k].kind = "function" /\ e[k].name \in Functions
           /\ Len(args) \in {1, 2} /\ args[1] \in 1..(k - 1) /\ args[Len(args)] \in 1..(k - 1)
           /\ args[1] \in DOMAIN e /\ args[Len(args)] \in DOMAIN e
           /\ Arguments(e, e[k].name, args) /\ Period(e, k) = e[args[Len(args)]]
           /\ e[k].name = "PREV" => Len(args) = 2
<1>1. k \in DOMAIN e /\ e[k].kind = "function"
  BY DEF Calls
<1>2. /\ e[k].name \in Functions /\ Arguments(e, e[k].name, args)
      /\ Len(args) \in {1, 2} /\ args[1] \in 1..(k - 1) /\ args[Len(args)] \in 1..(k - 1)
      /\ DOMAIN e = 1..Len(e) /\ k \in 1..Len(e) /\ Len(e) \in Nat
  BY <1>1, NodeParts
<1>3. \A o \in 1..(k - 1) : o \in DOMAIN e
  BY <1>2
<1> QED
  BY <1>1, <1>2, <1>3 DEF Arguments, Period, Last

-----------------------------------------------------------------------------
(* The bins that traded, in order.                                         *)

Rank(S, c) == Cardinality({d \in S : d < c})

Sorting(S) == [k \in 1..Cardinality(S) |-> CHOOSE c \in S : Rank(S, c) = k - 1]

Below == {p \in Int \X Int : p[1] < p[2]}

InPlace(S, q) ==
    /\ Cardinality(S) \in Nat
    /\ q \in [1..Cardinality(S) -> S]
    /\ \A k \in 1..Cardinality(S) : Rank(S, q[k]) = k - 1
    /\ \A c \in S : \E k \in 1..Cardinality(S) : q[k] = c
    /\ \A i, j \in 1..Cardinality(S) : i < j => q[i] < q[j]

\* Numbers put in order: the k-th has k - 1 below it.
LEMMA NumbersInOrder ==
    ASSUME NEW S, S \subseteq Int, IsFiniteSet(S)
    PROVE  InPlace(S, Sorting(S))
<1> DEFINE n == Cardinality(S)
           q == Sorting(S)
<1>1. \A c, d \in S : <<d, c>> \in Below <=> d < c
  BY DEF Below
<1>2. \A c \in S : Under(Below, S, c) = {d \in S : d < c}
  BY <1>1 DEF Under
<1>3. StrictOrder(Below, S)
  <2>1. \A x, y, z \in S : /\ ~ (x < x)
                           /\ x # y => x < y \/ y < x
                           /\ x < y /\ y < z => x < z
    BY ONLY S \subseteq Int
  <2>2. \A x \in S : <<x, x>> \notin Below
    BY <1>1, <2>1
  <2>3. \A x, y \in S : x # y => <<x, y>> \in Below \/ <<y, x>> \in Below
    BY <1>1, <2>1
  <2>4. \A x, y, z \in S : <<x, y>> \in Below /\ <<y, z>> \in Below => <<x, z>> \in Below
    BY <1>1, <2>1
  <2> QED
    BY <2>2, <2>3, <2>4 DEF StrictOrder
<1>4. n \in Nat
  BY FS_CardinalityType
<1>5. \A k \in 1..n : \E c \in S : Cardinality({d \in S : d < c}) = k - 1
  <2>1. \A k \in 1..n : \E c \in S : Cardinality(Under(Below, S, c)) = k - 1
    BY ONLY <1>3, Places, IsFiniteSet(S)
  <2> QED
    BY ONLY <1>2, <2>1
<1>6. q = [k \in 1..n |-> CHOOSE c \in S : Cardinality({d \in S : d < c}) = k - 1]
  BY DEF Sorting, Rank
<1> HIDE DEF n, q
<1>7. \A k \in 1..n : q[k] \in S /\ Cardinality({d \in S : d < q[k]}) = k - 1
  BY <1>5, <1>6
<1>8. q \in [1..n -> S]
  BY <1>6, <1>7
<1>9. Sorted(q, Below, S)
  <2>1. \A k \in 1..n : Cardinality(Under(Below, S, q[k])) = k - 1
    BY <1>2, <1>7
  <2> QED
    BY <1>3, <1>8, <2>1, PlacesSort DEF n
<1>10. \A i, j \in 1..n : i < j => q[i] < q[j]
  BY <1>1, <1>7, <1>9 DEF Sorted, n
<1>11. InPlace(S, q)
  BY <1>4, <1>7, <1>8, <1>9, <1>10 DEF Sorted, n, Rank, InPlace
<1> QED
  BY <1>11 DEF q

\* A series of minutes, in any order.
LEMMA MinutesParts ==
    ASSUME NEW ms \in Seq(Minutes), NEW f \in Nat \ {0}
    PROVE  /\ IsFiniteSet(Range(ms)) /\ IsFiniteSet({m.at \div f : m \in Range(ms)})
           /\ \A m \in Range(ms) : m \in Minutes /\ m.at \in Nat /\ m.at \div f \in Nat /\ m.at <= LastMinute
           /\ \A m \in Range(ms) : f * (m.at \div f) <= m.at /\ m.at < f * (m.at \div f) + f
<1> DEFINE D == DOMAIN ms
           r == [j \in D |-> ms[j]]
           b == [j \in D |-> ms[j].at \div f]
<1>1. D = 1..Len(ms) /\ Len(ms) \in Nat /\ IsFiniteSet(D)
  <2>1. D = 1..Len(ms) /\ Len(ms) \in Nat
    OBVIOUS
  <2> QED
    BY <2>1, FS_Interval
<1>2. Range(ms) = {ms[j] : j \in D}
  BY DEF Range
<1>3. {m.at \div f : m \in Range(ms)} = {ms[j].at \div f : j \in D}
  BY <1>2
<1>4. r \in Surjection(D, {ms[j] : j \in D}) /\ b \in Surjection(D, {ms[j].at \div f : j \in D})
  BY DEF Surjection
<1> HIDE DEF r, b
<1>5. IsFiniteSet(Range(ms)) /\ IsFiniteSet({m.at \div f : m \in Range(ms)})
  BY <1>1, <1>2, <1>3, <1>4, FS_Surjection
<1>6. \A m \in Range(ms) : m \in Minutes
  BY <1>1, <1>2
<1>7. \A m \in Minutes : m.at \in Nat /\ m.at <= LastMinute
  BY SignalAssumption DEF Minutes
<1>8. ASSUME NEW a \in Nat PROVE a \div f \in Nat /\ f * (a \div f) <= a /\ a < f * (a \div f) + f
  BY ONLY a \in Nat, f \in Nat \ {0}
<1> QED
  BY <1>5, <1>6, <1>7, <1>8

BinsOf(ms, f) == {m.at \div f : m \in Range(ms)}

\* The bars B of the n bins S that traded, q[k] the k-th of them.
StandFor(B, q, n, S, ms, f) ==
    /\ n \in Nat /\ S = BinsOf(ms, f) /\ S \subseteq Nat /\ DOMAIN B = 1..n /\ Len(B) = n
    /\ q \in [1..n -> S]
    /\ \A k \in 1..n : Rank(S, q[k]) = k - 1
    /\ \A c \in S : \E k \in 1..n : q[k] = c
    /\ \A k \in 1..n : B[k] = BarOf(Bin(ms, f, q[k]), f) /\ B[k].at = f * q[k] /\ B[k].at \in Nat
    /\ \A i, j \in 1..n : i < j => B[i].at < B[j].at

\* A bar stands for one bin, stamped with its start.
LEMMA BarsParts ==
    ASSUME NEW ms \in Seq(Minutes), NEW f \in Nat \ {0}
    PROVE  \E q, n, S : StandFor(Resampled(ms, f), q, n, S, ms, f)
<1> DEFINE S == BinsOf(ms, f)
           q == Bins(ms, f)
           B == Resampled(ms, f)
           n == Cardinality(S)
<1>1. /\ IsFiniteSet(S) /\ S \subseteq Nat
      /\ \A m \in Range(ms) : m \in Minutes /\ m.at \in Nat /\ m.at \div f \in Nat /\ m.at <= LastMinute
  BY MinutesParts DEF BinsOf
<1>2. q = Sorting(S)
  BY DEF Bins, InOrder, BinsOf, Sorting, Rank
<1>3. /\ n \in Nat /\ q \in [1..n -> S]
      /\ \A k \in 1..n : Rank(S, q[k]) = k - 1
      /\ \A c \in S : \E k \in 1..n : q[k] = c
      /\ \A i, j \in 1..n : i < j => q[i] < q[j]
  <2>1. S \subseteq Int
    BY <1>1
  <2>2. q = Sorting(S)
    BY <1>2
  <2>3. IsFiniteSet(S)
    BY <1>1
  <2> HIDE DEF S, q, B, n
  <2>4. InPlace(S, q)
    BY <2>1, <2>2, <2>3, NumbersInOrder
  <2> QED
    BY <2>4 DEF n, InPlace
<1>4. B = [k \in 1..n |-> BarOf(Bin(ms, f, q[k]), f)]
  BY <1>3 DEF Resampled
<1>5. ASSUME NEW k \in 1..n
      PROVE  B[k] = BarOf(Bin(ms, f, q[k]), f) /\ B[k].at = f * q[k] /\ B[k].at \in Nat
  <2> DEFINE A == Bin(ms, f, q[k])
             last == CHOOSE m \in A : \A o \in A : o.at <= m.at
             T == {m.at : m \in A}
  <2>1. q[k] \in S /\ q[k] \in Nat
    BY <1>1, <1>3
  <2>2. A # {} /\ \A m \in A : m \in Range(ms) /\ m.at \div f = q[k] /\ m.at \in Nat /\ m.at <= LastMinute
    BY <1>1, <2>1 DEF Bin, BinsOf
  <2>3. \E m \in A : \A o \in A : o.at <= m.at
    <3>1. T \subseteq Nat /\ T # {} /\ (\A x \in T : x <= LastMinute) /\ LastMinute \in Nat
      BY <2>2, SignalAssumption
    <3> HIDE DEF T, A
    <3>2. PICK x \in T : \A y \in T : x >= y
      BY <3>1, GreatestNumber
    <3>3. PICK m \in A : x = m.at
      BY DEF T
    <3>4. \A o \in A : o.at \in T
      BY DEF T
    <3>5. \A o \in A : m.at >= o.at /\ m.at \in Nat /\ o.at \in Nat
      BY <2>2, <3>2, <3>3, <3>4
    <3> QED
      BY <3>5
  <2>4. last \in A
    BY <2>3
  <2>5. last.at \div f = q[k]
    BY <2>2, <2>4
  <2> HIDE DEF last
  <2>6. BarOf(A, f).at = f * (last.at \div f)
    BY DEF BarOf, last
  <2>7. B[k] = BarOf(A, f)
    BY <1>4
  <2>8. f * q[k] \in Nat
    BY ONLY <2>1, f \in Nat \ {0}
  <2> QED
    BY <2>5, <2>6, <2>7, <2>8
<1>6. ASSUME NEW i \in 1..n, NEW j \in 1..n, i < j PROVE B[i].at < B[j].at
  <2>1. q[i] < q[j] /\ q[i] \in Nat /\ q[j] \in Nat /\ B[i].at = f * q[i] /\ B[j].at = f * q[j]
    BY <1>1, <1>3, <1>5, <1>6
  <2>2. f * q[i] < f * q[j]
    BY ONLY <2>1, f \in Nat \ {0}
  <2> QED
    BY <2>1, <2>2
<1>7. DOMAIN B = 1..n /\ Len(B) = n
  BY <1>3, <1>4
<1>8. StandFor(B, q, n, S, ms, f)
  <2>1. S = BinsOf(ms, f)
    OBVIOUS
  <2> HIDE DEF S, q, B, n
  <2> QED
    BY <1>1, <1>3, <1>5, <1>6, <1>7, <2>1 DEF StandFor
<1> HIDE DEF S, q, B, n
<1>9. \E x, y, z : StandFor(B, x, y, z, ms, f)
  BY <1>8
<1> QED
  BY <1>9 DEF B

\* Two series with the same minutes before t.
SameBefore(ms, ns, t) == {m \in Range(ms) : m.at < t} = {m \in Range(ns) : m.at < t}

\* A bar that had closed by then stands at the same place in both.
LEMMA SameBars ==
    ASSUME NEW ms \in Seq(Minutes), NEW ns \in Seq(Minutes), NEW t \in Nat, SameBefore(ms, ns, t),
           NEW f \in Nat \ {0}, NEW B, B = Resampled(ms, f), NEW C, C = Resampled(ns, f),
           NEW i \in DOMAIN B, B[i].at + f <= t
    PROVE  i \in DOMAIN C /\ C[i] = B[i]
<1>1. PICK q, n, S : StandFor(B, q, n, S, ms, f)
  BY BarsParts
<1>2. PICK p, m, R : StandFor(C, p, m, R, ns, f)
  BY BarsParts
<1> DEFINE b == q[i]
<1>3. i \in 1..n /\ i \in Nat /\ b \in S /\ b \in Nat /\ f * b + f <= t /\ Rank(S, b) = i - 1
      /\ B[i] = BarOf(Bin(ms, f, b), f)
  <2>1. i \in 1..n /\ n \in Nat
    BY <1>1 DEF StandFor
  <2>2. i \in Nat /\ b \in S /\ S \subseteq Nat /\ Rank(S, b) = i - 1
    <3> HIDE DEF b
    <3>1. q \in [1..n -> S] /\ S \subseteq Nat /\ \A k \in 1..n : Rank(S, q[k]) = k - 1
      BY <1>1 DEF StandFor
    <3>2. i \in Nat /\ q[i] \in S /\ Rank(S, q[i]) = i - 1
      BY <2>1, <3>1
    <3> QED
      BY <3>1, <3>2 DEF b
  <2>3. B[i] = BarOf(Bin(ms, f, b), f) /\ B[i].at = f * b
    BY <1>1, <2>1 DEF StandFor
  <2> QED
    BY <2>1, <2>2, <2>3
<1> HIDE DEF b
<1>4. ASSUME NEW d \in Nat, d <= b PROVE Bin(ms, f, d) = Bin(ns, f, d) /\ (d \in S <=> d \in R)
  <2>1. f * d + f <= t
    BY ONLY <1>3, <1>4, f \in Nat \ {0}, t \in Nat, d \in Nat, d <= b
  <2>2. \A x \in Range(ms) \cup Range(ns) : x.at \div f = d => x.at < t
    <3>1. \A x \in Range(ms) \cup Range(ns) : x.at \in Nat /\ x.at < f * (x.at \div f) + f
      BY MinutesParts
    <3>2. f * d \in Nat
      BY ONLY f \in Nat \ {0}, d \in Nat
    <3> QED
      BY <2>1, <3>1, <3>2
  <2>3. Bin(ms, f, d) = Bin(ns, f, d)
    BY <2>2 DEF Bin, SameBefore
  <2>4. (d \in S <=> Bin(ms, f, d) # {}) /\ (d \in R <=> Bin(ns, f, d) # {})
    BY <1>1, <1>2 DEF StandFor, BinsOf, Bin
  <2> QED
    BY <2>3, <2>4
<1>5. b \in R /\ Bin(ns, f, b) = Bin(ms, f, b)
  BY <1>3, <1>4
<1>6. Rank(S, b) = Rank(R, b)
  <2>1. S \subseteq Nat /\ R \subseteq Nat
    BY <1>1, <1>2 DEF StandFor
  <2>2. \A d \in Nat : d < b => d <= b
    BY <1>3
  <2>3. {d \in S : d < b} = {d \in R : d < b}
    BY <1>4, <2>1, <2>2
  <2> QED
    BY <2>3 DEF Rank
<1>7. PICK k \in 1..m : p[k] = b
  BY <1>2, <1>5 DEF StandFor
<1>8. k = i
  <2>1. Rank(R, b) = k - 1 /\ k \in Nat
    BY <1>2, <1>7 DEF StandFor
  <2> QED
    BY <1>3, <1>6, <2>1
<1>9. i \in DOMAIN C /\ C[i] = BarOf(Bin(ns, f, b), f)
  BY <1>2, <1>7, <1>8 DEF StandFor
<1> QED
  BY <1>3, <1>5, <1>9
-----------------------------------------------------------------------------
(* What is read at a bar depends on the bars up to it.                     *)

\* Series of bars that agree on the first c.
Agree(B, C, c) ==
    /\ c \in Nat /\ Len(B) \in Nat /\ Len(C) \in Nat /\ c <= Len(B) /\ c <= Len(C)
    /\ DOMAIN B = 1..Len(B) /\ DOMAIN C = 1..Len(C)
    /\ \A i \in 1..c : B[i] = C[i]

LEMMA SwingsAgree ==
    ASSUME NEW B, NEW C, NEW c, Agree(B, C, c), NEW i \in 1..c
    PROVE  (SwingHigh(B, i) <=> SwingHigh(C, i)) /\ (SwingLow(B, i) <=> SwingLow(C, i))
<1> DEFINE p == i - SwingWindow
<1>1. SwingWindow \in Nat /\ c \in Nat /\ c <= Len(B) /\ c <= Len(C) /\ Len(B) \in Nat /\ Len(C) \in Nat
      /\ i \in Nat /\ i >= 1 /\ i <= c /\ p \in Int /\ p + SwingWindow = i
  BY SignalAssumption DEF Agree
<1>2. Dominated(B, p) = Dominated(C, p)
  BY <1>1 DEF Dominated
<1>3. \A j \in Dominated(B, p) \cup {p} : Dominated(B, p) # {} => B[j] = C[j]
  <2>1. \A j \in Dominated(B, p) \cup {p} : Dominated(B, p) # {} => j \in 1..c
    BY <1>1 DEF Dominated
  <2> QED
    BY <2>1 DEF Agree
<1> HIDE DEF p
<1>4. (LocalHigh(B, p) <=> LocalHigh(C, p)) /\ (LocalLow(B, p) <=> LocalLow(C, p))
  BY <1>2, <1>3 DEF LocalHigh, LocalLow
<1> QED
  BY <1>4 DEF SwingHigh, SwingLow, p

\* The last of the swings known before a bar.
LEMMA KnownAgree ==
    ASSUME NEW B, NEW C, NEW c, Agree(B, C, c), NEW i \in 1..c,
           NEW K, K = {j \in 1..(i - 1) : SwingHigh(B, j)}, NEW L, L = {j \in 1..(i - 1) : SwingLow(B, j)}
    PROVE  /\ K = {j \in 1..(i - 1) : SwingHigh(C, j)} /\ L = {j \in 1..(i - 1) : SwingLow(C, j)}
           /\ K # {} => /\ Max(K) \in 1..(i - 1) /\ SwingHigh(B, Max(K)) /\ B[Max(K)] = C[Max(K)]
           /\ L # {} => /\ Max(L) \in 1..(i - 1) /\ SwingLow(B, Max(L)) /\ B[Max(L)] = C[Max(L)]
<1>1. c \in Nat /\ \A j \in 1..(i - 1) : j \in 1..c /\ B[j] = C[j]
  BY DEF Agree
<1>2. i - 1 \in Nat /\ K \in SUBSET (1..(i - 1)) /\ L \in SUBSET (1..(i - 1))
  BY <1>1
<1>3. K # {} => Max(K) \in K
  BY ONLY <1>2, LastIndex
<1>4. L # {} => Max(L) \in L
  BY ONLY <1>2, LastIndex
<1>5. \A j \in 1..(i - 1) : (SwingHigh(B, j) <=> SwingHigh(C, j)) /\ (SwingLow(B, j) <=> SwingLow(C, j))
  BY <1>1, SwingsAgree
<1> QED
  BY <1>1, <1>3, <1>4, <1>5

\* The pivot a swing confirms.
LEMMA PivotsAgree ==
    ASSUME NEW B, NEW C, NEW c, Agree(B, C, c), NEW i \in 1..c, SwingHigh(B, i) \/ SwingLow(B, i)
    PROVE  B[i - SwingWindow] = C[i - SwingWindow]
<1>1. Dominated(B, i - SwingWindow) # {}
  BY DEF SwingHigh, SwingLow, LocalHigh, LocalLow
<1>2. i - SwingWindow \in 1..c
  BY <1>1, SignalAssumption DEF Dominated, Agree
<1> QED
  BY <1>2 DEF Agree

LEMMA PatternsAgree ==
    ASSUME NEW B, NEW C, NEW c, Agree(B, C, c), NEW i \in 1..c, NEW name \in PatternNames
    PROVE  Truth(Pattern(name, B, i)) = Truth(Pattern(name, C, i))
<1> DEFINE K == {j \in 1..(i - 1) : SwingHigh(B, j)}
           L == {j \in 1..(i - 1) : SwingLow(B, j)}
<1>1. B[i] = C[i] /\ (i > 2 => B[i - 2] = C[i - 2])
  BY DEF Agree
<1>2. (SwingHigh(B, i) <=> SwingHigh(C, i)) /\ (SwingLow(B, i) <=> SwingLow(C, i))
  BY SwingsAgree
<1>3. /\ K = {j \in 1..(i - 1) : SwingHigh(C, j)} /\ L = {j \in 1..(i - 1) : SwingLow(C, j)}
      /\ K # {} => B[Max(K)] = C[Max(K)] /\ B[Max(K) - SwingWindow] = C[Max(K) - SwingWindow]
      /\ L # {} => B[Max(L)] = C[Max(L)] /\ B[Max(L) - SwingWindow] = C[Max(L) - SwingWindow]
  <2>1. /\ K = {j \in 1..(i - 1) : SwingHigh(C, j)} /\ L = {j \in 1..(i - 1) : SwingLow(C, j)}
        /\ K # {} => Max(K) \in 1..(i - 1) /\ SwingHigh(B, Max(K)) /\ B[Max(K)] = C[Max(K)]
        /\ L # {} => Max(L) \in 1..(i - 1) /\ SwingLow(B, Max(L)) /\ B[Max(L)] = C[Max(L)]
    BY KnownAgree
  <2>2. \A j \in 1..(i - 1) : j \in 1..c
    BY DEF Agree
  <2> HIDE DEF K, L
  <2> QED
    BY <2>1, <2>2, PivotsAgree
<1>4. (SwingHigh(B, i) => B[i - SwingWindow] = C[i - SwingWindow])
      /\ (SwingLow(B, i) => B[i - SwingWindow] = C[i - SwingWindow])
  BY PivotsAgree
<1>5. BreaksUp(B, i) <=> BreaksUp(C, i)
  BY <1>1, <1>3 DEF BreaksUp
<1>6. BreaksDown(B, i) <=> BreaksDown(C, i)
  BY <1>1, <1>3 DEF BreaksDown
<1>7. HigherHigh(B, i) <=> HigherHigh(C, i)
  BY <1>2, <1>3, <1>4 DEF HigherHigh
<1>8. LowerLow(B, i) <=> LowerLow(C, i)
  BY <1>2, <1>3, <1>4 DEF LowerLow
<1>9. (BullishGap(B, i) <=> BullishGap(C, i)) /\ (BearishGap(B, i) <=> BearishGap(C, i))
  BY <1>1 DEF BullishGap, BearishGap
<1>10. Pattern(name, B, i) <=> Pattern(name, C, i)
  BY <1>2, <1>5, <1>6, <1>7, <1>8, <1>9 DEF Pattern, PatternNames
<1> QED
  BY <1>10 DEF Truth

\* The bars of the opening range, of those up to the i-th.
OpeningBars(n, B, i) ==
    {B[j] : j \in {k \in 1..i : SessionOf(B[k]) = SessionOf(B[i]) /\ PlaceInSession(B, k) <= n}}

Opening(name, n, B, i) ==
    IF n <= 0 \/ PlaceInSession(B, i) <= n THEN NaN ELSE Extreme(name, OpeningBars(n, B, i))

LEMMA PlacesGrow ==
    ASSUME NEW B, NEW i \in Nat, NEW j \in Nat, i <= j, SessionOf(B[i]) = SessionOf(B[j])
    PROVE  /\ PlaceInSession(B, i) \in Nat /\ PlaceInSession(B, j) \in Nat
           /\ PlaceInSession(B, i) <= PlaceInSession(B, j)
<1>1. IsFiniteSet(1..j) /\ 1..i \in SUBSET (1..j)
  BY FS_Interval
<1>2. SessionSoFar(B, i) \in SUBSET SessionSoFar(B, j) /\ SessionSoFar(B, j) \in SUBSET (1..j)
  BY <1>1 DEF SessionSoFar
<1>3. IsFiniteSet(SessionSoFar(B, i)) /\ IsFiniteSet(SessionSoFar(B, j))
  BY <1>1, <1>2, FS_Subset
<1> QED
  BY <1>2, <1>3, FS_Subset, FS_CardinalityType DEF PlaceInSession

\* A bar after the opening window is never in it: neither way of computing the range
\* looks past the bar it is asked at.
LEMMA OpeningsBefore ==
    ASSUME NEW B, Len(B) \in Nat, DOMAIN B = 1..Len(B), NEW i \in 1..Len(B), NEW n \in Nat, NEW name
    PROVE  OpeningRange(name, n, B, i) = Opening(name, n, B, i)
           /\ OpeningColumn(name, n, B, i) = Opening(name, n, B, i)
<1> DEFINE In(k) == SessionOf(B[k]) = SessionOf(B[i]) /\ PlaceInSession(B, k) <= n
           W == {k \in DOMAIN B : In(k)}
<1>1. \A k \in 1..Len(B) : k \in Nat /\ PlaceInSession(B, k) \in Nat
  BY PlacesGrow
<1>2. ASSUME ~ (PlaceInSession(B, i) <= n) PROVE W = {k \in 1..i : In(k)}
  <2>1. ASSUME NEW k \in 1..Len(B), In(k) PROVE k <= i
    <3> SUFFICES ASSUME ~ (k <= i) PROVE FALSE
      OBVIOUS
    <3>1. i <= k /\ i \in Nat /\ k \in Nat
      OBVIOUS
    <3>2. PlaceInSession(B, i) <= PlaceInSession(B, k) /\ PlaceInSession(B, i) \in Nat /\ PlaceInSession(B, k) \in Nat
      BY <2>1, <3>1, PlacesGrow
    <3> QED
      BY <1>2, <2>1, <3>2
  <2>2. \A k \in 1..i : k \in 1..Len(B)
    OBVIOUS
  <2>3. \A k \in 1..Len(B) : k <= i => k \in 1..i
    OBVIOUS
  <2> HIDE DEF In
  <2> QED
    BY <2>1, <2>2, <2>3
<1>3. {k \in {j \in DOMAIN B : SessionOf(B[j]) = SessionOf(B[i])} : PlaceInSession(B, k) <= n} = W
  OBVIOUS
<1>4. {k \in {j \in DOMAIN B : PlaceInSession(B, j) <= n} : SessionOf(B[k]) = SessionOf(B[i])} = W
  OBVIOUS
<1>5. OpeningRange(name, n, B, i) = IF n <= 0 \/ PlaceInSession(B, i) <= n THEN NaN ELSE Extreme(name, {B[j] : j \in W})
  BY <1>3 DEF OpeningRange
<1>6. i \in {j \in DOMAIN B : PlaceInSession(B, j) <= n} <=> PlaceInSession(B, i) <= n
  OBVIOUS
<1>7. OpeningColumn(name, n, B, i) = IF n <= 0 \/ PlaceInSession(B, i) <= n THEN NaN ELSE Extreme(name, {B[j] : j \in W})
  BY <1>4, <1>6 DEF OpeningColumn
<1>8. ~ (PlaceInSession(B, i) <= n) => {B[j] : j \in W} = OpeningBars(n, B, i)
  <2>1. OpeningBars(n, B, i) = {B[j] : j \in {k \in 1..i : In(k)}}
    BY DEF OpeningBars
  <2> HIDE DEF W, In
  <2> QED
    BY <1>2, <2>1
<1> HIDE DEF W, In
<1> QED
  BY <1>5, <1>7, <1>8 DEF Opening

LEMMA OpeningsAgree ==
    ASSUME NEW B, NEW C, NEW c, Agree(B, C, c), NEW i \in 1..c, NEW n, NEW name
    PROVE  Opening(name, n, B, i) = Opening(name, n, C, i)
<1>1. \A j \in 1..i : j \in 1..c /\ B[j] = C[j] /\ 1..j \subseteq 1..c
  BY DEF Agree
<1>2. \A j \in 1..i : SessionSoFar(B, j) = SessionSoFar(C, j)
  BY <1>1 DEF SessionSoFar, Agree
<1>3. i \in 1..i
  BY DEF Agree
<1>4. \A j \in 1..i : PlaceInSession(B, j) = PlaceInSession(C, j)
  BY <1>2 DEF PlaceInSession
<1>5. {k \in 1..i : SessionOf(B[k]) = SessionOf(B[i]) /\ PlaceInSession(B, k) <= n}
      = {k \in 1..i : SessionOf(C[k]) = SessionOf(C[i]) /\ PlaceInSession(C, k) <= n}
  BY <1>1, <1>3, <1>4
<1>6. OpeningBars(n, B, i) = OpeningBars(n, C, i)
  BY <1>1, <1>5 DEF OpeningBars
<1> QED
  BY <1>3, <1>4, <1>6 DEF Opening

\* Frames that agree on the first c bars.
SamePast(df, ef, c) ==
    /\ Agree(df.bars, ef.bars, c)
    /\ \A i \in 1..c : df.reference[i] = ef.reference[i]
    /\ df.enriched = ef.enriched

LEMMA RollingAgree ==
    ASSUME NEW df, NEW ef, NEW c, SamePast(df, ef, c), NEW i \in 1..c, NEW n \in Nat, NEW agg, NEW field
    PROVE  Rolling(agg, field, n, df, i) = Rolling(agg, field, n, ef, i)
<1> DEFINE D == (i - n + 1)..i
           V == [j \in D |-> Field(field, df.bars[j])]
           W == [j \in D |-> Field(field, ef.bars[j])]
<1>1. CASE n <= 0 \/ i < n
  BY <1>1 DEF Rolling
<1>2. CASE ~ (n <= 0 \/ i < n)
  <2>1. \A j \in D : j \in 1..c
    BY <1>2 DEF SamePast, Agree
  <2>2. \A j \in D : df.bars[j] = ef.bars[j]
    BY <2>1 DEF SamePast, Agree
  <2>3. V = W
    BY <2>2
  <2> HIDE DEF V, W
  <2>4. Rolling(agg, field, n, df, i) = Aggregate(agg, V, n) /\ Rolling(agg, field, n, ef, i) = Aggregate(agg, W, n)
    BY <1>2 DEF Rolling, V, W
  <2> QED
    BY <2>3, <2>4
<1> QED
  BY <1>1, <1>2

LEMMA StrengthAgrees ==
    ASSUME NEW df, NEW ef, NEW c, SamePast(df, ef, c), NEW i \in 1..c, NEW n \in Nat
    PROVE  RelativeStrength(n, df, i) = RelativeStrength(n, ef, i)
<1>1. CASE n <= 0 \/ i - n < 1
  BY <1>1 DEF RelativeStrength
<1>2. CASE ~ (n <= 0 \/ i - n < 1)
  <2>1. i - n \in 1..c
    BY <1>2 DEF SamePast, Agree
  <2>2. /\ df.bars[i] = ef.bars[i] /\ df.bars[i - n] = ef.bars[i - n]
        /\ df.reference[i] = ef.reference[i] /\ df.reference[i - n] = ef.reference[i - n]
    BY <2>1 DEF SamePast, Agree
  <2> QED
    BY <2>2 DEF RelativeStrength
<1> QED
  BY <1>1, <1>2

LEMMA BeforesAgree ==
    ASSUME NEW df, NEW ef, NEW c, SamePast(df, ef, c), NEW i \in 1..c, NEW n \in Nat,
           NEW V, NEW W, DOMAIN V = DOMAIN df.bars, DOMAIN W = DOMAIN ef.bars, \A j \in 1..c : V[j] = W[j]
    PROVE  Before(V, n, i) = Before(W, n, i)
<1>1. i - n \in DOMAIN V <=> i - n \in DOMAIN W
  BY DEF SamePast, Agree
<1>2. i - n \in DOMAIN V => i - n \in 1..c
  BY DEF SamePast, Agree
<1> QED
  BY <1>1, <1>2 DEF Before

\* A call with a literal period says the same of a bar in frames with the same past.
LEMMA CallsAgree ==
    ASSUME NEW e, IsParsed(e), LiteralPeriods(e), NEW k \in Calls(e), NEW fast, NEW df, NEW ef,
           NEW V, Solves(V, e, df, fast), NEW W, Solves(W, e, ef, fast),
           NEW c, SamePast(df, ef, c), \A o \in 1..(k - 1) : \A j \in 1..c : V[o][j] = W[o][j],
           NEW i \in 1..c
    PROVE  ValueAt(e[k], e, V, df, i, fast) = ValueAt(e[k], e, W, ef, i, fast)
<1> DEFINE args == e[k].args
           first == args[1]
           last == args[Len(args)]
           n == e[last].value
<1>1. /\ k \in DOMAIN e /\ e[k].kind = "function" /\ e[k].name \in Functions
      /\ Len(args) \in {1, 2} /\ first \in 1..(k - 1) /\ last \in 1..(k - 1)
      /\ first \in DOMAIN e /\ last \in DOMAIN e
      /\ Arguments(e, e[k].name, args) /\ Period(e, k) = e[last]
      /\ e[k].name = "PREV" => Len(args) = 2
  BY CallParts
<1>2. i \in DOMAIN df.bars /\ i \in DOMAIN ef.bars /\ Len(df.bars) \in Nat /\ Len(ef.bars) \in Nat
      /\ DOMAIN df.bars = 1..Len(df.bars) /\ DOMAIN ef.bars = 1..Len(ef.bars)
  BY DEF SamePast, Agree
<1>3. e[last].kind = "number"
  BY <1>1 DEF LiteralPeriods
<1>4. n \in Nat /\ V[last][i] = n /\ W[last][i] = n
  BY <1>1, <1>2, <1>3, LiteralColumn
<1>5. Before(V[first], n, i) = Before(W[first], n, i)
  <2>1. DOMAIN V[first] = DOMAIN df.bars /\ DOMAIN W[first] = DOMAIN ef.bars
    BY <1>1 DEF Solves
  <2>2. \A j \in 1..c : V[first][j] = W[first][j]
    BY <1>1
  <2> DEFINE X == V[first]
             Y == W[first]
  <2>3. DOMAIN X = DOMAIN df.bars /\ DOMAIN Y = DOMAIN ef.bars /\ \A j \in 1..c : X[j] = Y[j]
    BY <2>1, <2>2
  <2> HIDE DEF first, n, X, Y
  <2>4. Before(X, n, i) = Before(Y, n, i)
    BY <1>4, <2>3, BeforesAgree
  <2> QED
    BY <2>4 DEF X, Y
<1>6. \A agg, field : Rolling(agg, field, n, df, i) = Rolling(agg, field, n, ef, i)
  BY <1>4, RollingAgree
<1>7. RelativeStrength(n, df, i) = RelativeStrength(n, ef, i)
  BY <1>4, StrengthAgrees
<1>8. \A name : /\ OpeningRange(name, n, df.bars, i) = OpeningRange(name, n, ef.bars, i)
                /\ OpeningColumn(name, n, df.bars, i) = OpeningColumn(name, n, ef.bars, i)
  BY <1>2, <1>4, OpeningsBefore, OpeningsAgree DEF SamePast
<1>9. SlowCall(e[k], e, V, df, i) = SlowCall(e[k], e, W, ef, i)
  BY <1>4, <1>5, <1>6, <1>7, <1>8 DEF SlowCall
<1>10. FastCall(e[k], e, V, df, i) = FastCall(e[k], e, W, ef, i)
  <2>1. e[k].name = "PREV" => V[args[2]][i] = n /\ W[args[2]][i] = n
    BY <1>1, <1>4
  <2>2. OneNumber(e, args) => e[first].value = n
    BY DEF OneNumber
  <2> QED
    BY <1>5, <1>6, <1>8, <2>1, <2>2 DEF FastCall
<1> QED
  BY <1>1, <1>9, <1>10 DEF ValueAt

LEMMA FieldsAgree ==
    ASSUME NEW df, NEW ef, NEW c, SamePast(df, ef, c), NEW i \in 1..c, NEW name
    PROVE  Column(name, df, i) = Column(name, ef, i)
<1>1. /\ df.bars[i] = ef.bars[i] /\ df.reference[i] = ef.reference[i] /\ df.enriched = ef.enriched
      /\ Agree(df.bars, ef.bars, c)
  BY DEF SamePast, Agree
<1>2. name \in PatternNames => Truth(Pattern(name, df.bars, i)) = Truth(Pattern(name, ef.bars, i))
  BY <1>1, PatternsAgree
<1> QED
  BY <1>1, <1>2 DEF Column

\* A condition that does not look forward says the same of every bar in the common past.
LEMMA ColumnsAgree ==
    ASSUME NEW e, IsParsed(e), LiteralPeriods(e), NEW fast, NEW df, NEW ef,
           NEW V, Solves(V, e, df, fast), NEW W, Solves(W, e, ef, fast), NEW c, SamePast(df, ef, c)
    PROVE  \A k \in DOMAIN e : \A i \in 1..c : V[k][i] = W[k][i]
<1> DEFINE G == {n \in Nat : n <= Len(e) => \A k \in 1..n : \A i \in 1..c : V[k][i] = W[k][i]}
<1>1. Len(e) \in Nat /\ DOMAIN e = 1..Len(e)
  BY DEF IsParsed
<1>2. 0 \in G
  OBVIOUS
<1>3. ASSUME NEW n \in Nat, n \in G PROVE n + 1 \in G
  <2> SUFFICES ASSUME n + 1 <= Len(e) PROVE \A k \in 1..(n + 1) : \A i \in 1..c : V[k][i] = W[k][i]
    OBVIOUS
  <2> DEFINE k == n + 1
  <2>1. k \in DOMAIN e /\ k \in Nat /\ \A o \in 1..(k - 1) : \A i \in 1..c : V[o][i] = W[o][i]
    BY <1>1, <1>3
  <2>2. ASSUME NEW o \in 1..(n + 1) PROVE o \in 1..(k - 1) \/ o = k
    OBVIOUS
  <2> HIDE DEF k
  <2>3. ASSUME NEW i \in 1..c PROVE V[k][i] = W[k][i]
    <3>1. i \in DOMAIN df.bars /\ i \in DOMAIN ef.bars
      BY DEF SamePast, Agree
    <3>2. V[k][i] = ValueAt(e[k], e, V, df, i, fast) /\ W[k][i] = ValueAt(e[k], e, W, ef, i, fast)
      BY <2>1, <3>1 DEF Solves
    <3>3. CASE e[k].kind = "function"
      <4>1. k \in Calls(e)
        BY <2>1, <3>3 DEF Calls
      <4> QED
        BY <2>1, <3>2, <4>1, CallsAgree
    <3>4. CASE e[k].kind # "function"
      <4>1. Column(e[k].name, df, i) = Column(e[k].name, ef, i)
        BY FieldsAgree
      <4> QED
        BY <2>1, <3>2, <3>4, <4>1, NodeParts, FormulaLocal
    <3> QED
      BY <3>3, <3>4
  <2> QED
    BY <2>1, <2>2, <2>3
<1> HIDE DEF G
<1>4. Len(e) \in G
  BY <1>1, <1>2, <1>3, InductionOnNumbers
<1> QED
  BY <1>1, <1>4 DEF G

LEMMA FiresAgree ==
    ASSUME NEW e, IsParsed(e), LiteralPeriods(e), NEW fast, NEW df, NEW ef,
           NEW c, SamePast(df, ef, c), NEW i \in 1..c
    PROVE  Fires(e, df, i, fast) <=> Fires(e, ef, i, fast)
<1> DEFINE V == Columns(e, df, fast)
           W == Columns(e, ef, fast)
<1>1. Solves(V, e, df, fast) /\ Solves(W, e, ef, fast)
  BY ColumnsUnfold
<1>2. Len(e) \in DOMAIN e
  BY DEF IsParsed
<1>3. V[Len(e)][i] = W[Len(e)][i]
  <2> HIDE DEF V, W
  <2>1. \A k \in DOMAIN e : \A j \in 1..c : V[k][j] = W[k][j]
    BY ONLY <1>1, IsParsed(e), LiteralPeriods(e), SamePast(df, ef, c), ColumnsAgree
  <2> QED
    BY <1>2, <2>1
<1>4. i \in DOMAIN df.bars /\ i \in DOMAIN ef.bars
  BY DEF SamePast, Agree
<1> QED
  BY <1>3, <1>4 DEF Fires
-----------------------------------------------------------------------------
(* The backtest of the minutes before t, and of those and later ones.      *)

\* The bars up to one that had closed.
LEMMA PastBars ==
    ASSUME NEW ms \in Seq(Minutes), NEW ns \in Seq(Minutes), NEW t \in Nat, SameBefore(ms, ns, t),
           NEW f \in Nat \ {0}, NEW B, B = Resampled(ms, f), NEW C, C = Resampled(ns, f),
           NEW i \in DOMAIN B, B[i].at + f <= t
    PROVE  Agree(B, C, i) /\ i \in 1..i
<1>1. PICK q, n, S : StandFor(B, q, n, S, ms, f)
  BY BarsParts
<1>2. PICK p, m, R : StandFor(C, p, m, R, ns, f)
  BY BarsParts
<1>3. /\ n \in Nat /\ DOMAIN B = 1..n /\ Len(B) = n /\ i \in 1..n
      /\ \A j \in 1..n : B[j].at \in Nat /\ (j < i => B[j].at < B[i].at)
  BY <1>1 DEF StandFor
<1>4. m \in Nat /\ DOMAIN C = 1..m /\ Len(C) = m
  BY <1>2 DEF StandFor
<1>5. ASSUME NEW j \in 1..i PROVE j \in DOMAIN C /\ C[j] = B[j]
  <2>1. j \in DOMAIN B /\ (j = i \/ j < i)
    BY <1>3
  <2>2. B[j].at + f <= t
    BY <1>3, <2>1
  <2> QED
    BY <2>1, <2>2, SameBars
<1>6. i \in Nat /\ i \in 1..i /\ i <= n /\ i <= m
  BY <1>3, <1>4, <1>5
<1> QED
  BY <1>3, <1>4, <1>5, <1>6 DEF Agree

\* A stamp has one place.
LEMMA PlaceOfStamp ==
    ASSUME NEW ms \in Seq(Minutes), NEW f \in Nat \ {0}, NEW B, B = Resampled(ms, f), NEW i \in DOMAIN B
    PROVE  B[i].at \in Stamps(B) /\ B[i].at \in Nat /\ PlaceOf(B, B[i].at) = i
<1>1. PICK q, n, S : StandFor(B, q, n, S, ms, f)
  BY BarsParts
<1>2. n \in Nat /\ DOMAIN B = 1..n /\ \A j \in 1..n : B[j].at \in Nat
  BY <1>1 DEF StandFor
<1>3. \A j, k \in 1..n : j < k => B[j].at < B[k].at
  BY <1>1 DEF StandFor
<1>4. ASSUME NEW j \in DOMAIN B, B[j].at = B[i].at PROVE j = i
  <2>1. j \in 1..n /\ i \in 1..n /\ j \in Int /\ i \in Int
    BY <1>2
  <2>2. ~ (j < i) /\ ~ (i < j)
    BY <1>2, <1>3, <1>4, <2>1
  <2> QED
    BY <2>1, <2>2
<1>5. PlaceOf(B, B[i].at) = i
  BY <1>4 DEF PlaceOf
<1> QED
  BY <1>2, <1>5 DEF Stamps, Range

\* A bar is stamped no later than one that follows.
LEMMA BarsUpTo ==
    ASSUME NEW ms \in Seq(Minutes), NEW f \in Nat \ {0}, NEW B, B = Resampled(ms, f),
           NEW i \in DOMAIN B, NEW j \in 1..i
    PROVE  B[j].at \in Nat /\ B[j].at <= B[i].at
<1>1. PICK q, n, S : StandFor(B, q, n, S, ms, f)
  BY BarsParts
<1>2. n \in Nat /\ DOMAIN B = 1..n /\ \A k \in 1..n : B[k].at \in Nat
  BY <1>1 DEF StandFor
<1>3. \A k, l \in 1..n : k < l => B[k].at < B[l].at
  BY <1>1 DEF StandFor
<1>4. i \in 1..n /\ j \in 1..n /\ (j = i \/ j < i)
  BY <1>2
<1> QED
  BY <1>2, <1>3, <1>4

LEMMA StampParts ==
    ASSUME NEW ms \in Seq(Minutes), NEW f \in Nat \ {0}, NEW B, B = Resampled(ms, f), NEW s \in Stamps(B)
    PROVE  PlaceOf(B, s) \in DOMAIN B /\ B[PlaceOf(B, s)].at = s /\ s \in Nat
<1>1. PICK i \in DOMAIN B : B[i].at = s
  BY DEF Stamps, Range
<1> QED
  BY <1>1, PlaceOfStamp

LEMMA StrategyParts ==
    ASSUME strategy \in Strategies, LooksBack
    PROVE  /\ strategy.frame \in Nat \ {0} /\ strategy.reference \in BOOLEAN
           /\ IsParsed(strategy.condition) /\ LiteralPeriods(strategy.condition)
           /\ \A rule \in strategy.htf : /\ rule.frame \in Nat \ {0}
                                         /\ IsParsed(rule.condition) /\ LiteralPeriods(rule.condition)
<1>1. \A s \in Strategies :
         /\ s.frame \in Nat \ {0} /\ s.reference \in BOOLEAN /\ IsParsed(s.condition)
         /\ \A rule \in s.htf : rule.frame \in Nat \ {0} /\ IsParsed(rule.condition)
  BY SignalAssumption
<1>2. \A s \in Strategies :
         LiteralPeriods(s.condition) /\ \A rule \in s.htf : LiteralPeriods(rule.condition)
  BY DEF LooksBack
<1> QED
  BY <1>1, <1>2

\* The higher timeframe asked at a bar is of the past of that bar.
LEMMA GatesAgree ==
    ASSUME NEW ms \in Seq(Minutes), NEW ns \in Seq(Minutes), NEW t \in Nat, SameBefore(ms, ns, t),
           NEW rule, rule.frame \in Nat \ {0}, IsParsed(rule.condition), LiteralPeriods(rule.condition),
           NEW bar, bar.at \in Nat, bar.at <= t
    PROVE  HtfGate(rule, ms, bar) <=> HtfGate(rule, ns, bar)
<1> DEFINE f == rule.frame
           B == Resampled(ms, f)
           C == Resampled(ns, f)
           K == {k \in DOMAIN B : B[k].at + f <= bar.at}
<1>1. PICK q, n, S : StandFor(B, q, n, S, ms, f)
  BY BarsParts
<1>2. PICK p, m, R : StandFor(C, p, m, R, ns, f)
  BY BarsParts
<1>3. n \in Nat /\ DOMAIN B = 1..n /\ \A k \in 1..n : B[k].at \in Nat
  BY <1>1 DEF StandFor
<1>4. m \in Nat /\ DOMAIN C = 1..m /\ \A k \in 1..m : C[k].at \in Nat
  BY <1>2 DEF StandFor
<1>5. SameBefore(ns, ms, t)
  BY DEF SameBefore
<1> HIDE DEF B, C, f
<1>6. f \in Nat \ {0} /\ B = Resampled(ms, f) /\ C = Resampled(ns, f)
  BY DEF B, C, f
<1>7. ASSUME NEW k \in DOMAIN B, B[k].at + f <= bar.at PROVE k \in DOMAIN C /\ C[k] = B[k] /\ Agree(B, C, k)
  <2>1. B[k].at + f <= t
    BY <1>3, <1>6, <1>7
  <2> QED
    BY <1>6, <2>1, SameBars, PastBars
<1>8. ASSUME NEW k \in DOMAIN C, C[k].at + f <= bar.at PROVE k \in DOMAIN B /\ C[k] = B[k]
  <2>1. C[k].at + f <= t
    BY <1>4, <1>6, <1>8
  <2> QED
    BY <1>5, <1>6, <2>1, SameBars
<1>9. K = {k \in DOMAIN C : C[k].at + f <= bar.at}
  BY <1>7, <1>8
<1>10. ClosedHtf(bar, B, f) = ClosedHtf(bar, C, f)
  BY <1>9 DEF ClosedHtf
<1>11. K # {} => Max(K) \in K
  <2>1. K \in SUBSET (1..n)
    BY <1>3
  <2> HIDE DEF K
  <2> QED
    BY <1>3, <2>1, LastIndex
<1>12. ClosedHtf(bar, B, f) = IF K = {} THEN 0 ELSE Max(K)
  BY DEF ClosedHtf
<1> DEFINE k == ClosedHtf(bar, B, f)
<1>13. k > 0 => Agree(B, C, k) /\ k \in 1..k
  <2>1. k > 0 => k \in K
    BY <1>11, <1>12
  <2> HIDE DEF k
  <2> QED
    BY <1>3, <1>7, <2>1
<1> HIDE DEF k, K
<1>14. k > 0 => SamePast(Plain(B), Plain(C), k)
  <2> SUFFICES ASSUME k > 0 PROVE SamePast(Plain(B), Plain(C), k)
    OBVIOUS
  <2>1. Agree(B, C, k)
    BY <1>13
  <2>2. Plain(B).bars = B /\ Plain(C).bars = C /\ Plain(B).enriched = Plain(C).enriched
    BY DEF Plain
  <2>3. \A j \in 1..k : Plain(B).reference[j] = Plain(C).reference[j]
    BY <2>1 DEF Plain, Agree
  <2> QED
    BY <2>1, <2>2, <2>3 DEF SamePast
<1>15. k > 0 => (Fires(rule.condition, Plain(B), k, FALSE) <=> Fires(rule.condition, Plain(C), k, FALSE))
  BY <1>13, <1>14, FiresAgree
<1>16. HtfGate(rule, ms, bar) <=> k > 0 /\ Fires(rule.condition, Plain(B), k, FALSE)
  BY DEF HtfGate, k, B, f
<1>17. HtfGate(rule, ns, bar) <=> k > 0 /\ Fires(rule.condition, Plain(C), k, FALSE)
  BY <1>10 DEF HtfGate, k, C, f
<1> QED
  BY <1>15, <1>16, <1>17

\* The bars of the reference merged into a bar that had closed had closed as well.
LEMMA ReferencesAgree ==
    ASSUME NEW rs \in Seq(Minutes), NEW us \in Seq(Minutes), NEW t \in Nat, SameBefore(rs, us, t),
           NEW f \in Nat \ {0}, NEW bar, bar.at \in Nat, bar.at + f <= t
    PROVE  ReferenceAt(bar, Resampled(rs, f)) = ReferenceAt(bar, Resampled(us, f))
<1> DEFINE B == Resampled(rs, f)
           C == Resampled(us, f)
           K == {j \in DOMAIN B : B[j].at <= bar.at}
<1>1. PICK q, n, S : StandFor(B, q, n, S, rs, f)
  BY BarsParts
<1>2. PICK p, m, R : StandFor(C, p, m, R, us, f)
  BY BarsParts
<1>3. n \in Nat /\ DOMAIN B = 1..n /\ \A k \in 1..n : B[k].at \in Nat
  BY <1>1 DEF StandFor
<1>4. DOMAIN C = 1..m /\ \A k \in 1..m : C[k].at \in Nat
  BY <1>2 DEF StandFor
<1>5. SameBefore(us, rs, t)
  BY DEF SameBefore
<1> HIDE DEF B, C
<1>6. B = Resampled(rs, f) /\ C = Resampled(us, f)
  BY DEF B, C
<1>7. ASSUME NEW j \in DOMAIN B, B[j].at <= bar.at PROVE j \in DOMAIN C /\ C[j] = B[j]
  <2>1. B[j].at + f <= t
    BY <1>3, <1>7
  <2> QED
    BY <1>6, <2>1, SameBars
<1>8. ASSUME NEW j \in DOMAIN C, C[j].at <= bar.at PROVE j \in DOMAIN B /\ C[j] = B[j]
  <2>1. C[j].at + f <= t
    BY <1>4, <1>8
  <2> QED
    BY <1>5, <1>6, <2>1, SameBars
<1>9. K = {j \in DOMAIN C : C[j].at <= bar.at}
  BY <1>7, <1>8
<1>10. K # {} => C[Max(K)] = B[Max(K)]
  <2>1. K \in SUBSET (1..n)
    BY <1>3
  <2>2. \A j \in K : C[j] = B[j]
    BY <1>7
  <2> HIDE DEF K
  <2>3. K # {} => Max(K) \in K
    BY <1>3, <2>1, LastIndex
  <2> QED
    BY <2>2, <2>3
<1>11. ReferenceAt(bar, B) = IF K = {} THEN NaN ELSE B[Max(K)].close
  BY DEF ReferenceAt
<1>12. ReferenceAt(bar, C) = IF K = {} THEN NaN ELSE C[Max(K)].close
  BY <1>9 DEF ReferenceAt
<1> QED
  BY <1>10, <1>11, <1>12 DEF B, C

\* Of a bar that had closed, both backtests say the same.
LEMMA SignalsAgree ==
    ASSUME strategy \in Strategies, LooksBack, NEW t \in Nat,
           NEW ms \in Seq(Minutes), NEW ns \in Seq(Minutes), SameBefore(ms, ns, t),
           NEW rs \in Seq(Minutes), NEW us \in Seq(Minutes), SameBefore(rs, us, t),
           NEW s \in Stamps(Bars(ms)), s + strategy.frame <= t
    PROVE  /\ s \in Stamps(Bars(ns))
           /\ EntrySignals(ms, rs)[s] = EntrySignals(ns, us)[s]
           /\ Walks(ms)[s] = Walks(ns)[s]
<1> DEFINE f == strategy.frame
           B == Bars(ms)
           C == Bars(ns)
           i == PlaceOf(B, s)
           df == BacktestFrame(B, rs)
           ef == BacktestFrame(C, us)
           e == strategy.condition
<1>1. /\ f \in Nat \ {0} /\ B = Resampled(ms, f) /\ C = Resampled(ns, f)
      /\ Bars(rs) = Resampled(rs, f) /\ Bars(us) = Resampled(us, f)
  BY StrategyParts DEF Bars
<1>2. i \in DOMAIN B /\ B[i].at = s /\ s \in Nat
  BY <1>1, StampParts
<1> HIDE DEF B, C, i
<1>3. i \in DOMAIN C /\ C[i] = B[i] /\ Agree(B, C, i) /\ i \in 1..i
  BY <1>1, <1>2, SameBars, PastBars
<1>4. s \in Stamps(C) /\ PlaceOf(C, s) = i
  BY <1>1, <1>2, <1>3, PlaceOfStamp
<1>5. SamePast(df, ef, i)
  <2>1. df.bars = B /\ ef.bars = C /\ df.enriched = ef.enriched
    BY DEF BacktestFrame
  <2>2. \A j \in 1..i : j \in DOMAIN B /\ j \in DOMAIN C /\ B[j] = C[j]
    BY <1>3 DEF Agree
  <2>3. ASSUME NEW j \in 1..i
        PROVE  ReferenceAt(B[j], Bars(rs)) = ReferenceAt(B[j], Bars(us))
    <3>1. B[j].at \in Nat /\ B[j].at <= B[i].at
      BY <1>1, <1>2, <2>2, BarsUpTo
    <3>2. B[j].at + f <= t
      BY <1>1, <1>2, <3>1
    <3> QED
      BY <1>1, <3>1, <3>2, ReferencesAgree
  <2>4. \A j \in 1..i : df.reference[j] = ef.reference[j]
    BY <2>2, <2>3 DEF BacktestFrame
  <2> QED
    BY <1>3, <2>1, <2>4 DEF SamePast
<1>6. df.bars[i] = B[i] /\ ef.bars[i] = B[i]
  BY <1>3 DEF BacktestFrame
<1> HIDE DEF df, ef
<1>7. \A fast : Fires(e, df, i, fast) <=> Fires(e, ef, i, fast)
  BY <1>3, <1>5, StrategyParts, FiresAgree
<1>8. \A rule \in strategy.htf : HtfGate(rule, ms, B[i]) <=> HtfGate(rule, ns, B[i])
  <2>1. B[i].at \in Nat /\ B[i].at <= t
    BY <1>1, <1>2
  <2> QED
    BY <2>1, StrategyParts, GatesAgree
<1>9. EntrySignal(ms, df, i) = EntrySignal(ns, ef, i)
  <2>1. EntrySignal(ms, df, i) <=> EntrySignal(ns, ef, i)
    BY <1>6, <1>7, <1>8 DEF EntrySignal
  <2> QED
    BY <2>1 DEF EntrySignal
<1>10. /\ EntrySignals(ms, rs)[s] = EntrySignal(ms, df, i)
       /\ EntrySignals(ns, us)[s] = EntrySignal(ns, ef, i)
  BY <1>4 DEF EntrySignals, df, ef, B, C, i
<1>11. {ms[j].at : j \in SubBars(B[i], ms, f)} = {ns[j].at : j \in SubBars(B[i], ns, f)}
  <2> DEFINE In(m) == s <= m.at /\ m.at < s + f
  <2>1. \A m \in Range(ms) \cup Range(ns) : In(m) => m.at < t
    <3>1. \A m \in Range(ms) \cup Range(ns) : m.at \in Nat
      BY <1>1, MinutesParts
    <3> QED
      BY <1>1, <1>2, <3>1
  <2>2. {m \in Range(ms) : In(m)} = {m \in Range(ns) : In(m)}
    BY <2>1 DEF SameBefore
  <2>3. {ms[j].at : j \in SubBars(B[i], ms, f)} = {m.at : m \in {x \in Range(ms) : In(x)}}
    BY <1>2 DEF SubBars, Range
  <2>4. {ns[j].at : j \in SubBars(B[i], ns, f)} = {m.at : m \in {x \in Range(ns) : In(x)}}
    BY <1>2 DEF SubBars, Range
  <2> QED
    BY <2>2, <2>3, <2>4
<1>12. Walks(ms)[s] = {ms[j].at : j \in SubBars(B[i], ms, f)}
       /\ Walks(ns)[s] = {ns[j].at : j \in SubBars(C[i], ns, f)}
  BY <1>4 DEF Walks, B, C, i
<1> QED
  BY <1>3, <1>4, <1>9, <1>10, <1>11, <1>12 DEF C
-----------------------------------------------------------------------------
(* The market goes on after the answer; what had been printed by then does *)
(* not change.                                                             *)

\* The minutes, and those of the reference, the answer kept was computed from.
AskedOf(ms, rs) ==
    /\ SameBefore(ms, minutes, asked.when)
    /\ SameBefore(rs, benchmark, asked.when)
    /\ asked.by = "backtest" => asked.signal = EntrySignals(ms, rs) /\ asked.walk = Walks(ms)
    /\ asked.by = "live" => /\ ms # <<>>
                            /\ asked.signal = [t \in {Last(Candles(ms)).at} |-> LiveSignal(Candles(ms))]

SignalInv ==
    /\ SignalTypeOK
    /\ \A m \in Range(minutes) \cup Range(benchmark) : m.at < now
    /\ asked.by # "nobody" => asked.when \in 0..now /\ \E ms, rs \in Seq(Minutes) : AskedOf(ms, rs)

LEMMA SignalInitEstablishes == SignalInit => SignalInv
<1> SUFFICES ASSUME SignalInit PROVE SignalInv
  OBVIOUS
<1>1. minutes = <<>> /\ benchmark = <<>> /\ asked.by = "nobody" /\ now = 0 /\ strategy \in Strategies
  BY DEF SignalInit, NotAsked
<1>2. /\ minutes \in Seq(Minutes) /\ Range(minutes) = {}
      /\ benchmark \in Seq(Minutes) /\ Range(benchmark) = {}
  BY <1>1 DEF Range
<1> QED
  BY <1>1, <1>2, SignalAssumption DEF SignalInv, SignalTypeOK

\* What is answered of a series depends on the strategy, which never changes.
LEMMA SameStrategy ==
    ASSUME strategy' = strategy
    PROVE  /\ \A ms, rs : EntrySignals(ms, rs)' = EntrySignals(ms, rs)
           /\ \A ms : /\ Walks(ms)' = Walks(ms) /\ Candles(ms)' = Candles(ms)
                      /\ LiveSignal(Candles(ms))' = LiveSignal(Candles(ms))
<1>1. \A ms, rs : EntrySignals(ms, rs)' = EntrySignals(ms, rs)
  BY DEF EntrySignals, EntrySignal, Bars, BacktestFrame
<1>2. \A ms : Walks(ms)' = Walks(ms)
  BY DEF Walks, Bars
<1>3. \A ms : Candles(ms)' = Candles(ms)
  BY DEF Candles, Bars
<1>4. \A ms : LiveSignal(Candles(ms))' = LiveSignal(Candles(ms))
  BY DEF LiveSignal, Candles, Bars
<1> QED
  BY <1>1, <1>2, <1>3, <1>4

\* Asked now, the answer is of the minutes printed so far.
LEMMA AskKeeps ==
    ASSUME SignalInv, UNCHANGED <<strategy, minutes, benchmark, now>>, asked'.when = now,
           \/ /\ asked'.by = "backtest"
              /\ asked'.signal = EntrySignals(minutes, benchmark) /\ asked'.walk = Walks(minutes)
           \/ /\ asked'.by = "live" /\ minutes # <<>>
              /\ asked'.signal = [t \in {Last(Candles(minutes)).at} |-> LiveSignal(Candles(minutes))]
    PROVE  SignalInv'
<1>1. /\ strategy' = strategy /\ minutes' = minutes /\ benchmark' = benchmark /\ now' = now
      /\ minutes \in Seq(Minutes) /\ benchmark \in Seq(Minutes)
      /\ now \in 0..LastMinute /\ strategy \in Strategies
      /\ \A m \in Range(minutes) \cup Range(benchmark) : m.at < now
  BY DEF SignalInv, SignalTypeOK
<1>2. SignalTypeOK'
  BY <1>1 DEF SignalTypeOK
<1>3. asked'.when \in 0..now'
  BY <1>1, SignalAssumption
<1>4. PICK ms, rs \in Seq(Minutes) : ms = minutes /\ rs = benchmark
  BY <1>1
<1>5. AskedOf(ms, rs)'
  <2>1. SameBefore(ms, minutes', asked'.when) /\ SameBefore(rs, benchmark', asked'.when)
    BY <1>1, <1>4 DEF SameBefore
  <2>2. asked'.by = "backtest" => asked'.signal = EntrySignals(ms, rs) /\ asked'.walk = Walks(ms)
    BY <1>4
  <2>3. asked'.by = "live" => /\ ms # <<>>
                              /\ asked'.signal = [t \in {Last(Candles(ms)).at} |-> LiveSignal(Candles(ms))]
    BY <1>4
  <2> QED
    BY <1>1, <2>1, <2>2, <2>3, SameStrategy DEF AskedOf
<1> QED
  BY <1>1, <1>2, <1>3, <1>5 DEF SignalInv

\* What is printed now was not there before.
LEMMA PrintedParts ==
    ASSUME NEW series \in Seq(Minutes), NEW shape \in Shapes \cup {NoTrade}, now \in 0..LastMinute
    PROVE  /\ Printed(series, shape) \in Seq(Minutes)
           /\ \A m \in Range(Printed(series, shape)) : m \in Range(series) \/ m.at = now
           /\ Range(series) \subseteq Range(Printed(series, shape))
<1>1. CASE shape = NoTrade
  BY <1>1 DEF Printed
<1>2. CASE shape # NoTrade
  <2> DEFINE e == [at |-> now, high |-> shape.high, low |-> shape.low, close |-> shape.close]
             ps == Printed(series, shape)
  <2>1. e \in Minutes /\ e.at = now
    BY <1>2, SignalAssumption DEF Minutes
  <2>2. ps = Append(series, e)
    BY <1>2 DEF Printed
  <2> HIDE DEF e, ps
  <2>3. /\ ps \in Seq(Minutes) /\ ps[Len(series) + 1] = e
        /\ DOMAIN series = 1..Len(series) /\ DOMAIN ps = 1..(Len(series) + 1)
        /\ Len(series) \in Nat
        /\ \A i \in 1..Len(series) : ps[i] = series[i]
    BY <2>1, <2>2, AppendParts
  <2>4. \A i \in 1..(Len(series) + 1) : i \in 1..Len(series) \/ i = Len(series) + 1
    BY <2>3
  <2>5. \A i \in 1..Len(series) : i \in 1..(Len(series) + 1)
    BY <2>3
  <2>6. \A m \in Range(ps) : m \in Range(series) \/ m = e
    BY <2>3, <2>4 DEF Range
  <2>7. Range(series) \subseteq Range(ps)
    BY <2>3, <2>5 DEF Range
  <2> QED
    BY <2>1, <2>3, <2>6, <2>7 DEF ps
<1> QED
  BY <1>1, <1>2

LEMMA MarketKeeps == SignalInv /\ PrintMinute => SignalInv'
<1> SUFFICES ASSUME SignalInv, PrintMinute PROVE SignalInv'
  OBVIOUS
<1>1. /\ strategy' = strategy /\ asked' = asked /\ strategy \in Strategies
      /\ now < LastMinute /\ now' = now + 1
      /\ now \in 0..LastMinute /\ now \in Nat /\ LastMinute \in Nat
      /\ minutes \in Seq(Minutes) /\ benchmark \in Seq(Minutes)
      /\ asked.by \in {"nobody", "backtest", "live"}
      /\ \A m \in Range(minutes) \cup Range(benchmark) : m.at < now
  BY SignalAssumption DEF SignalInv, SignalTypeOK, PrintMinute
<1>2. \A m \in Range(minutes) \cup Range(benchmark) : m.at \in Nat
  <2>1. 1 \in Nat \ {0}
    OBVIOUS
  <2> QED
    BY <1>1, <2>1, MinutesParts
<1>3. PICK main, ref \in Shapes \cup {NoTrade} :
         minutes' = Printed(minutes, main) /\ benchmark' = Printed(benchmark, ref)
  <2>1. strategy.reference \in BOOLEAN
    BY <1>1, SignalAssumption
  <2>2. Prints[strategy.reference]
          \subseteq [main : Shapes \cup {NoTrade}, reference : Shapes \cup {NoTrade}]
    BY <2>1, SignalAssumption
  <2> QED
    BY <2>2 DEF PrintMinute
<1>4. /\ minutes' \in Seq(Minutes) /\ Range(minutes) \subseteq Range(minutes')
      /\ \A m \in Range(minutes') : m \in Range(minutes) \/ m.at = now
  BY <1>1, <1>3, PrintedParts
<1>5. /\ benchmark' \in Seq(Minutes) /\ Range(benchmark) \subseteq Range(benchmark')
      /\ \A m \in Range(benchmark') : m \in Range(benchmark) \/ m.at = now
  BY <1>1, <1>3, PrintedParts
<1>6. SignalTypeOK'
  BY <1>1, <1>4, <1>5 DEF SignalTypeOK
<1>7. \A m \in Range(minutes') \cup Range(benchmark') : m.at < now'
  BY <1>1, <1>2, <1>4, <1>5
<1>8. ASSUME asked.by # "nobody"
      PROVE  asked.when \in 0..now' /\ \E ms, rs \in Seq(Minutes) : AskedOf(ms, rs)'
  <2>1. asked.when \in 0..now
    BY <1>8 DEF SignalInv
  <2>2. PICK ms, rs \in Seq(Minutes) : AskedOf(ms, rs)
    BY <1>8 DEF SignalInv
  <2>3. {m \in Range(minutes') : m.at < asked.when} = {m \in Range(minutes) : m.at < asked.when}
    BY <1>1, <1>4, <2>1
  <2>4. {m \in Range(benchmark') : m.at < asked.when} = {m \in Range(benchmark) : m.at < asked.when}
    BY <1>1, <1>5, <2>1
  <2>5. SameBefore(ms, minutes', asked.when) /\ SameBefore(rs, benchmark', asked.when)
    BY <2>2, <2>3, <2>4 DEF AskedOf, SameBefore
  <2>6. AskedOf(ms, rs)'
    BY <1>1, <2>2, <2>5, SameStrategy DEF AskedOf
  <2> QED
    BY <1>1, <2>1, <2>6
<1> QED
  BY <1>1, <1>6, <1>7, <1>8 DEF SignalInv

LEMMA SignalStepKeeps == SignalInv /\ [SignalNext]_signalVars => SignalInv'
<1> SUFFICES ASSUME SignalInv, [SignalNext]_signalVars PROVE SignalInv'
  OBVIOUS
<1>1. CASE RunBacktest
  BY <1>1, AskKeeps DEF RunBacktest
<1>2. CASE EvaluateLive
  BY <1>2, AskKeeps DEF EvaluateLive
<1>3. CASE PrintMinute
  BY <1>3, MarketKeeps
<1>4. CASE UNCHANGED signalVars
  <2>1. /\ strategy' = strategy /\ minutes' = minutes /\ benchmark' = benchmark
        /\ now' = now /\ asked' = asked
    BY <1>4 DEF signalVars
  <2>2. \A ms, rs : AskedOf(ms, rs)' <=> AskedOf(ms, rs)
    BY <2>1, SameStrategy DEF AskedOf
  <2> QED
    BY <2>1, <2>2 DEF SignalInv, SignalTypeOK
<1> QED
  BY <1>1, <1>2, <1>3, <1>4 DEF SignalNext

\* The answer is always that of the minutes printed before it was asked for.
THEOREM SignalInvariant == SignalSpec => []SignalInv
  BY SignalInitEstablishes, SignalStepKeeps, PTL DEF SignalSpec

\* A closed bar of the backtest kept is said the same of by a backtest of what is there now.
LEMMA BacktestStands ==
    ASSUME LooksBack, SignalInv PROVE NoLookAhead
<1> SUFFICES ASSUME asked.by = "backtest"
             PROVE  /\ AgreesWithBacktest
                    /\ \A t \in ClosedBars : asked.walk[t] = Walks(minutes)[t]
  BY DEF NoLookAhead
<1>1. PICK ms, rs \in Seq(Minutes) : AskedOf(ms, rs)
  BY DEF SignalInv
<1>2. /\ SameBefore(ms, minutes, asked.when) /\ SameBefore(rs, benchmark, asked.when)
      /\ asked.signal = EntrySignals(ms, rs) /\ asked.walk = Walks(ms)
  BY <1>1 DEF AskedOf
<1>3. /\ strategy \in Strategies /\ asked.when \in Nat
      /\ minutes \in Seq(Minutes) /\ benchmark \in Seq(Minutes)
  BY SignalAssumption DEF SignalInv, SignalTypeOK
<1>4. DOMAIN asked.signal = Stamps(Bars(ms))
  BY <1>2 DEF EntrySignals
<1>5. ASSUME NEW s \in ClosedBars
      PROVE  /\ EntrySignals(ms, rs)[s] = EntrySignals(minutes, benchmark)[s]
             /\ Walks(ms)[s] = Walks(minutes)[s]
  <2>1. s \in Stamps(Bars(ms)) /\ s + strategy.frame <= asked.when
    BY <1>4 DEF ClosedBars
  <2> QED
    BY <1>2, <1>3, <2>1, SignalsAgree
<1> QED
  BY <1>2, <1>5 DEF AgreesWithBacktest

\* No signal, and no walk of the minutes of a bar, reads what was still to come, when no
\* condition asks for PREV with a negative offset (patterns.py, htf.py, resample.py).
THEOREM NeverLooksAhead == LooksBack => (SignalSpec => []NoLookAhead)
<1> SUFFICES ASSUME LooksBack PROVE SignalSpec => []NoLookAhead
  OBVIOUS
<1>1. SignalInv => NoLookAhead
  BY BacktestStands
<1> QED
  BY <1>1, SignalInvariant, PTL
-----------------------------------------------------------------------------
(* The two evaluators.                                                     *)

\* The columns of the fast evaluator, and of the slow one.
FastColumns(V, e, df) == Solves(V, e, df, TRUE)

SlowColumns(W, e, df) == Solves(W, e, df, FALSE)

SameOperands(V, W, k, df) ==
    \A o \in 1..(k - 1) : /\ DOMAIN V[o] = DOMAIN df.bars
                          /\ DOMAIN W[o] = DOMAIN df.bars
                          /\ \A j \in DOMAIN df.bars : V[o][j] = W[o][j]

\* A call the arrays can serve says the same of a bar in both.
LEMMA CallsServed ==
    ASSUME NEW e, IsParsed(e), FastPathSafe(e), NEW k \in Calls(e),
           NEW df, Len(df.bars) \in Nat, DOMAIN df.bars = 1..Len(df.bars),
           NEW V, NEW W, SlowColumns(W, e, df), SameOperands(V, W, k, df),
           NEW i \in DOMAIN df.bars
    PROVE  FastCall(e[k], e, V, df, i) = SlowCall(e[k], e, W, df, i)
<1> DEFINE args == e[k].args
           first == args[1]
           last == args[Len(args)]
<1>1. /\ k \in DOMAIN e /\ e[k].kind = "function" /\ e[k].name \in Functions
      /\ Len(args) \in {1, 2} /\ first \in 1..(k - 1) /\ last \in 1..(k - 1)
      /\ first \in DOMAIN e /\ last \in DOMAIN e
      /\ e[k].name = "PREV" => Len(args) = 2
  BY CallParts
<1>2. e[k].name \notin Unprepared /\ (e[k].name \in Periodic => OneNumber(e, args))
  BY DEF FastPathSafe
<1>3. CASE e[k].name = "PREV"
  <2> DEFINE X == V[first]
             Y == W[first]
             n == W[last][i]
  <2>1. V[args[2]][i] = n
    BY <1>1, <1>3 DEF SameOperands
  <2>2. DOMAIN X = DOMAIN df.bars /\ DOMAIN Y = DOMAIN df.bars /\ \A j \in DOMAIN df.bars : X[j] = Y[j]
    BY <1>1 DEF SameOperands
  <2> HIDE DEF X, Y, n
  <2>3. Before(X, n, i) = Before(Y, n, i)
    BY <2>2 DEF Before
  <2>4. FastCall(e[k], e, V, df, i) = Before(X, n, i)
    <3>1. FastCall(e[k], e, V, df, i) = Before(V[first], V[args[2]][i], i)
      BY <1>3 DEF FastCall, OpeningRanges
    <3> QED
      BY <2>1, <3>1 DEF X
  <2>5. SlowCall(e[k], e, W, df, i) = Before(Y, n, i)
    BY <1>3 DEF SlowCall, Y, n
  <2> QED
    BY <2>3, <2>4, <2>5
<1>4. CASE e[k].name \in Periodic
  <2>1. Len(args) = 1 /\ first = last /\ e[first].kind = "number"
    BY <1>2, <1>4 DEF OneNumber
  <2>2. W[last][i] = e[first].value /\ e[first].value \in Nat
    <3> DEFINE slow == FALSE
    <3>1. Solves(W, e, df, slow)
      BY DEF SlowColumns
    <3> HIDE DEF slow
    <3> QED
      BY <1>1, <2>1, <3>1, LiteralColumn
  <2> DEFINE n == e[first].value
  <2>3. \A name : OpeningColumn(name, n, df.bars, i) = OpeningRange(name, n, df.bars, i)
    BY <2>2, OpeningsBefore
  <2>4. CASE e[k].name = "SMA"
    <3>1. FastCall(e[k], e, V, df, i) = Rolling("SMA", "CLOSE", e[first].value, df, i)
      BY <1>2, <1>4, <2>4 DEF FastCall, OpeningRanges
    <3>2. SlowCall(e[k], e, W, df, i) = Rolling("SMA", "CLOSE", W[last][i], df, i)
      BY <2>1, <2>4 DEF SlowCall
    <3> QED
      BY <2>2, <3>1, <3>2
  <2>5. CASE e[k].name # "SMA"
    <3>1. e[k].name \in {"OPENING_RANGE_HIGH", "OPENING_RANGE_LOW"}
      BY <1>4, <2>5 DEF Periodic, OpeningRanges
    <3>2. FastCall(e[k], e, V, df, i) = OpeningColumn(e[k].name, n, df.bars, i)
      BY <1>2, <1>4, <3>1 DEF FastCall, OpeningRanges
    <3>3. SlowCall(e[k], e, W, df, i) = OpeningRange(e[k].name, n, df.bars, i)
      BY <2>2, <3>1 DEF SlowCall
    <3> QED
      BY <2>3, <3>2, <3>3
  <2> QED
    BY <2>4, <2>5
<1>5. e[k].name = "PREV" \/ e[k].name \in Periodic
  BY <1>1, <1>2 DEF Functions, Unprepared, Periodic, OpeningRanges
<1> QED
  BY <1>3, <1>4, <1>5

LEMMA EvaluatorsAgree ==
    ASSUME NEW e, IsParsed(e), FastPathSafe(e),
           NEW df, Len(df.bars) \in Nat, DOMAIN df.bars = 1..Len(df.bars),
           NEW V, FastColumns(V, e, df), NEW W, SlowColumns(W, e, df)
    PROVE  \A k \in DOMAIN e : \A i \in DOMAIN df.bars : V[k][i] = W[k][i]
<1> DEFINE fast == TRUE
           slow == FALSE
<1>a. fast /\ ~ slow
  OBVIOUS
<1> HIDE DEF fast, slow
<1>b. Solves(V, e, df, fast) /\ Solves(W, e, df, slow)
  BY DEF FastColumns, SlowColumns, fast, slow
<1>5. \A o \in DOMAIN e : DOMAIN V[o] = DOMAIN df.bars /\ DOMAIN W[o] = DOMAIN df.bars
  BY <1>b DEF Solves
<1> DEFINE D == DOMAIN df.bars
           G == {n \in Nat : n <= Len(e) => \A k \in 1..n : \A i \in D : V[k][i] = W[k][i]}
<1>1. Len(e) \in Nat /\ DOMAIN e = 1..Len(e)
  BY DEF IsParsed
<1>2. 0 \in G
  OBVIOUS
<1>3. ASSUME NEW n \in Nat, n \in G PROVE n + 1 \in G
  <2> SUFFICES ASSUME n + 1 <= Len(e) PROVE \A k \in 1..(n + 1) : \A i \in D : V[k][i] = W[k][i]
    OBVIOUS
  <2> DEFINE k == n + 1
  <2>1. k \in DOMAIN e /\ k \in Nat /\ \A o \in 1..(k - 1) : \A i \in D : V[o][i] = W[o][i]
    BY <1>1, <1>3
  <2>2. ASSUME NEW o \in 1..(n + 1) PROVE o \in 1..(k - 1) \/ o = k
    OBVIOUS
  <2> HIDE DEF k
  <2>3. ASSUME NEW i \in D PROVE V[k][i] = W[k][i]
    <3>1. V[k][i] = ValueAt(e[k], e, V, df, i, fast) /\ W[k][i] = ValueAt(e[k], e, W, df, i, slow)
      BY <1>b, <2>1 DEF Solves
    <3>2. CASE e[k].kind = "function"
      <4>1. k \in Calls(e)
        BY <2>1, <3>2 DEF Calls
      <4>2. SameOperands(V, W, k, df)
        <5>1. \A o \in 1..(k - 1) : o \in DOMAIN e
          BY <1>1, <2>1
        <5> QED
          BY <1>5, <2>1, <5>1 DEF SameOperands
      <4>3. i \in DOMAIN df.bars
        OBVIOUS
      <4> HIDE DEF G, D
      <4>4. FastCall(e[k], e, V, df, i) = SlowCall(e[k], e, W, df, i)
        BY <4>1, <4>2, <4>3, CallsServed
      <4> QED
        BY <1>a, <3>1, <3>2, <4>4 DEF ValueAt
    <3>3. CASE e[k].kind # "function"
      <4>1. /\ e[k].kind \in {"unary", "not"} => V[e[k].operand][i] = W[e[k].operand][i]
            /\ e[k].kind \in {"binary", "comparison", "boolean"} =>
                   V[e[k].left][i] = W[e[k].left][i] /\ V[e[k].right][i] = W[e[k].right][i]
        BY <2>1, NodeParts
      <4>2. e[k].kind \in {"number", "identifier", "unary", "not", "binary", "comparison", "boolean"}
        BY <2>1, <3>3, NodeParts
      <4>3. ValueAt(e[k], e, V, df, i, fast) = ValueAt(e[k], e, W, df, i, slow)
        BY ONLY <4>1, <4>2, FormulaLocal
      <4> QED
        BY <3>1, <4>3
    <3> QED
      BY <3>2, <3>3
  <2> QED
    BY <2>1, <2>2, <2>3
<1> HIDE DEF G
<1>4. Len(e) \in G
  BY <1>1, <1>2, <1>3, InductionOnNumbers
<1> QED
  BY <1>1, <1>4 DEF G

\* The evaluator the simulator takes for a condition says of every bar what the other
\* says (conditions.py).  A period that is computed may make either raise, and is left out.
THEOREM FastIsSlow ==
    \A e, df : IsParsed(e) /\ LiteralPeriods(e) /\ Len(df.bars) \in Nat /\ DOMAIN df.bars = 1..Len(df.bars) =>
        \A i : Fires(e, df, i, FastPathSafe(e)) <=> Fires(e, df, i, FALSE)
<1> SUFFICES ASSUME NEW e, NEW df, IsParsed(e), LiteralPeriods(e),
                    Len(df.bars) \in Nat, DOMAIN df.bars = 1..Len(df.bars), NEW i
             PROVE  Fires(e, df, i, FastPathSafe(e)) <=> Fires(e, df, i, FALSE)
  OBVIOUS
<1>1. CASE ~ FastPathSafe(e)
  <2>1. FastPathSafe(e) = FALSE
    BY <1>1 DEF FastPathSafe
  <2> QED
    BY <2>1
<1>2. CASE FastPathSafe(e)
  <2>1. FastPathSafe(e) = TRUE
    BY <1>2 DEF FastPathSafe
  <2> DEFINE V == Columns(e, df, TRUE)
             W == Columns(e, df, FALSE)
  <2>2. FastColumns(V, e, df) /\ SlowColumns(W, e, df)
    BY ONLY IsParsed(e), ColumnsUnfold, Zenon DEF FastColumns, SlowColumns
  <2>3. Len(e) \in DOMAIN e
    BY DEF IsParsed
  <2>4. \A k \in DOMAIN e : \A j \in DOMAIN df.bars : V[k][j] = W[k][j]
    <3> HIDE DEF V, W
    <3> QED
      BY <1>2, <2>2, EvaluatorsAgree
  <2>5. i \in DOMAIN df.bars => V[Len(e)][i] = W[Len(e)][i]
    <3> HIDE DEF V, W
    <3> QED
      BY <2>3, <2>4
  <2>6. Fires(e, df, i, TRUE) <=> Fires(e, df, i, FALSE)
    BY <2>5 DEF Fires
  <2> QED
    BY <2>1, <2>6
<1> QED
  BY <1>1, <1>2
-----------------------------------------------------------------------------
(* The last bars of a series: a candle is a bar, and what looks back no    *)
(* further than the candles sees there what it sees in the whole series.   *)

\* The greatest and the least of a finite set of integers are of the set.
LEMMA ExtremesAreMembers ==
    ASSUME NEW S, S \subseteq Int, IsFiniteSet(S), S # {}
    PROVE  Max(S) \in Int /\ Min(S) \in Int
<1> DEFINE q == Sorting(S)
           n == Cardinality(S)
<1>1. InPlace(S, q)
  BY NumbersInOrder
<1>2. n \in Nat /\ n # 0
  BY <1>1, FS_EmptySet DEF InPlace
<1> HIDE DEF q, n
<1>3. /\ \A k \in 1..n : q[k] \in S
      /\ \A c \in S : \E k \in 1..n : q[k] = c
      /\ \A i, j \in 1..n : i < j => q[i] < q[j]
  BY <1>1 DEF InPlace, n
<1>4. 1 \in 1..n /\ n \in 1..n /\ \A k \in 1..n : (k = 1 \/ 1 < k) /\ (k = n \/ k < n)
  BY <1>2
<1>5. \E x \in S : \A y \in S : x >= y
  <2>1. ASSUME NEW y \in S PROVE q[n] >= y
    <3>1. PICK k \in 1..n : q[k] = y
      BY <1>3
    <3>2. y = q[n] \/ y < q[n]
      BY <1>3, <1>4, <3>1
    <3>3. y \in Int /\ q[n] \in Int
      BY <1>3, <1>4
    <3> QED
      BY <3>2, <3>3
  <2> QED
    BY <1>3, <1>4, <2>1
<1>6. \E x \in S : \A y \in S : x <= y
  <2>1. ASSUME NEW y \in S PROVE q[1] <= y
    <3>1. PICK k \in 1..n : q[k] = y
      BY <1>3
    <3>2. y = q[1] \/ q[1] < y
      BY <1>3, <1>4, <3>1
    <3>3. y \in Int /\ q[1] \in Int
      BY <1>3, <1>4
    <3> QED
      BY <3>2, <3>3
  <2> QED
    BY <1>3, <1>4, <2>1
<1> QED
  BY <1>5, <1>6 DEF Max, Min

\* A series of bars: numbers, at strictly increasing stamps.
Series(B) ==
    /\ Len(B) \in Nat /\ DOMAIN B = 1..Len(B)
    /\ \A i \in 1..Len(B) : B[i].at \in Nat /\ B[i].high \in Int /\ B[i].low \in Int /\ B[i].close \in Int
    /\ \A i, j \in 1..Len(B) : i < j => B[i].at < B[j].at

LEMMA BarNumbers ==
    ASSUME NEW ms \in Seq(Minutes), NEW f \in Nat \ {0}, NEW b, Bin(ms, f, b) # {},
           NEW B, B = BarOf(Bin(ms, f, b), f)
    PROVE  B.high \in Int /\ B.low \in Int /\ B.close \in Int
<1> DEFINE A == Bin(ms, f, b)
           H == {m.high : m \in A}
           L == {m.low : m \in A}
           h == [m \in A |-> m.high]
           l == [m \in A |-> m.low]
           last == CHOOSE m \in A : \A o \in A : o.at <= m.at
           T == {m.at : m \in A}
<1>1. IsFiniteSet(A) /\ A # {} /\ \A m \in A : m \in Minutes /\ m.at \in Nat /\ m.at <= LastMinute
  <2>1. IsFiniteSet(Range(ms)) /\ A \subseteq Range(ms)
    BY MinutesParts DEF Bin
  <2> QED
    BY <2>1, FS_Subset, MinutesParts
<1> HIDE DEF A
<1>2. \A m \in A : m.high \in Int /\ m.low \in Int /\ m.close \in Int
  BY <1>1 DEF Minutes
<1>3. h \in Surjection(A, H) /\ l \in Surjection(A, L)
  BY DEF Surjection
<1>4. H \subseteq Int /\ L \subseteq Int /\ H # {} /\ L # {}
  BY <1>1, <1>2
<1> HIDE DEF h, l, H, L
<1>5. IsFiniteSet(H) /\ IsFiniteSet(L)
  BY <1>1, <1>3, FS_Surjection
<1>6. Max(H) \in Int /\ Min(L) \in Int
  BY <1>4, <1>5, ExtremesAreMembers
<1>7. \E m \in A : \A o \in A : o.at <= m.at
  <2>1. T \subseteq Nat /\ T # {} /\ (\A x \in T : x <= LastMinute) /\ LastMinute \in Nat
    BY <1>1, SignalAssumption
  <2>2. \A o \in A : o.at \in T
    OBVIOUS
  <2>3. \A x \in T : \E m \in A : x = m.at
    OBVIOUS
  <2> HIDE DEF T
  <2>4. PICK x \in T : \A y \in T : x >= y
    BY <2>1, GreatestNumber
  <2>5. PICK m \in A : x = m.at
    BY <2>3
  <2>6. \A o \in A : m.at >= o.at /\ m.at \in Nat /\ o.at \in Nat
    BY <1>1, <2>2, <2>4, <2>5
  <2> QED
    BY <2>6
<1>8. last \in A
  BY <1>7
<1> HIDE DEF last
<1>9. B.high = Max(H) /\ B.low = Min(L) /\ B.close = last.close
  BY DEF BarOf, Highest, Lowest, A, H, L, last
<1> QED
  BY <1>2, <1>6, <1>8, <1>9

LEMMA BarsAreSeries ==
    ASSUME NEW ms \in Seq(Minutes), NEW f \in Nat \ {0}
    PROVE  Series(Resampled(ms, f))
<1> DEFINE B == Resampled(ms, f)
<1>1. PICK q, n, S : StandFor(B, q, n, S, ms, f)
  BY BarsParts
<1> HIDE DEF B
<1>2. /\ n \in Nat /\ DOMAIN B = 1..n /\ Len(B) = n /\ S = BinsOf(ms, f)
      /\ q \in [1..n -> S]
      /\ \A k \in 1..n : B[k] = BarOf(Bin(ms, f, q[k]), f) /\ B[k].at \in Nat
      /\ \A i, j \in 1..n : i < j => B[i].at < B[j].at
  BY <1>1 DEF StandFor
<1>3. ASSUME NEW k \in 1..n PROVE B[k].high \in Int /\ B[k].low \in Int /\ B[k].close \in Int
  <2>1. q[k] \in BinsOf(ms, f)
    BY <1>2
  <2>2. Bin(ms, f, q[k]) # {}
    BY <2>1 DEF BinsOf, Bin
  <2>3. B[k] = BarOf(Bin(ms, f, q[k]), f)
    BY <1>2
  <2> QED
    BY <2>2, <2>3, BarNumbers
<1> QED
  BY <1>2, <1>3 DEF Series, B

\* Stamps are at least as far apart as the bars.
LEMMA StampsApart ==
    ASSUME NEW B, Series(B), NEW i \in 1..Len(B), NEW j \in 1..Len(B), i <= j
    PROVE  B[j].at - B[i].at >= j - i
<1> DEFINE G == {d \in Nat : i + d <= Len(B) => B[i + d].at >= B[i].at + d}
<1>1. Len(B) \in Nat /\ \A k \in 1..Len(B) : B[k].at \in Nat
  BY DEF Series
<1>2. 0 \in G
  <2>1. i + 0 = i /\ B[i].at >= B[i].at + 0
    BY <1>1
  <2> QED
    BY <2>1
<1>3. ASSUME NEW d \in Nat, d \in G PROVE d + 1 \in G
  <2> SUFFICES ASSUME i + (d + 1) <= Len(B) PROVE B[i + (d + 1)].at >= B[i].at + (d + 1)
    OBVIOUS
  <2> DEFINE k == i + d
             m == i + (d + 1)
             a == B[i].at
             b == B[k].at
             c == B[m].at
  <2>1. k \in 1..Len(B) /\ m \in 1..Len(B) /\ k < m /\ k <= Len(B)
    BY <1>1
  <2>2. b >= a + d
    BY <1>3, <2>1
  <2> HIDE DEF k, m
  <2>3. b < c
    BY <2>1 DEF Series
  <2>4. a \in Nat /\ b \in Nat /\ c \in Nat
    BY <1>1, <2>1
  <2> HIDE DEF a, b, c
  <2>5. c >= a + (d + 1)
    BY ONLY d \in Nat, <2>2, <2>3, <2>4
  <2> QED
    BY <2>5 DEF a, c, m
<1>4. \A d \in Nat : d \in G
  <2> HIDE DEF G
  <2> QED
    BY <1>2, <1>3, InductionOnNumbers
<1>5. j - i \in Nat /\ i + (j - i) = j
  BY <1>1
<1>6. B[j].at >= B[i].at + (j - i)
  BY <1>1, <1>4, <1>5
<1> QED
  BY <1>1, <1>6

\* So a session holds no more bars than minutes.
LEMMA SessionIsShort ==
    ASSUME NEW B, Series(B), NEW i \in 1..Len(B), NEW j \in 1..Len(B), i <= j,
           SessionOf(B[i]) = SessionOf(B[j])
    PROVE  j - i < SessionLength
<1>1. B[i].at \in Nat /\ B[j].at \in Nat /\ SessionLength \in Nat \ {0} /\ i \in Int /\ j \in Int
  BY SignalAssumption DEF Series
<1>2. B[j].at - B[i].at >= j - i
  BY StampsApart
<1>3. ASSUME NEW a \in Nat, NEW b \in Nat, NEW s \in Nat \ {0}, a \div s = b \div s PROVE b - a < s
  <2>1. /\ a \div s \in Nat /\ s * (a \div s) \in Nat /\ s * (a \div s) <= a
        /\ b < s * (b \div s) + s
    BY ONLY a \in Nat, b \in Nat, s \in Nat \ {0}
  <2> QED
    BY <1>3, <2>1
<1>4. B[j].at - B[i].at < SessionLength
  BY <1>1, <1>3 DEF SessionOf
<1> QED
  BY <1>1, <1>2, <1>4

\* The bars C are those of B without the first off.
Shifted(C, B, off) ==
    /\ Series(B) /\ off \in Nat
    /\ Len(C) \in Nat /\ DOMAIN C = 1..Len(C) /\ Len(B) = off + Len(C)
    /\ \A i \in 1..Len(C) : C[i] = B[i + off]

\* What looks n bars back from bar i of C does not look before C.
Reached(off, n, i) == off = 0 \/ n <= i

LEMMA ShiftedParts ==
    ASSUME NEW C, NEW B, NEW off, Shifted(C, B, off), NEW i \in 1..Len(C), NEW m, m = i + off
    PROVE  /\ Len(C) \in Nat /\ Len(B) \in Nat /\ DOMAIN C = 1..Len(C) /\ DOMAIN B = 1..Len(B)
           /\ off \in Nat /\ i \in Nat /\ m \in 1..Len(B) /\ C[i] = B[m]
  BY DEF Shifted, Series

\* A member of the session of a bar whose session C holds is a bar of C.
LEMMA SessionHeld ==
    ASSUME NEW C, NEW B, NEW off, Shifted(C, B, off), NEW i \in 1..Len(C), Reached(off, SessionLength, i),
           NEW j \in 1..(i + off), SessionOf(B[j]) = SessionOf(B[i + off])
    PROVE  j - off \in 1..i
<1> DEFINE m == i + off
<1>1. off \in Nat /\ i \in Nat /\ m \in 1..Len(B) /\ Len(B) \in Nat /\ m = i + off /\ j \in 1..m
  BY ShiftedParts
<1>2. Series(B) /\ SessionOf(B[j]) = SessionOf(B[m])
  BY DEF Shifted
<1> HIDE DEF m
<1>3. j \in 1..Len(B) /\ j <= m /\ j \in Nat
  BY ONLY <1>1
<1>4. m - j < SessionLength
  BY <1>1, <1>2, <1>3, SessionIsShort
<1>5. SessionLength \in Nat
  BY SignalAssumption
<1> QED
  BY <1>1, <1>3, <1>4, <1>5 DEF Reached

LEMMA PlacesShift ==
    ASSUME NEW C, NEW B, NEW off, Shifted(C, B, off), NEW i \in 1..Len(C), Reached(off, SessionLength, i),
           NEW k \in 1..i, SessionOf(C[k]) = SessionOf(C[i])
    PROVE  PlaceInSession(C, k) = PlaceInSession(B, k + off)
<1> DEFINE S == SessionSoFar(C, k)
           T == SessionSoFar(B, k + off)
           g == [j \in S |-> j + off]
<1>1. /\ off \in Nat /\ i \in Nat /\ k \in Nat /\ k \in 1..Len(C) /\ Len(C) \in Nat
      /\ \A j \in 1..k : j \in 1..Len(C) /\ j + off \in 1..(k + off) /\ j + off \in 1..(i + off)
      /\ \A j \in 1..(k + off) : j \in 1..(i + off) /\ j \in Nat
  BY DEF Shifted
<1>2. \A j \in 1..Len(C) : C[j] = B[j + off]
  BY DEF Shifted
<1>3. ASSUME NEW j \in S PROVE j + off \in T /\ j \in Nat
  BY <1>1, <1>2 DEF SessionSoFar
<1>4. ASSUME NEW j \in T PROVE j - off \in S /\ j = (j - off) + off
  <2>1. j \in 1..(k + off) /\ SessionOf(B[j]) = SessionOf(B[k + off])
    BY DEF SessionSoFar
  <2>2. SessionOf(B[j]) = SessionOf(B[i + off])
    BY <1>1, <1>2, <2>1
  <2>3. j - off \in 1..i
    BY <1>1, <2>1, <2>2, SessionHeld
  <2>4. j - off \in 1..k /\ j = (j - off) + off /\ j - off \in 1..Len(C)
    BY <1>1, <2>1, <2>3
  <2>5. C[j - off] = B[j] /\ C[k] = B[k + off]
    BY <1>1, <1>2, <2>4
  <2> QED
    BY <2>1, <2>4, <2>5 DEF SessionSoFar
<1>5. IsFiniteSet(S)
  <2>1. IsFiniteSet(1..k) /\ S \subseteq 1..k
    BY <1>1, FS_Interval DEF SessionSoFar
  <2> QED
    BY <2>1, FS_Subset
<1> HIDE DEF S, T
<1>6. g \in Bijection(S, T)
  <2>1. \A j \in S : g[j] \in T /\ g[j] = j + off /\ j \in Nat
    BY <1>3
  <2>2. \A j, l \in S : j + off = l + off => j = l
    BY <1>1, <1>3
  <2>3. \A j \in T : j - off \in S /\ g[j - off] = j
    BY <1>4
  <2> HIDE DEF g
  <2>4. g \in [S -> T]
    BY <2>1 DEF g
  <2>5. \A j, l \in S : g[j] = g[l] => j = l
    BY <2>1, <2>2
  <2>6. \A x \in T : \E j \in S : g[j] = x
    BY <2>3
  <2>7. g \in Injection(S, T) /\ g \in Surjection(S, T)
    BY <2>4, <2>5, <2>6 DEF Injection, Surjection, IsInjective
  <2> QED
    BY <2>7 DEF Bijection
<1>7. ExistsBijection(S, T)
  BY <1>6 DEF ExistsBijection
<1>8. Cardinality(S) = Cardinality(T)
  BY <1>5, <1>7, FS_Bijection
<1> QED
  BY <1>8 DEF PlaceInSession, S, T

\* The opening range of a session that C holds.
LEMMA OpeningsShift ==
    ASSUME NEW C, NEW B, NEW off, Shifted(C, B, off), NEW i \in 1..Len(C), Reached(off, SessionLength, i),
           NEW n, NEW name
    PROVE  Opening(name, n, C, i) = Opening(name, n, B, i + off)
<1> DEFINE m == i + off
           In(j) == SessionOf(C[j]) = SessionOf(C[i]) /\ PlaceInSession(C, j) <= n
           On(j) == SessionOf(B[j]) = SessionOf(B[m]) /\ PlaceInSession(B, j) <= n
<1>1. /\ off \in Nat /\ i \in Nat /\ i \in 1..i /\ m = i + off
      /\ \A j \in 1..i : j \in 1..Len(C) /\ j + off \in 1..m
  BY DEF Shifted
<1>2. \A j \in 1..i : C[j] = B[j + off]
  BY <1>1 DEF Shifted
<1>3. PlaceInSession(C, i) = PlaceInSession(B, m)
  BY <1>1, PlacesShift
<1>4. ASSUME NEW j \in 1..i, In(j) PROVE On(j + off)
  <2>1. PlaceInSession(C, j) = PlaceInSession(B, j + off)
    BY <1>4, PlacesShift
  <2> QED
    BY <1>1, <1>2, <1>4, <2>1
<1>5. ASSUME NEW j \in 1..m, On(j) PROVE j - off \in 1..i /\ In(j - off) /\ j = (j - off) + off
  <2>1. j - off \in 1..i
    BY <1>5, SessionHeld
  <2>2. j = (j - off) + off
    BY <1>1
  <2> DEFINE l == j - off
  <2>3. l \in 1..i /\ j = l + off
    BY <2>1, <2>2
  <2> HIDE DEF l
  <2>4. C[l] = B[j] /\ C[i] = B[m]
    BY <1>1, <1>2, <2>3
  <2>5. PlaceInSession(C, l) = PlaceInSession(B, j)
    BY <1>5, <2>3, <2>4, PlacesShift
  <2>6. In(l)
    BY <1>5, <2>4, <2>5
  <2> QED
    BY <2>3, <2>6 DEF l
<1> HIDE DEF In, On, m
<1>6. {C[j] : j \in {k \in 1..i : In(k)}} = {B[j] : j \in {k \in 1..m : On(k)}}
  <2>1. ASSUME NEW j \in {k \in 1..i : In(k)} PROVE \E k \in {l \in 1..m : On(l)} : B[k] = C[j]
    <3>1. j + off \in 1..m /\ On(j + off) /\ B[j + off] = C[j]
      BY <1>1, <1>2, <1>4
    <3> QED
      BY <3>1
  <2>2. ASSUME NEW k \in {l \in 1..m : On(l)} PROVE \E j \in {l \in 1..i : In(l)} : C[j] = B[k]
    <3>1. k - off \in 1..i /\ In(k - off) /\ C[k - off] = B[k]
      BY <1>2, <1>5
    <3> QED
      BY <3>1
  <2> DEFINE P == {k \in 1..i : In(k)}
             Q == {k \in 1..m : On(k)}
  <2>3. (\A j \in P : \E k \in Q : B[k] = C[j]) /\ (\A k \in Q : \E j \in P : C[j] = B[k])
    BY <2>1, <2>2
  <2> HIDE DEF P, Q
  <2> DEFINE X == {C[j] : j \in P}
             Y == {B[j] : j \in Q}
  <2>4. \A j \in P : C[j] \in Y
    <3>1. \A j \in P : \E k \in Q : C[j] = B[k]
      BY ONLY <2>3
    <3> QED
      BY ONLY <3>1
  <2>5. \A k \in Q : B[k] \in X
    <3>1. \A k \in Q : \E j \in P : B[k] = C[j]
      BY ONLY <2>3
    <3> QED
      BY ONLY <3>1
  <2>6. \A x : x \in X => x \in Y
    <3> HIDE DEF Y
    <3> QED
      BY ONLY <2>4
  <2>7. \A x : x \in Y => x \in X
    <3> HIDE DEF X
    <3> QED
      BY ONLY <2>5
  <2>8. X = Y
    <3> HIDE DEF X, Y
    <3> QED
      BY ONLY <2>6, <2>7
  <2> QED
    BY <2>8 DEF P, Q
<1>7. OpeningBars(n, C, i) = OpeningBars(n, B, m)
  BY <1>6 DEF OpeningBars, In, On
<1> QED
  BY <1>3, <1>7 DEF Opening, m

\* A rolling aggregate of the last n bars.
LEMMA RollingShift ==
    ASSUME NEW cf, NEW df, NEW off, Shifted(cf.bars, df.bars, off), NEW i \in 1..Len(cf.bars), NEW n \in Nat,
           Reached(off, n, i), NEW agg \in {"SMA", "AVG", "MAX", "MIN"}, NEW field \in Fields
    PROVE  Rolling(agg, field, n, cf, i) = Rolling(agg, field, n, df, i + off)
<1> DEFINE C == cf.bars
           B == df.bars
           m == i + off
           D == (i - n + 1)..i
           E == (m - n + 1)..m
           h == [j \in D |-> Field(field, C[j])]
           f == [j \in E |-> Field(field, B[j])]
           g == [j \in D |-> j + off]
<1>1. off \in Nat /\ i \in Nat /\ m \in Nat /\ m = i + off /\ Len(C) \in Nat /\ Len(B) = off + Len(C)
  BY DEF Shifted
<1>2. CASE n <= 0 \/ i < n
  <2>1. n <= 0 \/ (i < n /\ m < n)
    BY <1>1, <1>2 DEF Reached
  <2> HIDE DEF m
  <2>2. Rolling(agg, field, n, df, m) = NaN
    BY <2>1 DEF Rolling
  <2> QED
    BY <1>2, <2>2 DEF Rolling, m
<1>3. CASE ~ (n <= 0 \/ i < n)
  <2>1. ~ (n <= 0 \/ m < n)
    BY <1>1, <1>3
  <2>2. \A j \in D : j \in 1..Len(C) /\ j \in Nat /\ j + off \in E /\ j + off \in 1..Len(B)
    BY <1>1, <1>3
  <2>3. \A k \in E : k - off \in D /\ k = (k - off) + off
    BY <1>1, <1>3
  <2>4. \A j \in D : C[j] = B[j + off]
    BY <2>2 DEF Shifted
  <2>5. \A j \in 1..Len(B) : Field(field, B[j]) \in Int
    BY DEF Shifted, Series, Field, Fields
  <2>6. IsFiniteSet(D) /\ \A j \in D : j \in Int
    <3>1. i - n + 1 \in Int /\ i \in Int
      BY <1>1
    <3> QED
      BY <3>1, FS_Interval
  <2> HIDE DEF D, E, m
  <2>7. \A j \in D : g[j] = j + off /\ f[g[j]] = Field(field, B[j + off]) /\ f[g[j]] \in Int
    BY <2>2, <2>5
  <2>8. \A j, k \in D : g[j] = g[k] => j = k
    BY <1>1, <2>6
  <2>9. {g[j] : j \in D} = E
    <3>1. \A j \in D : g[j] \in E
      BY <2>2
    <3>2. \A k \in E : k - off \in D /\ g[k - off] = k
      BY <2>3
    <3> HIDE DEF g
    <3> QED
      BY <3>1, <3>2
  <2>10. h = [j \in D |-> f[g[j]]]
    BY <2>4, <2>7
  <2>11. DOMAIN h = D /\ DOMAIN f = E
    OBVIOUS
  <2>12. \A j \in D : h[j] = f[g[j]]
    BY <2>4, <2>7
  <2> HIDE DEF f, g, h
  <2>13. SumFunctionOnSet(f, E) = SumFunctionOnSet(h, D)
    BY <2>6, <2>7, <2>8, <2>9, <2>10, SumReindex
  <2>14. Range(h) = Range(f)
    <3>1. \A k \in E : \E j \in D : g[j] = k
      BY <2>9
    <3>2. \A j \in D : g[j] \in E
      BY <2>9
    <3> QED
      BY <2>11, <2>12, <3>1, <3>2 DEF Range
  <2>15. Aggregate(agg, h, n) = Aggregate(agg, f, n)
    BY <2>11, <2>13, <2>14 DEF Aggregate
  <2>16. Rolling(agg, field, n, cf, i) = Aggregate(agg, h, n)
    BY <1>3 DEF Rolling, h, D, C
  <2>17. Rolling(agg, field, n, df, m) = Aggregate(agg, f, n)
    BY <2>1 DEF Rolling, f, E, B
  <2> QED
    BY <2>15, <2>16, <2>17 DEF m
<1> QED
  BY <1>2, <1>3

\* The columns X of the bars C and Y of the bars B, from the bar that looks r bars back on.
SameFrom(X, Y, off, r, n) == \A j \in 1..n : Reached(off, r, j) => X[j] = Y[j + off]

LEMMA BeforesShift ==
    ASSUME NEW C, NEW B, NEW off, Shifted(C, B, off), NEW X, DOMAIN X = DOMAIN C, NEW Y, DOMAIN Y = DOMAIN B,
           NEW r \in Nat \ {0}, SameFrom(X, Y, off, r, Len(C)),
           NEW i \in 1..Len(C), NEW n \in Nat, Reached(off, r + n, i)
    PROVE  Before(X, n, i) = Before(Y, n, i + off)
<1> DEFINE m == i + off
           j == i - n
<1>1. /\ Len(C) \in Nat /\ Len(B) = off + Len(C) /\ DOMAIN X = 1..Len(C) /\ DOMAIN Y = 1..Len(B)
      /\ off \in Nat /\ i \in Nat /\ m \in 1..Len(B)
  BY ShiftedParts DEF Shifted
<1>2. m - n = j + off /\ j \in Int /\ j <= Len(C)
  BY <1>1
<1>3. CASE j >= 1
  <2>1. j \in 1..Len(C) /\ j + off \in 1..Len(B)
    BY <1>1, <1>2, <1>3
  <2>2. Reached(off, r, j)
    BY <1>1 DEF Reached
  <2>3. X[j] = Y[j + off]
    BY <2>1, <2>2 DEF SameFrom
  <2> QED
    BY <1>1, <1>2, <2>1, <2>3 DEF Before
<1>4. CASE ~ (j >= 1)
  <2>1. off = 0
    BY <1>1, <1>4 DEF Reached
  <2>2. j \notin 1..Len(C) /\ m - n \notin 1..Len(B)
    BY <1>1, <1>2, <1>4, <2>1
  <2> QED
    BY <1>1, <2>2 DEF Before
<1> QED
  BY <1>3, <1>4

\* A name the live engine has a column for.
LiveName(x) == x \notin PatternNames \cup {"REF_CLOSE", "RS"}

LEMMA ColumnShifts ==
    ASSUME NEW cf, NEW df, NEW off, Shifted(cf.bars, df.bars, off), NEW i \in 1..Len(cf.bars), NEW x, LiveName(x)
    PROVE  Column(x, cf, i) = Column(x, df, i + off)
  BY DEF Column, LiveName, Shifted

\* How far the nodes of e look back, one bar at least.
LooksNoFurther(e, reach) == Reaches(e, reach) /\ reach \in [DOMAIN e -> Nat \ {0}]

\* A call that does not look before the candles.
LEMMA CallsShift ==
    ASSUME NEW e, IsParsed(e), LiteralPeriods(e), NEW k \in Calls(e), LiveName(e[k].name),
           NEW reach, LooksNoFurther(e, reach), NEW cf, NEW df, NEW off, Shifted(cf.bars, df.bars, off),
           NEW slow, NEW V, Solves(V, e, cf, slow), NEW W, Solves(W, e, df, slow),
           \A o \in 1..(k - 1) : SameFrom(V[o], W[o], off, reach[o], Len(cf.bars)),
           NEW i \in 1..Len(cf.bars), Reached(off, reach[k], i)
    PROVE  SlowCall(e[k], e, V, cf, i) = SlowCall(e[k], e, W, df, i + off)
<1> DEFINE args == e[k].args
           first == args[1]
           last == args[Len(args)]
           n == e[last].value
           m == i + off
           C == cf.bars
           B == df.bars
<1>1. /\ k \in DOMAIN e /\ e[k].kind = "function" /\ e[k].name \in Functions
      /\ Len(args) \in {1, 2} /\ first \in 1..(k - 1) /\ last \in 1..(k - 1)
      /\ first \in DOMAIN e /\ last \in DOMAIN e
      /\ Arguments(e, e[k].name, args) /\ Period(e, k) = e[last]
  BY CallParts
<1>2. /\ Len(C) \in Nat /\ Len(B) \in Nat /\ DOMAIN C = 1..Len(C) /\ DOMAIN B = 1..Len(B)
      /\ off \in Nat /\ i \in Nat /\ m \in 1..Len(B) /\ i \in DOMAIN C /\ m \in DOMAIN B
  BY ShiftedParts
<1>3. e[last].kind = "number"
  BY <1>1 DEF LiteralPeriods
<1>4. n \in Nat /\ V[last][i] = n /\ W[last][m] = n
  <2> HIDE DEF m, last
  <2>1. last \in DOMAIN e /\ e[last].kind = "number" /\ i \in DOMAIN cf.bars /\ m \in DOMAIN df.bars
    BY <1>1, <1>2, <1>3
  <2>2. V[last][i] = e[last].value /\ e[last].value \in Nat
    BY <2>1, LiteralColumn
  <2>3. W[last][m] = e[last].value
    BY <2>1, LiteralColumn
  <2> QED
    BY <2>2, <2>3
<1>5. reach[k] \in Nat \ {0} /\ reach[first] \in Nat \ {0}
  BY <1>1 DEF LooksNoFurther
<1>6. CASE e[k].name = "PREV"
  <2>1. reach[first] + n <= reach[k]
    BY <1>1, <1>6 DEF LooksNoFurther, Reaches
  <2> DEFINE X == V[first]
             Y == W[first]
             r == reach[first]
  <2>2. DOMAIN X = DOMAIN C /\ DOMAIN Y = DOMAIN B /\ SameFrom(X, Y, off, r, Len(C)) /\ r \in Nat \ {0}
    BY <1>1, <1>5 DEF Solves
  <2>3. Reached(off, r + n, i)
    <3> DEFINE q == reach[k]
    <3>1. r + n <= q /\ (off = 0 \/ q <= i) /\ q \in Nat /\ r \in Nat /\ n \in Nat /\ i \in Nat
      BY <1>2, <1>4, <1>5, <2>1 DEF Reached
    <3> HIDE DEF r, n, q
    <3>2. off = 0 \/ r + n <= i
      BY ONLY <3>1
    <3> QED
      BY <3>2 DEF Reached
  <2>4. SlowCall(e[k], e, V, cf, i) = Before(X, n, i) /\ SlowCall(e[k], e, W, df, m) = Before(Y, n, m)
    BY <1>4, <1>6 DEF SlowCall
  <2> HIDE DEF X, Y, r, n
  <2>5. Before(X, n, i) = Before(Y, n, m)
    BY <1>4, <2>2, <2>3, BeforesShift
  <2> QED
    BY <2>4, <2>5
<1>7. CASE e[k].name \in {"SMA", "AVG", "MAX", "MIN"}
  <2> DEFINE field == IF Len(args) = 1 THEN "CLOSE" ELSE e[first].name
             agg == e[k].name
  <2>1. field \in Fields
    BY <1>1, <1>7 DEF Arguments, IsField, Fields
  <2>2. n <= reach[k]
    BY <1>1, <1>7 DEF LooksNoFurther, Reaches
  <2>3. Reached(off, n, i)
    BY <1>2, <1>4, <1>5, <2>2 DEF Reached
  <2>4. /\ SlowCall(e[k], e, V, cf, i) = Rolling(agg, field, n, cf, i)
        /\ SlowCall(e[k], e, W, df, m) = Rolling(agg, field, n, df, m)
    BY <1>4, <1>7 DEF SlowCall
  <2> HIDE DEF field, n
  <2>5. Rolling(agg, field, n, cf, i) = Rolling(agg, field, n, df, m)
    BY <1>4, <1>7, <2>1, <2>3, RollingShift
  <2> QED
    BY <2>4, <2>5
<1>8. CASE e[k].name \in OpeningRanges
  <2> DEFINE name == e[k].name
  <2>1. SessionLength <= reach[k] /\ SessionLength \in Nat
    BY <1>1, <1>8, SignalAssumption DEF LooksNoFurther, Reaches, OpeningRanges
  <2>2. Reached(off, SessionLength, i)
    BY <1>2, <1>5, <2>1 DEF Reached
  <2>3. /\ SlowCall(e[k], e, V, cf, i) = OpeningRange(name, n, C, i)
        /\ SlowCall(e[k], e, W, df, m) = OpeningRange(name, n, B, m)
    BY <1>4, <1>8 DEF SlowCall, OpeningRanges
  <2> HIDE DEF n
  <2>4. OpeningRange(name, n, C, i) = Opening(name, n, C, i)
    BY <1>2, <1>4, OpeningsBefore
  <2>5. OpeningRange(name, n, B, m) = Opening(name, n, B, m)
    BY <1>2, <1>4, OpeningsBefore
  <2>6. Opening(name, n, C, i) = Opening(name, n, B, m)
    BY <2>2, OpeningsShift
  <2> QED
    BY <2>3, <2>4, <2>5, <2>6
<1>9. e[k].name \in {"PREV", "SMA", "AVG", "MAX", "MIN"} \cup OpeningRanges
  BY <1>1 DEF Functions, LiveName, OpeningRanges
<1> QED
  BY <1>6, <1>7, <1>8, <1>9

\* Every node of a condition of live names says of a bar of the candles, from the bar it
\* reaches back from on, what it says of that bar in the whole series.
LEMMA ColumnsShift ==
    ASSUME NEW e, IsParsed(e), LiteralPeriods(e),
           \A k \in DOMAIN e : e[k].kind \in {"identifier", "function"} => LiveName(e[k].name),
           NEW reach, LooksNoFurther(e, reach), NEW cf, NEW df, NEW off, Shifted(cf.bars, df.bars, off),
           NEW V, SlowColumns(V, e, cf), NEW W, SlowColumns(W, e, df)
    PROVE  \A k \in DOMAIN e : SameFrom(V[k], W[k], off, reach[k], Len(cf.bars))
<1> DEFINE slow == FALSE
<1>a. ~ slow
  OBVIOUS
<1> HIDE DEF slow
<1>b. Solves(V, e, cf, slow) /\ Solves(W, e, df, slow)
  BY DEF SlowColumns, slow
<1> DEFINE c == Len(cf.bars)
           G == {n \in Nat : n <= Len(e) => \A k \in 1..n : SameFrom(V[k], W[k], off, reach[k], c)}
<1>1. Len(e) \in Nat /\ DOMAIN e = 1..Len(e)
  BY DEF IsParsed
<1>2. 0 \in G
  OBVIOUS
<1>3. ASSUME NEW n \in Nat, n \in G PROVE n + 1 \in G
  <2> SUFFICES ASSUME n + 1 <= Len(e) PROVE \A k \in 1..(n + 1) : SameFrom(V[k], W[k], off, reach[k], c)
    OBVIOUS
  <2> DEFINE k == n + 1
  <2>1. k \in DOMAIN e /\ k \in Nat /\ \A o \in 1..(k - 1) : SameFrom(V[o], W[o], off, reach[o], c)
    BY <1>1, <1>3
  <2>2. \A o \in 1..(n + 1) : o \in 1..(k - 1) \/ o = k
    OBVIOUS
  <2> HIDE DEF k
  <2>3. ASSUME NEW i \in 1..c, Reached(off, reach[k], i) PROVE V[k][i] = W[k][i + off]
    <3> DEFINE m == i + off
    <3>1. /\ i \in DOMAIN cf.bars /\ m \in DOMAIN df.bars /\ m = i + off /\ off \in Nat /\ i \in Nat
      BY ShiftedParts
    <3> HIDE DEF m
    <3>2. V[k][i] = ValueAt(e[k], e, V, cf, i, slow) /\ W[k][m] = ValueAt(e[k], e, W, df, m, slow)
      BY <1>b, <2>1, <3>1 DEF Solves
    <3>3. CASE e[k].kind = "function"
      <4>1. k \in Calls(e) /\ LiveName(e[k].name)
        BY <2>1, <3>3 DEF Calls
      <4>2. SlowCall(e[k], e, V, cf, i) = SlowCall(e[k], e, W, df, m)
        BY <1>b, <2>1, <2>3, <3>1, <4>1, CallsShift
      <4> QED
        BY <1>a, <3>1, <3>2, <3>3, <4>2 DEF ValueAt
    <3>4. CASE e[k].kind # "function"
      <4>1. \A o \in Operands(e[k]) : reach[o] <= reach[k]
        BY <2>1 DEF LooksNoFurther, Reaches
      <4>2. ASSUME NEW o \in Operands(e[k]), o \in 1..(k - 1) PROVE V[o][i] = W[o][m]
        <5>1. reach[o] <= reach[k] /\ o \in DOMAIN e
          BY <1>1, <2>1, <4>1, <4>2
        <5>2. reach[o] \in Nat /\ reach[k] \in Nat
          BY <2>1, <5>1 DEF LooksNoFurther
        <5>3. Reached(off, reach[o], i)
          BY <2>3, <3>1, <5>1, <5>2 DEF Reached
        <5> QED
          BY <2>1, <3>1, <4>2, <5>3 DEF SameFrom
      <4>3. e[k].kind \in {"number", "identifier", "unary", "not", "binary", "comparison", "boolean"}
        BY <2>1, <3>4, NodeParts
      <4>4. e[k].kind \in {"unary", "not"} => V[e[k].operand][i] = W[e[k].operand][m]
        BY <2>1, <4>2, NodeParts DEF Operands
      <4>5. e[k].kind \in {"binary", "comparison", "boolean"} =>
               V[e[k].left][i] = W[e[k].left][m] /\ V[e[k].right][i] = W[e[k].right][m]
        BY <2>1, <4>2, NodeParts DEF Operands
      <4>6. e[k].kind = "identifier" => Column(e[k].name, cf, i) = Column(e[k].name, df, m)
        BY <2>1, <3>1, ColumnShifts
      <4>7. ValueAt(e[k], e, V, cf, i, slow) = ValueAt(e[k], e, W, df, m, slow)
        BY ONLY <4>3, <4>4, <4>5, <4>6, FormulaLocal
      <4> QED
        BY <3>1, <3>2, <4>7
    <3> QED
      BY <3>3, <3>4
  <2>4. SameFrom(V[k], W[k], off, reach[k], c)
    BY <2>3 DEF SameFrom
  <2> QED
    BY <2>1, <2>2, <2>4
<1> HIDE DEF G
<1>4. Len(e) \in G
  BY <1>1, <1>2, <1>3, InductionOnNumbers
<1> QED
  BY <1>1, <1>4 DEF G

\* The candles fetched are the last bars, Lookback of them if there are as many.
LEMMA CandlesShift ==
    ASSUME strategy.frame \in Nat \ {0}, NEW ms \in Seq(Minutes), ms # <<>>,
           NEW B, B = Bars(ms), NEW C, C = Candles(ms)
    PROVE  /\ Series(B) /\ Len(B) \in 1..Len(B) /\ Len(C) \in 1..Len(C)
           /\ Last(C) = B[Len(B)] /\ C[Len(C)] = B[Len(B)]
           /\ \E off : Shifted(C, B, off) /\ Reached(off, Lookback, Len(C)) /\ Len(C) + off = Len(B)
<1> DEFINE f == strategy.frame
           n == Len(B)
           low == n - Lookback + 1
           from == Max({1, low})
           off == from - 1
<1>1. B = Resampled(ms, f)
  BY DEF Bars
<1>2. Series(B) /\ DOMAIN B = 1..n /\ n \in Nat
  BY <1>1, BarsAreSeries DEF Series
<1>3. n >= 1
  <2>1. PICK q, k, S : StandFor(B, q, k, S, ms, f)
    BY <1>1, BarsParts
  <2>2. ms[1] \in Range(ms)
    BY DEF Range
  <2>3. ms[1].at \div f \in S
    BY <2>1, <2>2 DEF StandFor, BinsOf
  <2>4. \E j \in 1..k : q[j] = ms[1].at \div f
    BY <2>1, <2>3 DEF StandFor
  <2> QED
    BY <2>1, <2>4 DEF StandFor
<1>4. low \in Int /\ low <= n
  BY <1>2, SignalAssumption
<1>5. from \in {1, low} /\ from >= 1 /\ from >= low
  <2>1. 1 >= low \/ low >= 1
    BY <1>4
  <2> HIDE DEF low
  <2>2. \E x \in {1, low} : \A y \in {1, low} : x >= y
    BY <1>4, <2>1
  <2> QED
    BY <2>2 DEF Max
<1>6. from \in 1..n /\ from \in Int /\ off \in Nat /\ from + off \in Int /\ from = off + 1
  <2> HIDE DEF low, from
  <2> QED
    BY <1>2, <1>3, <1>4, <1>5
<1>7. C = SubSeq(B, from, n)
  BY DEF Candles
<1>8. off = 0 \/ n - off = Lookback
  <2>1. from = 1 \/ from = n - Lookback + 1
    BY <1>5
  <2> HIDE DEF from
  <2> QED
    BY <1>2, <1>6, <2>1, SignalAssumption
<1> HIDE DEF from, low, n, off
<1> DEFINE T == {B[i] : i \in from..n}
<1>9. \A i \in from..n : B[i] \in T
  OBVIOUS
<1> HIDE DEF T
<1>10. /\ SubSeq(B, from, n) \in Seq(T)
       /\ Len(SubSeq(B, from, n)) = IF from <= n THEN n - from + 1 ELSE 0
       /\ \A i \in 1..(n - from + 1) : SubSeq(B, from, n)[i] = B[from + i - 1]
  BY <1>2, <1>6, <1>9, SubSeqProperties
<1>11. C \in Seq(T) /\ Len(C) = n - off /\ \A i \in 1..(n - off) : C[i] = B[from + i - 1]
  <2>1. n - from + 1 = n - off /\ from <= n
    BY <1>2, <1>6
  <2> QED
    BY <1>7, <1>10, <2>1
<1>12. \A i \in 1..(n - off) : C[i] = B[i + off]
  <2>1. \A i \in 1..(n - off) : from + i - 1 = i + off
    BY <1>2, <1>6
  <2> QED
    BY <1>11, <2>1
<1>13. Len(C) \in Nat /\ DOMAIN C = 1..Len(C) /\ n = off + Len(C) /\ Len(C) >= 1
  BY <1>2, <1>6, <1>11
<1>14. Shifted(C, B, off)
  BY <1>2, <1>6, <1>11, <1>12, <1>13 DEF Shifted, n
<1>15. Reached(off, Lookback, Len(C))
  BY <1>2, <1>6, <1>8, <1>11, SignalAssumption DEF Reached
<1>16. Len(C) \in 1..Len(C) /\ n \in 1..n /\ Len(C) + off = n
  BY <1>2, <1>3, <1>6, <1>13
<1>17. C[Len(C)] = B[n]
  BY <1>11, <1>12, <1>13, <1>16
<1> QED
  BY <1>2, <1>14, <1>15, <1>16, <1>17 DEF n, Last

\* What the live engine says of its last candle is what a backtest of the same minutes says.
LEMMA LiveSignals ==
    ASSUME strategy \in Strategies, LooksBack, LookbackSuffices, FormulaOnly,
           NEW ms \in Seq(Minutes), ms # <<>>, NEW rs, NEW s, s = Last(Candles(ms)).at
    PROVE  /\ s \in Stamps(Bars(ms))
           /\ LiveSignal(Candles(ms)) = EntrySignals(ms, rs)[s]
<1> DEFINE f == strategy.frame
           B == Bars(ms)
           C == Candles(ms)
           n == Len(B)
           c == Len(C)
           df == BacktestFrame(B, rs)
           cf == Plain(C)
           e == strategy.condition
<1>1. f \in Nat \ {0} /\ IsParsed(e) /\ LiteralPeriods(e) /\ B = Resampled(ms, f)
  BY StrategyParts DEF Bars
<1>2. /\ Series(B) /\ n \in 1..n /\ c \in 1..c /\ Last(C) = B[n]
      /\ \E off : Shifted(C, B, off) /\ Reached(off, Lookback, c) /\ c + off = n
  BY <1>1, CandlesShift
<1>3. PICK off : Shifted(C, B, off) /\ Reached(off, Lookback, c) /\ c + off = n
  BY <1>2
<1>4. PICK reach \in [DOMAIN e -> 1..Lookback] : Reaches(e, reach)
  BY DEF LookbackSuffices
<1>5. LooksNoFurther(e, reach)
  <2>1. \A x \in 1..Lookback : x \in Nat \ {0}
    BY SignalAssumption
  <2> DEFINE L == 1..Lookback
             N == Nat \ {0}
             D == DOMAIN e
  <2>2. reach \in [D -> L] /\ \A x \in L : x \in N
    BY <1>4, <2>1
  <2> HIDE DEF L, N, D
  <2>3. reach \in [D -> N]
    BY <2>2
  <2> QED
    BY <1>4, <2>3 DEF LooksNoFurther, D, N
<1>6. \A k \in DOMAIN e : e[k].kind \in {"identifier", "function"} => LiveName(e[k].name)
  BY DEF FormulaOnly, Reads, LiveName
<1> HIDE DEF B, C, e, f
<1>7. df.bars = B /\ cf.bars = C
  BY DEF BacktestFrame, Plain
<1> HIDE DEF df, cf, n, c
<1>8. n \in DOMAIN B /\ c \in DOMAIN C /\ n = Len(B) /\ c = Len(C) /\ DOMAIN B = 1..Len(B) /\ Len(B) \in Nat
      /\ DOMAIN C = 1..Len(C) /\ Len(C) \in Nat /\ off \in Nat
  BY <1>2, <1>3 DEF Series, Shifted, n, c
<1> DEFINE V == Columns(e, cf, FALSE)
           W == Columns(e, df, FALSE)
           top == Len(e)
<1>9. SlowColumns(V, e, cf) /\ SlowColumns(W, e, df)
  BY ONLY <1>1, ColumnsUnfold, Zenon DEF SlowColumns
<1>10. top \in DOMAIN e
  BY <1>1 DEF IsParsed
<1>11. V[top][c] = W[top][n]
  <2> HIDE DEF V, W, top
  <2>1. SameFrom(V[top], W[top], off, reach[top], c)
    BY <1>1, <1>3, <1>5, <1>6, <1>7, <1>8, <1>9, <1>10, ColumnsShift
  <2>2. reach[top] <= Lookback /\ reach[top] \in Nat /\ Lookback \in Nat
    BY <1>4, <1>10, SignalAssumption DEF e
  <2>3. Reached(off, reach[top], c)
    BY <1>3, <1>8, <2>2 DEF Reached
  <2>4. c \in 1..c
    BY <1>2
  <2> QED
    BY <1>3, <2>1, <2>3, <2>4 DEF SameFrom
<1>12. Fires(e, cf, c, FALSE) <=> Fires(e, df, n, FALSE)
  BY <1>7, <1>8, <1>11 DEF Fires
<1>13. Fires(e, df, n, FastPathSafe(e)) <=> Fires(e, df, n, FALSE)
  BY <1>1, <1>7, <1>8, FastIsSlow
<1>14. LiveSignal(C) <=> Fires(e, cf, c, FALSE)
  BY DEF LiveSignal, e, cf, c
<1>15. EntrySignal(ms, df, n) <=> Fires(e, df, n, FastPathSafe(e))
  BY DEF EntrySignal, FormulaOnly, e
<1>16. s = B[n].at /\ s \in Stamps(B) /\ PlaceOf(B, s) = n
  BY <1>1, <1>2, <1>8, PlaceOfStamp DEF C
<1>17. EntrySignals(ms, rs)[s] = EntrySignal(ms, df, n)
  BY <1>16 DEF EntrySignals, df, B
<1>18. LiveSignal(C) = EntrySignal(ms, df, n)
  <2>1. LiveSignal(C) <=> EntrySignal(ms, df, n)
    BY <1>12, <1>13, <1>14, <1>15
  <2> QED
    BY <2>1 DEF LiveSignal, EntrySignal, Fires
<1> QED
  BY <1>16, <1>17, <1>18 DEF B, C

LEMMA LiveStands ==
    ASSUME LooksBack, LookbackSuffices, SignalInv PROVE LiveIsBacktested
<1> SUFFICES ASSUME asked.by = "live", FormulaOnly PROVE AgreesWithBacktest
  BY DEF LiveIsBacktested
<1>1. PICK ms, rs \in Seq(Minutes) : AskedOf(ms, rs)
  BY DEF SignalInv
<1> DEFINE s == Last(Candles(ms)).at
<1>2. /\ SameBefore(ms, minutes, asked.when) /\ SameBefore(rs, benchmark, asked.when) /\ ms # <<>>
      /\ asked.signal = [t \in {s} |-> LiveSignal(Candles(ms))]
  BY <1>1 DEF AskedOf
<1>3. /\ strategy \in Strategies /\ asked.when \in Nat
      /\ minutes \in Seq(Minutes) /\ benchmark \in Seq(Minutes)
  BY SignalAssumption DEF SignalInv, SignalTypeOK
<1>4. s \in Stamps(Bars(ms)) /\ LiveSignal(Candles(ms)) = EntrySignals(ms, rs)[s]
  BY <1>2, <1>3, LiveSignals
<1> HIDE DEF s
<1>5. ASSUME NEW t \in ClosedBars PROVE asked.signal[t] = EntrySignals(minutes, benchmark)[t]
  <2>1. t = s /\ t + strategy.frame <= asked.when
    BY <1>2 DEF ClosedBars
  <2>2. EntrySignals(ms, rs)[s] = EntrySignals(minutes, benchmark)[s]
    BY <1>2, <1>3, <1>4, <2>1, SignalsAgree
  <2> QED
    BY <1>2, <1>4, <2>1, <2>2
<1> QED
  BY <1>5 DEF AgreesWithBacktest

\* The live engine, over the last candles and with the evaluator of the data frame, says of
\* a bar that has closed what every backtest of it says (rule_engine.py, runner.py), when no
\* condition looks forward and the candles reach back as far as it looks.
THEOREM LiveMatchesBacktest == LooksBack /\ LookbackSuffices => (SignalSpec => []LiveIsBacktested)
<1> SUFFICES ASSUME LooksBack, LookbackSuffices PROVE SignalSpec => []LiveIsBacktested
  OBVIOUS
<1>1. SignalInv => LiveIsBacktested
  BY LiveStands
<1> QED
  BY <1>1, SignalInvariant, PTL
=============================================================================
