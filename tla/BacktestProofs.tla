----------------------------- MODULE BacktestProofs -----------------------------
(***************************************************************************)
(* Proofs about the backtests: the replay over the shared capital          *)
(* (DynamicBacktest, BacktestPortfolio, UniverseResolver), for any         *)
(* capital, limits, symbols and trades, and the life of the rows           *)
(* (BacktestLifecycle), for any set of backtests, attempts, lost calls and *)
(* restarts.                                                               *)
(***************************************************************************)
EXTENDS DynamicBacktest, BacktestLifecycle, SumLemmas
-----------------------------------------------------------------------------
(* What the state of a replay is made of. *)

Position == [seq : Nat, symbol : Symbols, exit : Nat, alloc : Nat, pct : {n \in Int : n >= -100}]

Fill == [seq : Nat, exit : Nat, result : Int]

Offer ==
    {c \in [symbol : Symbols, nth : Nat, entry : Nat, exit : Nat, pct : {n \in Int : n >= -100}, stop : Nat] :
        c.entry <= c.exit}

LastEvent == events[Len(events)]

\* The amounts: three ledgers of one capital.  A position or a fill is known by the event
\* that opened it.
MoneyInv ==
    /\ open \in SUBSET Position /\ IsFiniteSet(open)
    /\ fills \in SUBSET Fill /\ IsFiniteSet(fills)
    /\ cash \in Nat /\ sectors \in [Sectors -> Nat]
    /\ \A p \in open : p.seq < Len(events)
    /\ \A f \in fills : f.seq < Len(events)
    /\ \A p, q \in open : p.seq = q.seq => p = q
    /\ \A p \in open, f \in fills : p.seq # f.seq
    /\ Equity = StartingCapital + ResultOf(fills)
    /\ SectorLedgerExact
    /\ Cardinality(open) <= manager.slots

\* The clock: candidates, exits and events in the order of time.
ClockInv ==
    /\ now \in Nat
    /\ todo \in Seq(Offer)
    /\ \A i, j \in DOMAIN todo : i < j => todo[i].entry <= todo[j].entry
    /\ todo # << >> => now = Head(todo).entry
    /\ phase = "decide" => todo # << >> /\ ExitedBy(now) = {}
    /\ phase = "release" /\ todo = << >> => open = ExitedBy(now)
    /\ phase = "done" => todo = << >> /\ open = {}
    /\ \A f \in fills : f.exit <= now

\* The positions that leave, oldest exit first.
LeavingInv ==
    /\ leaving \in Seq(Position)
    /\ leaving # << >> => phase = "release" /\ Range(leaving) = ExitedBy(now)
    /\ \A i, j \in DOMAIN leaving : i < j => leaving[i] # leaving[j] /\ leaving[i].exit <= leaving[j].exit

\* The events come in the order of time, and none is later than an open position's exit.
EventsInv ==
    /\ events \in Seq([ts : Nat, equity : Int])
    /\ events # << >>
    /\ \A i, j \in DOMAIN events : i < j => events[i].ts <= events[j].ts
    /\ LastEvent.ts <= now
    /\ \A p \in open : LastEvent.ts <= p.exit
    /\ open = {} => LastEvent.equity = cash

IdleInv ==
    /\ todo = << >> /\ leaving = << >> /\ open = {} /\ fills = {} /\ events = << >>
    /\ cash = StartingCapital /\ sectors = [x \in Sectors |-> 0]
    /\ manager.slots = 0

ReplayInv ==
    /\ phase \in {"idle", "release", "decide", "done"}
    /\ IF phase = "idle" THEN IdleInv
       ELSE manager \in Managers /\ MoneyInv /\ ClockInv /\ LeavingInv /\ EventsInv

\* The trades of a symbol follow each other: a strategy of one side.
OneSide ==
    \A list \in TradeLists : \A i, j \in DOMAIN list : i < j => list[i].exit <= list[j].entry

\* No candidate enters before what its symbol did earlier has left.
ApartInv ==
    /\ \A p, q \in open : p.symbol = q.symbol => p = q
    /\ \A p \in open, i \in DOMAIN todo : todo[i].symbol = p.symbol => p.exit <= todo[i].entry
    /\ \A i, j \in DOMAIN todo : i < j /\ todo[i].symbol = todo[j].symbol => todo[i].exit <= todo[j].entry

\* Only members are loaded, and only loaded members compete.
MembersInv ==
    /\ load \in [Symbols -> {"none", "waiting", "inflight", "data", "nodata"}]
    /\ \A s \in Symbols :
          load[s] # "none" => s \in ToSet(members) /\ stage \notin {"begin", "fetch", "resolved", "listed"}
    /\ phase # "idle" =>
          /\ stage \notin {"begin", "fetch", "resolved", "listed", "load"}
          /\ \A s \in Symbols : load[s] \notin {"waiting", "inflight"}
          /\ \A p \in open : p.symbol \in Loaded
          /\ \A i \in DOMAIN todo : todo[i].symbol \in Loaded
-----------------------------------------------------------------------------
\* The release loop takes every expired position once, oldest exit first.
LEMMA ExitOrder ==
    ASSUME NEW S \in SUBSET Position, IsFiniteSet(S), \A p, q \in S : p.seq = q.seq => p = q,
           NEW q, q = InExitOrder(S)
    PROVE  /\ q \in Seq(Position) /\ DOMAIN q = 1..Cardinality(S) /\ Range(q) = S
           /\ \A i, j \in DOMAIN q : i < j => q[i] # q[j] /\ q[i].exit <= q[j].exit
<1> DEFINE R == {x \in S \X S : LeavesFirst(x[1], x[2])}
           n == Cardinality(S)
<1>1. n \in Nat
  BY FS_CardinalityType
<1>2. \A p \in S : p \in Position /\ p.seq \in Nat /\ p.exit \in Nat
  BY DEF Position
<1>3. \A x, y \in S : <<x, y>> \in R <=> LeavesFirst(x, y)
  OBVIOUS
<1>4. StrictOrder(R, S)
  <2>1. \A x \in S : ~ LeavesFirst(x, x)
    BY <1>2 DEF LeavesFirst
  <2>2. \A x, y \in S : x # y => LeavesFirst(x, y) \/ LeavesFirst(y, x)
    BY <1>2 DEF LeavesFirst
  <2>3. \A x, y, z \in S : LeavesFirst(x, y) /\ LeavesFirst(y, z) => LeavesFirst(x, z)
    BY <1>2 DEF LeavesFirst
  <2> HIDE DEF R
  <2> QED
    BY <1>3, <2>1, <2>2, <2>3 DEF StrictOrder
<1>5. \A c \in S : Under(R, S, c) = {d \in S : LeavesFirst(d, c)}
  BY <1>3 DEF Under
<1> HIDE DEF R
<1>6. ASSUME NEW k \in 1..n PROVE \E c \in S : Cardinality({d \in S : LeavesFirst(d, c)}) = k - 1
  <2>1. \A i \in 1..Cardinality(S) : \E c \in S : Cardinality(Under(R, S, c)) = i - 1
    BY <1>4, Places
  <2>2. PICK c \in S : Cardinality(Under(R, S, c)) = k - 1
    BY <2>1
  <2> QED
    BY <1>5, <2>2
<1>7. q = [k \in 1..n |-> CHOOSE c \in S : Cardinality({d \in S : LeavesFirst(d, c)}) = k - 1]
  BY DEF InExitOrder, InOrder
<1>8. \A k \in 1..n : q[k] \in S /\ Cardinality({d \in S : LeavesFirst(d, q[k])}) = k - 1
  BY <1>6, <1>7
<1>9. q \in [1..n -> S]
  BY <1>7, <1>8
<1>10. \A k \in 1..n : Cardinality(Under(R, S, q[k])) = k - 1
  BY <1>5, <1>8
<1>11. Sorted(q, R, S)
  BY <1>4, <1>9, <1>10, PlacesSort
<1>12. DOMAIN q = 1..n
  BY <1>9
<1>13. q \in Seq(Position)
  <2>1. q \in [1..n -> Position]
    BY <1>9
  <2> QED
    BY ONLY <1>1, <2>1
<1>14. Range(q) = S
  BY <1>9, <1>11 DEF Sorted, Range
<1>15. ASSUME NEW i \in 1..n, NEW j \in 1..n, i < j PROVE q[i] # q[j] /\ q[i].exit <= q[j].exit
  <2>1. q[i] \in S /\ q[j] \in S /\ <<q[i], q[j]>> \in R
    BY <1>9, <1>11, <1>15 DEF Sorted
  <2>2. LeavesFirst(q[i], q[j])
    BY <1>3, <2>1
  <2> QED
    BY <1>2, <2>1, <2>2 DEF LeavesFirst
<1> QED
  BY <1>12, <1>13, <1>14, <1>15

\* The candidates are taken once each, in the order of entry and then symbol.
LEMMA EntryOrder ==
    ASSUME NEW S \in SUBSET Offer, IsFiniteSet(S),
           \A c, d \in S : c.symbol = d.symbol /\ c.nth = d.nth => c = d,
           NEW q, q = InOrder(S, Earlier)
    PROVE  /\ q \in Seq(Offer) /\ DOMAIN q = 1..Cardinality(S) /\ Range(q) = S
           /\ \A i, j \in DOMAIN q : i < j => Earlier(q[i], q[j]) /\ q[i] # q[j]
<1> DEFINE R == {x \in S \X S : Earlier(x[1], x[2])}
           n == Cardinality(S)
<1>1. n \in Nat
  BY FS_CardinalityType
<1>2. \A p \in S : p \in Offer /\ p.symbol \in Symbols /\ p.nth \in Nat /\ p.entry \in Nat
  BY DEF Offer
<1>3. \A x, y \in S : <<x, y>> \in R <=> Earlier(x, y)
  OBVIOUS
<1>4. StrictOrder(R, S)
  <2>0. \A x \in S : SymbolRank[x.symbol] \in Int
    BY <1>2, ReplayAssumption
  <2>4. \A x, y \in S : SymbolRank[x.symbol] = SymbolRank[y.symbol] => x.symbol = y.symbol
    BY <1>2, ReplayAssumption
  <2>1. ASSUME NEW x \in S PROVE ~ Earlier(x, x)
    <3>1. x.entry \in Int /\ x.nth \in Int /\ SymbolRank[x.symbol] \in Int
      BY <1>2, <2>0
    <3> QED
      BY ONLY <3>1 DEF Earlier
  <2>2. ASSUME NEW x \in S, NEW y \in S, x # y PROVE Earlier(x, y) \/ Earlier(y, x)
    <3>1. /\ x.entry \in Int /\ x.nth \in Int /\ SymbolRank[x.symbol] \in Int
          /\ y.entry \in Int /\ y.nth \in Int /\ SymbolRank[y.symbol] \in Int
      BY <1>2, <2>0
    <3>2. ~ (x.symbol = y.symbol /\ x.nth = y.nth)
      BY <2>2
    <3>3. SymbolRank[x.symbol] = SymbolRank[y.symbol] => x.symbol = y.symbol
      BY <2>4
    <3> QED
      BY ONLY <3>1, <3>2, <3>3 DEF Earlier
  <2>3. ASSUME NEW x \in S, NEW y \in S, NEW z \in S, Earlier(x, y), Earlier(y, z) PROVE Earlier(x, z)
    <3>1. /\ x.entry \in Int /\ x.nth \in Int /\ SymbolRank[x.symbol] \in Int
          /\ y.entry \in Int /\ y.nth \in Int /\ SymbolRank[y.symbol] \in Int
          /\ z.entry \in Int /\ z.nth \in Int /\ SymbolRank[z.symbol] \in Int
      BY <1>2, <2>0
    <3>2. Earlier(x, y) /\ Earlier(y, z)
      BY <2>3
    <3> QED
      BY ONLY <3>1, <3>2 DEF Earlier
  <2> HIDE DEF R
  <2> QED
    BY <1>3, <2>1, <2>2, <2>3 DEF StrictOrder
<1>5. \A c \in S : Under(R, S, c) = {d \in S : Earlier(d, c)}
  BY <1>3 DEF Under
<1> HIDE DEF R
<1>6. ASSUME NEW k \in 1..n PROVE \E c \in S : Cardinality({d \in S : Earlier(d, c)}) = k - 1
  <2>1. \A i \in 1..Cardinality(S) : \E c \in S : Cardinality(Under(R, S, c)) = i - 1
    BY <1>4, Places
  <2>2. PICK c \in S : Cardinality(Under(R, S, c)) = k - 1
    BY <2>1
  <2> QED
    BY <1>5, <2>2
<1>7. q = [k \in 1..n |-> CHOOSE c \in S : Cardinality({d \in S : Earlier(d, c)}) = k - 1]
  BY DEF InOrder
<1>8. \A k \in 1..n : q[k] \in S /\ Cardinality({d \in S : Earlier(d, q[k])}) = k - 1
  BY <1>6, <1>7
<1>9. q \in [1..n -> S]
  BY <1>7, <1>8
<1>10. \A k \in 1..n : Cardinality(Under(R, S, q[k])) = k - 1
  BY <1>5, <1>8
<1>11. Sorted(q, R, S)
  BY <1>4, <1>9, <1>10, PlacesSort
<1>12. DOMAIN q = 1..n
  BY <1>9
<1>13. q \in Seq(Offer)
  <2>1. q \in [1..n -> Offer]
    BY <1>9
  <2> QED
    BY ONLY <1>1, <2>1
<1>14. Range(q) = S
  BY <1>9, <1>11 DEF Sorted, Range
<1>15. ASSUME NEW i \in 1..n, NEW j \in 1..n, i < j PROVE Earlier(q[i], q[j]) /\ q[i] # q[j]
  <2>1. q[i] \in S /\ q[j] \in S /\ <<q[i], q[j]>> \in R
    BY <1>9, <1>11, <1>15 DEF Sorted
  <2> QED
    BY <1>3, <1>4, <2>1 DEF StrictOrder
<1> QED
  BY <1>12, <1>13, <1>14, <1>15

\* Head and tail of a sequence, element by element.
LEMMA TailParts ==
    ASSUME NEW S, NEW s \in Seq(S), s # << >>
    PROVE  /\ Tail(s) \in Seq(S) /\ Len(s) \in Nat \ {0} /\ Len(Tail(s)) = Len(s) - 1
           /\ \A i \in 1..(Len(s) - 1) : Tail(s)[i] = s[i + 1] /\ i \in DOMAIN s /\ i + 1 \in DOMAIN s
           /\ DOMAIN s = 1..Len(s) /\ DOMAIN Tail(s) = 1..(Len(s) - 1)
           /\ Head(s) = s[1] /\ Head(s) \in S /\ 1 \in DOMAIN s
           /\ Range(s) = {Head(s)} \cup Range(Tail(s))
<1>1. Len(s) \in Nat \ {0} /\ DOMAIN s = 1..Len(s) /\ Head(s) = s[1] /\ Head(s) \in S
  OBVIOUS
<1>2. /\ Tail(s) \in Seq(S) /\ Len(Tail(s)) = Len(s) - 1
      /\ \A i \in 1..(Len(s) - 1) : Tail(s)[i] = s[i + 1]
  OBVIOUS
<1>3. DOMAIN Tail(s) = 1..(Len(s) - 1)
  BY <1>2
<1>4. \A i \in 1..(Len(s) - 1) : i \in DOMAIN s /\ i + 1 \in DOMAIN s
  BY <1>1
<1>5. Range(s) = {Head(s)} \cup Range(Tail(s))
  <2>1. ASSUME NEW i \in DOMAIN s PROVE s[i] \in {Head(s)} \cup Range(Tail(s))
    <3>1. CASE i = 1
      BY <1>1, <3>1
    <3>2. CASE i # 1
      <4>1. i - 1 \in 1..(Len(s) - 1) /\ (i - 1) + 1 = i
        BY <1>1, <3>2
      <4>2. s[i] = Tail(s)[i - 1] /\ i - 1 \in DOMAIN Tail(s)
        BY <1>2, <1>3, <4>1
      <4> QED
        BY <4>2 DEF Range
    <3> QED
      BY <3>1, <3>2
  <2>2. \A i \in DOMAIN Tail(s) : Tail(s)[i] \in Range(s)
    BY <1>2, <1>3, <1>4 DEF Range
  <2>3. Head(s) \in Range(s)
    BY <1>1 DEF Range
  <2> QED
    BY <2>1, <2>2, <2>3 DEF Range
<1> QED
  BY <1>1, <1>2, <1>3, <1>4, <1>5
-----------------------------------------------------------------------------
(* Totals of positions and of fills.                                       *)

\* Nothing is allocated in no position, nothing was earned by no fill.
LEMMA TotalEmpty == TotalOf({}) = 0 /\ ResultOf({}) = 0
<1>1. DOMAIN [p \in {} |-> p.alloc] = {} /\ DOMAIN [f \in {} |-> f.result] = {}
  OBVIOUS
<1> QED
  BY <1>1, SumEmpty DEF TotalOf, ResultOf, SumFunction

\* An allocated total is a number of rupees.
LEMMA TotalType ==
    ASSUME NEW S \in SUBSET Position, IsFiniteSet(S)
    PROVE  TotalOf(S) \in Nat
<1> DEFINE f == [p \in S |-> p.alloc]
<1>1. DOMAIN f = S /\ \A p \in S : f[p] \in Nat
  BY DEF Position
<1> HIDE DEF f
<1>2. SumFunctionOnSet(f, S) \in Nat
  BY <1>1, SumNat
<1> QED
  BY <1>1, <1>2 DEF TotalOf, SumFunction, f

\* Opening a position adds its allocation to the total.
LEMMA TotalAdd ==
    ASSUME NEW S \in SUBSET Position, IsFiniteSet(S), NEW p \in Position, p \notin S
    PROVE  TotalOf(S \cup {p}) = TotalOf(S) + p.alloc
<1> DEFINE f == [q \in S |-> q.alloc]
           g == [q \in S \cup {p} |-> q.alloc]
<1>1. /\ DOMAIN f = S /\ DOMAIN g = S \cup {p} /\ g[p] = p.alloc
      /\ \A q \in S : f[q] = g[q] /\ f[q] \in Int
      /\ \A q \in S \cup {p} : g[q] \in Int
  BY DEF Position
<1> HIDE DEF f, g
<1>2. SumFunctionOnSet(g, S \cup {p}) = g[p] + SumFunctionOnSet(g, S)
  BY <1>1, SumAdd
<1>3. SumFunctionOnSet(f, S) = SumFunctionOnSet(g, S)
  BY <1>1, SumSame
<1>4. SumFunctionOnSet(f, S) \in Int
  BY <1>1, SumType
<1>5. SumFunctionOnSet(g, S \cup {p}) = SumFunctionOnSet(f, S) + p.alloc
  <2>1. g[p] \in Int
    BY <1>1
  <2> QED
    BY <1>1, <1>2, <1>3, <1>4, <2>1
<1> QED
  BY <1>1, <1>5 DEF TotalOf, SumFunction, f, g

\* Closing one takes its allocation from the total.
LEMMA TotalRemove ==
    ASSUME NEW S \in SUBSET Position, IsFiniteSet(S), NEW p \in S
    PROVE  TotalOf(S \ {p}) = TotalOf(S) - p.alloc
<1>1. IsFiniteSet(S \ {p}) /\ S \ {p} \in SUBSET Position /\ p \notin S \ {p} /\ (S \ {p}) \cup {p} = S
  BY FS_RemoveElement
<1>2. TotalOf(S) = TotalOf(S \ {p}) + p.alloc
  BY <1>1, TotalAdd
<1>3. TotalOf(S \ {p}) \in Nat /\ p.alloc \in Nat
  BY <1>1, TotalType DEF Position
<1> QED
  BY <1>2, <1>3

\* A fill adds its result.
LEMMA ResultAdd ==
    ASSUME NEW S \in SUBSET Fill, IsFiniteSet(S), NEW p \in Fill, p \notin S
    PROVE  ResultOf(S \cup {p}) = ResultOf(S) + p.result /\ ResultOf(S) \in Int
<1> DEFINE f == [q \in S |-> q.result]
           g == [q \in S \cup {p} |-> q.result]
<1>1. /\ DOMAIN f = S /\ DOMAIN g = S \cup {p} /\ g[p] = p.result
      /\ \A q \in S : f[q] = g[q] /\ f[q] \in Int
      /\ \A q \in S \cup {p} : g[q] \in Int
  BY DEF Fill
<1> HIDE DEF f, g
<1>2. SumFunctionOnSet(g, S \cup {p}) = g[p] + SumFunctionOnSet(g, S)
  BY <1>1, SumAdd
<1>3. SumFunctionOnSet(f, S) = SumFunctionOnSet(g, S)
  BY <1>1, SumSame
<1>4. SumFunctionOnSet(f, S) \in Int
  BY <1>1, SumType
<1>5. SumFunctionOnSet(g, S \cup {p}) = SumFunctionOnSet(f, S) + p.result
  <2>1. g[p] \in Int
    BY <1>1
  <2> QED
    BY <1>1, <1>2, <1>3, <1>4, <2>1
<1> QED
  BY <1>1, <1>4, <1>5 DEF TotalOf, ResultOf, SumFunction, f, g
-----------------------------------------------------------------------------
(* Amounts, and the last event.                                            *)

\* A loss is at most the capital put in: what comes back is not negative.
LEMMA ProceedsNat ==
    ASSUME NEW p \in Position
    PROVE  Realised(p) \in Int /\ Proceeds(p) \in Nat
<1>1. p.alloc \in Nat /\ p.pct \in Int /\ p.pct >= -100
  BY DEF Position
<1> DEFINE a == p.alloc
           r == p.pct
<1>2. a * (r + 100) >= 0
  <2>1. r + 100 \in Nat
    BY <1>1
  <2> HIDE DEF r
  <2> QED
    BY <1>1, <2>1
<1>3. a * r + a * 100 = a * (r + 100)
  BY <1>1
<1>4. a * r \in Int
  BY <1>1
<1>5. (a * r) \div 100 \in Int /\ (a * r) \div 100 >= -a
  BY <1>1, <1>2, <1>3, <1>4, SMTT(30)
<1> QED
  BY <1>1, <1>5 DEF Realised, Proceeds

\* Of the open positions some exits last.
LEMMA LatestExit ==
    ASSUME NEW S \in SUBSET Position, IsFiniteSet(S), S # {}
    PROVE  \E p \in S : \A q \in S : q.exit <= p.exit
<1> DEFINE Latest(T, p) == p \in T /\ \A q \in T : q.exit <= p.exit
           G == {T \in SUBSET S : T # {} => \E p \in T : Latest(T, p)}
<1>0. \A p \in S : p.exit \in Nat
  BY DEF Position
<1>1. {} \in G
  OBVIOUS
<1>2. ASSUME NEW T \in SUBSET S, T \in G, NEW x \in S \ T PROVE T \cup {x} \in G
  <2>1. CASE T = {}
    <3>1. Latest(T \cup {x}, x)
      BY <1>0, <2>1
    <3> QED
      BY <3>1
  <2>2. CASE T # {}
    <3>1. PICK p \in T : Latest(T, p)
      BY <1>2, <2>2
    <3>2. CASE x.exit <= p.exit
      <4>1. Latest(T \cup {x}, p)
        BY <3>1, <3>2
      <4> QED
        BY <4>1
    <3>3. CASE ~ (x.exit <= p.exit)
      <4>1. \A q \in T : q.exit <= x.exit
        BY <1>0, <3>1, <3>3
      <4>2. Latest(T \cup {x}, x)
        BY <1>0, <4>1
      <4> QED
        BY <4>2
    <3> QED
      BY <3>2, <3>3
  <2> QED
    BY <2>1, <2>2
<1> HIDE DEF G
<1>3. S \in G
  BY <1>1, <1>2, InductionOnSubsets
<1> QED
  BY <1>3 DEF G

\* An event no earlier than the last one keeps the order.
LEMMA EventAdded ==
    ASSUME events \in Seq([ts : Nat, equity : Int]), events # << >>,
           \A i, j \in DOMAIN events : i < j => events[i].ts <= events[j].ts,
           NEW t \in Nat, NEW amount \in Int, LastEvent.ts <= t,
           events' = Append(events, Event(t, amount))
    PROVE  /\ events' \in Seq([ts : Nat, equity : Int]) /\ events' # << >>
           /\ Len(events) \in Nat /\ Len(events') = Len(events) + 1
           /\ \A i, j \in DOMAIN events' : i < j => events'[i].ts <= events'[j].ts
           /\ LastEvent' = Event(t, amount)
<1> DEFINE e == Event(t, amount)
           n == Len(events)
           V == [ts : Nat, equity : Int]
<1>1. e \in V /\ e.ts = t
  BY DEF Event
<1>9. events \in Seq(V)
  OBVIOUS
<1> HIDE DEF e, V
<1>2. /\ events' \in Seq(V) /\ Len(events') = n + 1 /\ n \in Nat
      /\ events' # << >> /\ events'[n + 1] = e
      /\ DOMAIN events = 1..n /\ DOMAIN events' = 1..(n + 1)
      /\ \A i \in 1..n : events'[i] = events[i] /\ events[i] \in V
  BY <1>1, <1>9, AppendParts DEF e
<1>3. n # 0 /\ n \in DOMAIN events
  BY <1>2
<1>4. ASSUME NEW i \in 1..n PROVE events[i].ts \in Nat
  <2>1. events[i] \in V
    BY <1>2
  <2> QED
    BY <2>1 DEF V
<1>5. \A i \in 1..n : events[i].ts <= LastEvent.ts
  <2>1. ASSUME NEW i \in 1..n PROVE events[i].ts <= events[n].ts
    <3>1. CASE i = n
      BY <1>4, <3>1
    <3>2. CASE i # n
      <4>1. n \in Nat /\ i \in 1..n
        BY <1>2
      <4>2. i < n
        BY ONLY <3>2, <4>1
      <4>3. i \in DOMAIN events
        BY <1>2
      <4> QED
        BY <1>3, <4>2, <4>3
    <3> QED
      BY <3>1, <3>2
  <2> QED
    BY <2>1 DEF LastEvent
<1>6. \A i \in 1..n : events[i].ts <= t
  <2>1. LastEvent.ts \in Nat
    BY <1>2, <1>3, <1>4 DEF LastEvent
  <2> QED
    BY <1>4, <1>5, <2>1
<1>7. ASSUME NEW i \in DOMAIN events', NEW j \in DOMAIN events', i < j
      PROVE  events'[i].ts <= events'[j].ts
  <2>1. i \in 1..n /\ events'[i] = events[i]
    BY <1>2, <1>7
  <2>2. CASE j = n + 1
    <3>1. events'[j].ts = t
      BY <1>1, <1>2, <2>2
    <3>2. events[i].ts <= t
      BY <1>6, <2>1
    <3> QED
      BY <2>1, <3>1, <3>2
  <2>3. CASE j # n + 1
    <3>1. j \in 1..n /\ events'[j] = events[j]
      BY <1>2, <2>3
    <3> QED
      BY <1>2, <1>7, <2>1, <3>1
  <2> QED
    BY <2>2, <2>3
<1>8. LastEvent' = e
  BY <1>2 DEF LastEvent
<1> QED
  BY <1>2, <1>7, <1>8 DEF e, V
-----------------------------------------------------------------------------
(* Every step of the replay keeps ReplayInv.                               *)

Running == manager \in Managers /\ MoneyInv /\ ClockInv /\ LeavingInv /\ EventsInv

\* What a manager is given: candidates that are known by symbol and place.
Offered(C) ==
    /\ C \in SUBSET Offer /\ IsFiniteSet(C)
    /\ \A c, d \in C : c.symbol = d.symbol /\ c.nth = d.nth => c = d

\* Every symbol is in a sector, or in none.
LEMMA SectorInType == \A s \in Symbols : SectorIn(s) \in Sectors \cup {NoSector}
  BY ReplayAssumption DEF SectorIn

\* run() starts from the whole capital, with no position, at the first entry.
LEMMA RunKeeps ==
    ASSUME ReplayInv, NEW C, Offered(C), NEW m, Run(C, m)
    PROVE  ReplayInv'
<1>1. IdleInv
  BY DEF ReplayInv, Run
<1>2. /\ manager' \in Managers /\ phase' = "release" /\ todo' = InOrder(C, Earlier)
      /\ events' = <<Event(now', StartingCapital)>>
      /\ now' = IF todo' = << >> THEN 0 ELSE todo'[1].entry
      /\ leaving' = << >> /\ open' = {} /\ fills' = {} /\ cash' = StartingCapital
      /\ sectors' = [x \in Sectors |-> 0]
  BY <1>1 DEF Run, IdleInv
<1>3. /\ todo' \in Seq(Offer) /\ Range(todo') = C
      /\ \A i, j \in DOMAIN todo' : i < j => Earlier(todo'[i], todo'[j])
  BY <1>2, EntryOrder DEF Offered
<1>4. ASSUME NEW i \in DOMAIN todo' PROVE todo'[i].entry \in Nat
  <2>1. todo'[i] \in Offer
    BY <1>3
  <2> QED
    BY <2>1 DEF Offer
<1>5. ASSUME NEW i \in DOMAIN todo', NEW j \in DOMAIN todo', i < j PROVE todo'[i].entry <= todo'[j].entry
  <2>1. Earlier(todo'[i], todo'[j])
    BY <1>3, <1>5
  <2>2. todo'[i].entry \in Nat /\ todo'[j].entry \in Nat
    BY <1>4
  <2> QED
    BY <2>1, <2>2 DEF Earlier
<1>6. todo' # << >> => now' = Head(todo').entry /\ 1 \in DOMAIN todo'
  BY <1>2, <1>3, TailParts
<1>7. now' \in Nat
  BY <1>2, <1>4, <1>6
<1>8. ClockInv'
  <2>1. (open = ExitedBy(now))'
    BY <1>2 DEF ExitedBy
  <2> QED
    BY <1>2, <1>3, <1>5, <1>6, <1>7, <2>1 DEF ClockInv
<1>9. StartingCapital \in Nat
  BY ReplayAssumption
<1>10. MoneyInv'
  <2>1. TotalOf(open') = 0 /\ ResultOf(fills') = 0
    BY <1>2, TotalEmpty
  <2>2. Equity' = StartingCapital + ResultOf(fills')
    BY <1>2, <1>9, <2>1 DEF Equity
  <2>3. SectorLedgerExact'
    <3>1. \A x \in Sectors : {p \in open' : SectorIn(p.symbol)' = x} = {}
      BY <1>2
    <3>2. \A x \in Sectors : sectors'[x] = 0
      BY <1>2
    <3> QED
      BY <3>1, <3>2, TotalEmpty DEF SectorLedgerExact
  <2>4. Cardinality(open') <= manager'.slots
    <3>1. Cardinality(open') = 0
      BY <1>2, FS_EmptySet
    <3>2. manager'.slots \in 1..MaxSlots /\ MaxSlots \in Nat
      BY <1>2, ReplayAssumption DEF Managers
    <3> QED
      BY <3>1, <3>2
  <2>5. IsFiniteSet(open') /\ IsFiniteSet(fills')
    BY <1>2, FS_EmptySet
  <2> QED
    BY <1>2, <1>9, <2>2, <2>3, <2>4, <2>5 DEF MoneyInv
<1>11. LeavingInv'
  BY <1>2 DEF LeavingInv
<1>12. EventsInv'
  <2> DEFINE e == Event(now', StartingCapital)
  <2>1. e \in [ts : Nat, equity : Int] /\ e.ts = now' /\ e.equity = StartingCapital
    BY <1>7, <1>9 DEF Event
  <2> HIDE DEF e
  <2>2. events' = <<e>>
    BY <1>2 DEF e
  <2>3. LastEvent' = e /\ DOMAIN events' = {1}
    BY <2>2 DEF LastEvent
  <2>4. events' # << >> /\ events' \in Seq([ts : Nat, equity : Int])
    BY <2>1, <2>2
  <2>5. e.ts <= now'
    BY <1>7, <2>1
  <2> QED
    BY <1>2, <2>1, <2>3, <2>4, <2>5 DEF EventsInv
<1> QED
  BY <1>2, <1>8, <1>10, <1>11, <1>12 DEF ReplayInv

\* _release_until(now) begins: the expired positions are lined up.
LEMMA ReleaseKeeps ==
    ASSUME Running, Release
    PROVE  Running'
<1>1. /\ UNCHANGED <<manager, todo, phase, now, open, cash, sectors, fills, events>>
      /\ leaving' = InExitOrder(ExitedBy(now)) /\ phase = "release"
  BY DEF Release
<1>2. /\ ExitedBy(now) \in SUBSET Position /\ IsFiniteSet(ExitedBy(now))
      /\ \A p, q \in ExitedBy(now) : p.seq = q.seq => p = q
  <2>1. ExitedBy(now) \in SUBSET open
    BY DEF ExitedBy
  <2> QED
    BY <2>1, FS_Subset DEF Running, MoneyInv
<1>3. /\ leaving' \in Seq(Position) /\ Range(leaving') = ExitedBy(now)
      /\ \A i, j \in DOMAIN leaving' : i < j => leaving'[i] # leaving'[j] /\ leaving'[i].exit <= leaving'[j].exit
  BY <1>1, <1>2, ExitOrder
<1>4. ExitedBy(now)' = ExitedBy(now)
  BY <1>1 DEF ExitedBy
<1>5. LeavingInv'
  BY <1>1, <1>3, <1>4 DEF LeavingInv
<1>6. MoneyInv'
  BY <1>1 DEF Running, MoneyInv, Equity, SectorLedgerExact, SectorIn
<1>7. ClockInv'
  BY <1>1, <1>4 DEF Running, ClockInv
<1>8. EventsInv'
  BY <1>1 DEF Running, EventsInv, LastEvent
<1> QED
  BY <1>1, <1>5, <1>6, <1>7, <1>8 DEF Running

\* The loop is over: a candidate is examined, or the replay ends.
LEMMA ReleasedKeeps ==
    ASSUME Running, Released
    PROVE  Running'
<1>1. /\ UNCHANGED <<manager, todo, now, open, cash, sectors, fills, events, leaving>>
      /\ phase' = (IF todo = << >> THEN "done" ELSE "decide")
      /\ leaving = << >> /\ phase = "release" /\ ExitedBy(now) = {}
  BY DEF Released
<1>4. ExitedBy(now)' = {}
  BY <1>1 DEF ExitedBy
<1>5. LeavingInv'
  BY <1>1 DEF Running, LeavingInv
<1>6. MoneyInv'
  BY <1>1 DEF Running, MoneyInv, Equity, SectorLedgerExact, SectorIn
<1>7. ClockInv'
  BY <1>1, <1>4 DEF Running, ClockInv
<1>8. EventsInv'
  BY <1>1 DEF Running, EventsInv, LastEvent
<1> QED
  BY <1>1, <1>5, <1>6, <1>7, <1>8 DEF Running

HeldIn(x) == {p \in open : SectorIn(p.symbol) = x}

\* A position leaves: its proceeds go to the cash, its allocation out of its sector,
\* and its fill and its event are recorded.
LEMMA ReleaseOneKeeps ==
    ASSUME Running, ReleaseOne
    PROVE  Running'
<1> DEFINE p == Head(leaving)
           f == [seq |-> p.seq, exit |-> p.exit, result |-> Realised(p)]
<1>1. /\ leaving # << >> /\ leaving' = Tail(leaving)
      /\ UNCHANGED <<manager, todo, phase, now>>
      /\ cash' = cash + Proceeds(p) /\ sectors' = SectorsAfter(p)
      /\ fills' = fills \cup {f} /\ open' = open \ {p}
      /\ events' = Append(events, Event(p.exit, EquityAtRelease(p)))
  BY DEF ReleaseOne
<1>2. MoneyInv /\ ClockInv /\ LeavingInv /\ EventsInv /\ manager \in Managers
  BY DEF Running
<1>3. /\ leaving' \in Seq(Position)
      /\ Range(leaving) = {p} \cup Range(leaving')
      /\ 1 \in DOMAIN leaving /\ p = leaving[1]
      /\ DOMAIN leaving' = 1..(Len(leaving) - 1) /\ DOMAIN leaving = 1..Len(leaving) /\ Len(leaving) \in Nat
      /\ \A i \in 1..(Len(leaving) - 1) : leaving'[i] = leaving[i + 1] /\ i + 1 \in DOMAIN leaving
  BY <1>1, <1>2, TailParts DEF LeavingInv
<1>4. p \in ExitedBy(now) /\ phase = "release" /\ Range(leaving) = ExitedBy(now)
  BY <1>1, <1>2, <1>3 DEF LeavingInv
<1>5. p \in open /\ p \in Position /\ p.exit <= now /\ p.exit \in Nat
        /\ p.alloc \in Nat /\ p.seq \in Nat /\ p.symbol \in Symbols
  BY <1>2, <1>4 DEF ExitedBy, MoneyInv, Position
<1>6. open \in SUBSET Position /\ IsFiniteSet(open) /\ open' \in SUBSET Position /\ IsFiniteSet(open')
  BY <1>1, <1>2, FS_RemoveElement DEF MoneyInv
<1>7. Realised(p) \in Int /\ Proceeds(p) = p.alloc + Realised(p) /\ Proceeds(p) \in Nat
  BY <1>5, ProceedsNat DEF Proceeds
<1>8. f \in Fill /\ f.exit = p.exit /\ f.result = Realised(p) /\ f.seq = p.seq
  BY <1>5, <1>7 DEF Fill
<1>9. \A i, j \in DOMAIN leaving' : i < j => leaving'[i] # leaving'[j] /\ leaving'[i].exit <= leaving'[j].exit
  <2> SUFFICES ASSUME NEW i \in DOMAIN leaving', NEW j \in DOMAIN leaving', i < j
               PROVE  leaving'[i] # leaving'[j] /\ leaving'[i].exit <= leaving'[j].exit
    OBVIOUS
  <2>1. i + 1 < j + 1
    BY <1>3
  <2> QED
    BY <1>2, <1>3, <2>1, SMTT(30) DEF LeavingInv
<1>10. \A q \in Range(leaving') : q # p /\ p.exit <= q.exit
  <2> SUFFICES ASSUME NEW i \in DOMAIN leaving' PROVE leaving'[i] # p /\ p.exit <= leaving'[i].exit
    BY DEF Range
  <2>1. i + 1 \in DOMAIN leaving /\ 1 < i + 1 /\ leaving'[i] = leaving[i + 1]
    BY <1>3
  <2> QED
    BY <1>2, <1>3, <2>1 DEF LeavingInv
<1>11. ExitedBy(now)' = ExitedBy(now) \ {p}
  BY <1>1 DEF ExitedBy
<1> HIDE DEF f, p
<1>12. LeavingInv'
  <2>1. Range(leaving') = ExitedBy(now)'
    BY <1>3, <1>4, <1>10, <1>11
  <2> QED
    BY <1>1, <1>3, <1>4, <1>9, <2>1 DEF LeavingInv
<1>13. ClockInv'
  <2>1. phase = "release" /\ todo = << >> => open' = ExitedBy(now)'
    BY <1>1, <1>2, <1>11 DEF ClockInv
  <2>2. \A g \in fills' : g.exit <= now
    BY <1>1, <1>2, <1>5, <1>8 DEF ClockInv
  <2> QED
    BY <1>1, <1>2, <1>4, <2>1, <2>2 DEF ClockInv
<1>14. /\ TotalOf(open') = TotalOf(open) - p.alloc /\ TotalOf(open) \in Nat /\ TotalOf(open') \in Nat
  BY <1>1, <1>5, <1>6, TotalRemove, TotalType
<1>15. /\ EquityAtRelease(p) \in Int
       /\ open' = {} => EquityAtRelease(p) = cash'
  <2>1. open \ ExitedBy(now) \in SUBSET Position /\ IsFiniteSet(open \ ExitedBy(now))
    BY <1>6, FS_Subset
  <2>2. TotalOf(open \ ExitedBy(now)) \in Nat
    BY <2>1, TotalType
  <2>3. cash \in Nat
    BY <1>2 DEF MoneyInv
  <2>4. open' = {} => TotalOf(open \ ExitedBy(now)) = 0
    <3>1. open' = {} => open \ ExitedBy(now) = {}
      BY <1>1, <1>4
    <3> QED
      BY <3>1, TotalEmpty
  <2> QED
    BY <1>1, <1>7, <2>2, <2>3, <2>4 DEF EquityAtRelease
<1>16. /\ events' \in Seq([ts : Nat, equity : Int]) /\ events' # << >>
       /\ Len(events) \in Nat /\ Len(events') = Len(events) + 1
       /\ \A i, j \in DOMAIN events' : i < j => events'[i].ts <= events'[j].ts
       /\ LastEvent' = Event(p.exit, EquityAtRelease(p))
  <2>1. LastEvent.ts <= p.exit
    BY <1>2, <1>5 DEF EventsInv
  <2> QED
    BY <1>1, <1>2, <1>5, <1>15, <2>1, EventAdded DEF EventsInv
<1>17. LastEvent'.ts = p.exit /\ LastEvent'.equity = EquityAtRelease(p)
  BY <1>16 DEF Event
<1>18. EventsInv'
  <2>1. ASSUME NEW q \in open' PROVE p.exit <= q.exit
    <3>1. CASE q \in ExitedBy(now)
      <4>1. q \in Range(leaving')
        BY <1>1, <1>3, <1>4, <2>1, <3>1
      <4> QED
        BY <1>10, <4>1
    <3>2. CASE q \notin ExitedBy(now)
      <4>1. ~ (q.exit <= now)
        BY <1>1, <2>1, <3>2 DEF ExitedBy
      <4>2. q \in Position
        BY <1>6, <2>1
      <4>3. q.exit \in Nat /\ now \in Nat
        BY <1>2, <4>2 DEF Position, ClockInv
      <4> QED
        BY <1>5, <4>1, <4>3
    <3> QED
      BY <3>1, <3>2
  <2>2. now' = now
    BY <1>1
  <2> QED
    BY <1>5, <1>15, <1>16, <1>17, <2>1, <2>2 DEF EventsInv
<1>19. f \notin fills
  BY <1>2, <1>5, <1>8 DEF MoneyInv
<1>20. Equity' = StartingCapital + ResultOf(fills')
  <2>1. fills \in SUBSET Fill /\ IsFiniteSet(fills) /\ Equity = StartingCapital + ResultOf(fills) /\ cash \in Nat
    BY <1>2 DEF MoneyInv
  <2>2. ResultOf(fills') = ResultOf(fills) + Realised(p) /\ ResultOf(fills) \in Int
    BY <1>1, <1>8, <1>19, <2>1, ResultAdd
  <2>3. Equity' = cash + Proceeds(p) + TotalOf(open')
    BY <1>1 DEF Equity
  <2>4. Equity = cash + TotalOf(open)
    BY DEF Equity
  <2>5. StartingCapital \in Nat
    BY ReplayAssumption
  <2> QED
    BY <1>5, <1>7, <1>14, <2>1, <2>2, <2>3, <2>4, <2>5
<1>21. sectors \in [Sectors -> Nat] /\ \A x \in Sectors : sectors[x] = TotalOf(HeldIn(x))
  BY <1>2 DEF MoneyInv, SectorLedgerExact, HeldIn
<1>22. \A x : HeldIn(x) \in SUBSET Position /\ IsFiniteSet(HeldIn(x))
  <2>1. \A x : HeldIn(x) \in SUBSET open
    BY DEF HeldIn
  <2> QED
    BY <1>6, <2>1, FS_Subset
<1>23. \A s : SectorIn(s)' = SectorIn(s)
  BY <1>1 DEF SectorIn
<1>24. \A x : HeldIn(x)' = HeldIn(x) \ {p}
  BY <1>1, <1>23 DEF HeldIn
<1>25. \A x : SectorIn(p.symbol) # x => HeldIn(x)' = HeldIn(x)
  BY <1>24 DEF HeldIn
<1>26. \A x : SectorIn(p.symbol) = x => p \in HeldIn(x)
  BY <1>5 DEF HeldIn
<1>27. ASSUME NEW x \in Sectors, SectorIn(p.symbol) = x
       PROVE  /\ TotalOf(HeldIn(x)') = TotalOf(HeldIn(x)) - p.alloc
              /\ TotalOf(HeldIn(x)) \in Nat /\ TotalOf(HeldIn(x)') \in Nat
  <2>1. p \in HeldIn(x) /\ HeldIn(x) \in SUBSET Position /\ IsFiniteSet(HeldIn(x))
    BY <1>22, <1>26, <1>27
  <2>2. HeldIn(x)' \in SUBSET Position /\ IsFiniteSet(HeldIn(x)')
    BY <1>24, <2>1, FS_Subset
  <2> QED
    BY <1>24, <2>1, <2>2, TotalRemove, TotalType
<1>28. sectors' \in [Sectors -> Nat] /\ \A x \in Sectors : sectors'[x] = TotalOf(HeldIn(x)')
  <2>1. CASE SectorIn(p.symbol) = NoSector
    <3>1. sectors' = sectors
      BY <1>1, <2>1 DEF SectorsAfter
    <3>2. \A x \in Sectors : HeldIn(x)' = HeldIn(x)
      BY <1>25, <2>1, ReplayAssumption
    <3> QED
      BY <1>21, <3>1, <3>2
  <2>2. CASE SectorIn(p.symbol) # NoSector
    <3>0. SectorIn(p.symbol) \in Sectors
      BY <1>5, <2>2, SectorInType
    <3>1. PICK x \in Sectors : SectorIn(p.symbol) = x
      BY <3>0
    <3>2. sectors' = [sectors EXCEPT ![x] = IF sectors[x] > p.alloc THEN sectors[x] - p.alloc ELSE 0]
      BY <1>1, <2>2, <3>1 DEF SectorsAfter
    <3>3. sectors'[x] = IF sectors[x] > p.alloc THEN sectors[x] - p.alloc ELSE 0
      BY <1>21, <3>1, <3>2
    <3>4. \A y \in Sectors : y # x => sectors'[y] = sectors[y] /\ sectors[y] \in Nat
      BY <1>21, <3>1, <3>2
    <3>5. sectors[x] = TotalOf(HeldIn(x)) /\ sectors[x] \in Nat
      BY <1>21, <3>1
    <3>6. TotalOf(HeldIn(x)') = sectors[x] - p.alloc /\ TotalOf(HeldIn(x)') \in Nat
      BY <1>27, <3>1, <3>5
    <3>7. sectors'[x] = TotalOf(HeldIn(x)') /\ sectors'[x] \in Nat
      BY <1>5, <3>3, <3>5, <3>6
    <3>8. \A y \in Sectors : y # x => sectors'[y] = TotalOf(HeldIn(y)')
      BY <1>21, <1>25, <3>1, <3>4
    <3>9. sectors' = [y \in Sectors |-> sectors'[y]]
      BY <1>21, <3>2
    <3>10. \A y \in Sectors : sectors'[y] \in Nat
      BY <3>4, <3>7
    <3>11. sectors' \in [Sectors -> Nat]
      BY ONLY <3>9, <3>10
    <3>12. \A y \in Sectors : sectors'[y] = TotalOf(HeldIn(y)')
      BY <3>7, <3>8
    <3> QED
      BY <3>11, <3>12, Zenon
  <2> QED
    BY <2>1, <2>2
<1>29. Cardinality(open') <= manager.slots
  <2>1. Cardinality(open') <= Cardinality(open) /\ Cardinality(open') \in Nat /\ Cardinality(open) \in Nat
    BY <1>1, <1>6, FS_Subset, FS_CardinalityType
  <2>2. Cardinality(open) <= manager.slots /\ manager.slots \in Int
    BY <1>2 DEF MoneyInv, Managers
  <2> QED
    BY <2>1, <2>2
<1>30. MoneyInv'
  <2>1. fills' \in SUBSET Fill /\ IsFiniteSet(fills')
    BY <1>1, <1>2, <1>8, FS_AddElement DEF MoneyInv
  <2>2. cash' \in Nat
    BY <1>1, <1>2, <1>7 DEF MoneyInv
  <2>3. \A q \in open' : q.seq < Len(events')
    <3>1. ASSUME NEW q \in open' PROVE q.seq < Len(events')
      <4>1. q \in open /\ q \in Position
        BY <1>1, <1>6, <3>1
      <4>2. q.seq < Len(events) /\ q.seq \in Nat
        BY <1>2, <4>1 DEF MoneyInv, Position
      <4> QED
        BY <1>16, <4>2
    <3> QED
      BY <3>1
  <2>4. \A g \in fills' : g.seq < Len(events')
    <3>1. ASSUME NEW g \in fills' PROVE g.seq < Len(events')
      <4>1. g.seq < Len(events) /\ g \in Fill
        <5>1. CASE g = f
          BY <1>2, <1>5, <1>8, <5>1 DEF MoneyInv
        <5>2. CASE g \in fills
          BY <1>2, <5>2 DEF MoneyInv
        <5> QED
          BY <1>1, <3>1, <5>1, <5>2
      <4>2. g.seq \in Nat
        BY <4>1 DEF Fill
      <4> QED
        BY <1>16, <4>1, <4>2
    <3> QED
      BY <3>1
  <2>5. \A q, r \in open' : q.seq = r.seq => q = r
    BY <1>1, <1>2 DEF MoneyInv
  <2>6. \A q \in open', g \in fills' : q.seq # g.seq
    BY <1>1, <1>2, <1>5, <1>8 DEF MoneyInv
  <2>7. SectorLedgerExact'
    BY <1>28 DEF SectorLedgerExact, HeldIn
  <2> QED
    BY <1>1, <1>6, <1>20, <1>28, <1>29, <2>1, <2>2, <2>3, <2>4, <2>5, <2>6, <2>7 DEF MoneyInv
<1> QED
  BY <1>1, <1>2, <1>12, <1>13, <1>18, <1>30 DEF Running

\* The clock moves on to the next candidate, or past the last exit.
LEMMA ClockMovesOn ==
    ASSUME Running, phase = "decide",
           NEW still \in SUBSET Position, IsFiniteSet(still), \A q \in still : now <= q.exit,
           NEW t, t = NextNow(still, Tail(todo), now)
    PROVE  /\ t \in Nat /\ now <= t
           /\ Tail(todo) \in Seq(Offer)
           /\ \A i, j \in DOMAIN Tail(todo) : i < j => Tail(todo)[i].entry <= Tail(todo)[j].entry
           /\ Tail(todo) # << >> => t = Head(Tail(todo)).entry
           /\ Tail(todo) = << >> => \A q \in still : q.exit <= t
           /\ Head(todo) \in Offer /\ now = Head(todo).entry /\ now \in Nat
<1> DEFINE rest == Tail(todo)
<1>1. /\ todo \in Seq(Offer) /\ todo # << >> /\ now \in Nat /\ now = Head(todo).entry
      /\ \A i, j \in DOMAIN todo : i < j => todo[i].entry <= todo[j].entry
  BY DEF Running, ClockInv
<1>2. /\ rest \in Seq(Offer) /\ Len(todo) \in Nat \ {0} /\ Len(rest) = Len(todo) - 1
      /\ \A i \in 1..(Len(todo) - 1) : rest[i] = todo[i + 1] /\ i + 1 \in DOMAIN todo
      /\ DOMAIN rest = 1..(Len(todo) - 1) /\ 1 \in DOMAIN todo /\ Head(todo) = todo[1] /\ Head(todo) \in Offer
  BY <1>1, TailParts
<1> HIDE DEF rest
<1>3. ASSUME NEW i \in DOMAIN rest, NEW j \in DOMAIN rest, i < j PROVE rest[i].entry <= rest[j].entry
  <2>1. i + 1 < j + 1
    BY <1>2, <1>3
  <2> QED
    BY <1>1, <1>2, <2>1
<1>4. CASE rest # << >>
  <2>1. t = rest[1].entry
    BY <1>4 DEF NextNow, rest
  <2>2. 1 \in DOMAIN rest /\ Head(rest) = rest[1] /\ rest[1] \in Offer
    BY <1>2, <1>4, TailParts
  <2>3. rest[1] = todo[2] /\ 2 \in DOMAIN todo
    BY <1>2, <2>2
  <2>4. todo[1].entry <= todo[2].entry
    BY <1>1, <1>2, <2>3
  <2>5. t \in Nat
    BY <2>1, <2>2 DEF Offer
  <2> QED
    BY <1>1, <1>2, <1>3, <1>4, <2>1, <2>2, <2>3, <2>4, <2>5 DEF rest
<1>5. CASE rest = << >> /\ still = {}
  <2>1. t = now
    BY <1>5 DEF NextNow, rest
  <2> QED
    BY <1>1, <1>2, <1>3, <1>5, <2>1 DEF rest
<1>6. CASE rest = << >> /\ still # {}
  <2> DEFINE p == CHOOSE p \in still : \A q \in still : q.exit <= p.exit
  <2>1. p \in still /\ \A q \in still : q.exit <= p.exit
    BY <1>6, LatestExit
  <2> HIDE DEF p
  <2>2. t = p.exit
    BY <1>6 DEF NextNow, rest, p
  <2>3. p.exit \in Nat
    BY <2>1 DEF Position
  <2> QED
    BY <1>1, <1>2, <1>3, <1>6, <2>1, <2>2, <2>3 DEF rest
<1> QED
  BY <1>4, <1>5, <1>6

\* Where a candidate is decided, what is open leaves later.
LEMMA StillOpen ==
    ASSUME Running, phase = "decide"
    PROVE  /\ leaving = << >> /\ \A q \in open : now < q.exit
<1>1. \A q \in open : q.exit \in Nat /\ now \in Nat /\ ~ (q.exit <= now)
  BY DEF Running, MoneyInv, ClockInv, ExitedBy, Position
<1> QED
  BY <1>1 DEF Running, LeavingInv

\* A candidate is passed over; the clock moves on to the next.
LEMMA SkipKeeps ==
    ASSUME Running, Skip
    PROVE  Running'
<1>1. /\ UNCHANGED <<manager, leaving, open, cash, sectors, fills, events>>
      /\ phase = "decide" /\ phase' = "release" /\ todo' = Tail(todo)
      /\ now' = NextNow(open, Tail(todo), now)
  BY DEF Skip
<1>2. MoneyInv /\ ClockInv /\ LeavingInv /\ EventsInv /\ manager \in Managers
  BY DEF Running
<1>3. leaving = << >> /\ \A q \in open : now < q.exit
  BY <1>1, StillOpen
<1>4. open \in SUBSET Position /\ IsFiniteSet(open) /\ \A q \in open : now <= q.exit
  <2>1. open \in SUBSET Position /\ IsFiniteSet(open) /\ now \in Nat
    BY <1>2 DEF MoneyInv, ClockInv
  <2>2. \A q \in open : q.exit \in Nat
    BY <2>1 DEF Position
  <2> QED
    BY <1>3, <2>1, <2>2
<1>5. /\ now' \in Nat /\ now <= now' /\ now \in Nat
      /\ todo' \in Seq(Offer)
      /\ \A i, j \in DOMAIN todo' : i < j => todo'[i].entry <= todo'[j].entry
      /\ todo' # << >> => now' = Head(todo').entry
      /\ todo' = << >> => \A q \in open : q.exit <= now'
  BY <1>1, <1>4, ClockMovesOn
<1>6. MoneyInv'
  BY <1>1, <1>2 DEF MoneyInv, Equity, SectorLedgerExact, SectorIn
<1>7. LeavingInv'
  BY <1>1, <1>2, <1>3 DEF LeavingInv
<1>8. EventsInv'
  <2>1. LastEvent.ts \in Nat /\ LastEvent.ts <= now
    <3> DEFINE V == [ts : Nat, equity : Int]
    <3>1. events \in Seq(V) /\ events # << >> /\ LastEvent.ts <= now
      BY <1>2 DEF EventsInv
    <3>2. \A v \in V : v.ts \in Nat
      OBVIOUS
    <3> HIDE DEF V
    <3>3. LastEvent \in V
      BY <3>1 DEF LastEvent
    <3> QED
      BY <3>1, <3>2, <3>3
  <2>2. LastEvent' = LastEvent
    BY <1>1 DEF LastEvent
  <2>3. LastEvent'.ts <= now'
    BY <1>5, <2>1, <2>2
  <2> QED
    BY <1>1, <1>2, <2>2, <2>3 DEF EventsInv
<1>9. ClockInv'
  <2>1. todo' = << >> => open' = ExitedBy(now)'
    BY <1>1, <1>5 DEF ExitedBy
  <2>2. \A f \in fills' : f.exit <= now'
    <3> SUFFICES ASSUME NEW f \in fills PROVE f.exit <= now'
      BY <1>1
    <3>1. f.exit \in Nat /\ f.exit <= now
      BY <1>2 DEF MoneyInv, ClockInv, Fill
    <3> QED
      BY <1>5, <3>1
  <2> QED
    BY <1>1, <1>5, <2>1, <2>2 DEF ClockInv
<1> QED
  BY <1>1, <1>2, <1>6, <1>7, <1>8, <1>9 DEF Running

\* What a candidate is given: never more than the cash that is there.
LEMMA AllocationType ==
    ASSUME Running, NEW c \in Offer
    PROVE  Allocation(c) \in Nat /\ Allocation(c) <= cash /\ Equity \in Nat
<1>1. cash \in Nat /\ open \in SUBSET Position /\ IsFiniteSet(open) /\ manager \in Managers
  BY DEF Running, MoneyInv
<1>2. Equity \in Nat
  BY <1>1, TotalType DEF Equity
<1>3. c.stop \in Nat /\ manager.slots \in Nat \ {0} /\ RiskPct \in Nat /\ MaxSlots \in Nat
  BY <1>1, ReplayAssumption DEF Offer, Managers
<1>4. RiskPct * Equity \in Nat
  BY <1>2, <1>3
<1>5. Equity \div manager.slots \in Nat
  BY <1>2, <1>3
<1>6. c.stop > 0 => (RiskPct * Equity) \div c.stop \in Nat
  <2> DEFINE n == RiskPct * Equity
             k == c.stop
  <2>1. n \in Nat /\ k \in Nat
    BY <1>3, <1>4
  <2> HIDE DEF n, k
  <2>2. k > 0 => n \div k \in Nat
    BY <2>1
  <2> QED
    BY <2>2 DEF n, k
<1>7. Target(c) \in Nat
  BY <1>5, <1>6 DEF Target
<1> QED
  BY <1>1, <1>2, <1>7 DEF Allocation

\* A candidate is admitted: what it is allocated is in the cash and under both caps.
LEMMA AdmitKeeps ==
    ASSUME Running, Admit
    PROVE  Running'
<1> DEFINE c == Head(todo)
           p == [seq |-> Len(events), symbol |-> c.symbol, exit |-> c.exit,
                 alloc |-> Allocation(c), pct |-> c.pct]
           held == open \cup {p}
           amount == cash - p.alloc + TotalOf(held)
<1>1. /\ UNCHANGED <<manager, leaving, fills>>
      /\ phase = "decide" /\ phase' = "release" /\ todo' = Tail(todo)
      /\ now' = NextNow(held, Tail(todo), now)
      /\ Admissible(c)
      /\ cash' = cash - Allocation(c) /\ open' = held
      /\ sectors' = (IF SectorIn(c.symbol) = NoSector THEN sectors
                     ELSE [sectors EXCEPT ![SectorIn(c.symbol)] = @ + Allocation(c)])
      /\ events' = Append(events, Event(c.entry, amount))
  BY DEF Admit
<1>2. MoneyInv /\ ClockInv /\ LeavingInv /\ EventsInv /\ manager \in Managers
  BY DEF Running
<1>3. leaving = << >> /\ \A q \in open : now < q.exit
  BY <1>1, StillOpen
<1>4. c \in Offer /\ now = c.entry /\ now \in Nat /\ todo # << >>
  <2>1. todo # << >> /\ todo \in Seq(Offer) /\ (todo # << >> => now = Head(todo).entry) /\ now \in Nat
    BY <1>1, <1>2 DEF ClockInv
  <2> QED
    BY <2>1
<1>5. /\ c.exit \in Nat /\ c.entry <= c.exit /\ c.symbol \in Symbols
      /\ c.pct \in {n \in Int : n >= -100}
  BY <1>4 DEF Offer
<1>6. Allocation(c) \in Nat /\ Allocation(c) <= cash /\ cash \in Nat
  BY <1>2, <1>4, AllocationType DEF MoneyInv
<1>7. Len(events) \in Nat
  BY <1>2 DEF EventsInv
<1>8. /\ p \in Position /\ p.seq = Len(events) /\ p.symbol = c.symbol /\ p.exit = c.exit /\ p.alloc = Allocation(c)
  BY <1>5, <1>6, <1>7 DEF Position
<1> HIDE DEF c, p
<1>9. p \notin open /\ \A q \in open : q.seq # p.seq
  <2>1. ASSUME NEW q \in open PROVE q.seq # p.seq
    <3>1. q.seq \in Nat /\ q.seq < Len(events)
      BY <1>2 DEF MoneyInv, Position
    <3> QED
      BY <1>7, <1>8, <3>1
  <2> QED
    BY <2>1
<1>10. /\ open \in SUBSET Position /\ IsFiniteSet(open)
       /\ held \in SUBSET Position /\ IsFiniteSet(held)
       /\ \A q \in held : now <= q.exit
  <2>1. open \in SUBSET Position /\ IsFiniteSet(open)
    BY <1>2 DEF MoneyInv
  <2>2. held \in SUBSET Position /\ IsFiniteSet(held)
    BY <1>8, <2>1, FS_AddElement
  <2>3. \A q \in open : q.exit \in Nat
    BY <2>1 DEF Position
  <2>4. \A q \in held : now <= q.exit
    BY <1>3, <1>4, <1>5, <1>8, <2>3
  <2> QED
    BY <2>1, <2>2, <2>4
<1>11. TotalOf(held) = TotalOf(open) + p.alloc /\ TotalOf(open) \in Nat
  BY <1>8, <1>9, <1>10, TotalAdd, TotalType
<1> HIDE DEF held
<1>12. /\ now' \in Nat /\ now <= now'
       /\ todo' \in Seq(Offer)
       /\ \A i, j \in DOMAIN todo' : i < j => todo'[i].entry <= todo'[j].entry
       /\ todo' # << >> => now' = Head(todo').entry
       /\ todo' = << >> => \A q \in held : q.exit <= now'
  BY <1>1, <1>10, ClockMovesOn
<1>13. amount \in Int
  BY <1>6, <1>8, <1>11
<1> HIDE DEF amount
<1>14. LastEvent.ts <= c.entry /\ c.entry \in Nat
  BY <1>2, <1>4 DEF EventsInv
<1>15. /\ events' \in Seq([ts : Nat, equity : Int]) /\ events' # << >>
       /\ Len(events) \in Nat /\ Len(events') = Len(events) + 1
       /\ \A i, j \in DOMAIN events' : i < j => events'[i].ts <= events'[j].ts
       /\ LastEvent' = Event(c.entry, amount)
  BY <1>1, <1>2, <1>13, <1>14, EventAdded DEF EventsInv
<1>16. LastEvent'.ts = now
  BY <1>4, <1>15 DEF Event
<1>17. LeavingInv'
  BY <1>1, <1>2, <1>3 DEF LeavingInv
<1>18. EventsInv'
  <2>1. open' # {}
    BY <1>1 DEF held
  <2> QED
    BY <1>1, <1>10, <1>12, <1>15, <1>16, <2>1 DEF EventsInv
<1>19. ClockInv'
  <2>1. todo' = << >> => open' = ExitedBy(now)'
    BY <1>1, <1>12 DEF ExitedBy
  <2>2. \A f \in fills' : f.exit <= now'
    <3> SUFFICES ASSUME NEW f \in fills PROVE f.exit <= now'
      BY <1>1
    <3>1. f.exit \in Nat /\ f.exit <= now
      BY <1>2 DEF MoneyInv, ClockInv, Fill
    <3> QED
      BY <1>4, <1>12, <3>1
  <2> QED
    BY <1>1, <1>12, <2>1, <2>2 DEF ClockInv
<1>20. Equity' = StartingCapital + ResultOf(fills')
  <2>1. Equity = StartingCapital + ResultOf(fills)
    BY <1>2 DEF MoneyInv
  <2>2. Equity' = cash - Allocation(c) + TotalOf(held)
    BY <1>1 DEF Equity
  <2>3. Equity = cash + TotalOf(open)
    BY DEF Equity
  <2>4. fills' = fills
    BY <1>1
  <2>5. Equity' = Equity
    BY <1>6, <1>8, <1>11, <2>2, <2>3
  <2> QED
    BY <2>1, <2>4, <2>5
<1>21. sectors \in [Sectors -> Nat] /\ \A x \in Sectors : sectors[x] = TotalOf(HeldIn(x))
  BY <1>2 DEF MoneyInv, SectorLedgerExact, HeldIn
<1>22. \A x : HeldIn(x) \in SUBSET Position /\ IsFiniteSet(HeldIn(x))
  <2>1. \A x : HeldIn(x) \in SUBSET open
    BY DEF HeldIn
  <2> QED
    BY <1>10, <2>1, FS_Subset
<1>23. \A s : SectorIn(s)' = SectorIn(s)
  BY <1>1 DEF SectorIn
<1>24. \A x : SectorIn(c.symbol) # x => HeldIn(x)' = HeldIn(x)
  BY <1>1, <1>8, <1>23 DEF HeldIn, held
<1>25. \A x : SectorIn(c.symbol) = x => HeldIn(x)' = HeldIn(x) \cup {p} /\ p \notin HeldIn(x)
  BY <1>1, <1>8, <1>9, <1>23 DEF HeldIn, held
<1>28. sectors' \in [Sectors -> Nat] /\ \A x \in Sectors : sectors'[x] = TotalOf(HeldIn(x)')
  <2>1. CASE SectorIn(c.symbol) = NoSector
    <3>1. sectors' = sectors
      BY <1>1, <2>1
    <3>2. \A x \in Sectors : HeldIn(x)' = HeldIn(x)
      BY <1>24, <2>1, ReplayAssumption
    <3> QED
      BY <1>21, <3>1, <3>2
  <2>2. CASE SectorIn(c.symbol) # NoSector
    <3>0. SectorIn(c.symbol) \in Sectors
      BY <1>5, <2>2, SectorInType
    <3>1. PICK x \in Sectors : SectorIn(c.symbol) = x
      BY <3>0
    <3>2. sectors' = [sectors EXCEPT ![x] = sectors[x] + Allocation(c)]
      BY <1>1, <2>2, <3>1
    <3>3. sectors'[x] = sectors[x] + Allocation(c)
      BY <1>21, <3>1, <3>2
    <3>4. \A y \in Sectors : y # x => sectors'[y] = sectors[y] /\ sectors[y] \in Nat
      BY <1>21, <3>1, <3>2
    <3>5. sectors[x] = TotalOf(HeldIn(x)) /\ sectors[x] \in Nat
      BY <1>21, <3>1
    <3>6. TotalOf(HeldIn(x) \cup {p}) = TotalOf(HeldIn(x)) + p.alloc
      BY <1>8, <1>22, <1>25, <3>1, TotalAdd
    <3>13. HeldIn(x)' = HeldIn(x) \cup {p}
      BY <1>25, <3>1
    <3>14. TotalOf(HeldIn(x)') = TotalOf(HeldIn(x)) + p.alloc
      BY ONLY <3>6, <3>13, Zenon
    <3>7. sectors'[x] = TotalOf(HeldIn(x)') /\ sectors'[x] \in Nat
      BY <1>6, <1>8, <3>3, <3>5, <3>14
    <3>8. \A y \in Sectors : y # x => sectors'[y] = TotalOf(HeldIn(y)')
      BY <1>21, <1>24, <3>1, <3>4
    <3>9. sectors' = [y \in Sectors |-> sectors'[y]]
      BY <1>21, <3>2
    <3>10. \A y \in Sectors : sectors'[y] \in Nat
      BY <3>4, <3>7
    <3>11. sectors' \in [Sectors -> Nat]
      BY ONLY <3>9, <3>10
    <3>12. \A y \in Sectors : sectors'[y] = TotalOf(HeldIn(y)')
      BY <3>7, <3>8
    <3> QED
      BY <3>11, <3>12, Zenon
  <2> QED
    BY <2>1, <2>2
<1>29. Cardinality(open') <= manager.slots
  <2>1. Cardinality(open') = Cardinality(open) + 1 /\ Cardinality(open) \in Nat
    BY <1>1, <1>9, <1>10, FS_AddElement, FS_CardinalityType DEF held
  <2>2. Cardinality(open) < manager.slots /\ manager.slots \in Int
    BY <1>1, <1>2 DEF Admissible, SlotFree, Managers
  <2> QED
    BY <2>1, <2>2
<1>30. MoneyInv'
  <2>1. cash' \in Nat
    BY <1>1, <1>6
  <2>2. \A q \in open' : q.seq < Len(events')
    <3>1. ASSUME NEW q \in open' PROVE q.seq < Len(events')
      <4>1. q.seq \in Nat /\ q.seq <= Len(events)
        BY <1>1, <1>2, <1>7, <1>8, <3>1 DEF MoneyInv, Position, held
      <4> QED
        BY <1>7, <1>15, <4>1
    <3> QED
      BY <3>1
  <2>3. \A f \in fills' : f.seq < Len(events') /\ f.seq # p.seq
    <3>1. ASSUME NEW f \in fills' PROVE f.seq < Len(events') /\ f.seq # p.seq
      <4>1. f.seq \in Nat /\ f.seq < Len(events)
        BY <1>1, <1>2, <3>1 DEF MoneyInv, Fill
      <4> QED
        BY <1>7, <1>8, <1>15, <4>1
    <3> QED
      BY <3>1
  <2>4. \A q, r \in open' : q.seq = r.seq => q = r
    BY <1>1, <1>2, <1>9 DEF MoneyInv, held
  <2>5. \A q \in open', f \in fills' : q.seq # f.seq
    BY <1>1, <1>2, <2>3 DEF MoneyInv, held
  <2>6. SectorLedgerExact'
    BY <1>28 DEF SectorLedgerExact, HeldIn
  <2> QED
    BY <1>1, <1>2, <1>10, <1>20, <1>28, <1>29, <2>1, <2>2, <2>3, <2>4, <2>5, <2>6 DEF MoneyInv
<1> QED
  BY <1>1, <1>2, <1>17, <1>18, <1>19, <1>30 DEF Running
-----------------------------------------------------------------------------
(* The steps of a dynamic backtest.                                        *)

\* The simulated trades of the members are offers of the replay, one for each place of
\* each list.
LEMMA CandidatesOffered ==
    ASSUME NEW D \in SUBSET Symbols, NEW f \in [D -> TradeLists]
    PROVE  /\ Offered(Candidates(f))
           /\ \A c \in Candidates(f) : c.symbol \in D /\ c.nth \in DOMAIN f[c.symbol]
                                       /\ c = Candidate(c.symbol, c.nth, f[c.symbol][c.nth])
<1> DEFINE Of(s) == {Candidate(s, i, f[s][i]) : i \in DOMAIN f[s]}
           T == [entry : Nat, exit : Nat, pct : Int, stop : Nat]
<1>1. ASSUME NEW s \in D
      PROVE  /\ f[s] \in Seq(T)
             /\ \A i \in DOMAIN f[s] : f[s][i] \in T /\ f[s][i].entry <= f[s][i].exit /\ f[s][i].pct >= -100
             /\ DOMAIN f[s] = 1..Len(f[s]) /\ Len(f[s]) \in Nat
  <2>1. f[s] \in TradeLists
    OBVIOUS
  <2>2. f[s] \in Seq(T) /\ \A i \in DOMAIN f[s] : f[s][i].entry <= f[s][i].exit /\ f[s][i].pct >= -100
    BY <2>1, ReplayAssumption
  <2> HIDE DEF T
  <2>3. \A i \in DOMAIN f[s] : f[s][i] \in T
    BY <2>2
  <2>4. DOMAIN f[s] = 1..Len(f[s]) /\ Len(f[s]) \in Nat
    BY <2>2
  <2> QED
    BY <2>2, <2>3, <2>4
<1>2. ASSUME NEW s \in D, NEW i \in DOMAIN f[s]
      PROVE  /\ Candidate(s, i, f[s][i]) \in Offer
             /\ Candidate(s, i, f[s][i]).symbol = s /\ Candidate(s, i, f[s][i]).nth = i
  <2> DEFINE t == f[s][i]
  <2>1. t.entry \in Nat /\ t.exit \in Nat /\ t.pct \in Int /\ t.stop \in Nat /\ t.entry <= t.exit /\ t.pct >= -100
    BY <1>1
  <2>2. i \in Nat /\ s \in Symbols
    BY <1>1, SMTT(30)
  <2> HIDE DEF t
  <2>3. /\ Candidate(s, i, t) \in Offer /\ Candidate(s, i, t).symbol = s /\ Candidate(s, i, t).nth = i
    BY <2>1, <2>2 DEF Candidate, Offer
  <2> QED
    BY <2>3 DEF t
<1>3. ASSUME NEW c \in Candidates(f)
      PROVE  /\ c \in Offer /\ c.symbol \in D /\ c.nth \in DOMAIN f[c.symbol]
             /\ c = Candidate(c.symbol, c.nth, f[c.symbol][c.nth])
  <2>1. PICK s \in D : \E i \in DOMAIN f[s] : c = Candidate(s, i, f[s][i])
    BY DEF Candidates
  <2>2. PICK i \in DOMAIN f[s] : c = Candidate(s, i, f[s][i])
    BY <2>1
  <2>3. c \in Offer /\ c.symbol = s /\ c.nth = i
    BY <1>2, <2>2
  <2> QED
    BY <2>2, <2>3
<1>4. ASSUME NEW s \in D PROVE IsFiniteSet(Of(s))
  <2> DEFINE n == Len(f[s])
             g == [i \in 1..n |-> Candidate(s, i, f[s][i])]
  <2>1. n \in Nat /\ DOMAIN f[s] = 1..n
    BY <1>1
  <2>2. Of(s) = {g[i] : i \in 1..n}
    BY <2>1
  <2>3. g \in Surjection(1..n, Of(s))
    BY <2>1, <2>2 DEF Surjection
  <2> QED
    BY <2>1, <2>3, FS_Interval, FS_Surjection
<1> DEFINE P == {Of(s) : s \in D}
           h == [s \in D |-> Of(s)]
<1> HIDE DEF Of
<1>5. h \in Surjection(D, P)
  <2>1. h \in [D -> P] /\ \A s \in D : h[s] = Of(s)
    OBVIOUS
  <2>2. \A x \in P : \E s \in D : h[s] = x
    BY <2>1
  <2> HIDE DEF h
  <2> QED
    BY <2>1, <2>2 DEF Surjection
<1>6. IsFiniteSet(D)
  BY ReplayAssumption, FS_Subset
<1>7. IsFiniteSet(P)
  BY <1>5, <1>6, FS_Surjection
<1>8. IsFiniteSet(UNION P)
  BY <1>4, <1>7, FS_UNION
<1>9. Candidates(f) = UNION P
  BY DEF Candidates, Of
<1>10. \A c, d \in Candidates(f) : c.symbol = d.symbol /\ c.nth = d.nth => c = d
  BY <1>3
<1> QED
  BY <1>3, <1>8, <1>9, <1>10 DEF Offered

\* What a replay of the loaded members is given.
Competing(C) ==
    /\ Offered(C)
    /\ \A c \in C : c.symbol \in Loaded
    /\ OneSide => \A c, d \in C : c.symbol = d.symbol /\ c # d /\ Earlier(c, d) => c.exit <= d.entry

\* The trades of the loaded members compete: those of one list in the order of entries.
LEMMA LoadedCompete ==
    ASSUME NEW f \in [Loaded -> TradeLists]
    PROVE  Competing(Candidates(f))
<1>1. Loaded \in SUBSET Symbols
  BY DEF Loaded
<1>2. /\ Offered(Candidates(f))
      /\ \A c \in Candidates(f) : c.symbol \in Loaded /\ c.nth \in DOMAIN f[c.symbol]
                                  /\ c = Candidate(c.symbol, c.nth, f[c.symbol][c.nth])
  BY <1>1, CandidatesOffered
<1>3. ASSUME OneSide, NEW c \in Candidates(f), NEW d \in Candidates(f),
             c.symbol = d.symbol, c # d, Earlier(c, d)
      PROVE  c.exit <= d.entry
  <2> DEFINE list == f[c.symbol]
  <2>1. list \in TradeLists
    BY <1>2
  <2>2. /\ c.nth \in DOMAIN list /\ d.nth \in DOMAIN list
        /\ c.entry = list[c.nth].entry /\ c.exit = list[c.nth].exit
        /\ d.entry = list[d.nth].entry /\ d.exit = list[d.nth].exit
    BY <1>2, <1>3 DEF Candidate
  <2>3. c \in Offer /\ d \in Offer
    BY <1>2 DEF Offered
  <2>4. c.nth \in Nat /\ d.nth \in Nat /\ c.entry \in Nat /\ d.entry \in Nat /\ c.exit \in Nat /\ d.exit \in Nat
        /\ d.entry <= d.exit
    BY <2>3 DEF Offer
  <2>5. c.nth # d.nth
    BY <1>2, <1>3 DEF Offered
  <2> HIDE DEF list
  <2>6. CASE c.nth < d.nth
    BY <1>3, <2>1, <2>2, <2>6 DEF OneSide
  <2>7. CASE d.nth < c.nth
    <3>1. d.exit <= c.entry
      BY <1>3, <2>1, <2>2, <2>7 DEF OneSide
    <3>2. SymbolRank[c.symbol] = SymbolRank[d.symbol] /\ SymbolRank[c.symbol] \in Int
      BY <1>3, <2>3, ReplayAssumption DEF Offer
    <3>3. c.entry < d.entry
      BY <1>3, <2>4, <2>7, <3>2 DEF Earlier
    <3> QED
      BY <2>4, <3>1, <3>3
  <2> QED
    BY <2>4, <2>5, <2>6, <2>7
<1> QED
  BY <1>2, <1>3 DEF Competing

\* So do those that fall in a part of the window.
LEMMA CompetingPart ==
    ASSUME NEW C, Competing(C), NEW B \in SUBSET C
    PROVE  Competing(B)
  BY FS_Subset DEF Competing, Offered

\* The replay starts, goes on, or stands still.
LEMMA ReplaySteps ==
    ASSUME [Next]_vars
    PROVE  \/ UNCHANGED replayVars
           \/ Replay
           \/ \E C, m : Competing(C) /\ Run(C, m)
<1>1. CASE RunPortfolio
  <2>1. PICK f \in [Loaded -> TradeLists], mapped \in BOOLEAN :
          Run(Simulated(f), [slots |-> EffectivePositions, sizing |-> SizingMode, sectorMap |-> mapped])
    BY <1>1 DEF RunPortfolio
  <2>2. Competing(Simulated(f))
    BY LoadedCompete, CompetingPart DEF Simulated
  <2> QED
    BY <2>1, <2>2
<1>2. CASE RunGroup
  <2>1. PICK f \in [Loaded -> TradeLists] : Run(Candidates(f), GroupManager)
    BY <1>2 DEF RunGroup
  <2> QED
    BY <2>1, LoadedCompete
<1>3. CASE Replaying
  BY <1>3 DEF Replaying
<1>4. CASE Resolving \/ ListMembers \/ NoMembers \/ LoadMembers \/ GroupFails \/ EngineFails \/ EngineAnswers
  BY <1>4 DEF Resolving, ListMembers, NoMembers, LoadMembers, GroupFails, EngineFails, EngineAnswers
<1>5. CASE \E s \in Symbols : Load(s) \/ LoadEnds(s) \/ RunMember(s)
  BY <1>5 DEF Load, LoadEnds, RunMember
<1>6. CASE Ended \/ UNCHANGED vars
  BY <1>6 DEF Ended, vars
<1> QED
  BY <1>1, <1>2, <1>3, <1>4, <1>5, <1>6 DEF Next

\* Steps of the other parts leave the replay alone.
LEMMA ReplayInvStutters ==
    ASSUME ReplayInv, UNCHANGED replayVars
    PROVE  ReplayInv'
  BY SMTT(30) DEF ReplayInv, replayVars, IdleInv, MoneyInv, ClockInv, LeavingInv, EventsInv, Equity,
         SectorLedgerExact, SectorIn, ExitedBy, LastEvent

\* Every step of the replay keeps its invariant.
LEMMA ReplayKeeps ==
    ASSUME ReplayInv, Replay
    PROVE  ReplayInv' /\ phase # "idle" /\ phase' # "idle" /\ Running
<1>1. phase # "idle"
  BY DEF ReplayInv, IdleInv, Replay, Release, ReleaseOne, Released, Admit, Skip
<1>2. Running
  BY <1>1 DEF ReplayInv, Running
<1>3. Running'
  BY <1>2, ReleaseKeeps, ReleaseOneKeeps, ReleasedKeeps, AdmitKeeps, SkipKeeps DEF Replay
<1>4. phase' \in {"release", "decide", "done"}
  BY <1>1 DEF ReplayInv, Replay, Release, ReleaseOne, Released, Admit, Skip
<1> QED
  BY <1>1, <1>2, <1>3, <1>4 DEF ReplayInv, Running

\* The replay's cash, positions, sectors, fills and events fit together in every state:
\* one invariant of amounts, clock, release loop and events, which the others need.
THEOREM ReplayInvariant == Spec => []ReplayInv
<1>1. Init => ReplayInv
  BY DEF Init, ReplayInit, ReplayInv, IdleInv
<1>2. ReplayInv /\ [Next]_vars => ReplayInv'
  <2> SUFFICES ASSUME ReplayInv, [Next]_vars PROVE ReplayInv'
    OBVIOUS
  <2>1. CASE UNCHANGED replayVars
    BY <2>1, ReplayInvStutters
  <2>2. CASE Replay
    BY <2>2, ReplayKeeps
  <2>3. ASSUME NEW C, NEW m, Competing(C), Run(C, m) PROVE ReplayInv'
    BY <2>3, RunKeeps DEF Competing
  <2> QED
    BY <2>1, <2>2, <2>3, ReplaySteps
<1> QED
  BY <1>1, <1>2, PTL DEF Spec

\* The ending capital is read from the curve: the curve ends with the cash.
LEMMA CurveEndsWithCash ==
    ASSUME Running, open = {}
    PROVE  EndingCapital = cash
<1> DEFINE n == Len(events)
           V == [ts : Nat, equity : Int]
<1>1. /\ events \in Seq(V) /\ events # << >> /\ LastEvent.equity = cash
      /\ \A i, j \in DOMAIN events : i < j => events[i].ts <= events[j].ts
  BY DEF Running, EventsInv
<1>2. \A v \in V : v.ts \in Nat
  OBVIOUS
<1> HIDE DEF V
<1>3. n \in Nat \ {0} /\ DOMAIN events = 1..n
  BY <1>1
<1>4. \A i \in 1..n : events[i].ts \in Nat
  BY <1>1, <1>2
<1>5. n \in DOMAIN events
  BY <1>3
<1>6. \A i \in 1..n : events[i].ts <= events[n].ts
  <2> SUFFICES ASSUME NEW i \in 1..n PROVE events[i].ts <= events[n].ts
    OBVIOUS
  <2>1. CASE i = n
    BY <1>4, <2>1
  <2>2. CASE i # n
    <3>0. n \in Nat /\ i \in 1..n
      BY <1>3
    <3>1. i < n
      BY ONLY <2>2, <3>0
    <3> QED
      BY <1>1, <1>3, <1>5, <3>1
  <2> QED
    BY <2>1, <2>2
<1> HIDE DEF n
<1>7. LastTime = events[n].ts
  <2> DEFINE last == events[n].ts
  <2>1. last \in Times /\ \A u \in Times : u <= last
    BY <1>3, <1>5, <1>6 DEF Times
  <2>2. \A u \in Times : u \in Nat
    BY <1>3, <1>4 DEF Times
  <2> HIDE DEF last
  <2>3. LastTime \in Times /\ \A u \in Times : u <= LastTime
    BY <2>1 DEF LastTime
  <2>4. LastTime <= last /\ last <= LastTime /\ last \in Nat /\ LastTime \in Nat
    BY <2>1, <2>2, <2>3
  <2> QED
    BY <2>4 DEF last
<1>8. CurveAt(LastTime) = events[n].equity
  <2> DEFINE Shown(i) == events[i].ts = events[n].ts /\ \A j \in DOMAIN events : events[j].ts = events[n].ts => j <= i
             i == CHOOSE i \in DOMAIN events : Shown(i)
  <2>1. Shown(n)
    BY <1>3
  <2> HIDE DEF Shown
  <2>2. i \in DOMAIN events /\ Shown(i)
    BY <1>5, <2>1
  <2> HIDE DEF i
  <2>3. n <= i /\ i \in 1..n
    BY <1>3, <1>5, <2>2 DEF Shown
  <2>4. i = n
    BY <1>3, <2>3
  <2> QED
    BY <1>7, <2>4 DEF CurveAt, i, Shown
<1> QED
  BY <1>1, <1>7, <1>8 DEF EndingCapital, LastEvent, n

\* The curve and the fills are read off the invariant.
LEMMA LedgersAgree == ReplayInv => LedgersExact
<1> SUFFICES ASSUME ReplayInv PROVE LedgersExact
  OBVIOUS
<1>1. CASE phase = "idle"
  <2>1. IdleInv
    BY <1>1 DEF ReplayInv
  <2>2. Equity = StartingCapital + ResultOf(fills)
    BY <2>1, TotalEmpty, ReplayAssumption DEF IdleInv, Equity
  <2>3. \A x \in Sectors : {p \in open : SectorIn(p.symbol) = x} = {} /\ sectors[x] = 0
    BY <2>1 DEF IdleInv
  <2>4. SectorLedgerExact
    BY <2>3, TotalEmpty DEF SectorLedgerExact
  <2> QED
    BY <1>1, <2>2, <2>4 DEF LedgersExact, CapitalConserved
<1>2. CASE phase # "idle"
  <2>1. Running
    BY <1>2 DEF ReplayInv, Running
  <2>2. phase = "done" => open = {} /\ EndingCapital = cash
    BY <2>1, CurveEndsWithCash DEF Running, ClockInv
  <2> QED
    BY <2>1, <2>2 DEF Running, MoneyInv, LedgersExact, CapitalConserved
<1> QED
  BY <1>1, <1>2

\* Cash, open positions and sectors are ledgers of one capital at every step of a
\* replay, and the ending capital read from the curve is the cash.
THEOREM LedgersAlwaysExact == Spec => []LedgersExact
  BY ReplayInvariant, LedgersAgree, PTL
-----------------------------------------------------------------------------
(* A strategy with one side: a symbol has one position.                    *)

\* Taking a candidate or releasing a position keeps those of one symbol apart.
LEMMA ApartKept ==
    ASSUME ReplayInv, ApartInv, Replay
    PROVE  ApartInv'
<1>1. Running
  BY ReplayKeeps
<1>2. CASE Release \/ Released
  BY <1>2 DEF Release, Released, ApartInv
<1>3. CASE ReleaseOne
  <2>1. open' \in SUBSET open /\ todo' = todo
    BY <1>3 DEF ReleaseOne
  <2> QED
    BY <2>1 DEF ApartInv
<1>4. ASSUME todo' = Tail(todo), phase = "decide"
      PROVE  /\ todo \in Seq(Offer) /\ todo # << >> /\ 1 \in DOMAIN todo /\ Head(todo) = todo[1]
             /\ \A i \in DOMAIN todo' : i + 1 \in DOMAIN todo /\ todo'[i] = todo[i + 1] /\ i \in Nat /\ 1 < i + 1
  <2>1. todo \in Seq(Offer) /\ todo # << >>
    BY <1>1, <1>4 DEF Running, ClockInv
  <2>2. /\ DOMAIN todo' = 1..(Len(todo) - 1) /\ Len(todo) \in Nat
        /\ \A i \in 1..(Len(todo) - 1) : Tail(todo)[i] = todo[i + 1] /\ i + 1 \in DOMAIN todo
        /\ 1 \in DOMAIN todo /\ Head(todo) = todo[1]
    BY <1>4, <2>1, TailParts
  <2> QED
    BY <1>4, <2>1, <2>2
<1>5. ASSUME todo' = Tail(todo), phase = "decide"
      PROVE  \A i, j \in DOMAIN todo' : i < j /\ todo'[i].symbol = todo'[j].symbol => todo'[i].exit <= todo'[j].entry
  <2> SUFFICES ASSUME NEW i \in DOMAIN todo', NEW j \in DOMAIN todo', i < j, todo'[i].symbol = todo'[j].symbol
               PROVE  todo'[i].exit <= todo'[j].entry
    OBVIOUS
  <2>1. /\ i + 1 \in DOMAIN todo /\ todo'[i] = todo[i + 1] /\ i \in Nat
        /\ j + 1 \in DOMAIN todo /\ todo'[j] = todo[j + 1] /\ j \in Nat
    BY <1>4, <1>5
  <2>2. i + 1 < j + 1
    BY <2>1
  <2> QED
    BY <2>1, <2>2 DEF ApartInv
<1>6. CASE Skip
  <2>1. todo' = Tail(todo) /\ phase = "decide" /\ open' = open
    BY <1>6 DEF Skip
  <2> QED
    BY <1>4, <1>5, <2>1 DEF ApartInv
<1>7. CASE Admit
  <2> DEFINE c == Head(todo)
             p == [seq |-> Len(events), symbol |-> c.symbol, exit |-> c.exit,
                   alloc |-> Allocation(c), pct |-> c.pct]
  <2>1. todo' = Tail(todo) /\ phase = "decide" /\ open' = open \cup {p}
    BY <1>7 DEF Admit
  <2>2. p.symbol = c.symbol /\ p.exit = c.exit
    OBVIOUS
  <2>3. c = todo[1] /\ 1 \in DOMAIN todo /\ now = c.entry
    BY <1>1, <1>4, <2>1 DEF Running, ClockInv
  <2> HIDE DEF c, p
  <2>4. ASSUME NEW q \in open PROVE q.symbol # p.symbol
    <3>1. now < q.exit
      BY <1>1, <2>1, StillOpen
    <3>2. q.exit \in Nat /\ now \in Nat
      BY <1>1 DEF Running, MoneyInv, ClockInv, Position
    <3>3. q.symbol = p.symbol => q.exit <= now
      BY <2>2, <2>3 DEF ApartInv
    <3> QED
      BY <3>1, <3>2, <3>3
  <2>5. \A i \in DOMAIN todo' : todo'[i].symbol = p.symbol => p.exit <= todo'[i].entry
    <3> SUFFICES ASSUME NEW i \in DOMAIN todo', todo'[i].symbol = p.symbol PROVE p.exit <= todo'[i].entry
      OBVIOUS
    <3>1. i + 1 \in DOMAIN todo /\ todo'[i] = todo[i + 1] /\ 1 < i + 1
      BY <1>4, <2>1
    <3> QED
      BY <2>2, <2>3, <3>1 DEF ApartInv
  <2>6. \A q \in open, i \in DOMAIN todo' : todo'[i].symbol = q.symbol => q.exit <= todo'[i].entry
    BY <1>4, <2>1 DEF ApartInv
  <2> QED
    BY <1>5, <2>1, <2>4, <2>5, <2>6 DEF ApartInv
<1> QED
  BY <1>2, <1>3, <1>6, <1>7 DEF Replay

\* The order of the candidates is strict.
LEMMA NotBeforeItself == \A c \in Offer : ~ Earlier(c, c)
<1> SUFFICES ASSUME NEW c \in Offer PROVE ~ Earlier(c, c)
  OBVIOUS
<1>1. c.entry \in Int /\ c.nth \in Int /\ c.symbol \in Symbols
  BY DEF Offer
<1>2. SymbolRank[c.symbol] \in Int
  BY <1>1, ReplayAssumption
<1> QED
  BY ONLY <1>1, <1>2 DEF Earlier

\* The candidates of one symbol follow each other from the start.
LEMMA ApartAtStart ==
    ASSUME ReplayInv, OneSide, NEW C, Competing(C), NEW m, Run(C, m)
    PROVE  ApartInv'
<1>1. IdleInv
  BY DEF ReplayInv, Run
<1>2. open' = {} /\ todo' = InOrder(C, Earlier)
  BY <1>1 DEF Run, IdleInv
<1>3. /\ Range(todo') = C
      /\ \A i, j \in DOMAIN todo' : i < j => Earlier(todo'[i], todo'[j]) /\ todo'[i] # todo'[j]
  <2>1. Offered(C)
    BY DEF Competing
  <2>2. C \in SUBSET Offer /\ IsFiniteSet(C) /\ \A c, d \in C : c.symbol = d.symbol /\ c.nth = d.nth => c = d
    BY <2>1 DEF Offered
  <2>3. todo' = InOrder(C, Earlier)
    BY <1>2
  <2>4. Range(todo') = C
    BY ONLY <2>2, <2>3, EntryOrder
  <2>5. \A i, j \in DOMAIN todo' : i < j => Earlier(todo'[i], todo'[j])
    BY ONLY <2>2, <2>3, EntryOrder
  <2>6. \A c \in C : ~ Earlier(c, c)
    BY <2>2, NotBeforeItself
  <2>7. \A i \in DOMAIN todo' : todo'[i] \in C
    BY <2>4 DEF Range
  <2> QED
    BY <2>4, <2>5, <2>6, <2>7
<1>4. \A i \in DOMAIN todo' : todo'[i] \in C
  BY <1>3 DEF Range
<1> QED
  BY <1>2, <1>3, <1>4 DEF ApartInv, Competing

\* With a strategy of one side, no symbol is ever held twice, nor a candidate due before
\* what its symbol holds has left (quant_engine/engine/portfolio.py).
THEOREM ApartInvariant ==
    ASSUME OneSide
    PROVE  Spec => []ApartInv
<1>1. Init => ApartInv
  BY DEF Init, ReplayInit, ApartInv
<1>2. ReplayInv /\ ApartInv /\ [Next]_vars => ApartInv'
  <2> SUFFICES ASSUME ReplayInv, ApartInv, [Next]_vars PROVE ApartInv'
    OBVIOUS
  <2>1. CASE UNCHANGED replayVars
    BY <2>1 DEF ApartInv, replayVars
  <2>2. CASE Replay
    BY <2>2, ApartKept
  <2>3. ASSUME NEW C, NEW m, Competing(C), Run(C, m) PROVE ApartInv'
    BY <2>3, ApartAtStart
  <2> QED
    BY <2>1, <2>2, <2>3, ReplaySteps
<1> QED
  BY <1>1, <1>2, ReplayInvariant, PTL DEF Spec
-----------------------------------------------------------------------------
(* The replay implements the shared capital.                               *)

StakeIn(S) == [s \in {p.symbol : p \in S} |-> (CHOOSE p \in S : p.symbol = s).alloc]

OnePerSymbol(S) == \A p, q \in S : p.symbol = q.symbol => p = q

\* The stake of a symbol is the allocation of its position.
LEMMA StakeParts ==
    ASSUME NEW S, OnePerSymbol(S)
    PROVE  /\ DOMAIN StakeIn(S) = {p.symbol : p \in S}
           /\ \A p \in S : StakeIn(S)[p.symbol] = p.alloc
<1>1. DOMAIN StakeIn(S) = {p.symbol : p \in S}
  BY DEF StakeIn
<1>2. ASSUME NEW p \in S PROVE StakeIn(S)[p.symbol] = p.alloc
  <2> DEFINE s == p.symbol
             c == CHOOSE q \in S : q.symbol = s
  <2>1. c \in S /\ c.symbol = s
    OBVIOUS
  <2>2. StakeIn(S)[s] = c.alloc
    BY DEF StakeIn
  <2> HIDE DEF c
  <2>3. c = p
    BY <2>1 DEF OnePerSymbol
  <2> QED
    BY <2>2, <2>3
<1> QED
  BY <1>1, <1>2

WithStake(k, s, amount) == [x \in DOMAIN k \cup {s} |-> IF x = s THEN amount ELSE k[x]]

\* Opening a position adds one stake.
LEMMA StakeAdd ==
    ASSUME NEW S, NEW p, OnePerSymbol(S \cup {p}), p \notin S
    PROVE  /\ p.symbol \notin DOMAIN StakeIn(S)
           /\ StakeIn(S \cup {p}) = WithStake(StakeIn(S), p.symbol, p.alloc)
<1> DEFINE T == S \cup {p}
           new == [x \in DOMAIN StakeIn(S) \cup {p.symbol} |-> IF x = p.symbol THEN p.alloc ELSE StakeIn(S)[x]]
<1>1. OnePerSymbol(S) /\ p \in T
  BY DEF OnePerSymbol
<1>2. DOMAIN StakeIn(S) = {q.symbol : q \in S} /\ \A q \in S : StakeIn(S)[q.symbol] = q.alloc
  BY <1>1, StakeParts
<1>3. DOMAIN StakeIn(T) = {q.symbol : q \in T} /\ \A q \in T : StakeIn(T)[q.symbol] = q.alloc
  BY StakeParts
<1>4. \A q \in S : q.symbol # p.symbol
  BY DEF OnePerSymbol
<1>5. p.symbol \notin DOMAIN StakeIn(S)
  BY <1>2, <1>4
<1>6. DOMAIN StakeIn(T) = DOMAIN new
  BY <1>2, <1>3
<1>7. ASSUME NEW x \in DOMAIN new PROVE StakeIn(T)[x] = new[x]
  <2>1. CASE x = p.symbol
    BY <1>1, <1>3, <2>1
  <2>2. CASE x # p.symbol
    <3>1. x \in DOMAIN StakeIn(S)
      BY <2>2
    <3>2. PICK q \in S : x = q.symbol
      BY <1>2, <3>1
    <3>3. new[x] = StakeIn(S)[x]
      BY <2>2
    <3>4. q \in T
      BY <3>2
    <3> HIDE DEF T, new
    <3> QED
      BY <1>2, <1>3, <3>2, <3>3, <3>4
  <2> QED
    BY <2>1, <2>2
<1>8. StakeIn(T) = [x \in DOMAIN StakeIn(T) |-> StakeIn(T)[x]]
  BY DEF StakeIn
<1>9. new = [x \in DOMAIN new |-> new[x]]
  OBVIOUS
<1> HIDE DEF new, T
<1>10. StakeIn(T) = new
  BY <1>6, <1>7, <1>8, <1>9
<1> QED
  BY <1>5, <1>10 DEF new, T, WithStake

\* Closing one removes one stake.
LEMMA StakeRemove ==
    ASSUME NEW S, NEW p \in S, OnePerSymbol(S)
    PROVE  StakeIn(S \ {p}) = [x \in DOMAIN StakeIn(S) \ {p.symbol} |-> StakeIn(S)[x]]
<1> DEFINE T == S \ {p}
           new == [x \in DOMAIN StakeIn(S) \ {p.symbol} |-> StakeIn(S)[x]]
<1>1. OnePerSymbol(T)
  BY DEF OnePerSymbol
<1>2. DOMAIN StakeIn(S) = {q.symbol : q \in S} /\ \A q \in S : StakeIn(S)[q.symbol] = q.alloc
  BY StakeParts
<1>3. DOMAIN StakeIn(T) = {q.symbol : q \in T} /\ \A q \in T : StakeIn(T)[q.symbol] = q.alloc
  BY <1>1, StakeParts
<1>4. \A q \in T : q.symbol # p.symbol /\ q \in S
  BY DEF OnePerSymbol
<1>5. \A q \in S : q.symbol # p.symbol => q \in T
  OBVIOUS
<1>6. DOMAIN StakeIn(T) = DOMAIN new
  <2> HIDE DEF T
  <2>1. DOMAIN new = {q.symbol : q \in S} \ {p.symbol}
    BY <1>2
  <2>2. {q.symbol : q \in T} = {q.symbol : q \in S} \ {p.symbol}
    BY <1>4, <1>5
  <2> QED
    BY <1>3, <2>1, <2>2
<1>7. ASSUME NEW x \in DOMAIN new PROVE StakeIn(T)[x] = new[x]
  <2>1. PICK q \in T : x = q.symbol
    BY <1>3, <1>6
  <2>2. new[x] = StakeIn(S)[x]
    OBVIOUS
  <2> HIDE DEF T, new
  <2> QED
    BY <1>2, <1>3, <1>4, <2>1, <2>2
<1>8. StakeIn(T) = [x \in DOMAIN StakeIn(T) |-> StakeIn(T)[x]]
  BY DEF StakeIn
<1>9. new = [x \in DOMAIN new |-> new[x]]
  OBVIOUS
<1> HIDE DEF new, T
<1>10. StakeIn(T) = new
  BY <1>6, <1>7, <1>8, <1>9
<1> QED
  BY <1>10 DEF new, T

\* The stakes of the refinement are those of the open positions,
LEMMA StakeIsOfOpen == Stake = StakeIn(open)
  BY DEF Stake, StakeIn

\* also after a step.
LEMMA StakeIsOfOpenNext == Stake' = StakeIn(open')
  BY DEF Stake, StakeIn

\* The instance counts as this module does.
LEMMA SameCardinality == \A S : Capital!Cardinality(S) = Cardinality(S)
  BY DEF Capital!Cardinality, Cardinality

\* Admitting a candidate is taking a stake out of the shared capital.
LEMMA AdmitOpens ==
    ASSUME Running, ApartInv, ApartInv', Admit
    PROVE  Capital!Next
<1> DEFINE c == Head(todo)
           p == [seq |-> Len(events), symbol |-> c.symbol, exit |-> c.exit,
                 alloc |-> Allocation(c), pct |-> c.pct]
<1>1. open' = open \cup {p} /\ cash' = cash - Allocation(c) /\ Admissible(c) /\ phase = "decide"
  BY DEF Admit
<1>2. p.symbol = c.symbol /\ p.alloc = Allocation(c) /\ p.seq = Len(events)
  OBVIOUS
<1>3. c \in Offer
  <2>1. todo # << >> /\ todo \in Seq(Offer)
    BY <1>1 DEF Running, ClockInv
  <2> QED
    BY <2>1
<1>4. c.symbol \in Symbols
  BY <1>3 DEF Offer
<1>5. Allocation(c) \in Nat /\ Allocation(c) <= cash /\ Allocation(c) > 0 /\ cash \in Nat
  BY <1>1, <1>3, AllocationType DEF Admissible, Running, MoneyInv
<1>6. open \in SUBSET Position /\ IsFiniteSet(open) /\ Cardinality(open) < manager.slots /\ manager \in Managers
  BY <1>1 DEF Running, MoneyInv, Admissible, SlotFree
<1>7. p \notin open
  <2>1. \A q \in open : q.seq < Len(events) /\ q.seq \in Nat
    BY <1>6 DEF Running, MoneyInv, Position
  <2> QED
    BY <1>2, <2>1
<1> HIDE DEF c, p
<1>8. OnePerSymbol(open) /\ OnePerSymbol(open \cup {p})
  BY <1>1 DEF ApartInv, OnePerSymbol
<1>9. /\ p.symbol \notin DOMAIN StakeIn(open)
      /\ StakeIn(open \cup {p}) = WithStake(StakeIn(open), p.symbol, p.alloc)
  BY <1>7, <1>8, StakeAdd
<1>10. Cardinality(DOMAIN StakeIn(open)) < MaxSlots
  <2> DEFINE h == [q \in open |-> q.symbol]
  <2>1. DOMAIN StakeIn(open) = {q.symbol : q \in open}
    BY <1>8, StakeParts
  <2>2. h \in Surjection(open, {q.symbol : q \in open})
    BY DEF Surjection
  <2>3. IsFiniteSet({q.symbol : q \in open}) /\ Cardinality({q.symbol : q \in open}) <= Cardinality(open)
    BY <1>6, <2>2, FS_Surjection
  <2>4. manager.slots \in Nat /\ manager.slots <= MaxSlots /\ MaxSlots \in Nat
    BY <1>6, ReplayAssumption DEF Managers
  <2>5. Cardinality(open) \in Nat /\ Cardinality(DOMAIN StakeIn(open)) \in Nat
        /\ Cardinality(DOMAIN StakeIn(open)) <= Cardinality(open)
    BY <1>6, <2>1, <2>3, FS_CardinalityType
  <2> QED
    BY <1>6, <2>4, <2>5
<1>11. Stake = StakeIn(open) /\ Stake' = StakeIn(open \cup {p})
  BY <1>1, StakeIsOfOpen, StakeIsOfOpenNext
<1>12. Capital!Open(c.symbol)
  <2>1. c.symbol \notin DOMAIN Stake /\ Cardinality(DOMAIN Stake) < MaxSlots
    BY <1>2, <1>9, <1>10, <1>11
  <2>2. Allocation(c) \in 1..cash /\ cash' = cash - Allocation(c)
    BY <1>1, <1>5
  <2>3. Stake' = [x \in DOMAIN Stake \cup {c.symbol} |-> IF x = c.symbol THEN Allocation(c) ELSE Stake[x]]
    BY <1>2, <1>9, <1>11 DEF WithStake
  <2> QED
    BY <2>1, <2>2, <2>3, SameCardinality DEF Capital!Open
<1> QED
  BY <1>4, <1>12 DEF Capital!Next

\* Releasing a position is returning its stake with its result.
LEMMA ReleaseCloses ==
    ASSUME Running, ApartInv, ReleaseOne
    PROVE  Capital!Next
<1> DEFINE p == Head(leaving)
<1>1. open' = open \ {p} /\ cash' = cash + Proceeds(p) /\ leaving # << >>
  BY DEF ReleaseOne
<1>2. p \in open
  <2>1. leaving \in Seq(Position) /\ Range(leaving) = ExitedBy(now)
    BY <1>1 DEF Running, LeavingInv
  <2>2. p \in Range(leaving)
    BY <1>1, <2>1, TailParts
  <2> QED
    BY <2>1, <2>2 DEF ExitedBy
<1>3. p \in Position /\ cash \in Nat
  BY <1>2 DEF Running, MoneyInv
<1> HIDE DEF p
<1>4. Proceeds(p) \in Nat /\ p.symbol \in Symbols
  BY <1>3, ProceedsNat DEF Position
<1>5. OnePerSymbol(open)
  BY DEF ApartInv, OnePerSymbol
<1>6. /\ StakeIn(open \ {p}) = [x \in DOMAIN StakeIn(open) \ {p.symbol} |-> StakeIn(open)[x]]
      /\ p.symbol \in DOMAIN StakeIn(open)
  <2>1. StakeIn(open \ {p}) = [x \in DOMAIN StakeIn(open) \ {p.symbol} |-> StakeIn(open)[x]]
    BY <1>2, <1>5, StakeRemove, Zenon
  <2>2. p.symbol \in DOMAIN StakeIn(open)
    BY <1>2, <1>5, StakeParts
  <2> QED
    BY <2>1, <2>2
<1>7. Stake = StakeIn(open) /\ Stake' = StakeIn(open \ {p})
  BY <1>1, StakeIsOfOpen, StakeIsOfOpenNext
<1>8. Capital!Close(p.symbol)
  <2>1. cash' \in Nat /\ cash' >= cash
    BY <1>1, <1>3, <1>4
  <2> QED
    BY <1>6, <1>7, <2>1 DEF Capital!Close
<1> QED
  BY <1>4, <1>8 DEF Capital!Next

\* Every step of a dynamic backtest is a step of the shared capital, or a stutter.
LEMMA CapitalStep ==
    ASSUME ReplayInv, ApartInv, ApartInv', [Next]_vars
    PROVE  [Capital!Next]_<<cash, Stake>>
<1>1. CASE UNCHANGED replayVars
  BY <1>1 DEF replayVars, Stake
<1>2. CASE Replay
  <2>1. Running
    BY <1>2, ReplayKeeps
  <2>2. CASE Release \/ Released \/ Skip
    <3>1. UNCHANGED <<cash, open>>
      BY <2>2 DEF Release, Released, Skip
    <3> QED
      BY <3>1 DEF Stake
  <2>3. CASE Admit
    BY <2>1, <2>3, AdmitOpens
  <2>4. CASE ReleaseOne
    BY <2>1, <2>4, ReleaseCloses
  <2> QED
    BY <1>2, <2>2, <2>3, <2>4 DEF Replay
<1>3. ASSUME NEW C, NEW m, Run(C, m) PROVE [Capital!Next]_<<cash, Stake>>
  BY <1>3 DEF Run, Stake
<1> QED
  BY <1>1, <1>2, <1>3, ReplaySteps

\* The replay of a strategy with one side keeps the promise of SharedCapital: a position is
\* opened only for a symbol that has none, into a free slot, with free cash.
THEOREM ReplaySharesCapital ==
    ASSUME OneSide
    PROVE  Spec => RefinesSharedCapital
<1>1. Init => Capital!Init
  <2> SUFFICES ASSUME Init PROVE Capital!Init
    OBVIOUS
  <2>1. cash = StartingCapital /\ open = {}
    BY DEF Init, ReplayInit
  <2>2. DOMAIN Stake = {}
    BY <2>1 DEF Stake
  <2>3. MaxSlots \in Nat /\ StartingCapital \in Nat /\ Cardinality({}) = 0
    BY ReplayAssumption, FS_EmptySet
  <2> QED
    BY <2>1, <2>2, <2>3, SameCardinality DEF Capital!Init
<1>2. ReplayInv /\ ApartInv /\ ApartInv' /\ [Next]_vars => [Capital!Next]_<<cash, Stake>>
  BY CapitalStep
<1> QED
  BY <1>1, <1>2, ReplayInvariant, ApartInvariant, PTL DEF Spec, RefinesSharedCapital
-----------------------------------------------------------------------------
(* The resolution.                                                         *)

\* A cleaned list has every ticker once.
LEMMA CleanedParts ==
    ASSUME NEW T, NEW list \in Seq(T)
    PROVE  /\ Cleaned(list) \in Seq(T)
           /\ \A i, j \in DOMAIN Cleaned(list) : Cleaned(list)[i] = Cleaned(list)[j] => i = j
<1> DEFINE F == Firsts(list)
           n == Cardinality(F)
           kept == InOrder(F, LAMBDA i, j : i < j)
           R == {x \in F \X F : x[1] < x[2]}
<1>1. DOMAIN list = 1..Len(list) /\ Len(list) \in Nat
  OBVIOUS
<1>2. F \in SUBSET (1..Len(list))
  BY <1>1 DEF Firsts
<1>3. IsFiniteSet(F) /\ n \in Nat
  <2>1. IsFiniteSet(1..Len(list))
    BY <1>1, FS_Interval
  <2> HIDE DEF F
  <2> QED
    BY <1>2, <2>1, FS_Subset, FS_CardinalityType
<1>4. \A i, j \in F : i < j => list[i] # list[j]
  BY <1>1, <1>2 DEF Firsts
<1>5. \A i \in F : i \in Int /\ list[i] \in T
  BY <1>1, <1>2
<1>6. \A i, j \in F : <<i, j>> \in R <=> i < j
  OBVIOUS
<1> HIDE DEF F, R
<1>7. StrictOrder(R, F)
  BY <1>5, <1>6 DEF StrictOrder
<1>8. \A c \in F : Under(R, F, c) = {d \in F : d < c}
  BY <1>6 DEF Under
<1>9. ASSUME NEW k \in 1..n PROVE \E c \in F : Cardinality({d \in F : d < c}) = k - 1
  <2>1. \A i \in 1..Cardinality(F) : \E c \in F : Cardinality(Under(R, F, c)) = i - 1
    BY <1>3, <1>7, Places
  <2>2. PICK c \in F : Cardinality(Under(R, F, c)) = k - 1
    BY <2>1
  <2> QED
    BY <1>8, <2>2
<1>10. kept = [k \in 1..n |-> CHOOSE c \in F : Cardinality({d \in F : d < c}) = k - 1]
  BY DEF InOrder
<1> HIDE DEF kept
<1>11. \A k \in 1..n : kept[k] \in F /\ Cardinality({d \in F : d < kept[k]}) = k - 1
  BY <1>9, <1>10
<1>12. kept \in [1..n -> F]
  BY <1>10, <1>11
<1>13. \A k \in 1..n : Cardinality(Under(R, F, kept[k])) = k - 1
  BY <1>8, <1>11
<1>14. Sorted(kept, R, F)
  BY <1>3, <1>7, <1>12, <1>13, PlacesSort
<1>15. Cleaned(list) = [k \in 1..n |-> list[kept[k]]]
  BY DEF Cleaned, kept, F
<1>16. Cleaned(list) \in Seq(T)
  <2>1. Cleaned(list) \in [1..n -> T]
    BY <1>5, <1>11, <1>15
  <2> QED
    BY ONLY <1>3, <2>1
<1>17. ASSUME NEW i \in 1..n, NEW j \in 1..n, i < j PROVE Cleaned(list)[i] # Cleaned(list)[j]
  <2>1. <<kept[i], kept[j]>> \in R /\ kept[i] \in F /\ kept[j] \in F
    BY <1>11, <1>14, <1>17 DEF Sorted
  <2>2. kept[i] < kept[j]
    BY <1>6, <2>1
  <2> QED
    BY <1>4, <1>15, <2>1, <2>2
<1>18. ASSUME NEW i \in 1..n, NEW j \in 1..n, Cleaned(list)[i] = Cleaned(list)[j] PROVE i = j
  <2>1. ~ (i < j) /\ ~ (j < i)
    BY <1>17, <1>18
  <2> QED
    BY <1>3, <2>1
<1>19. DOMAIN Cleaned(list) = 1..n
  BY <1>15
<1> QED
  BY <1>16, <1>18, <1>19

Stages == {"begin", "fetch", "resolved", "listed", "failed", "load", "engine", "answered"}

\* What holds of a resolution at every step: nobody outside the pool is fetched, and no
\* fetch is on its way once the members are chosen.
PoolInv ==
    /\ stage \in Stages
    /\ rule \in Rules
    /\ pool \in Seq(Tickers) /\ members \in Seq(Tickers)
    /\ \A i, j \in DOMAIN pool : pool[i] = pool[j] => i = j
    /\ fetch \in [Tickers -> {"none", "waiting", "inflight", "failed", "answered"}]
    /\ \A s \in Tickers : fetch[s] \in {"waiting", "inflight"} => stage = "fetch"
    /\ \A s \in Tickers : fetch[s] # "none" => s \in ToSet(pool)
    /\ stage = "begin" => pool = << >>
    /\ stage \in {"begin", "fetch", "resolved"} => market \in [Tickers -> Readings]

\* The order of the ranking, as a relation.
RankOrder == {x \in Rankable \X Rankable : RanksBefore(x[1], x[2])}

\* The ranked tickers are the rankable ones, by rank and then by place in the pool.
LEMMA RankedSorted ==
    ASSUME PoolInv, stage = "fetch"
    PROVE  /\ Rankable \in SUBSET ToSet(pool) /\ ToSet(pool) \in SUBSET Tickers
           /\ \A s \in Rankable : market[s].rank \in Int /\ Place(s) \in Nat
           /\ IsFiniteSet(Rankable) /\ Cardinality(Rankable) \in Nat
           /\ Sorted(Ranked, RankOrder, Rankable)
           /\ \A k \in 1..Cardinality(Rankable) : Cardinality(Under(RankOrder, Rankable, Ranked[k])) = k - 1
<1> DEFINE S == Rankable
           n == Cardinality(S)
           R == RankOrder
<1>1. DOMAIN pool = 1..Len(pool) /\ Len(pool) \in Nat /\ \A i \in DOMAIN pool : pool[i] \in Tickers
  BY DEF PoolInv
<1>2. S \in SUBSET ToSet(pool) /\ ToSet(pool) \in SUBSET Tickers
  BY <1>1 DEF Rankable, Eligible, Screened, Framed, ToSet
<1>3. IsFiniteSet(ToSet(pool))
  <2>1. pool \in Surjection(1..Len(pool), ToSet(pool))
    BY <1>1 DEF Surjection, ToSet, PoolInv
  <2> QED
    BY <1>1, <2>1, FS_Interval, FS_Surjection
<1>4. IsFiniteSet(S) /\ n \in Nat
  BY <1>2, <1>3, FS_Subset, FS_CardinalityType
<1>5. \A s \in S : market[s].rank \in Int
  <2> SUFFICES ASSUME NEW s \in S PROVE market[s].rank \in Int
    OBVIOUS
  <2>1. market[s] \in Readings /\ market[s].rank # NaN
    BY <1>2 DEF PoolInv, Rankable
  <2> QED
    BY <2>1, ResolverAssumption
<1>6. \A s \in ToSet(pool) : Place(s) \in DOMAIN pool /\ pool[Place(s)] = s
  BY DEF Place, ToSet
<1>7. \A s \in S : Place(s) \in Nat
  BY <1>1, <1>2, <1>6
<1>8. \A x, y \in S : Place(x) = Place(y) => x = y
  BY <1>2, <1>6
<1>9. \A x, y \in S : <<x, y>> \in R <=> RanksBefore(x, y)
  BY DEF RankOrder
<1>10. StrictOrder(R, S)
  <2>1. ASSUME NEW x \in S PROVE ~ RanksBefore(x, x)
    <3>1. market[x].rank \in Int /\ Place(x) \in Int
      BY <1>5, <1>7
    <3> QED
      BY ONLY <3>1 DEF RanksBefore
  <2>2. ASSUME NEW x \in S, NEW y \in S, x # y PROVE RanksBefore(x, y) \/ RanksBefore(y, x)
    <3>1. market[x].rank \in Int /\ Place(x) \in Int /\ market[y].rank \in Int
          /\ Place(y) \in Int /\ Place(x) # Place(y)
      BY <1>5, <1>7, <1>8, <2>2
    <3> QED
      BY ONLY <3>1 DEF RanksBefore
  <2>3. ASSUME NEW x \in S, NEW y \in S, NEW z \in S, RanksBefore(x, y), RanksBefore(y, z) PROVE RanksBefore(x, z)
    <3>1. /\ market[x].rank \in Int /\ Place(x) \in Int /\ market[y].rank \in Int /\ Place(y) \in Int
          /\ market[z].rank \in Int /\ Place(z) \in Int
      BY <1>5, <1>7
    <3>2. RanksBefore(x, y) /\ RanksBefore(y, z)
      BY <2>3
    <3> QED
      BY ONLY <3>1, <3>2 DEF RanksBefore
  <2> HIDE DEF R, S
  <2> QED
    BY <1>9, <2>1, <2>2, <2>3 DEF StrictOrder
<1>11. \A c \in S : Under(R, S, c) = {d \in S : RanksBefore(d, c)}
  BY <1>9 DEF Under
<1>12. Ranked = [k \in 1..n |-> CHOOSE c \in S : Cardinality({d \in S : RanksBefore(d, c)}) = k - 1]
  BY DEF Ranked, InOrder
<1> HIDE DEF R, S
<1>13. ASSUME NEW k \in 1..n PROVE \E c \in S : Cardinality({d \in S : RanksBefore(d, c)}) = k - 1
  <2>1. \A i \in 1..Cardinality(S) : \E c \in S : Cardinality(Under(R, S, c)) = i - 1
    BY <1>4, <1>10, Places
  <2>2. PICK c \in S : Cardinality(Under(R, S, c)) = k - 1
    BY <2>1
  <2> QED
    BY <1>11, <2>2
<1>14. \A k \in 1..n : Ranked[k] \in S /\ Cardinality({d \in S : RanksBefore(d, Ranked[k])}) = k - 1
  BY <1>12, <1>13
<1>15. Ranked \in [1..n -> S]
  BY <1>12, <1>14
<1>16. \A k \in 1..n : Cardinality(Under(R, S, Ranked[k])) = k - 1
  BY <1>11, <1>14
<1>17. Sorted(Ranked, R, S)
  BY <1>4, <1>10, <1>15, <1>16, PlacesSort
<1> QED
  BY <1>2, <1>4, <1>5, <1>7, <1>16, <1>17 DEF R, S

\* The first of those ranked.
LEMMA TakenParts ==
    ASSUME PoolInv, stage = "fetch",
           NEW m, m = Smaller(Smaller(rule.take, MaxAssets), Cardinality(Rankable))
    PROVE  /\ m \in Nat /\ m <= Cardinality(Rankable)
           /\ Taken \in Seq(Tickers) /\ DOMAIN Taken = 1..m
           /\ \A i \in 1..m : Taken[i] = Ranked[i]
           /\ ToSet(Taken) = {Ranked[i] : i \in 1..m}
<1> DEFINE n == Cardinality(Rankable)
<1>1. n \in Nat /\ Ranked \in [1..n -> Rankable] /\ Rankable \in SUBSET Tickers
  BY RankedSorted DEF Sorted
<1>2. rule.take \in Nat /\ MaxAssets \in Nat
  BY ResolverAssumption DEF PoolInv
<1>3. m \in Nat /\ m <= n
  BY <1>1, <1>2 DEF Smaller
<1> HIDE DEF n
<1>4. Ranked \in [1..n -> Tickers]
  BY <1>1
<1>5. Ranked \in Seq(Tickers) /\ Len(Ranked) = n
  BY ONLY <1>1, <1>4
<1>6. Taken = SubSeq(Ranked, 1, m)
  BY <1>5 DEF Taken, EffectiveTake, n
<1>7. /\ SubSeq(Ranked, 1, m) \in Seq(Tickers) /\ Len(SubSeq(Ranked, 1, m)) = m
      /\ \A i \in 1..m : SubSeq(Ranked, 1, m)[i] = Ranked[i]
  BY <1>3, <1>5
<1>8. Taken \in Seq(Tickers) /\ DOMAIN Taken = 1..m /\ \A i \in 1..m : Taken[i] = Ranked[i]
  BY <1>6, <1>7
<1>9. ToSet(Taken) = {Ranked[i] : i \in 1..m}
  BY <1>8 DEF ToSet
<1> QED
  BY <1>3, <1>8, <1>9 DEF n

\* Those that pass every screen are those that are ranked.
LEMMA QualifiedAreRankable == Qualified = Rankable
  BY DEF Qualified, Rankable, Eligible, Screened, Framed

\* The best are those that are taken.
LEMMA BestAreTaken ==
    ASSUME PoolInv, stage = "fetch"
    PROVE  /\ ToSet(Taken) = Best /\ Best \in SUBSET Rankable
           /\ \A i, j \in DOMAIN Taken : i < j => StandsBefore(Taken[i], Taken[j])
<1> DEFINE n == Cardinality(Rankable)
           t == Smaller(rule.take, MaxAssets)
           m == Smaller(t, n)
           R == RankOrder
<1>1. /\ n \in Nat /\ Sorted(Ranked, R, Rankable)
      /\ \A s \in Rankable : market[s].rank \in Int /\ Place(s) \in Nat
      /\ \A k \in 1..n : Cardinality(Under(R, Rankable, Ranked[k])) = k - 1
  BY RankedSorted
<1>2. rule.take \in Nat /\ MaxAssets \in Nat
  BY ResolverAssumption DEF PoolInv
<1>3. t \in Nat
  BY <1>2 DEF Smaller
<1>4. /\ m \in Nat /\ m <= n /\ DOMAIN Taken = 1..m
      /\ \A i \in 1..m : Taken[i] = Ranked[i]
      /\ ToSet(Taken) = {Ranked[i] : i \in 1..m}
  BY TakenParts
<1>5. \A i \in 1..n : i <= m <=> i <= t
  <2> HIDE DEF n, t
  <2>1. \A i \in 1..n : i \in Int /\ i <= n
    BY <1>1
  <2> QED
    BY <1>1, <1>3, <2>1 DEF Smaller
<1>6. ASSUME NEW x \in Rankable, NEW y \in Rankable PROVE <<x, y>> \in R <=> StandsBefore(x, y)
  <2>1. market[x].rank \in Int /\ market[y].rank \in Int /\ Place(x) \in Int /\ Place(y) \in Int
    BY <1>1
  <2>2. <<x, y>> \in R <=> RanksBefore(x, y)
    BY DEF RankOrder
  <2>3. Descending \in BOOLEAN
    BY ResolverAssumption
  <2>4. RanksBefore(x, y) <=> StandsBefore(x, y)
    BY ONLY <2>1, <2>3 DEF RanksBefore, StandsBefore
  <2> QED
    BY <2>2, <2>4
<1> HIDE DEF R, m, t, n
<1>7. \A k \in 1..n : Ranked[k] \in Rankable /\ \A s \in Rankable : \E i \in 1..n : Ranked[i] = s
  BY <1>1 DEF Sorted, n
<1>8. \A s \in Rankable : {x \in Rankable : StandsBefore(x, s)} = Under(R, Rankable, s)
  BY <1>6 DEF Under
<1>9. \A k \in 1..n : Cardinality({x \in Rankable : StandsBefore(x, Ranked[k])}) = k - 1
  BY <1>1, <1>7, <1>8
<1>10. Best = {s \in Rankable : Cardinality({x \in Rankable : StandsBefore(x, s)}) < t}
  BY QualifiedAreRankable DEF Best, t
<1>11. ASSUME NEW s \in Best PROVE s \in ToSet(Taken)
  <2>1. s \in Rankable /\ Cardinality({x \in Rankable : StandsBefore(x, s)}) < t
    BY <1>10
  <2>2. n # 0
    <3> SUFFICES ASSUME n = 0 PROVE FALSE
      OBVIOUS
    <3>1. Rankable = {}
      BY RankedSorted, FS_EmptySet DEF n
    <3> QED
      BY <2>1, <3>1
  <2>3. PICK k \in 1..n : Ranked[k] = s
    BY <1>1, <1>7, <2>1, <2>2
  <2>4. k - 1 < t
    BY <1>9, <2>1, <2>3
  <2>5. k <= m
    BY <1>1, <1>3, <1>5, <2>4
  <2>6. k \in 1..m
    BY <1>1, <1>4, <2>5
  <2> QED
    BY <1>4, <2>3, <2>6
<1>12. ASSUME NEW s \in ToSet(Taken) PROVE s \in Best
  <2>1. PICK k \in 1..m : Ranked[k] = s
    BY <1>4
  <2>2. k \in 1..n /\ k <= m
    BY <1>1, <1>4
  <2>3. k <= t
    BY <1>5, <2>2
  <2>4. Cardinality({x \in Rankable : StandsBefore(x, s)}) = k - 1 /\ s \in Rankable
    BY <1>7, <1>9, <2>1, <2>2
  <2>5. k - 1 < t
    BY <1>3, <2>2, <2>3
  <2> QED
    BY <1>10, <2>4, <2>5
<1>13. ASSUME NEW i \in DOMAIN Taken, NEW j \in DOMAIN Taken, i < j PROVE StandsBefore(Taken[i], Taken[j])
  <2>1. i \in 1..n /\ j \in 1..n /\ Taken[i] = Ranked[i] /\ Taken[j] = Ranked[j]
    BY <1>1, <1>4
  <2>2. <<Ranked[i], Ranked[j]>> \in R
    BY <1>1, <1>13, <2>1 DEF Sorted, n
  <2> QED
    BY <1>6, <1>7, <2>1, <2>2
<1> QED
  BY <1>10, <1>11, <1>12, <1>13

\* What a resolution chooses is right.
LEMMA ResolveIsRight ==
    ASSUME PoolInv, Resolve
    PROVE  ResolutionRight'
<1>1. /\ stage = "fetch" /\ UNCHANGED <<rule, pool, market, fetch>>
      /\ members' = (IF BreadthOk THEN Taken ELSE << >>)
      /\ dropped' = {<<s, Reason(s)>> : s \in Excluded}
  BY DEF Resolve
<1>2. /\ ToSet(Taken) = Best /\ Best \in SUBSET Rankable
      /\ \A i, j \in DOMAIN Taken : i < j => StandsBefore(Taken[i], Taken[j])
  BY <1>1, BestAreTaken
<1>3. ToSet(members') = IF BreadthOk THEN Best ELSE {}
  <2>1. ToSet(<< >>) = {}
    BY DEF ToSet
  <2> QED
    BY <1>1, <1>2, <2>1
<1>4. \A i, j \in DOMAIN members' : i < j => StandsBefore(members'[i], members'[j])
  BY <1>1, <1>2
<1>5. {d[1] : d \in dropped'} = Excluded
  <2>1. \A s \in Excluded : <<s, Reason(s)>> \in dropped' /\ <<s, Reason(s)>>[1] = s
    BY <1>1
  <2>2. ASSUME NEW d \in dropped' PROVE d[1] \in Excluded
    <3>1. PICK s \in Excluded : d = <<s, Reason(s)>>
      BY <1>1
    <3> QED
      BY <3>1
  <2> QED
    BY <2>1, <2>2
<1>6. Excluded = (ToSet(pool) \ Qualified) \cup (IF BreadthOk THEN {} ELSE Best)
  <2>1. Best \in SUBSET ToSet(pool)
    BY <1>1, <1>2, RankedSorted
  <2> QED
    BY <1>2, <2>1, QualifiedAreRankable DEF Excluded
<1>7. Qualified' = Qualified
  BY <1>1 DEF Qualified
<1>8. Best' = Best
  BY <1>1 DEF Best, Qualified, StandsBefore, Place
<1>9. BreadthOk' = BreadthOk
  BY <1>1 DEF BreadthOk, GateOpens, Strong, Weak, MinRatio, Framed
<1>10. \A i, j \in DOMAIN members' : i < j => StandsBefore(members[i], members[j])'
  <2> SUFFICES ASSUME NEW i \in DOMAIN members', NEW j \in DOMAIN members', i < j
               PROVE  StandsBefore(members[i], members[j])'
    OBVIOUS
  <2>1. PICK x, y : x = members'[i] /\ y = members'[j]
    OBVIOUS
  <2>2. StandsBefore(x, y)
    BY <1>4, <2>1
  <2>3. Place(x)' = Place(x) /\ Place(y)' = Place(y)
    BY <1>1 DEF Place
  <2>4. Place(members[i])' = Place(x)' /\ Place(members[j])' = Place(y)'
    BY <2>1, Zenon DEF Place
  <2> QED
    BY <1>1, <2>1, <2>2, <2>3, <2>4 DEF StandsBefore
<1>11. ToSet(members') = (IF BreadthOk' THEN Best' ELSE {})
  BY <1>3, <1>8, <1>9
<1>12. {d[1] : d \in dropped'} = (ToSet(pool') \ Qualified') \cup (IF BreadthOk' THEN {} ELSE Best')
  BY <1>1, <1>5, <1>6, <1>7, <1>8, <1>9
<1> QED
  BY <1>10, <1>11, <1>12 DEF ResolutionRight

ChosenInv == PoolInv /\ ResolutionRight /\ MembersInv

\* The tickers of the pool are the symbols of the replay.
LEMMA SymbolsAreTickers == Tickers = Symbols
  BY DynamicAssumption

\* The steps of the resolution, while nothing is replayed.
LEMMA ResolvingKeeps ==
    ASSUME ChosenInv, phase = "idle", Resolving
    PROVE  ChosenInv'
<1> USE DEF ChosenInv
<1>1. UNCHANGED <<by, load, replayVars>> /\ ResolverNext
  BY DEF Resolving
<1>2. ASSUME PoolInv', stage' \in Stages \ {"load", "engine", "answered"}, \A s \in Symbols : load[s] = "none"
      PROVE  MembersInv'
  BY <1>1, <1>2 DEF MembersInv, replayVars
<1>3. ASSUME stage \in {"begin", "fetch"} PROVE \A s \in Symbols : load[s] = "none"
  BY <1>3 DEF MembersInv
<1>4. CASE Begin
  <2>1. PICK list \in Sources : Usable(Cleaned(list)) /\ pool' = Cleaned(list)
    BY <1>4 DEF Begin
  <2>2. list \in Seq(Tickers)
    BY <2>1, SourceAssumption
  <2>3. pool' \in Seq(Tickers) /\ \A i, j \in DOMAIN pool' : pool'[i] = pool'[j] => i = j
    BY <2>1, <2>2, CleanedParts
  <2>4. /\ stage = "begin" /\ stage' = "fetch" /\ UNCHANGED <<rule, market, members, dropped>>
        /\ fetch' = [s \in Tickers |-> IF Contains(pool', s) THEN "waiting" ELSE "none"]
    BY <1>4 DEF Begin
  <2>5. \A s \in Tickers : fetch'[s] # "none" => s \in ToSet(pool')
    <3>1. \A s : Contains(pool', s) => s \in ToSet(pool')
      BY <2>3 DEF Contains, ToSet
    <3> QED
      BY <2>4, <3>1
  <2>6. PoolInv'
    BY <2>3, <2>4, <2>5 DEF PoolInv, Stages
  <2>7. ResolutionRight' /\ stage' \in Stages \ {"load", "engine", "answered"}
    BY <2>4 DEF ResolutionRight, Stages
  <2> QED
    BY <1>2, <1>3, <2>4, <2>6, <2>7
<1>5. CASE Refuse
  <2>1. stage = "begin" /\ stage' = "failed" /\ UNCHANGED <<rule, pool, market, fetch, members, dropped>>
    BY <1>5 DEF Refuse
  <2>2. PoolInv'
    BY <2>1 DEF PoolInv, Stages
  <2>3. ResolutionRight' /\ stage' \in Stages \ {"load", "engine", "answered"}
    BY <2>1 DEF ResolutionRight, Stages
  <2> QED
    BY <1>2, <1>3, <2>1, <2>2, <2>3
<1>6. CASE Resolve
  <2>1. /\ stage = "fetch" /\ stage' = "resolved" /\ UNCHANGED <<rule, pool, market, fetch>>
        /\ members' = (IF BreadthOk THEN Taken ELSE << >>)
        /\ \A s \in ToSet(pool) : fetch[s] \in {"answered", "failed"}
    BY <1>6 DEF Resolve
  <2>2. members' \in Seq(Tickers)
    <3> DEFINE m == Smaller(Smaller(rule.take, MaxAssets), Cardinality(Rankable))
    <3>1. m = m
      OBVIOUS
    <3> HIDE DEF m
    <3>2. Taken \in Seq(Tickers)
      BY <2>1, <3>1, TakenParts DEF m
    <3>3. << >> \in Seq(Tickers)
      OBVIOUS
    <3> QED
      BY <2>1, <3>2, <3>3
  <2>3. \A s \in Tickers : fetch[s] \notin {"waiting", "inflight"}
    BY <2>1 DEF PoolInv
  <2>4. PoolInv'
    BY <2>1, <2>2, <2>3 DEF PoolInv, Stages
  <2>5. ResolutionRight'
    BY <1>6, ResolveIsRight
  <2>6. stage' \in Stages \ {"load", "engine", "answered"}
    BY <2>1 DEF Stages
  <2> QED
    BY <1>2, <1>3, <2>1, <2>4, <2>5, <2>6
<1>7. ASSUME NEW s \in Tickers, Fetch(s) PROVE ChosenInv'
  <2>1. /\ stage = "fetch" /\ fetch[s] = "waiting" /\ fetch' = [fetch EXCEPT ![s] = "inflight"]
        /\ UNCHANGED <<stage, rule, pool, market, members, dropped>>
    BY <1>7 DEF Fetch
  <2>2. PoolInv'
    BY <2>1 DEF PoolInv
  <2>3. ResolutionRight' /\ stage' \in Stages \ {"load", "engine", "answered"}
    BY <2>1 DEF ResolutionRight, Stages
  <2> QED
    BY <1>2, <1>3, <2>1, <2>2, <2>3
<1>8. ASSUME NEW s \in Tickers, FetchEnds(s) PROVE ChosenInv'
  <2>1. PICK outcome \in {"answered", "failed"} : fetch' = [fetch EXCEPT ![s] = outcome]
    BY <1>8 DEF FetchEnds
  <2>2. fetch[s] = "inflight" /\ UNCHANGED <<stage, rule, pool, market, members, dropped>>
    BY <1>8 DEF FetchEnds
  <2>3. stage = "fetch"
    BY <2>2 DEF PoolInv
  <2>4. PoolInv'
    BY <2>1, <2>2, <2>3 DEF PoolInv
  <2>5. ResolutionRight' /\ stage' \in Stages \ {"load", "engine", "answered"}
    BY <2>2, <2>3 DEF ResolutionRight, Stages
  <2> QED
    BY <1>2, <1>3, <2>3, <2>4, <2>5
<1> QED
  BY <1>1, <1>4, <1>5, <1>6, <1>7, <1>8 DEF ResolverNext

\* The steps of the replay bring in no symbol.
LEMMA ReplayMembers ==
    ASSUME Running, Replay, MembersInv, phase # "idle", phase' # "idle", UNCHANGED <<resolverVars, by, load>>
    PROVE  MembersInv'
<1>1. Loaded' = Loaded
  BY DEF Loaded
<1>2. /\ \A p \in open : p.symbol \in Loaded
      /\ \A i \in DOMAIN todo : todo[i].symbol \in Loaded
  BY DEF MembersInv
<1>3. \A i \in DOMAIN todo' : todo'[i].symbol \in Loaded
  <2>1. CASE todo' = todo
    BY <1>2, <2>1
  <2>2. CASE todo' = Tail(todo) /\ phase = "decide"
    <3>1. todo \in Seq(Offer) /\ todo # << >>
      BY <2>2 DEF Running, ClockInv
    <3> QED
      BY <1>2, <2>2, <3>1, TailParts
  <2> QED
    BY <2>1, <2>2 DEF Replay, Release, ReleaseOne, Released, Admit, Skip
<1>4. \A p \in open' : p.symbol \in Loaded
  <2>1. CASE Admit
    <3>1. \A p \in open' : p \in open \/ p.symbol = Head(todo).symbol
      BY <2>1 DEF Admit
    <3>2. todo \in Seq(Offer) /\ todo # << >>
      BY <2>1 DEF Admit, Running, ClockInv
    <3>3. Head(todo) = todo[1] /\ 1 \in DOMAIN todo
      BY <3>2, TailParts
    <3> QED
      BY <1>2, <3>1, <3>3
  <2>2. CASE ~ Admit
    <3>1. open' \in SUBSET open
      BY <2>2 DEF Replay, Release, ReleaseOne, Released, Skip
    <3> QED
      BY <1>2, <3>1
  <2> QED
    BY <2>1, <2>2
<1> QED
  BY <1>1, <1>3, <1>4 DEF MembersInv, resolverVars

\* The replay leaves the resolution alone.
LEMMA ReplayLeavesChoice ==
    ASSUME PoolInv, ResolutionRight, UNCHANGED resolverVars
    PROVE  PoolInv' /\ ResolutionRight'
<1>1. UNCHANGED <<stage, rule, pool, market, fetch, members, dropped>>
  BY DEF resolverVars
<1>2. PoolInv'
  BY <1>1 DEF PoolInv
<1>3. Qualified' = Qualified /\ Best' = Best /\ BreadthOk' = BreadthOk
  BY <1>1 DEF Qualified, Best, StandsBefore, Place, BreadthOk, GateOpens, Strong, Weak, MinRatio, Framed
<1>4. CASE stage = "resolved"
  <2>1. /\ ToSet(members) = (IF BreadthOk THEN Best ELSE {})
        /\ \A i, j \in DOMAIN members : i < j => StandsBefore(members[i], members[j])
        /\ {d[1] : d \in dropped} = (ToSet(pool) \ Qualified) \cup (IF BreadthOk THEN {} ELSE Best)
    BY <1>4 DEF ResolutionRight
  <2>2. \A i, j \in DOMAIN members' : i < j => StandsBefore(members[i], members[j])'
    BY <1>1, <2>1 DEF StandsBefore, Place
  <2> QED
    BY <1>1, <1>2, <1>3, <2>1, <2>2 DEF ResolutionRight
<1>5. CASE stage # "resolved"
  BY <1>1, <1>2, <1>5 DEF ResolutionRight
<1> QED
  BY <1>2, <1>4, <1>5

\* Loading and simulating a member.
LEMMA LoadingKeeps ==
    ASSUME ChosenInv, NEW s \in Symbols, Load(s) \/ LoadEnds(s) \/ RunMember(s)
    PROVE  ChosenInv'
<1> USE DEF ChosenInv
<1>1. UNCHANGED <<resolverVars, by, replayVars>>
  BY DEF Load, LoadEnds, RunMember
<1>2. load[s] \in {"waiting", "inflight"}
  BY DEF Load, LoadEnds, RunMember, IsNext
<1>3. \E outcome \in {"inflight", "data", "nodata"} : load' = [load EXCEPT ![s] = outcome]
  BY DEF Load, LoadEnds, RunMember
<1>4. phase = "idle"
  BY <1>2 DEF MembersInv
<1>5. UNCHANGED <<stage, members, phase>>
  BY <1>1 DEF resolverVars, replayVars
<1>6. MembersInv'
  <2>1. PICK outcome \in {"inflight", "data", "nodata"} : load' = [load EXCEPT ![s] = outcome]
    BY <1>3
  <2>2. load' \in [Symbols -> {"none", "waiting", "inflight", "data", "nodata"}]
    BY <2>1 DEF MembersInv
  <2>3. \A x \in Symbols : load'[x] # "none" => load[x] # "none"
    BY <1>2, <2>1 DEF MembersInv
  <2> QED
    BY <1>4, <1>5, <2>2, <2>3 DEF MembersInv
<1> QED
  BY <1>1, <1>6, ReplayLeavesChoice

\* The steps of the orchestrator that change the stage.
LEMMA OrchestratorKeeps ==
    ASSUME ChosenInv, phase = "idle" \/ stage \notin {"begin", "fetch", "resolved", "listed", "load"},
           ListMembers \/ NoMembers \/ LoadMembers \/ GroupFails \/ EngineFails \/ EngineAnswers
    PROVE  ChosenInv'
<1> USE DEF ChosenInv
<1>1. UNCHANGED replayVars /\ UNCHANGED <<phase, open, todo>>
  BY DEF ListMembers, NoMembers, LoadMembers, GroupFails, EngineFails, EngineAnswers, replayVars
<1>2. CASE ListMembers
  <2>1. /\ stage = "begin" /\ stage' = "listed" /\ UNCHANGED <<rule, pool, market, fetch, dropped, by, load>>
    BY <1>2 DEF ListMembers
  <2>2. PICK list \in Sources : members' = Listed(list, rule)
    BY <1>2 DEF ListMembers
  <2>3. members' \in Seq(Tickers)
    BY <2>2, DynamicAssumption DEF PoolInv
  <2>4. PoolInv'
    BY <2>1, <2>3 DEF PoolInv, Stages
  <2>5. MembersInv'
    BY <1>1, <2>1 DEF MembersInv
  <2> QED
    BY <2>1, <2>4, <2>5 DEF ResolutionRight
<1>3. CASE NoMembers \/ GroupFails \/ EngineFails \/ EngineAnswers
  <2>1. /\ stage # "fetch" \/ stage' \in {"failed", "answered"}
        /\ stage' \in {"failed", "answered"}
        /\ UNCHANGED <<rule, pool, market, fetch, members, dropped, by, load>>
    BY <1>3 DEF NoMembers, GroupFails, EngineFails, EngineAnswers
  <2>2. stage # "fetch"
    BY <1>3 DEF NoMembers, GroupFails, EngineFails, EngineAnswers, AllLoaded
  <2>3. PoolInv'
    BY <2>1, <2>2 DEF PoolInv, Stages
  <2>4. MembersInv'
    <3>1. Loaded' = Loaded
      BY <2>1 DEF Loaded
    <3> QED
      BY <1>1, <2>1, <3>1 DEF MembersInv
  <2> QED
    BY <2>1, <2>3, <2>4 DEF ResolutionRight
<1>4. CASE LoadMembers
  <2>1. /\ stage \in {"resolved", "listed"} /\ stage' = "load"
        /\ load' = [s \in Symbols |-> IF Contains(members, s) THEN "waiting" ELSE "none"]
        /\ pool' = << >> /\ fetch' = [s \in Symbols |-> "none"] /\ UNCHANGED <<rule, members>>
    BY <1>4 DEF LoadMembers
  <2>2. PoolInv'
    <3>1. fetch' \in [Tickers -> {"none", "waiting", "inflight", "failed", "answered"}]
          /\ \A s \in Tickers : fetch'[s] = "none"
      BY <2>1, SymbolsAreTickers
    <3>2. pool' \in Seq(Tickers) /\ \A i, j \in DOMAIN pool' : pool'[i] = pool'[j] => i = j
      BY <2>1
    <3> QED
      BY <2>1, <3>1, <3>2 DEF PoolInv, Stages
  <2>3. MembersInv'
    <3>1. \A s : Contains(members, s) => s \in ToSet(members)
      BY DEF Contains, ToSet, PoolInv
    <3>2. phase = "idle"
      BY <2>1 DEF MembersInv
    <3> QED
      BY <1>1, <2>1, <3>1, <3>2 DEF MembersInv
  <2> QED
    BY <2>1, <2>2, <2>3 DEF ResolutionRight
<1> QED
  BY <1>2, <1>3, <1>4

\* The replay starts once every member is loaded or given up.
LEMMA ReplayStarts ==
    ASSUME ReplayInv, ChosenInv, RunPortfolio \/ RunGroup
    PROVE  ChosenInv'
<1> USE DEF ChosenInv
<1>1. /\ AllLoaded /\ stage' = "engine" /\ UNCHANGED <<rule, pool, market, fetch, members, dropped, by, load>>
  BY DEF RunPortfolio, RunGroup
<1>2. \E C, m : Competing(C) /\ Run(C, m)
  <2>1. CASE RunPortfolio
    <3>1. PICK f \in [Loaded -> TradeLists], mapped \in BOOLEAN :
            Run(Simulated(f), [slots |-> EffectivePositions, sizing |-> SizingMode, sectorMap |-> mapped])
      BY <2>1 DEF RunPortfolio
    <3>2. Competing(Simulated(f))
      BY LoadedCompete, CompetingPart DEF Simulated
    <3> QED
      BY <3>1, <3>2
  <2>2. CASE RunGroup
    <3>1. PICK f \in [Loaded -> TradeLists] : Run(Candidates(f), GroupManager)
      BY <2>2 DEF RunGroup
    <3> QED
      BY <3>1, LoadedCompete
  <2> QED
    BY <2>1, <2>2
<1>3. PICK C, m : Competing(C) /\ Run(C, m)
  BY <1>2
<1>4. open' = {} /\ todo' = InOrder(C, Earlier)
  BY <1>3 DEF Run, ReplayInv, IdleInv
<1>5. C \in SUBSET Offer /\ IsFiniteSet(C) /\ \A c, d \in C : c.symbol = d.symbol /\ c.nth = d.nth => c = d
  <2>1. Offered(C)
    BY <1>3 DEF Competing
  <2> QED
    BY <2>1 DEF Offered
<1>6. Range(todo') = C
  BY ONLY <1>4, <1>5, EntryOrder
<1>7. \A i \in DOMAIN todo' : todo'[i].symbol \in Loaded
  BY <1>3, <1>6 DEF Range, Competing
<1>8. Loaded' = Loaded
  BY <1>1 DEF Loaded
<1>9. stage = "load" /\ \A s \in Symbols : load[s] \notin {"waiting", "inflight"}
  BY <1>1 DEF AllLoaded
<1>10. MembersInv'
  BY <1>1, <1>4, <1>7, <1>8, <1>9 DEF MembersInv
<1>11. PoolInv'
  BY <1>1, <1>9 DEF PoolInv, Stages
<1> QED
  BY <1>1, <1>10, <1>11 DEF ResolutionRight

\* Every step of a dynamic backtest keeps what was chosen.
LEMMA ChosenKeeps ==
    ASSUME ReplayInv, ChosenInv, [Next]_vars
    PROVE  ChosenInv'
<1> USE DEF ChosenInv
<1>1. phase = "idle" \/ stage \notin {"begin", "fetch", "resolved", "listed", "load"}
  BY DEF MembersInv
<1>2. CASE Resolving
  <2>1. stage \in {"begin", "fetch"} \/ \E s \in Tickers : fetch[s] = "inflight"
    BY <1>2 DEF Resolving, ResolverNext, Begin, Refuse, Resolve, Fetch, FetchEnds
  <2>2. stage \in {"begin", "fetch"}
    BY <2>1 DEF PoolInv
  <2>3. phase = "idle"
    BY <1>1, <2>2
  <2> QED
    BY <1>2, <2>3, ResolvingKeeps
<1>3. CASE ListMembers \/ NoMembers \/ LoadMembers \/ GroupFails \/ EngineFails \/ EngineAnswers
  BY <1>1, <1>3, OrchestratorKeeps
<1>4. CASE \E s \in Symbols : Load(s) \/ LoadEnds(s) \/ RunMember(s)
  BY <1>4, LoadingKeeps
<1>5. CASE RunPortfolio \/ RunGroup
  BY <1>5, ReplayStarts
<1>6. CASE Replaying
  <2>1. Replay /\ UNCHANGED <<resolverVars, by, load>>
    BY <1>6 DEF Replaying
  <2>2. Running /\ phase # "idle" /\ phase' # "idle"
    BY <2>1, ReplayKeeps
  <2> QED
    BY <2>1, <2>2, ReplayMembers, ReplayLeavesChoice
<1>7. CASE Ended \/ UNCHANGED vars
  <2>1. UNCHANGED <<resolverVars, by, load, replayVars>>
    BY <1>7 DEF Ended, vars
  <2>2. MembersInv'
    BY <2>1 DEF MembersInv, Loaded, resolverVars, replayVars
  <2> QED
    BY <2>1, <2>2, ReplayLeavesChoice
<1> QED
  BY <1>2, <1>3, <1>4, <1>5, <1>6, <1>7 DEF Next

\* From the resolution on, what is loaded, offered and held are members of the universe
\* that was resolved (backtest_orchestrator.py).
THEOREM ChosenInvariant == Spec => []ChosenInv
<1>1. Init => ChosenInv
  <2> SUFFICES ASSUME Init PROVE ChosenInv
    OBVIOUS
  <2>1. PoolInv
    BY DEF Init, ResolverInit, PoolInv, Stages
  <2>2. MembersInv
    BY DEF Init, ReplayInit, MembersInv
  <2> QED
    BY <2>1, <2>2 DEF ChosenInv, ResolutionRight, Init, ResolverInit
<1>2. ReplayInv /\ ChosenInv /\ [Next]_vars => ChosenInv'
  BY ChosenKeeps
<1> QED
  BY <1>1, <1>2, ReplayInvariant, PTL DEF Spec

\* The members are the best of those that qualify, in rank order, whatever fetches failed and
\* in whatever order they ended.
THEOREM ResolutionAlwaysRight == Spec => []ResolutionRight
<1>1. ChosenInv => ResolutionRight
  BY DEF ChosenInv
<1> QED
  BY <1>1, ChosenInvariant, PTL

\* Where there is a slot for each loaded symbol, one is free for the next candidate.
LEMMA SlotForEach ==
    ASSUME Running, ApartInv, MembersInv, phase = "decide", manager.slots >= Cardinality(Loaded)
    PROVE  SlotFree
<1> DEFINE c == Head(todo)
           rest == Loaded \ {c.symbol}
           h == [p \in open |-> p.symbol]
<1>1. todo \in Seq(Offer) /\ todo # << >> /\ now = c.entry
  BY DEF Running, ClockInv
<1>2. c = todo[1] /\ 1 \in DOMAIN todo
  BY <1>1, TailParts
<1>3. c.symbol \in Loaded
  BY <1>2 DEF MembersInv
<1>4. \A p \in open : p.symbol \in Loaded /\ p.symbol # c.symbol
  <2> SUFFICES ASSUME NEW p \in open PROVE p.symbol \in Loaded /\ p.symbol # c.symbol
    OBVIOUS
  <2>1. now < p.exit /\ p.symbol \in Loaded
    BY StillOpen DEF MembersInv
  <2>2. p.exit \in Nat /\ now \in Nat
    BY DEF Running, MoneyInv, ClockInv, Position
  <2>3. c.symbol = p.symbol => p.exit <= c.entry
    BY <1>2 DEF ApartInv
  <2> QED
    BY <1>1, <2>1, <2>2, <2>3
<1>5. IsFiniteSet(Loaded)
  <2>1. Loaded \in SUBSET Symbols
    BY DEF Loaded
  <2> QED
    BY <2>1, ReplayAssumption, FS_Subset
<1> HIDE DEF c
<1>6. IsFiniteSet(rest) /\ Cardinality(rest) = Cardinality(Loaded) - 1 /\ Cardinality(Loaded) \in Nat
  BY <1>3, <1>5, FS_RemoveElement, FS_CardinalityType
<1>7. h \in [open -> rest]
  BY <1>4
<1>8. \A p, q \in open : h[p] = h[q] => p = q
  BY DEF ApartInv
<1>9. h \in Injection(open, rest)
  BY <1>7, <1>8 DEF Injection, IsInjective
<1>10. Cardinality(open) <= Cardinality(rest)
  BY <1>6, <1>9, FS_Injection
<1>11. Cardinality(open) \in Nat /\ manager.slots \in Nat
  <2>1. IsFiniteSet(open) /\ manager \in Managers /\ MaxSlots \in Nat
    BY ReplayAssumption DEF Running, MoneyInv
  <2> QED
    BY <2>1, FS_CardinalityType DEF Managers
<1> QED
  BY <1>6, <1>10, <1>11 DEF SlotFree

\* Who may be held, at what price and in how many slots is read off the invariants.
LEMMA Fairly == ReplayInv /\ ApartInv /\ ChosenInv => DecidedFairly
<1> SUFFICES ASSUME ReplayInv, ApartInv, ChosenInv PROVE DecidedFairly
  OBVIOUS
<1>1. Loaded \subseteq ToSet(members)
  BY DEF ChosenInv, MembersInv, Loaded
<1>2. CASE phase = "idle"
  <2>1. IdleInv
    BY <1>2 DEF ReplayInv
  <2>2. Cardinality(open) <= manager.slots
    BY <2>1, FS_EmptySet DEF IdleInv
  <2>3. {p.symbol : p \in open} \cup {todo[i].symbol : i \in DOMAIN todo} \subseteq Loaded
    BY <2>1 DEF IdleInv
  <2> QED
    BY <1>1, <1>2, <2>2, <2>3 DEF DecidedFairly, DecidedOnTime
<1>3. CASE phase # "idle"
  <2>1. Running
    BY <1>3 DEF ReplayInv, Running
  <2>2. {p.symbol : p \in open} \cup {todo[i].symbol : i \in DOMAIN todo} \subseteq Loaded
    BY <1>3 DEF ChosenInv, MembersInv
  <2>3. Cardinality(open) <= manager.slots
    BY <2>1 DEF Running, MoneyInv
  <2>4. CASE phase = "decide"
    <3>1. now = Head(todo).entry /\ \A f \in fills : f.exit <= now
      BY <2>1, <2>4 DEF Running, ClockInv
    <3>2. \A p \in open : p.exit > now
      <4>1. \A p \in open : p.exit \in Nat /\ now \in Nat /\ now < p.exit
        BY <2>1, <2>4, StillOpen DEF Running, MoneyInv, ClockInv, Position
      <4> QED
        BY <4>1
    <3>3. manager.slots >= Cardinality(Loaded) => SlotFree
      BY <2>1, <2>4, SlotForEach DEF ChosenInv
    <3> QED
      BY <1>1, <2>2, <2>3, <3>1, <3>2, <3>3 DEF DecidedFairly, DecidedOnTime
  <2>5. CASE phase # "decide"
    BY <1>1, <2>2, <2>3, <2>5 DEF DecidedFairly, DecidedOnTime
  <2> QED
    BY <2>4, <2>5
<1> QED
  BY <1>2, <1>3

\* Only members with bars compete, every candidate against what is really open at its entry,
\* and a member of a strategy with one side that has a slot of its own is never refused.
THEOREM AlwaysDecidedFairly ==
    ASSUME OneSide
    PROVE  Spec => []DecidedFairly
  BY ReplayInvariant, ApartInvariant, ChosenInvariant, Fairly, PTL
-----------------------------------------------------------------------------
(* The rows of the backtests of a strategy.                                *)

LifecycleInv == LifecycleTypeOK /\ BusyHasRun /\ CompleteHasRow /\ CompletedHasResult

\* The steps that write neither a row nor a result nor the strategy.
Quiet == UNCHANGED <<strategy, row, result>>

\* A strategy without backtests.
LEMMA LifecycleStarts == LifecycleInit => LifecycleInv
  BY LifecycleAssumption DEF LifecycleInit, LifecycleInv, LifecycleTypeOK, BusyHasRun,
     CompleteHasRow, CompletedHasResult, NoJob, Outcomes

\* Storing a result keeps the rows and the strategy in step.
LEMMA StorePreserves ==
    ASSUME LifecycleInv, NEW b \in Backtests, NEW outcome \in Outcomes, Store(b, outcome)
    PROVE  /\ strategy' \in {"confirmed", "backtesting", "backtest_complete"}
           /\ row' \in [Backtests -> {"none", "running", "completed", "failed"}]
           /\ result' \in [Backtests -> Outcomes \cup {"none"}]
           /\ BusyHasRun' /\ CompleteHasRow' /\ CompletedHasResult'
<1> USE DEF LifecycleInv, Store
<1>1. /\ row' \in [Backtests -> {"none", "running", "completed", "failed"}]
      /\ result' \in [Backtests -> Outcomes \cup {"none"}]
  BY DEF LifecycleTypeOK, RowAfter
<1>2. strategy' \in {"confirmed", "backtest_complete"}
  BY DEF StrategyAfter
<1>3. BusyHasRun'
  BY <1>2 DEF BusyHasRun
<1>4. CompleteHasRow'
  <2> SUFFICES ASSUME strategy' = "backtest_complete" PROVE row'[b] = "completed"
    BY DEF CompleteHasRow
  <2> QED
    BY DEF StrategyAfter, RowAfter, LifecycleTypeOK
<1>5. CompletedHasResult'
  <2> SUFFICES ASSUME NEW c \in Backtests, row'[c] = "completed"
               PROVE  result'[c] \in {"passed", "below_threshold"}
    BY DEF CompletedHasResult
  <2>1. CASE c = b
    BY <2>1 DEF RowAfter, LifecycleTypeOK, Outcomes
  <2>2. CASE c # b
    BY <2>2 DEF CompletedHasResult, LifecycleTypeOK
  <2> QED
    BY <2>1, <2>2
<1> QED
  BY <1>1, <1>2, <1>3, <1>4, <1>5

\* A quiet step keeps everything but the types of what it writes.
LEMMA QuietPreserves ==
    ASSUME LifecycleInv, Quiet
    PROVE  BusyHasRun' /\ CompleteHasRow' /\ CompletedHasResult'
  BY DEF LifecycleInv, Quiet, BusyHasRun, CompleteHasRow, CompletedHasResult

\* The job of the engine keeps its type.
LEMMA EngineTyped ==
    ASSUME LifecycleTypeOK, NEW b \in Backtests
    PROVE  /\ engine[b].outcome \in Outcomes
           /\ engine[b].attempts \in 0..MaxAttempts
           /\ AfterFailedAttempt(b) \in [stage : {"none", "running", "calling", "delivered", "lost"},
                                         outcome : Outcomes, attempts : 0..MaxAttempts]
<1>1. engine[b] \in [stage : {"none", "running", "calling", "delivered", "lost"},
                      outcome : Outcomes, attempts : 0..MaxAttempts]
  BY DEF LifecycleTypeOK
<1>2. engine[b].attempts > 1 => engine[b].attempts - 1 \in 0..MaxAttempts
  BY <1>1, LifecycleAssumption
<1>3. 0 \in 0..MaxAttempts
  BY LifecycleAssumption
<1> QED
  BY <1>1, <1>2, <1>3 DEF AfterFailedAttempt

\* The trigger and the failure of a task write the row and the strategy together.
LEMMA TriggerPreserves ==
    ASSUME LifecycleInv, NEW b \in Backtests, TriggerCheck(b) \/ TriggerCommit(b)
    PROVE  LifecycleInv'
<1>1. CASE TriggerCheck(b)
  <2>1. LifecycleTypeOK'
    BY <1>1 DEF TriggerCheck, LifecycleInv, LifecycleTypeOK
  <2> QED
    BY <1>1, <2>1, QuietPreserves DEF TriggerCheck, LifecycleInv, Quiet
<1>2. CASE TriggerCommit(b)
  <2>1. LifecycleTypeOK'
    BY <1>2 DEF TriggerCommit, LifecycleInv, LifecycleTypeOK
  <2>2. BusyHasRun' /\ CompleteHasRow'
    BY <1>2 DEF TriggerCommit, LifecycleInv, LifecycleTypeOK, BusyHasRun, CompleteHasRow
  <2>3. CompletedHasResult'
    BY <1>2 DEF TriggerCommit, LifecycleInv, LifecycleTypeOK, CompletedHasResult
  <2> QED
    BY <2>1, <2>2, <2>3 DEF LifecycleInv
<1> QED
  BY <1>1, <1>2

\* Runs that end with a result, and the engine's computation.
LEMMA RunPreserves ==
    ASSUME LifecycleInv, NEW b \in Backtests, NEW outcome \in Outcomes,
           ChatRun(b, outcome) \/ DynamicRun(b, outcome) \/ Execute(b, outcome)
    PROVE  LifecycleInv'
<1>1. CASE ChatRun(b, outcome)
  BY <1>1, StorePreserves DEF ChatRun, LifecycleInv, LifecycleTypeOK
<1>2. CASE DynamicRun(b, outcome)
  <2>1. task' \in [Backtests -> {"none", "preparing", "posting", "failing"}]
    BY <1>2 DEF DynamicRun, LifecycleInv, LifecycleTypeOK
  <2> QED
    BY <1>2, <2>1, StorePreserves DEF DynamicRun, LifecycleInv, LifecycleTypeOK
<1>3. CASE Execute(b, outcome)
  <2>1. LifecycleTypeOK'
    BY <1>3, LifecycleAssumption DEF Execute, Attempts, LifecycleInv, LifecycleTypeOK
  <2> QED
    BY <1>3, <2>1, QuietPreserves DEF Execute, LifecycleInv, Quiet
<1> QED
  BY <1>1, <1>2, <1>3

\* What the chat does without a result only frees the strategy.
LEMMA ChatPreserves ==
    ASSUME LifecycleInv, ChatReconfirms \/ \E b \in Backtests : ChatRunFails(b)
    PROVE  LifecycleInv'
<1>1. strategy' = "confirmed" /\ UNCHANGED <<result, request, task, engine, faults, crashes>>
  BY DEF ChatReconfirms, ChatRunFails
<1>2. row' \in [Backtests -> {"none", "running", "completed", "failed"}]
  BY DEF ChatReconfirms, ChatRunFails, LifecycleInv, LifecycleTypeOK
<1>3. \A b \in Backtests : row'[b] = "completed" => row[b] = "completed"
  BY DEF ChatReconfirms, ChatRunFails, LifecycleInv, LifecycleTypeOK
<1>4. LifecycleTypeOK'
  BY <1>1, <1>2 DEF LifecycleInv, LifecycleTypeOK
<1>5. BusyHasRun' /\ CompleteHasRow' /\ CompletedHasResult'
  BY <1>1, <1>3 DEF LifecycleInv, BusyHasRun, CompleteHasRow, CompletedHasResult
<1> QED
  BY <1>4, <1>5 DEF LifecycleInv

\* The background task writes a row only when it fails.
LEMMA TaskPreserves ==
    ASSUME LifecycleInv, NEW b \in Backtests,
           Post(b) \/ PostAnswered(b) \/ TaskFails(b) \/ MarkLost(b) \/ MarkFailed(b)
    PROVE  LifecycleInv'
<1>1. CASE Post(b) \/ PostAnswered(b) \/ TaskFails(b) \/ MarkLost(b)
  <2>1. LifecycleTypeOK'
    BY <1>1 DEF Post, PostAnswered, TaskFails, MarkLost, LifecycleInv, LifecycleTypeOK
  <2>2. Quiet
    BY <1>1 DEF Post, PostAnswered, TaskFails, MarkLost, Quiet
  <2> QED
    BY <2>1, <2>2, QuietPreserves DEF LifecycleInv
<1>2. CASE MarkFailed(b)
  <2>1. LifecycleTypeOK'
    BY <1>2 DEF MarkFailed, StrategyFreed, LifecycleInv, LifecycleTypeOK
  <2>2. BusyHasRun' /\ CompleteHasRow'
    BY <1>2 DEF MarkFailed, StrategyFreed, BusyHasRun, CompleteHasRow
  <2>3. CompletedHasResult'
    BY <1>2 DEF MarkFailed, LifecycleInv, LifecycleTypeOK, CompletedHasResult
  <2> QED
    BY <2>1, <2>2, <2>3 DEF LifecycleInv
<1> QED
  BY <1>1, <1>2

\* A job of the engine: what reaches the API is stored, whichever attempt it is.
LEMMA EnginePreserves ==
    ASSUME LifecycleInv, NEW b \in Backtests,
           Accept(b) \/ Callback(b) \/ CallbackUnanswered(b) \/ CallbackFails(b)
    PROVE  LifecycleInv'
<1> DEFINE Jobs == [stage : {"none", "running", "calling", "delivered", "lost"},
                    outcome : Outcomes, attempts : 0..MaxAttempts]
<1>1. engine' \in [Backtests -> Jobs] /\ faults' \in Nat
  <2>1. CASE Accept(b) \/ Callback(b)
    BY <2>1 DEF Accept, Callback, LifecycleInv, LifecycleTypeOK
  <2>2. CASE CallbackUnanswered(b) \/ CallbackFails(b)
    BY <2>2, EngineTyped DEF CallbackUnanswered, CallbackFails, LifecycleInv, LifecycleTypeOK
  <2> QED
    BY <2>1, <2>2
<1>2. CASE Accept(b) \/ CallbackFails(b)
  <2>1. Quiet /\ UNCHANGED <<request, task, crashes>>
    BY <1>2 DEF Accept, CallbackFails, Quiet
  <2>2. LifecycleTypeOK'
    BY <1>1, <2>1 DEF LifecycleInv, LifecycleTypeOK, Quiet
  <2> QED
    BY <2>1, <2>2, QuietPreserves DEF LifecycleInv
<1>3. CASE Callback(b) \/ CallbackUnanswered(b)
  <2>1. Store(b, engine[b].outcome) /\ UNCHANGED <<request, task, crashes>>
    BY <1>3 DEF Callback, CallbackUnanswered
  <2>2. engine[b].outcome \in Outcomes
    BY EngineTyped DEF LifecycleInv
  <2> QED
    BY <1>1, <2>1, <2>2, StorePreserves DEF LifecycleInv, LifecycleTypeOK
<1> QED
  BY <1>2, <1>3

\* A restart loses what is in memory; the rows stay.
LEMMA CrashPreserves ==
    ASSUME LifecycleInv, ApiCrash \/ EngineCrash
    PROVE  LifecycleInv'
<1>1. LifecycleTypeOK'
  <2>1. CASE ApiCrash
    BY <2>1 DEF ApiCrash, LifecycleInv, LifecycleTypeOK
  <2>2. CASE EngineCrash
    <3>1. engine' \in [Backtests -> [stage : {"none", "running", "calling", "delivered", "lost"},
                                     outcome : Outcomes, attempts : 0..MaxAttempts]]
      BY <2>2 DEF EngineCrash, LifecycleInv, LifecycleTypeOK
    <3> QED
      BY <2>2, <3>1 DEF EngineCrash, LifecycleInv, LifecycleTypeOK
  <2> QED
    BY <2>1, <2>2
<1>2. Quiet
  BY DEF ApiCrash, EngineCrash, Quiet
<1> QED
  BY <1>1, <1>2, QuietPreserves DEF LifecycleInv

\* LifecycleInv is inductive: one case per action.
LEMMA LifecycleSteps == LifecycleInv /\ [LifecycleNext]_lifecycleVars => LifecycleInv'
<1> SUFFICES ASSUME LifecycleInv, [LifecycleNext]_lifecycleVars PROVE LifecycleInv'
  OBVIOUS
<1>1. ASSUME NEW b \in Backtests, Progress(b) \/ Fault(b) \/ TriggerCheck(b)
      PROVE  LifecycleInv'
  BY <1>1, TriggerPreserves, RunPreserves, TaskPreserves, EnginePreserves DEF Progress, Fault
<1>2. ASSUME NEW b \in Backtests, NEW outcome \in Outcomes, ChatRun(b, outcome)
      PROVE  LifecycleInv'
  BY <1>2, RunPreserves
<1>3. CASE ApiCrash \/ EngineCrash
  BY <1>3, CrashPreserves
<1>4. CASE ChatReconfirms \/ \E b \in Backtests : ChatRunFails(b)
  BY <1>4, ChatPreserves
<1>5. CASE UNCHANGED lifecycleVars
  BY <1>5 DEF lifecycleVars, LifecycleInv, LifecycleTypeOK, BusyHasRun, CompleteHasRow, CompletedHasResult
<1> QED
  BY <1>1, <1>2, <1>3, <1>4, <1>5 DEF LifecycleNext

\* The invariant holds in every state.
LEMMA LifecycleInvariant == LifecycleSpec => []LifecycleInv
  BY LifecycleStarts, LifecycleSteps, PTL DEF LifecycleSpec

\* The rows, tasks and jobs keep their types.
THEOREM LifecycleTypeCorrect == LifecycleSpec => []LifecycleTypeOK
<1>1. LifecycleInv => LifecycleTypeOK
  BY DEF LifecycleInv
<1> QED
  BY <1>1, LifecycleInvariant, PTL

\* A strategy never refuses triggers for a backtest that is not running.
THEOREM BusyAlwaysHasRun == LifecycleSpec => []BusyHasRun
<1>1. LifecycleInv => BusyHasRun
  BY DEF LifecycleInv
<1> QED
  BY <1>1, LifecycleInvariant, PTL

\* What a strategy and its rows say is backed by a result of the engine.
THEOREM CompletionIsBacked == LifecycleSpec => [](CompleteHasRow /\ CompletedHasResult)
<1>1. LifecycleInv => CompleteHasRow /\ CompletedHasResult
  BY DEF LifecycleInv
<1> QED
  BY <1>1, LifecycleInvariant, PTL
=============================================================================
