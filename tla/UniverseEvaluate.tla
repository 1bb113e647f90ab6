--------------------------- MODULE UniverseEvaluate --------------------------
(***************************************************************************)
(* The live evaluation of a dynamic deployment                             *)
(* (app/services/execution/universe_evaluator.py, called by                *)
(* app/api/v1/routes/execution.py) between an order management system that *)
(* owns the positions and a service that keeps nothing between calls.      *)
(*                                                                         *)
(* A call carries the OMS's open positions by value.  The service looks up *)
(* the members of the current refresh window (live_universe.py), rebuilds  *)
(* a shared pool from the positions, evaluates the members and then the    *)
(* held symbols that are no longer members, one after the other (each is   *)
(* an await), and finally arbitrates: all exits first, then the entries in *)
(* member order.  Arbitration has no await, so it is one step.  The reply  *)
(* reaches the OMS, or is lost and the OMS calls again.  Meanwhile bars    *)
(* advance and the broker may fill a stop.                                 *)
(*                                                                         *)
(* One position per symbol, in rupees at cost.  An admitted entry carries  *)
(* two amounts: the capital the portfolio allocated, and the quantity that *)
(* the RiskManager computed for the member on its own, which is not scaled *)
(* to it.  BuysAllocated says which of them the OMS buys.                  *)
(***************************************************************************)
EXTENDS SharedPool, SequencesExt

CONSTANTS
    Symbols,
    Calls,         \* calls that may be in flight together
    MemberLists,   \* lists of members the resolver may answer with
    WindowBars,    \* bars of a refresh window
    Deterministic, \* the resolver reads the history as of an instant, not the live ticker
    MayForget,     \* entries of the cache are evicted, or lost with the process
    NoList,
    StopPcts,      \* stop distances of an entry
    Costs,         \* what the RiskManager's quantity of an entry costs
    BuysAllocated, \* the OMS scales an entry to its allocated capital
    PartialExits,  \* a take-profit ladder may close part of a position
    NoCall,
    LastBar        \* bound: bars explored

ASSUME EvaluateAssumption ==
    /\ IsFiniteSet(Symbols)
    /\ MemberLists \subseteq Seq(Symbols) /\ \A list \in MemberLists : IsInjective(list)
    /\ NoList \notin MemberLists
    /\ WindowBars \in Nat \ {0} /\ Deterministic \in BOOLEAN /\ MayForget \in BOOLEAN
    /\ StopPcts \subseteq Nat \ {0} /\ Costs \subseteq Nat \ {0} /\ BuysAllocated \in BOOLEAN
    /\ PartialExits \in BOOLEAN
    /\ LastBar \in Nat

VARIABLES
    book,     \* the OMS: capital held in each symbol
    bar,      \* the clock, in bars
    cache,    \* _CACHE, for the rule of this deployment: the members by refresh_asof
    known,    \* the lists the resolver has answered with, by instant (history variable)
    served,   \* the lists that calls of a window were evaluated on (history variable)
    call,     \* per call: NoCall, or the state of the handler
    orders,   \* entry orders the OMS has accepted, by idempotency key
    filled    \* symbols bought, with the bar of the decision (history variable)

lookups == <<cache, known, served>>

vars == <<book, bar, lookups, call, orders, filled>>

HeldIn(b) == {s \in Symbols : b[s] > 0}

Init ==
    /\ book = [s \in Symbols |-> 0]
    /\ bar = 0
    /\ cache = [b \in 0..LastBar |-> NoList]
    /\ known = [b \in 0..LastBar |-> {}]
    /\ served = [w \in 0..LastBar \div WindowBars |-> {}]
    /\ call = [c \in Calls |-> NoCall]
    /\ orders = {}
    /\ filled = {}
-----------------------------------------------------------------------------
(* Start of a call: the members of the window from the cache, or from the  *)
(* resolver after an await; a concurrent call may resolve them again.  The *)
(* pool is rebuilt when something is held, and the symbols to evaluate are *)
(* the members followed by the other held symbols.                         *)

\* Mutant: the instant is not quantized.
RefreshNow(b) == b

\* previous_refresh_at.
RefreshAsof(b) == (b \div WindowBars) * WindowBars

Lots(b) == [i \in 1..Cardinality(HeldIn(b)) |->
               LET s == SetToSeq(HeldIn(b))[i]
               IN  [symbol |-> s, capital |-> b[s], sector |-> NoSector]]

\* Mutant: a symbol that left the universe is not evaluated any more.
MembersOnly(members, b) == members

\* eval_symbols: held symbols that left the universe are appended.
EvalSymbols(members, b) ==
    members \o SetToSeq(HeldIn(b) \ Range(members))

\* The broker's positions become the portfolio; without any it is a new one.
PoolFor(sent) == IF HeldIn(sent) = {} THEN NewPool ELSE Rebuild(Lots(sent))

FanOut(members, b, sent) ==
    [stage   |-> "fanout",
     bar     |-> b,
     members |-> Range(members),
     sent    |-> sent,
     todo    |-> EvalSymbols(members, sent),
     raw     |-> << >>,
     pool    |-> PoolFor(sent),
     exits   |-> {},
     entries |-> << >>,
     skipped |-> << >>]

Serve(members, b) == served' = [served EXCEPT ![b \div WindowBars] = @ \cup {members}]

Cached(b) == cache[RefreshAsof(b)]

StartHit(c) ==
    /\ call[c] = NoCall
    /\ Cached(bar) # NoList
    /\ call' = [call EXCEPT ![c] = FanOut(Cached(bar), bar, book)]
    /\ Serve(Cached(bar), bar)
    /\ UNCHANGED <<book, bar, cache, known, orders, filled>>

StartMiss(c) ==
    /\ call[c] = NoCall
    /\ Cached(bar) = NoList
    /\ call' = [call EXCEPT ![c] = [stage |-> "resolving", bar |-> bar, sent |-> book]]
    /\ UNCHANGED <<book, bar, lookups, orders, filled>>

\* resolve_live_universe: as of an instant, or on the ticker of the moment.
Resolutions(asof) == IF Deterministic /\ known[asof] # {} THEN known[asof] ELSE MemberLists

Memoized(asof, members) == [cache EXCEPT ![asof] = members]

Resolve(c) ==
    /\ call[c] # NoCall /\ call[c].stage = "resolving"
    /\ LET asof == RefreshAsof(call[c].bar)
       IN  \E members \in Resolutions(asof) :
              /\ cache' = Memoized(asof, members)
              /\ known' = [known EXCEPT ![asof] = @ \cup {members}]
              /\ call' = [call EXCEPT ![c] = FanOut(members, call[c].bar, call[c].sent)]
              /\ Serve(members, call[c].bar)
    /\ UNCHANGED <<book, bar, orders, filled>>

\* The oldest entries make room for those of other deployments; a new process has none.
Forget(b) ==
    /\ MayForget
    /\ cache[b] # NoList
    /\ cache' = [cache EXCEPT ![b] = NoList]
    /\ UNCHANGED <<book, bar, known, served, call, orders, filled>>
-----------------------------------------------------------------------------
(* Fan-out: StrategyEvaluator.evaluate answers for one symbol.  It looks   *)
(* at the symbol's own position first: an exit, or no exit and then maybe  *)
(* an entry that the free cash of the rebuilt pool pays for, or nothing    *)
(* (also its answer to any error).                                         *)

Exits(s, held) ==
    IF held = 0 THEN {}
    ELSE {[symbol |-> s, action |-> "exit_triggered", amount |-> held, stop |-> NoStop]}
         \cup IF PartialExits /\ held > 1
              THEN {[symbol |-> s, action |-> "exit_triggered", amount |-> held \div 2, stop |-> NoStop]}
              ELSE {}

\* available_margin: the members do not see each other's entries.
Affordable(cash) == {cost \in Costs : cost <= cash}

Answers(s, held, cash) ==
    Exits(s, held)
    \cup {[symbol |-> s, action |-> "entry_created", amount |-> cost, stop |-> p] :
              cost \in Affordable(cash), p \in StopPcts}
    \cup {[symbol |-> s, action |-> "no_action", amount |-> 0, stop |-> NoStop]}

EvaluateMember(c) ==
    /\ call[c] # NoCall
    /\ call[c].stage = "fanout"
    /\ call[c].todo # << >>
    /\ \E answer \in Answers(Head(call[c].todo), call[c].sent[Head(call[c].todo)], call[c].pool.cash) :
          call' = [call EXCEPT ![c].todo = Tail(@),
                               ![c].raw  = Append(@, answer)]
    /\ UNCHANGED <<book, bar, lookups, orders, filled>>
-----------------------------------------------------------------------------
(* Arbitration: aggregate_member_evaluations, passes 2a and 2b.            *)

\* all_exits, and the symbols that exit.
ExitAnswers(raw) == {raw[i] : i \in {j \in DOMAIN raw : raw[j].action = "exit_triggered"}}

SymbolsOf(answers) == {r.symbol : r \in answers}

\* Mutant: the symbol keeps its capital in the pool.
NothingReleased(pool, raw) == pool

\* Pass 2a releases the whole position of every member that exits.
ReleaseExit(pool, r) ==
    IF r.action = "exit_triggered" THEN Release(pool, r.symbol, 0) ELSE pool

AfterExits(pool, raw) == FoldLeft(ReleaseExit, pool, raw)

\* An admitted member: allocated_capital, and the quantity of its own response.
Admitted(r, amount) == [symbol |-> r.symbol, amount |-> amount, cost |-> r.amount]

Outcome(pool, entries, skipped) == [pool |-> pool, entries |-> entries, skipped |-> skipped]

\* Mutant: the entry is recorded but its capital is not locked in the pool.
ArbitrateUnlocked(o, r) ==
    LET verdict == Verdict(o.pool, r.symbol, r.stop, NoSector)
        amount  == Allocation(o.pool, r.stop)
    IN  IF verdict = "admit"
        THEN Outcome(o.pool, Append(o.entries, Admitted(r, amount)), o.skipped)
        ELSE Outcome(o.pool, o.entries, Append(o.skipped, [symbol |-> r.symbol, reason |-> verdict]))

\* Pass 2b for one entry: admitted with its allocation, or skipped with a reason.
Arbitrate(o, r) ==
    LET verdict == Verdict(o.pool, r.symbol, r.stop, NoSector)
        amount  == Allocation(o.pool, r.stop)
    IN  IF verdict = "admit"
        THEN Outcome(Admit(o.pool, r.symbol, amount, NoSector),
                     Append(o.entries, Admitted(r, amount)), o.skipped)
        ELSE Outcome(o.pool, o.entries, Append(o.skipped, [symbol |-> r.symbol, reason |-> verdict]))

\* Pass 2b passes over the members that exit and those without an entry.
AfterEntries(exited, o, raw) ==
    FoldLeft(LAMBDA u, r : IF r.action = "entry_created" /\ r.symbol \notin exited
                           THEN Arbitrate(u, r) ELSE u,
             o, raw)

Aggregate(c) ==
    /\ call[c] # NoCall
    /\ call[c].stage = "fanout"
    /\ call[c].todo = << >>
    /\ LET raw == call[c].raw
           out == AfterEntries(SymbolsOf(ExitAnswers(raw)),
                               Outcome(AfterExits(call[c].pool, raw), << >>, << >>), raw)
       IN  call' = [call EXCEPT ![c].stage   = "replied",
                                ![c].pool    = out.pool,
                                ![c].exits   = ExitAnswers(raw),
                                ![c].entries = out.entries,
                                ![c].skipped = out.skipped]
    /\ UNCHANGED <<book, bar, lookups, orders, filled>>
-----------------------------------------------------------------------------
(* The OMS and the broker.  An entry order is identified by a fingerprint  *)
(* of strategy, symbol and bar; the OMS drops one it has already taken.    *)

\* Mutant: the key is taken from the call, as when no bar time is known.
KeyOfCall(c, s) == <<s, c>>

Key(c, s) == <<s, call[c].bar>>

OrderOf(entry) == IF BuysAllocated THEN entry.amount ELSE entry.cost

Bought(c, s) ==
    LET mine == {i \in DOMAIN call[c].entries :
                    call[c].entries[i].symbol = s /\ Key(c, s) \notin orders}
    IN  IF mine = {} THEN 0 ELSE OrderOf(call[c].entries[CHOOSE i \in mine : TRUE])

Sold(c, s) ==
    LET mine == {r \in call[c].exits : r.symbol = s}
    IN  IF mine = {} THEN 0 ELSE (CHOOSE r \in mine : TRUE).amount

Larger(a, b) == IF a > b THEN a ELSE b

ApplyReply(c) ==
    /\ call[c] # NoCall
    /\ call[c].stage = "replied"
    /\ book' = [s \in Symbols |-> Larger(0, book[s] - Sold(c, s)) + Bought(c, s)]
    /\ orders' = orders \cup {Key(c, call[c].entries[i].symbol) : i \in DOMAIN call[c].entries}
    /\ filled' = filled \cup {<<s, call[c].bar>> : s \in {x \in Symbols : Bought(c, x) > 0}}
    /\ call' = [call EXCEPT ![c] = NoCall]
    /\ UNCHANGED <<bar, lookups>>

\* The reply is lost, or the call times out; the OMS knows nothing of it.
LoseReply(c) ==
    /\ call[c] # NoCall
    /\ call' = [call EXCEPT ![c] = NoCall]
    /\ UNCHANGED <<book, bar, lookups, orders, filled>>

\* A bracket stop of the broker closes a position between two calls or during one.
BrokerStop(s) ==
    /\ book[s] > 0
    /\ book' = [book EXCEPT ![s] = 0]
    /\ UNCHANGED <<bar, lookups, call, orders, filled>>

NextBar ==
    /\ bar < LastBar
    /\ bar' = bar + 1
    /\ UNCHANGED <<book, lookups, call, orders, filled>>

Next ==
    \/ \E c \in Calls :
          \/ StartHit(c)
          \/ StartMiss(c)
          \/ Resolve(c)
          \/ EvaluateMember(c)
          \/ Aggregate(c)
          \/ ApplyReply(c)
          \/ LoseReply(c)
    \/ \E s \in Symbols : BrokerStop(s)
    \/ \E b \in 0..LastBar : Forget(b)
    \/ NextBar

Spec == Init /\ [][Next]_vars
-----------------------------------------------------------------------------
TypeOK ==
    /\ book \in [Symbols -> Nat]
    /\ bar \in 0..LastBar
    /\ cache \in [0..LastBar -> MemberLists \cup {NoList}]
    /\ \A c \in Calls : call[c] # NoCall => \/ call[c].stage = "resolving"
                                         \/ /\ call[c].stage \in {"fanout", "replied"}
                                            /\ call[c].pool.cash \in Nat
    /\ filled \subseteq Symbols \X (0..LastBar)

Replied == {c \in Calls : call[c] # NoCall /\ call[c].stage = "replied"}

\* "Position cap / capital exhaustion: skipped with an explicit reason; never
\* exceeded" (docs/dynamic-universe-phase-d.md:39), read on the positions the OMS
\* ends up with after applying what the service decided from snapshots that may be old.
BookWithinPool ==
    /\ Cardinality(HeldIn(book)) <= MaxPositions
    /\ SumFunction(book) <= TotalCapital

\* Every position the OMS holds is exit-managed by every call, also after its
\* symbol left the universe (universe_evaluator.py:261-264).
HeldAlwaysManaged ==
    \A c \in Replied : \A s \in HeldIn(call[c].sent) :
        \E i \in DOMAIN call[c].raw : call[c].raw[i].symbol = s

\* "every call inside a refresh window returns the SAME membership (no churn)"
\* (live_universe.py:12-13): the calls of one window are evaluated on one list.
WindowStable == \A w \in DOMAIN served : Cardinality(served[w]) <= 1

\* An entry is refused a slot only if the slots are really taken once this
\* call's exits have freed theirs.
NoSpuriousCapSkip ==
    \A c \in Replied : \A i \in DOMAIN call[c].skipped :
        call[c].skipped[i].reason = "position_cap"
            => Cardinality((HeldIn(call[c].sent) \ SymbolsOf(call[c].exits))
                           \cup SymbolsOf(Range(call[c].entries)))
               >= MaxPositions

\* A bar evaluated twice (a retry after a lost reply, an overlapping call) adds
\* to a position at most once (trade_manager.py:27-30).
OneEntryPerBar ==
    [][\A c \in Calls, s \in Symbols :
          (ApplyReply(c) /\ Bought(c, s) > 0) => <<s, call[c].bar>> \notin filled]_vars
=============================================================================
