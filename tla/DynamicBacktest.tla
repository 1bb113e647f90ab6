---------------------------- MODULE DynamicBacktest ----------------------------
(***************************************************************************)
(* The backtest of a dynamic universe (run_dynamic_backtest in             *)
(* app/services/universe/backtest_orchestrator.py, called by the           *)
(* background task of routes/backtest.py): resolve the members, load their *)
(* bars, have the engine simulate every member, and replay the trades of   *)
(* all of them under one pool of capital.  UniverseResolver is the first   *)
(* part, BacktestPortfolio the last; this module joins them.               *)
(*                                                                         *)
(* A chat turn that backtests the same strategy does it on its own         *)
(* (resolve_member_symbols in universe/chat_resolution.py and              *)
(* run_ai_processing in chat/chat_service.py): it resolves an equity       *)
(* universe with the same resolver, others from a list, runs the members   *)
(* one after the other, and constructs the manager itself.                 *)
(***************************************************************************)
EXTENDS UniverseResolver, BacktestPortfolio

CONSTANTS
    MaxPositions,       \* dynamic_universe_max_positions
    SizingMode,         \* of the route: by the rank of the rule
    LoadConcurrency,
    WindowFrom          \* start of the window; bars before it only warm up

\* The explicit symbols of a watchlist, or the exchange's ranking of the coins, cut.
Listed(list, r) ==
    LET cleaned == Cleaned(list) IN SubSeq(cleaned, 1, Smaller(Smaller(r.take, MaxAssets), Len(cleaned)))

ASSUME DynamicAssumption ==
    /\ Tickers = Symbols
    /\ LoadConcurrency \in Nat \ {0}
    /\ MaxPositions \in Nat \ {0}
    /\ WindowFrom \in Nat
    /\ MaxSlots >= MaxAssets /\ MaxSlots >= MaxPositions
    /\ \A list \in Sources, r \in Rules : Listed(list, r) \in Seq(Symbols)

VARIABLES
    by,    \* "route" or "chat", once it matters
    load   \* "none", "waiting", "inflight", "data", "nodata" per symbol

vars == <<resolverVars, by, load, replayVars>>

Init ==
    /\ ResolverInit
    /\ ReplayInit
    /\ by = "none"
    /\ load = [s \in Symbols |-> "none"]

Resolving == ResolverNext /\ UNCHANGED <<by, load, replayVars>>

\* Without a fetch, a screen or a gate; a ticker that fails is an empty list.
ListMembers ==
    /\ stage = "begin"
    /\ \E list \in Sources : members' = Listed(list, rule)
    /\ stage' = "listed"
    /\ UNCHANGED <<rule, pool, market, fetch, dropped, by, load, replayVars>>
-----------------------------------------------------------------------------
(* load_member_execution_frames: one task per member, in rank order.  A    *)
(* failure of the provider and an answer without bars are the same.        *)

\* Nothing to trade: the route returns a result without trades, the chat an error.
\* Otherwise the frames of the screening go out of scope and the members are loaded.
NoMembers ==
    /\ members = << >>
    /\ \/ stage = "resolved" /\ stage' = "answered"
       \/ stage \in {"resolved", "listed"} /\ stage' = "failed"
    /\ UNCHANGED <<rule, pool, market, fetch, members, dropped, by, load, replayVars>>

LoadMembers ==
    /\ stage \in {"resolved", "listed"}
    /\ members # << >>
    /\ \/ stage = "resolved" /\ by' = "route"
       \/ by' = "chat"
    /\ stage' = "load"
    /\ load' = [s \in Symbols |-> IF Contains(members, s) THEN "waiting" ELSE "none"]
    /\ pool' = << >> /\ dropped' = {}
    /\ fetch' = [s \in Symbols |-> "none"]
    /\ market' = [s \in Symbols |-> CHOOSE r \in Readings : TRUE]
    /\ UNCHANGED <<rule, members, replayVars>>

IsNext(s) ==
    /\ load[s] = "waiting"
    /\ \A i, j \in DOMAIN members : members[j] = s /\ i < j => load[members[i]] # "waiting"

Load(s) ==
    /\ by = "route"
    /\ IsNext(s)
    /\ Cardinality(InFlight(load)) < LoadConcurrency
    /\ load' = [load EXCEPT ![s] = "inflight"]
    /\ UNCHANGED <<resolverVars, by, replayVars>>

LoadEnds(s) ==
    /\ load[s] = "inflight"
    /\ \E outcome \in {"data", "nodata"} : load' = [load EXCEPT ![s] = outcome]
    /\ UNCHANGED <<resolverVars, by, replayVars>>

\* In the chat a member is loaded and simulated before the next one; whatever fails, it
\* costs that member its trades and no other ("One bad symbol shouldn't abort the whole
\* batch", chat_service.py:4895).
RunMember(s) ==
    /\ by = "chat"
    /\ IsNext(s)
    /\ \E outcome \in {"data", "nodata"} : load' = [load EXCEPT ![s] = outcome]
    /\ UNCHANGED <<resolverVars, by, replayVars>>
-----------------------------------------------------------------------------
(* The engine.                                                             *)

\* The keys of member_ohlcv.
Loaded == {s \in Symbols : load[s] = "data"}

AllLoaded == stage = "load" /\ \A s \in Symbols : load[s] \notin {"waiting", "inflight"}

Larger(a, b) == IF a > b THEN a ELSE b

\* universe.effective_max_positions under the platform's limit.
AsRequested == Smaller(Smaller(IF rule.positions = Unset THEN rule.take ELSE rule.positions, rule.take), MaxPositions)

\* A slot for as many positions as rule, platform and loaded members allow.
EffectivePositions == Smaller(AsRequested, Larger(1, Cardinality(Loaded)))

\* _entry_in_windows: a trade entered during the warm-up is left out.
InWindow(candidate) == candidate.entry >= WindowFrom

\* The members are simulated one after the other; one whose simulation fails has no
\* trades.  run_dynamic_backtest takes a map of sectors and a cap; the route passes none.
Simulated(f) == {c \in Candidates(f) : InWindow(c)}

RunPortfolio ==
    /\ by = "route"
    /\ AllLoaded
    /\ Loaded # {}
    /\ stage' = "engine"
    /\ \E f \in [Loaded -> TradeLists], mapped \in BOOLEAN :
          Run(Simulated(f), [slots |-> EffectivePositions, sizing |-> SizingMode, sectorMap |-> mapped])
    /\ UNCHANGED <<rule, pool, market, fetch, members, dropped, by, load>>

\* _aggregate_universe_portfolio: the trades as they come, equal weights, no sectors, and a
\* slot for each of the members, with trades or without.
GroupManager == [slots |-> Len(members), sizing |-> "equal_weight", sectorMap |-> FALSE]

RunGroup ==
    /\ by = "chat"
    /\ AllLoaded
    /\ Loaded # {}
    /\ stage' = "engine"
    /\ \E f \in [Loaded -> TradeLists] :
          Run(Candidates(f), GroupManager)
    /\ UNCHANGED <<rule, pool, market, fetch, members, dropped, by, load>>

\* "Every asset failed".
GroupFails ==
    /\ by = "chat"
    /\ AllLoaded
    /\ Loaded = {}
    /\ stage' = "failed"
    /\ UNCHANGED <<rule, pool, market, fetch, members, dropped, by, load, replayVars>>

\* The engine refuses a request without members; or it cannot be reached; or it does not
\* answer in time, and goes on for nobody.
EngineFails ==
    /\ by = "route"
    /\ AllLoaded \/ stage = "engine"
    /\ stage' = "failed"
    /\ UNCHANGED <<rule, pool, market, fetch, members, dropped, by, load, replayVars>>

Replaying == Replay /\ UNCHANGED <<resolverVars, by, load>>

EngineAnswers ==
    /\ stage = "engine"
    /\ phase = "done"
    /\ stage' = "answered"
    /\ UNCHANGED <<rule, pool, market, fetch, members, dropped, by, load, replayVars>>

\* The row is completed or failed; any other state without a step is a run that hangs.
Ended ==
    /\ stage \in {"answered", "failed"}
    /\ phase \in {"idle", "done"}
    /\ UNCHANGED vars

Next ==
    \/ Resolving
    \/ ListMembers
    \/ NoMembers
    \/ LoadMembers
    \/ \E s \in Symbols : Load(s) \/ LoadEnds(s) \/ RunMember(s)
    \/ RunPortfolio
    \/ RunGroup
    \/ GroupFails
    \/ EngineFails
    \/ Replaying
    \/ EngineAnswers
    \/ Ended

Spec == Init /\ [][Next]_vars
-----------------------------------------------------------------------------
TypeOK ==
    /\ ResolverTypeOK
    /\ ReplayTypeOK
    /\ by \in {"none", "route", "chat"}
    /\ load \in [Symbols -> {"none", "waiting", "inflight", "data", "nodata"}]

\* Only members with bars compete.  They do so with the positions really open at that time,
\* and where there is a slot for each of them none is ever refused for the cap: a member of
\* a strategy with one side holds one position at a time, and what it leaves at an instant
\* it may enter again at it (portfolio.py:15-19, backtest_orchestrator.py:184).
DecidedFairly ==
    /\ {p.symbol : p \in open} \cup {todo[i].symbol : i \in DOMAIN todo} \subseteq Loaded
    /\ Loaded \subseteq ToSet(members)
    /\ DecidedOnTime
    /\ phase = "decide" /\ manager.slots >= Cardinality(Loaded) => SlotFree

\* "Hard cap on concurrent positions" (docs/dynamic-universe-implementation.md:304-310): a
\* backtest has no more slots than the rule asks for and the platform allows, whoever runs
\* it.
SlotsWithinRule == phase # "idle" => manager.slots <= AsRequested
=============================================================================
