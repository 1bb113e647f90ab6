--------------------------- MODULE MembershipWindows ---------------------------
(***************************************************************************)
(* The membership windows that a portfolio backtest draws from the         *)
(* recorded constituents (app/services/universe/backtest_orchestrator.py)  *)
(* and the entries it lets through (quant_engine/engine/runner.py).        *)
(* run_dynamic_backtest resolves once, at the end, and gives every member  *)
(* the whole window; the windows here are those of several resolutions.    *)
(***************************************************************************)
EXTENDS MembershipHistory, SequencesExt

\* The days D, sorted.
InOrder(D) == CHOOSE o \in [1..Cardinality(D) -> D] : \A i, j \in DOMAIN o : i < j => o[i] < o[j]

\* The universe resolved on each of the days D.
Snapshots(t, D) ==
    [k \in 1..Cardinality(D) |-> [asof |-> InOrder(D)[k], members |-> MembersOn(rows, t, InOrder(D)[k])]]

\* Mutant: a symbol that comes back is taken as one that never left.
KeptSince(acc, snap) ==
    [s \in Symbols |-> IF s \in snap.members \ acc.prev /\ acc.since[s] = 0 THEN snap.asof ELSE acc.since[s]]

\* open_since of the symbols that are members.
OpenSince(acc, snap) ==
    [s \in Symbols |-> IF s \in snap.members \ acc.prev THEN snap.asof ELSE acc.since[s]]

WindowsStep(acc, snap) ==
    [prev    |-> snap.members,
     since   |-> OpenSince(acc, snap),
     windows |-> acc.windows \cup
                    {[symbol |-> s, from |-> acc.since[s], to |-> snap.asof] : s \in acc.prev \ snap.members}]

\* membership_windows_from_snapshots.
Windows(t, D, horizon) ==
    LET end == FoldLeft(WindowsStep, [prev |-> {}, since |-> [s \in Symbols |-> 0], windows |-> {}], Snapshots(t, D))
    IN  end.windows \cup {[symbol |-> s, from |-> end.since[s], to |-> horizon] : s \in end.prev}

\* _entry_in_windows: both ends count; a symbol without a window is not filtered.
EntryAllowed(ws, s, time) ==
    \/ ~\E w \in ws : w.symbol = s
    \/ \E w \in ws : w.symbol = s /\ w.from <= time /\ time <= w.to
-----------------------------------------------------------------------------
\* A backtest over any of the applied days lets a loaded symbol enter when the latest list
\* has it, and at no other time but the instant it leaves (runner.py:583-586: "a symbol
\* only trades while it is in the universe").
EntriesWereMembers ==
    \A t \in tenants : \A D \in SUBSET applied[t] :
        LET horizon == Len(feed[t]) + 1
            ws == Windows(t, D, horizon)
            Latest(time) == Max({0} \cup {d \in D : d <= time})
            Had(s, d) == d # 0 /\ s \in feed[t][d]
        IN  \A s \in UNION {feed[t][d] : d \in D} : \A time \in 1..horizon :
                EntryAllowed(ws, s, time) <=>
                    Had(s, Latest(time)) \/ (time \in D /\ Had(s, Latest(time - 1)))
=============================================================================
