--------------------------- MODULE MembershipHistory ---------------------------
(***************************************************************************)
(* The recorded constituents of one universe                               *)
(* (app/services/universe/ingestion.py and membership.py).                 *)
(*                                                                         *)
(* A tenant has a constituent list for every day.  A job applies one      *)
(* list: it reads the open intervals, opens those of new members in one    *)
(* transaction and closes those of departed ones in another.  A job may    *)
(* die between any two steps, be repeated, and run twice at a time; days   *)
(* are applied in order, as apply_snapshot asks of its caller.             *)
(***************************************************************************)
EXTENDS Naturals, FiniteSets, Sequences

CONSTANTS
    Symbols,
    Jobs,       \* runs of the ingestion
    NoTenant,   \* the tenant of a shared universe: NULL
    Writers,    \* the sets of tenants that may share the table
    Open,       \* valid_to of a current member: NULL
    NoJob,
    MaxLists,   \* bound: lists of all tenants
    MaxFaults   \* bound: jobs that die

ASSUME HistoryAssumption ==
    /\ MaxLists \in Nat \ {0} /\ MaxFaults \in Nat
    /\ Open \notin Nat
    /\ NoJob \notin [at : {"upsert", "close", "return"}, tenant : UNION Writers, asof : Nat,
                     open : SUBSET Symbols, close : SUBSET Symbols]

\* A shared table has one writer.  With other tenants in it, a NULL tenant reads, and
\* closes, the rows of all of them.
ASSUME SharedAloneAssumption == \A w \in Writers : NoTenant \in w => w = {NoTenant}

VARIABLES
    tenants,  \* the tenants that write to the table
    feed,     \* feed[t][d]: the constituents of the d-th day whose list is tried
    rows,     \* universe_membership
    job,
    applied,  \* applied[t]: the days whose apply_snapshot has returned
    faults

vars == <<tenants, feed, rows, job, applied, faults>>

Days == 1..MaxLists

Row(t, s, from, to) == [tenant |-> t, symbol |-> s, from |-> from, to |-> to]

\* The filter on the tenant is left out for a NULL tenant.
Visible(r, t) == t = NoTenant \/ r.tenant = t

\* The interval is half-open.
After(r, d) == r.to = Open \/ r.to > d

\* fetch_intervals, then members_on.
MembersOn(rs, t, d) == {r.symbol : r \in {q \in rs : Visible(q, t) /\ q.from <= d /\ After(q, d)}}

Init ==
    /\ tenants \in Writers
    /\ feed = [t \in tenants |-> <<>>]
    /\ rows = {}
    /\ job = [j \in Jobs |-> NoJob]
    /\ applied = [t \in tenants |-> {}]
    /\ faults = 0
-----------------------------------------------------------------------------
OpenNow(t) == {r.symbol : r \in {q \in rows : Visible(q, t) /\ q.to = Open}}

Working(t) == {j \in Jobs : job[j] # NoJob /\ job[j].tenant = t}

Apply(j, t, d, list) ==
    job' = [job EXCEPT ![j] = [at |-> "upsert", tenant |-> t, asof |-> d,
                               open |-> list \ OpenNow(t), close |-> OpenNow(t) \ list]]

\* apply_snapshot for a new day, when the jobs of earlier days have ended.
Read(j) ==
    /\ job[j] = NoJob
    /\ Cardinality({p \in tenants \X Days : p[2] \in DOMAIN feed[p[1]]}) < MaxLists
    /\ \E t \in tenants : \E list \in SUBSET Symbols :
          /\ Working(t) = {}
          /\ feed' = [feed EXCEPT ![t] = Append(@, list)]
          /\ Apply(j, t, Len(feed[t]) + 1, list)
    /\ UNCHANGED <<tenants, rows, applied, faults>>

\* The latest list once more, maybe while it is being applied.
ReadAgain(j) ==
    /\ job[j] = NoJob
    /\ \E t \in tenants : feed[t] # <<>> /\ Apply(j, t, Len(feed[t]), feed[t][Len(feed[t])])
    /\ UNCHANGED <<tenants, feed, rows, applied, faults>>

\* uq_universe_membership_interval; two NULL tenants are distinct.
Conflicts(r, t, s, d) == t # NoTenant /\ r.tenant = t /\ r.symbol = s /\ r.from = d

\* On conflict valid_to is set to that of the new row.
Upserted(t, ss, d) ==
    {r \in rows : ~\E s \in ss : Conflicts(r, t, s, d)} \cup {Row(t, s, d, Open) : s \in ss}

Upsert(j) ==
    /\ job[j] # NoJob /\ job[j].at = "upsert"
    /\ rows' = Upserted(job[j].tenant, job[j].open, job[j].asof)
    /\ job' = [job EXCEPT ![j].at = "close"]
    /\ UNCHANGED <<tenants, feed, applied, faults>>

\* Mutant: the closed intervals of the symbol are closed again.
ClosedAll(t, ss, d) ==
    {IF r.symbol \in ss /\ Visible(r, t) THEN [r EXCEPT !.to = d] ELSE r : r \in rows}

\* Mutant: the tenant is not asked for.
ClosedForAll(t, ss, d) ==
    {IF r.symbol \in ss /\ r.to = Open THEN [r EXCEPT !.to = d] ELSE r : r \in rows}

Closed(t, ss, d) ==
    {IF r.symbol \in ss /\ r.to = Open /\ Visible(r, t) THEN [r EXCEPT !.to = d] ELSE r : r \in rows}

Close(j) ==
    /\ job[j] # NoJob /\ job[j].at = "close"
    /\ rows' = Closed(job[j].tenant, job[j].close, job[j].asof)
    /\ job' = [job EXCEPT ![j].at = "return"]
    /\ UNCHANGED <<tenants, feed, applied, faults>>

Return(j) ==
    /\ job[j] # NoJob /\ job[j].at = "return"
    /\ applied' = [applied EXCEPT ![job[j].tenant] = @ \cup {job[j].asof}]
    /\ job' = [job EXCEPT ![j] = NoJob]
    /\ UNCHANGED <<tenants, feed, rows, faults>>

\* The process ends, or a transaction fails, before, between or after the commits.
Die(j) ==
    /\ job[j] # NoJob
    /\ faults < MaxFaults
    /\ faults' = faults + 1
    /\ job' = [job EXCEPT ![j] = NoJob]
    /\ UNCHANGED <<tenants, feed, rows, applied>>

Next == \E j \in Jobs : Read(j) \/ ReadAgain(j) \/ Upsert(j) \/ Close(j) \/ Return(j) \/ Die(j)

Spec == Init /\ [][Next]_vars
-----------------------------------------------------------------------------
TypeOK ==
    /\ tenants \in Writers
    /\ feed \in [tenants -> Seq(SUBSET Symbols)]
    /\ rows \subseteq [tenant : tenants, symbol : Symbols, from : Nat, to : Nat \cup {Open}]
    /\ job \in [Jobs -> {NoJob} \cup
          [at : {"upsert", "close", "return"}, tenant : tenants, asof : Nat,
           open : SUBSET Symbols, close : SUBSET Symbols]]
    /\ applied \in [tenants -> SUBSET Nat]
    /\ faults \in Nat

\* Once a list has been applied the table answers with it for its day, for good, whatever
\* dies, is repeated or runs twice (ingestion.py:148-153: re-applying "opens/closes nothing").
HistoryFaithful ==
    \A t \in tenants : \A d \in applied[t] : MembersOn(rows, t, d) = feed[t][d]

\* A job of one tenant does not change what another tenant's backtests read
\* (ingestion.py:125-126).
TenantsApart ==
    [][\A j \in Jobs : \A t \in tenants :
          job[j] # NoJob /\ job'[j] # job[j] /\ NoTenant \notin {t, job[j].tenant} /\ t # job[j].tenant
              => \A d \in Days : MembersOn(rows', t, d) = MembersOn(rows, t, d)]_vars
=============================================================================
