--------------------------- MODULE UniverseRefresh ---------------------------
(***************************************************************************)
(* The periodic refresh of a live dynamic universe, for one deployment:    *)
(* run_universe_refresh (universe_driver.py), run_refresh_tick and         *)
(* PostgresAdvisoryLock (universe_scheduler.py), and the rows they write   *)
(* (universe_persistence.py), under app/services/execution.                *)
(*                                                                         *)
(* Every replica runs the job.  A job loads the active members, tries the  *)
(* advisory lock, resolves, writes its audit row and the member rows, and  *)
(* releases the lock.  Nothing in it commits: the caller does, after the   *)
(* lock is gone.  Transactions are READ COMMITTED, a written row is locked *)
(* until the transaction ends, and a row object that the session already   *)
(* holds is not refreshed by a later SELECT.  An UPDATE sets the columns   *)
(* that differ from the row as it was read.                                *)
(*                                                                         *)
(* The flushes of the spawned and of the retired rows are one step: they   *)
(* touch different rows, and both are invisible until the commit.          *)
(***************************************************************************)
EXTENDS Integers, FiniteSets

CONSTANTS
    Replicas,
    Symbols,
    Memberships,   \* what a resolution may return
    HoldUntilExit, \* removal_policy = "hold_until_exit"
    ForceAllowed,  \* jobs may be forced past the cadence gate
    None,
    Keep,          \* a column the UPDATE does not touch
    LastTick,      \* bound: instants of the cadence
    MaxFailures    \* bound: crashes and errors

ASSUME RefreshAssumption ==
    /\ IsFiniteSet(Replicas) /\ None \notin Replicas
    /\ Memberships \subseteq SUBSET Symbols
    /\ {HoldUntilExit, ForceAllowed} \subseteq BOOLEAN
    /\ LastTick \in Nat \ {0} /\ MaxFailures \in Nat
    /\ Keep \notin Nat \cup {"active", "retiring", "retired", None}
    /\ {Keep, None} \cap [asof : 1..LastTick, members : Memberships] = {}

VARIABLES
    tick,     \* the clock, in instants of the cadence
    lock,     \* session that holds the advisory lock of the deployment, or None
    rows,     \* universe_members, committed
    snaps,    \* universe_snapshots, committed
    job,      \* per replica: the job and its open transaction
    failures

vars == <<tick, lock, rows, snaps, job, failures>>

NoRow == [status |-> "none", capital |-> 0, hash |-> None]

Idle == [pc |-> "idle", asof |-> 0, loaded |-> [s \in {} |-> NoRow], members |-> {},
         audit |-> {}, seen |-> [s \in {} |-> NoRow], writes |-> [s \in {} |-> NoRow]]

Init ==
    /\ tick = 1
    /\ lock = None
    /\ rows = [s \in Symbols |-> NoRow]
    /\ snaps = {}
    /\ job = [r \in Replicas |-> Idle]
    /\ failures = 0
-----------------------------------------------------------------------------
(* The gate and the load: they come before the lock.                       *)

Fired(t) == \E n \in snaps : n.asof >= t

\* load_active_members(include_retiring=False).
ActiveMembers == {s \in Symbols : rows[s].status = "active"}

\* should_fire: the caller passes as last_fired_at the last refresh on record.
Load(r, force) ==
    /\ job[r].pc = "idle"
    /\ force \/ ~Fired(tick)
    /\ job' = [job EXCEPT ![r] = [Idle EXCEPT !.pc = "loaded", !.asof = tick,
                                              !.loaded = [s \in ActiveMembers |-> rows[s]]]]
    /\ UNCHANGED <<tick, lock, rows, snaps, failures>>
-----------------------------------------------------------------------------
(* The lock: pg_try_advisory_lock does not wait.                           *)

\* Mutant: the answer of pg_try_advisory_lock is not looked at.
Granted == TRUE

Acquired == lock = None

TryLock(r) ==
    /\ job[r].pc = "loaded"
    /\ Acquired
    /\ lock' = r
    /\ job' = [job EXCEPT ![r].pc = "locked"]
    /\ UNCHANGED <<tick, rows, snaps, failures>>

\* Another replica is resolving: fired=False.
SkipTick(r) ==
    /\ job[r].pc = "loaded"
    /\ ~Acquired
    /\ job' = [job EXCEPT ![r] = Idle]
    /\ UNCHANGED <<tick, lock, rows, snaps, failures>>

Resolve(r, members) ==
    /\ job[r].pc = "locked"
    /\ job' = [job EXCEPT ![r].pc = "resolved", ![r].members = members]
    /\ UNCHANGED <<tick, lock, rows, snaps, failures>>
-----------------------------------------------------------------------------
(* The audit row: persist_snapshot reads, and inserts what is not there.   *)

Snapshot(r) == [asof |-> job[r].asof, members |-> job[r].members]

\* Mutant: the resolution is not recorded.
NoAudit(r) == {}

\* An audit row that is on record is not written again.
AuditRows(r) == {Snapshot(r)} \ snaps

ReadAudit(r) ==
    /\ job[r].pc = "resolved"
    /\ job' = [job EXCEPT ![r].pc = "checked", ![r].audit = AuditRows(r)]
    /\ UNCHANGED <<tick, lock, rows, snaps, failures>>

\* Inserted and not committed: an insert of the same key waits for the outcome.
PendingAudit(r) == UNION {job[o].audit : o \in {x \in Replicas \ {r} : job[x].pc # "checked"}}

InsertAudit(r) ==
    /\ job[r].pc = "checked"
    /\ job[r].audit \cap (snaps \cup PendingAudit(r)) = {}
    /\ job' = [job EXCEPT ![r].pc = "audited"]
    /\ UNCHANGED <<tick, lock, rows, snaps, failures>>
-----------------------------------------------------------------------------
(* The member rows: apply_membership_diff reads all of them, and its flush *)
(* writes what the diff changes.                                           *)

\* diff_membership.
ToSpawn(r) == job[r].members \ DOMAIN job[r].loaded

ToRetire(r) == DOMAIN job[r].loaded \ job[r].members

\* The rows of the retired are the objects loaded before the lock.
ReadMembers(r) ==
    /\ job[r].pc = "audited"
    /\ job' = [job EXCEPT ![r].pc = "read", ![r].seen = [s \in ToSpawn(r) |-> rows[s]]]
    /\ UNCHANGED <<tick, lock, rows, snaps, failures>>

Changed(old, new) == IF old = new THEN Keep ELSE new

\* Mutant: a row on record keeps its status.
SpawnRecorded(row, hash) ==
    [status |-> IF row = NoRow THEN "active" ELSE Keep, capital |-> Keep, hash |-> Changed(row.hash, hash)]

\* The row of a member that was read as active keeps the status it has by the commit.
SpawnWrite(row, hash) ==
    [status |-> Changed(row.status, "active"), capital |-> Keep, hash |-> Changed(row.hash, hash)]

\* Mutant: the policy is not looked at, the row is retired with its capital.
RetireHeld(row) == [status |-> "retired", capital |-> Keep, hash |-> Keep]

RetireWrite(row) ==
    IF HoldUntilExit /\ row.capital > 0
    THEN [status |-> "retiring", capital |-> Keep, hash |-> Keep]
    ELSE [status |-> "retired", capital |-> Changed(row.capital, 0), hash |-> Keep]

WriteOf(r, s) ==
    IF s \in ToSpawn(r) THEN SpawnWrite(job[r].seen[s], Snapshot(r)) ELSE RetireWrite(job[r].loaded[s])

\* A row none of whose columns changes is not written.
ToWrite(r) ==
    {s \in ToSpawn(r) \cup ToRetire(r) : \E column \in {"status", "hash"} : WriteOf(r, s)[column] # Keep}

\* Rows a transaction has written wait for its end.
LockedRows(r) == UNION {DOMAIN job[o].writes : o \in Replicas \ {r}}

\* Rows that were not there, and are by now.
Taken(r) == {s \in DOMAIN job[r].seen : job[r].seen[s] = NoRow /\ rows[s] # NoRow}

Apply(r) ==
    /\ job[r].pc = "read"
    /\ ToWrite(r) \cap LockedRows(r) = {}
    /\ Taken(r) = {}
    /\ job' = [job EXCEPT ![r].pc = "applied", ![r].writes = [s \in ToWrite(r) |-> WriteOf(r, s)]]
    /\ UNCHANGED <<tick, lock, rows, snaps, failures>>

Unlock(r) ==
    /\ job[r].pc = "applied"
    /\ lock' = None
    /\ job' = [job EXCEPT ![r].pc = "returned"]
    /\ UNCHANGED <<tick, rows, snaps, failures>>
-----------------------------------------------------------------------------
(* The end of the transaction, in the caller.                              *)

Written(row, w) ==
    [status  |-> IF w.status = Keep THEN row.status ELSE w.status,
     capital |-> IF w.capital = Keep THEN row.capital ELSE w.capital,
     hash    |-> IF w.hash = Keep THEN row.hash ELSE w.hash]

Commit(r) ==
    /\ job[r].pc = "returned"
    /\ rows' = [s \in Symbols |-> IF s \in DOMAIN job[r].writes
                                  THEN Written(rows[s], job[r].writes[s]) ELSE rows[s]]
    /\ snaps' = snaps \cup job[r].audit
    /\ job' = [job EXCEPT ![r] = Idle]
    /\ UNCHANGED <<tick, lock, failures>>

\* Mutant: the lock is released on the way out only if the job succeeded.
LockKept(r) == lock

LockAfterFailure(r) == IF lock = r THEN None ELSE lock

\* An error or the end of the process: the transaction is rolled back, and the
\* lock is released, by the finally clause or with the connection.
Abandon(r) ==
    /\ lock' = LockAfterFailure(r)
    /\ job' = [job EXCEPT ![r] = Idle]
    /\ UNCHANGED <<tick, rows, snaps>>

Fail(r) ==
    /\ job[r].pc # "idle"
    /\ failures < MaxFailures
    /\ failures' = failures + 1
    /\ Abandon(r)

\* The insert fails on a unique key that another job has committed since the read,
\* and with it the job.
KeyTaken(r) ==
    /\ \/ job[r].pc = "checked" /\ job[r].audit \cap snaps # {}
       \/ job[r].pc = "read" /\ Taken(r) # {}
    /\ Abandon(r)
    /\ UNCHANGED failures
-----------------------------------------------------------------------------
\* set_member_allocation: the capital an admission locked or an exit freed, in a
\* transaction of its own.  The portfolio admits only members, and a member on its
\* way out is only closed: its caller never stamps a row outside those states.
SetAllocation(s, amount) ==
    /\ rows[s].status \in {"active", "retiring"}
    /\ rows[s].capital # amount
    /\ rows[s].status = "retiring" => amount = 0
    /\ \A r \in Replicas : s \notin DOMAIN job[r].writes
    /\ rows' = [rows EXCEPT ![s].capital = amount]
    /\ UNCHANGED <<tick, lock, snaps, job, failures>>

NextTick ==
    /\ tick < LastTick
    /\ tick' = tick + 1
    /\ UNCHANGED <<lock, rows, snaps, job, failures>>

Step(r) ==
    \/ \E force \in {FALSE, ForceAllowed} : Load(r, force)
    \/ TryLock(r)
    \/ SkipTick(r)
    \/ \E members \in Memberships : Resolve(r, members)
    \/ ReadAudit(r)
    \/ InsertAudit(r)
    \/ ReadMembers(r)
    \/ Apply(r)
    \/ Unlock(r)
    \/ Commit(r)
    \/ KeyTaken(r)

Next ==
    \/ \E r \in Replicas : Step(r) \/ Fail(r)
    \/ \E s \in Symbols, amount \in {0, 1} : SetAllocation(s, amount)
    \/ NextTick

Spec == Init /\ [][Next]_vars

\* The scheduler keeps starting jobs and a job that runs gets on; failures, the
\* clock and the market are not fair.  The capital of a member on its way out is
\* eventually freed by its own exit.
FairSpec ==
    /\ Spec
    /\ \A r \in Replicas : WF_vars(Step(r))
    /\ \A s \in Symbols : SF_vars(rows[s].status = "retiring" /\ SetAllocation(s, 0))
-----------------------------------------------------------------------------
Row == [status : {"none", "active", "retiring", "retired"}, capital : {0, 1},
        hash : [asof : 1..LastTick, members : Memberships] \cup {None}]

TypeOK ==
    /\ tick \in 1..LastTick
    /\ lock \in Replicas \cup {None}
    /\ rows \in [Symbols -> Row]
    /\ snaps \subseteq [asof : 1..LastTick, members : Memberships]
    /\ \A r \in Replicas :
          /\ job[r].pc \in {"idle", "loaded", "locked", "resolved", "checked", "audited", "read",
                            "applied", "returned"}
          /\ DOMAIN job[r].loaded \subseteq Symbols
          /\ DOMAIN job[r].seen \subseteq Symbols
          /\ DOMAIN job[r].writes \subseteq Symbols

\* At most one replica resolves and writes, and the lock is the one it holds
\* (universe_scheduler.py:83-84).
InTick(r) == job[r].pc \in {"locked", "resolved", "checked", "audited", "read", "applied"}

OneResolver == \A r, o \in Replicas : InTick(r) /\ InTick(o) => r = o

\* Every member row is tied to a resolution on record that admitted the symbol
\* (app/db/models/universe.py:88-89), whatever was rolled back.
MembersAudited ==
    \A s \in Symbols : rows[s].status # "none" =>
        rows[s].hash \in snaps /\ s \in rows[s].hash.members

Active == {s \in Symbols : rows[s].status = "active"}

\* What the job has read as active, at its load or for its diff.
HadActive(r) == {s \in DOMAIN job[r].loaded : job[r].loaded[s].status = "active"}
                \cup {s \in DOMAIN job[r].seen : job[r].seen[s].status = "active"}

\* A job that commits leaves active what it resolved, whoever failed, repeated or
\* skipped a tick before it.  Two things excuse a difference, both of another job's
\* making: a member too many is one that was not there at the load and has been
\* committed since; a member too few is one the job had read as active, and so did
\* not write, that has been taken out since (universe_persistence.py:159-194).
CommitsItsResolution ==
    [][\A r \in Replicas :
          job[r].pc = "returned" /\ job'[r].pc = "idle" /\ failures' = failures =>
             /\ Active' \ job[r].members \subseteq Active \ DOMAIN job[r].loaded
             /\ job[r].members \ Active' \subseteq HadActive(r) \ Active]_vars

HeldWhenRetired(s) == rows[s].status = "retired" /\ rows[s].capital > 0

\* "retired (flat)" (app/db/models/universe.py:87-88): no step leaves a retired member
\* with capital, stamps during a job included, but for one case: the job had loaded the
\* row without capital, and an admission has stamped it before the commit.
FlatUnlessStamped ==
    [][\A s \in Symbols : HeldWhenRetired(s)' /\ ~HeldWhenRetired(s) =>
          \E r \in Replicas :
             /\ job[r].pc = "returned" /\ job'[r].pc = "idle"
             /\ s \in DOMAIN job[r].loaded
             /\ job[r].loaded[s].capital = 0
             /\ rows[s].capital > 0]_vars

\* A cadence instant that passed is recorded by a refresh then or later, whatever
\* fails and whoever skips: the lock does not stay behind
\* (docs/dynamic-universe-phase-d.md:34-35).
EveryTickServed == \A t \in 1..LastTick : (tick = t) ~> Fired(t)

\* "the advisory lock guarantees one fire per tick; others skip"
\* (docs/dynamic-universe-phase-d.md:33).
OneFirePerTick == \A n, m \in snaps : n.asof = m.asof => n = m

\* "exactly ONE replica fires the tick (no double-spawn under multi-replica)"
\* (universe_scheduler.py:6-7): between ticks the active members are those of a
\* resolution.
NoDoubleSpawn ==
    snaps # {} /\ (\A r \in Replicas : job[r].pc = "idle") => \E n \in snaps : Active = n.members

\* "retired (flat)" (app/db/models/universe.py:87-88), whenever capital is stamped.
RetiredIsFlat == \A s \in Symbols : ~HeldWhenRetired(s)

\* "Spawned symbols are upserted to active" (universe_persistence.py:146).
SpawnedIsActive ==
    [][\A r \in Replicas :
          job[r].pc = "returned" /\ job'[r].pc = "idle" /\ failures' = failures =>
             ToSpawn(r) \subseteq Active']_vars

\* "active -> retiring (dropped from the universe, squaring off) -> retired (flat)"
\* (app/db/models/universe.py:87-88): a member that is squaring off gets retired.
RetiringIsRetired ==
    \A s \in Symbols : (rows[s].status = "retiring") ~> (rows[s].status # "retiring")
=============================================================================
