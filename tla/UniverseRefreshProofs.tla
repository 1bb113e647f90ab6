------------------------ MODULE UniverseRefreshProofs ------------------------
(***************************************************************************)
(* Proofs about UniverseRefresh for every set of replicas and symbols,     *)
(* every resolution, both removal policies and any number of instants and  *)
(* failures.                                                               *)
(***************************************************************************)
EXTENDS UniverseRefresh, TLAPS

Snap == [asof : 1..LastTick, members : Memberships]

Write == [status : {"active", "retiring", "retired", Keep}, capital : {0, Keep}, hash : Snap \cup {Keep}]

\* Rows a job has read, and rows it has written.
Reads == UNION {[S -> Row] : S \in SUBSET Symbols}

Updates == UNION {[S -> Write] : S \in SUBSET Symbols}

Job == [pc : {"idle", "loaded", "locked", "resolved", "checked", "audited", "read", "applied", "returned"},
        asof : 0..LastTick,
        loaded : Reads,
        members : Memberships \cup {{}},
        audit : SUBSET Snap,
        seen : Reads,
        writes : Updates]

\* The types, of the jobs too.
TypeInv ==
    /\ tick \in 1..LastTick
    /\ lock \in Replicas \cup {None}
    /\ rows \in [Symbols -> Row]
    /\ snaps \subseteq Snap
    /\ job \in [Replicas -> Job]
    /\ failures \in Nat

\* A replica is inside a tick exactly while it holds the lock.
LockInv == \A r \in Replicas : InTick(r) <=> lock = r

\* A symbol that never was a member has a blank row.
BlankInv == \A s \in Symbols : rows[s].status = "none" => rows[s].hash = None

\* What a job has loaded was active, and a row on record stays.
LoadInv(r) ==
    /\ job[r].pc # "idle" => job[r].asof \in 1..LastTick
    /\ \A s \in DOMAIN job[r].loaded : job[r].loaded[s].status = "active" /\ rows[s].status # "none"

\* A job past the resolver has a membership; past the read of the audit row, the
\* resolution is on record or commits with the job.
AuditInv(r) ==
    /\ job[r].pc \notin {"idle", "loaded", "locked"} => job[r].members \in Memberships
    /\ job[r].pc \notin {"idle", "loaded", "locked", "resolved"} => Snapshot(r) \in snaps \cup job[r].audit

\* What a job has read of the rows of the spawned.
SeenInv(r) ==
    /\ job[r].pc \in {"read", "applied", "returned"} => DOMAIN job[r].seen = ToSpawn(r)
    /\ \A s \in DOMAIN job[r].seen :
          IF job[r].seen[s].status = "none" THEN job[r].seen[s].hash = None ELSE rows[s].status # "none"

\* A pending write that keeps a column is of a row on record; one that sets the hash
\* sets that of a snapshot that admits the symbol, and is on record or commits with
\* it; one that retires empties the row, or the job had loaded it empty.
WriteInv(r, s) ==
    LET w == job[r].writes[s]
    IN  /\ w.status = Keep \/ w.hash = Keep => rows[s].status # "none"
        /\ w.hash # Keep => w.hash \in snaps \cup job[r].audit /\ s \in w.hash.members
        /\ w.status = "retired" =>
              s \in DOMAIN job[r].loaded /\ (w.capital = 0 \/ job[r].loaded[s].capital = 0)

WritesInv(r) ==
    /\ job[r].pc \notin {"applied", "returned"} => DOMAIN job[r].writes = {}
    /\ \A s \in DOMAIN job[r].writes : WriteInv(r, s)

\* The writes are the difference between the members resolved and the rows loaded,
\* but for the status of a row that was read as active.
PlanInv(r) ==
    job[r].pc \in {"applied", "returned"} =>
        /\ \A s \in ToRetire(r) :
              s \in DOMAIN job[r].writes /\ job[r].writes[s].status \in {"retiring", "retired"}
        /\ \A s \in ToSpawn(r) :
              \/ s \in DOMAIN job[r].writes /\ job[r].writes[s].status = "active"
              \/ /\ job[r].seen[s].status = "active"
                 /\ s \in DOMAIN job[r].writes => job[r].writes[s].status = Keep
        /\ DOMAIN job[r].writes \subseteq ToSpawn(r) \cup ToRetire(r)

JobInv(r) == LoadInv(r) /\ AuditInv(r) /\ SeenInv(r) /\ WritesInv(r) /\ PlanInv(r)

IInv == TypeInv /\ LockInv /\ BlankInv /\ MembersAudited /\ \A r \in Replicas : JobInv(r)

\* The marker of an untouched column is none of the values a column can have.
LEMMA KeepIsApart ==
    /\ Keep \notin {0, 1, None, "active", "retiring", "retired"}
    /\ Keep \notin Snap /\ None \notin Snap
  BY RefreshAssumption DEF Snap

LEMMA NoneIsNoReplica == None \notin Replicas
  BY RefreshAssumption

\* Functions on sets of symbols are reads and updates.
LEMMA ReadsAndUpdates ==
    ASSUME NEW S, S \subseteq Symbols
    PROVE  [S -> Row] \subseteq Reads /\ [S -> Write] \subseteq Updates
  BY DEF Reads, Updates

LEMMA IdleIsAJob ==
    /\ Idle \in Job /\ Idle.pc = "idle"
    /\ DOMAIN Idle.loaded = {} /\ DOMAIN Idle.seen = {} /\ DOMAIN Idle.writes = {}
<1>1. [s \in {} |-> NoRow] \in [{} -> Row] /\ [s \in {} |-> NoRow] \in [{} -> Write]
  OBVIOUS
<1>2. [s \in {} |-> NoRow] \in Reads /\ [s \in {} |-> NoRow] \in Updates
  BY <1>1, ReadsAndUpdates
<1>3. 0 \in 0..LastTick
  BY RefreshAssumption
<1> HIDE DEF NoRow
<1> QED
  BY <1>2, <1>3 DEF Idle, Job

\* A job that is over, or has not begun, owes nothing.
LEMMA IdleOwesNothing ==
    ASSUME NEW r \in Replicas, job[r] = Idle
    PROVE  JobInv(r)
  BY IdleIsAJob DEF JobInv, LoadInv, AuditInv, SeenInv, WritesInv, PlanInv

LEMMA InitEstablishes == Init => IInv
<1> SUFFICES ASSUME Init PROVE IInv
  OBVIOUS
<1>1. NoRow \in Row
  BY DEF NoRow, Row
<1>2. TypeInv
  BY <1>1, IdleIsAJob, RefreshAssumption DEF Init, TypeInv
<1>3. LockInv
  BY IdleIsAJob, NoneIsNoReplica DEF Init, LockInv, InTick
<1>4. MembersAudited /\ BlankInv
  BY DEF Init, MembersAudited, BlankInv, NoRow
<1>5. \A r \in Replicas : JobInv(r)
  BY IdleOwesNothing DEF Init
<1> QED
  BY <1>2, <1>3, <1>4, <1>5 DEF IInv

\* What a job relies on is kept by a step that leaves the job alone: rows on record
\* stay, and so do snapshots.
LEMMA JobKept ==
    ASSUME TypeInv, NEW r \in Replicas, JobInv(r), job'[r] = job[r],
           snaps \subseteq snaps',
           \A s \in Symbols : rows[s].status # "none" => rows'[s].status # "none"
    PROVE  JobInv(r)'
<1>1. /\ DOMAIN job[r].loaded \subseteq Symbols
      /\ DOMAIN job[r].seen \subseteq Symbols
      /\ DOMAIN job[r].writes \subseteq Symbols
  BY DEF TypeInv, Job, Reads, Updates
<1>2. Snapshot(r)' = Snapshot(r) /\ ToSpawn(r)' = ToSpawn(r) /\ ToRetire(r)' = ToRetire(r)
  BY DEF Snapshot, ToSpawn, ToRetire
<1>3. LoadInv(r)'
  BY <1>1 DEF JobInv, LoadInv
<1>4. AuditInv(r)' /\ PlanInv(r)'
  BY <1>2 DEF JobInv, AuditInv, PlanInv
<1>5. SeenInv(r)'
  BY <1>1, <1>2 DEF JobInv, SeenInv
<1>6. WritesInv(r)'
  <2>1. \A s \in DOMAIN job[r].writes : WriteInv(r, s)'
    BY <1>1 DEF JobInv, WritesInv, WriteInv
  <2> QED
    BY <2>1 DEF JobInv, WritesInv
<1> QED
  BY <1>3, <1>4, <1>5, <1>6 DEF JobInv

\* A step of one job that leaves the tables alone.
LEMMA OneJobSteps ==
    ASSUME IInv, NEW r \in Replicas, NEW j \in Job, job' = [job EXCEPT ![r] = j],
           UNCHANGED <<tick, rows, snaps>>, failures' \in Nat,
           lock' \in Replicas \cup {None}, JobInv(r)',
           InTick(r)' <=> lock' = r,
           lock' = lock \/ {lock, lock'} = {r, None}
    PROVE  IInv'
<1>0. TypeInv /\ LockInv
  BY DEF IInv
<1>1. job' \in [Replicas -> Job] /\ job'[r] = j /\ \A o \in Replicas : o # r => job'[o] = job[o]
  BY <1>0 DEF TypeInv
<1>2. TypeInv'
  BY <1>0, <1>1 DEF TypeInv
<1>3. LockInv'
  <2> SUFFICES ASSUME NEW o \in Replicas, o # r PROVE InTick(o)' <=> lock' = o
    BY DEF LockInv
  <2>1. InTick(o)' <=> InTick(o)
    BY <1>1 DEF InTick
  <2> QED
    BY <1>0, <2>1, NoneIsNoReplica DEF LockInv
<1>4. BlankInv' /\ MembersAudited'
  BY DEF IInv, BlankInv, MembersAudited
<1>5. \A o \in Replicas : JobInv(o)'
  <2> SUFFICES ASSUME NEW o \in Replicas, o # r PROVE JobInv(o)'
    OBVIOUS
  <2> QED
    BY <1>0, <1>1, JobKept DEF IInv
<1> QED
  BY <1>2, <1>3, <1>4, <1>5 DEF IInv

\* The load is of rows on record.
LEMMA LoadPreserves ==
    ASSUME IInv, NEW r \in Replicas, NEW force \in BOOLEAN, Load(r, force)
    PROVE  IInv'
<1>0. TypeInv /\ LockInv
  BY DEF IInv
<1> DEFINE load == [s \in ActiveMembers |-> rows[s]]
           j == [Idle EXCEPT !.pc = "loaded", !.asof = tick, !.loaded = load]
<1>1. load \in Reads
  <2>1. load \in [ActiveMembers -> Row] /\ ActiveMembers \subseteq Symbols
    BY <1>0 DEF ActiveMembers, TypeInv
  <2> QED
    BY <2>1, ReadsAndUpdates
<1>2. \A s \in DOMAIN load : load[s].status = "active" /\ rows[s].status # "none"
  BY DEF ActiveMembers
<1> HIDE DEF load
<1>3. /\ j \in Job
      /\ j.pc = "loaded" /\ j.asof = tick /\ j.loaded = load
      /\ j.seen = Idle.seen /\ j.writes = Idle.writes
  <2>1. tick \in 0..LastTick
    BY <1>0, RefreshAssumption DEF TypeInv
  <2> QED
    BY <1>1, <2>1, IdleIsAJob DEF Job, Idle
<1>4. job' = [job EXCEPT ![r] = j] /\ UNCHANGED <<tick, lock, rows, snaps, failures>> /\ job[r].pc = "idle"
  BY DEF Load, load
<1> HIDE DEF j
<1>5. job'[r] = j
  BY <1>0, <1>4 DEF TypeInv
<1>6. JobInv(r)'
  BY <1>0, <1>2, <1>3, <1>4, <1>5, IdleIsAJob
     DEF JobInv, LoadInv, AuditInv, SeenInv, WritesInv, PlanInv, TypeInv
<1>7. InTick(r)' <=> lock' = r
  BY <1>0, <1>3, <1>4, <1>5 DEF InTick, LockInv
<1> QED
  BY <1>0, <1>3, <1>4, <1>6, <1>7, OneJobSteps DEF TypeInv

\* The steps that only move a job to its next point.
LEMMA MovePreserves ==
    ASSUME IInv, NEW r \in Replicas, TryLock(r) \/ InsertAudit(r) \/ Unlock(r)
    PROVE  IInv'
<1>0. TypeInv /\ LockInv /\ job[r] \in Job /\ JobInv(r)
  BY DEF IInv, TypeInv
<1>1. PICK p \in {"locked", "audited", "returned"} : job' = [job EXCEPT ![r].pc = p]
  BY DEF TryLock, InsertAudit, Unlock
<1> DEFINE j == [job[r] EXCEPT !.pc = p]
<1>2. /\ j \in Job
      /\ j.pc = p /\ j.asof = job[r].asof /\ j.loaded = job[r].loaded /\ j.members = job[r].members
      /\ j.audit = job[r].audit /\ j.seen = job[r].seen /\ j.writes = job[r].writes
  BY <1>0 DEF Job
<1>3. job' = [job EXCEPT ![r] = j] /\ UNCHANGED <<tick, rows, snaps, failures>>
  BY <1>0, <1>1 DEF TypeInv, TryLock, InsertAudit, Unlock
<1> HIDE DEF j
<1>4. job'[r] = j
  BY <1>0, <1>3 DEF TypeInv
<1>5. \/ job[r].pc = "loaded" /\ p = "locked" /\ lock = None /\ lock' = r
      \/ job[r].pc = "checked" /\ p = "audited" /\ lock' = lock
      \/ job[r].pc = "applied" /\ p = "returned" /\ lock' = None
  <2>1. job \in [Replicas -> Job]
    BY <1>0 DEF TypeInv
  <2>2. CASE TryLock(r)
    <3>1. job'[r].pc = "locked"
      BY <1>0, <2>1, <2>2 DEF TryLock, Job
    <3> QED
      BY <1>2, <1>4, <2>2, <3>1 DEF TryLock, Acquired
  <2>3. CASE InsertAudit(r)
    <3>1. job'[r].pc = "audited"
      BY <1>0, <2>1, <2>3 DEF InsertAudit, Job
    <3> QED
      BY <1>2, <1>4, <2>3, <3>1 DEF InsertAudit
  <2>4. CASE Unlock(r)
    <3>1. job'[r].pc = "returned"
      BY <1>0, <2>1, <2>4 DEF Unlock, Job
    <3> QED
      BY <1>2, <1>4, <2>4, <3>1 DEF Unlock
  <2> QED
    BY <2>2, <2>3, <2>4
<1>6. JobInv(r)'
  <2>1. Snapshot(r)' = Snapshot(r) /\ ToSpawn(r)' = ToSpawn(r) /\ ToRetire(r)' = ToRetire(r)
    BY <1>2, <1>4 DEF Snapshot, ToSpawn, ToRetire
  <2>2. LoadInv(r)' /\ WritesInv(r)'
    BY <1>0, <1>2, <1>3, <1>4, <1>5 DEF JobInv, LoadInv, WritesInv, WriteInv
  <2>3. AuditInv(r)' /\ SeenInv(r)' /\ PlanInv(r)'
    BY <1>0, <1>2, <1>3, <1>4, <1>5, <2>1 DEF JobInv, AuditInv, SeenInv, PlanInv
  <2> QED
    BY <2>2, <2>3 DEF JobInv
<1>7. InTick(r)' <=> lock' = r
  BY <1>0, <1>2, <1>4, <1>5, NoneIsNoReplica DEF InTick, LockInv
<1>8. lock' = lock \/ {lock, lock'} = {r, None}
  BY <1>0, <1>5 DEF InTick, LockInv
<1> QED
  BY <1>0, <1>2, <1>3, <1>5, <1>6, <1>7, <1>8, OneJobSteps DEF TypeInv

\* A job that ends without a commit: the skip, the failure and the key that is taken.
LEMMA DropPreserves ==
    ASSUME IInv, NEW r \in Replicas, SkipTick(r) \/ Fail(r) \/ KeyTaken(r)
    PROVE  IInv'
<1>0. TypeInv /\ LockInv
  BY DEF IInv
<1>1. job' = [job EXCEPT ![r] = Idle] /\ UNCHANGED <<tick, rows, snaps>> /\ failures' \in Nat
  BY <1>0 DEF SkipTick, Fail, KeyTaken, Abandon, TypeInv
<1>2. lock' = IF lock = r THEN None ELSE lock
  BY <1>0, NoneIsNoReplica DEF SkipTick, Fail, KeyTaken, Abandon, LockAfterFailure, LockInv, InTick
<1>3. job'[r] = Idle
  BY <1>0, <1>1 DEF TypeInv
<1>4. JobInv(r)'
  BY <1>3, IdleIsAJob DEF JobInv, LoadInv, AuditInv, SeenInv, WritesInv, WriteInv, PlanInv
<1>5. InTick(r)' <=> lock' = r
  BY <1>2, <1>3, IdleIsAJob, NoneIsNoReplica DEF InTick
<1> QED
  BY <1>0, <1>1, <1>2, <1>4, <1>5, IdleIsAJob, OneJobSteps DEF TypeInv

LEMMA ResolvePreserves ==
    ASSUME IInv, NEW r \in Replicas, NEW members \in Memberships, Resolve(r, members)
    PROVE  IInv'
<1>0. TypeInv /\ LockInv /\ job[r] \in Job /\ JobInv(r)
  BY DEF IInv, TypeInv
<1> DEFINE j == [job[r] EXCEPT !.pc = "resolved", !.members = members]
<1>1. /\ j \in Job
      /\ j.pc = "resolved" /\ j.asof = job[r].asof /\ j.loaded = job[r].loaded /\ j.members = members
      /\ j.audit = job[r].audit /\ j.seen = job[r].seen /\ j.writes = job[r].writes
  BY <1>0 DEF Job
<1>2. /\ job' = [job EXCEPT ![r] = j] /\ job[r].pc = "locked"
      /\ UNCHANGED <<tick, lock, rows, snaps, failures>>
  BY <1>0 DEF Resolve, TypeInv
<1> HIDE DEF j
<1>3. job'[r] = j
  BY <1>0, <1>2 DEF TypeInv
<1>4. JobInv(r)'
  BY <1>0, <1>1, <1>2, <1>3 DEF JobInv, LoadInv, AuditInv, SeenInv, WritesInv, WriteInv, PlanInv
<1>5. InTick(r)' <=> lock' = r
  BY <1>0, <1>1, <1>2, <1>3 DEF InTick, LockInv
<1> QED
  BY <1>0, <1>1, <1>2, <1>4, <1>5, OneJobSteps DEF TypeInv

\* The resolution is on record, or is about to be inserted.
LEMMA ReadAuditPreserves ==
    ASSUME IInv, NEW r \in Replicas, ReadAudit(r)
    PROVE  IInv'
<1>0. TypeInv /\ LockInv /\ job[r] \in Job /\ JobInv(r)
  BY DEF IInv, TypeInv
<1>1. Snapshot(r) \in Snap
  BY <1>0 DEF ReadAudit, JobInv, LoadInv, AuditInv, Snapshot, Snap
<1> DEFINE j == [job[r] EXCEPT !.pc = "checked", !.audit = AuditRows(r)]
<1>2. /\ j \in Job
      /\ j.pc = "checked" /\ j.asof = job[r].asof /\ j.loaded = job[r].loaded /\ j.members = job[r].members
      /\ j.audit = AuditRows(r) /\ j.seen = job[r].seen /\ j.writes = job[r].writes
  BY <1>0, <1>1 DEF Job, AuditRows
<1>3. /\ job' = [job EXCEPT ![r] = j] /\ job[r].pc = "resolved"
      /\ UNCHANGED <<tick, lock, rows, snaps, failures>>
  BY <1>0 DEF ReadAudit, TypeInv
<1> HIDE DEF j
<1>4. job'[r] = j
  BY <1>0, <1>3 DEF TypeInv
<1>5. JobInv(r)'
  <2>1. Snapshot(r)' = Snapshot(r) /\ Snapshot(r) \in snaps \cup AuditRows(r)
    BY <1>2, <1>4 DEF Snapshot, AuditRows
  <2>2. LoadInv(r)' /\ AuditInv(r)' /\ SeenInv(r)' /\ PlanInv(r)'
    BY <1>0, <1>2, <1>3, <1>4, <2>1 DEF JobInv, LoadInv, AuditInv, SeenInv, PlanInv
  <2>3. WritesInv(r)'
    BY <1>0, <1>2, <1>3, <1>4 DEF JobInv, WritesInv
  <2> QED
    BY <2>2, <2>3 DEF JobInv
<1>6. InTick(r)' <=> lock' = r
  BY <1>0, <1>2, <1>3, <1>4 DEF InTick, LockInv
<1> QED
  BY <1>0, <1>2, <1>3, <1>5, <1>6, OneJobSteps DEF TypeInv

\* The rows read for the diff are those of the spawned symbols.
LEMMA ReadMembersPreserves ==
    ASSUME IInv, NEW r \in Replicas, ReadMembers(r)
    PROVE  IInv'
<1>0. TypeInv /\ LockInv /\ BlankInv /\ job[r] \in Job /\ JobInv(r)
  BY DEF IInv, TypeInv
<1> DEFINE seen == [s \in ToSpawn(r) |-> rows[s]]
           j == [job[r] EXCEPT !.pc = "read", !.seen = seen]
<1>1. ToSpawn(r) \subseteq Symbols
  BY <1>0, RefreshAssumption DEF ReadMembers, JobInv, AuditInv, ToSpawn
<1>2. seen \in Reads
  <2>1. seen \in [ToSpawn(r) -> Row]
    BY <1>0, <1>1 DEF TypeInv
  <2> QED
    BY <1>1, <2>1, ReadsAndUpdates
<1>3. /\ DOMAIN seen = ToSpawn(r)
      /\ \A s \in DOMAIN seen :
            IF seen[s].status = "none" THEN seen[s].hash = None ELSE rows[s].status # "none"
  BY <1>0, <1>1 DEF BlankInv
<1>4. job' = [job EXCEPT ![r] = j] /\ job[r].pc = "audited" /\ UNCHANGED <<tick, lock, rows, snaps, failures>>
  BY <1>0 DEF ReadMembers, TypeInv
<1> HIDE DEF seen
<1>5. /\ j \in Job
      /\ j.pc = "read" /\ j.asof = job[r].asof /\ j.loaded = job[r].loaded /\ j.members = job[r].members
      /\ j.audit = job[r].audit /\ j.seen = seen /\ j.writes = job[r].writes
  BY <1>0, <1>2 DEF Job
<1> HIDE DEF j
<1>6. job'[r] = j
  BY <1>0, <1>4 DEF TypeInv
<1>7. JobInv(r)'
  <2>1. Snapshot(r)' = Snapshot(r) /\ ToSpawn(r)' = ToSpawn(r)
    BY <1>5, <1>6 DEF Snapshot, ToSpawn
  <2>2. LoadInv(r)' /\ AuditInv(r)' /\ WritesInv(r)' /\ PlanInv(r)'
    BY <1>0, <1>4, <1>5, <1>6, <2>1 DEF JobInv, LoadInv, AuditInv, WritesInv, PlanInv
  <2>3. SeenInv(r)'
    BY <1>3, <1>4, <1>5, <1>6, <2>1 DEF SeenInv
  <2> QED
    BY <2>2, <2>3 DEF JobInv
<1>8. InTick(r)' <=> lock' = r
  BY <1>0, <1>4, <1>5, <1>6 DEF InTick, LockInv
<1> QED
  BY <1>0, <1>4, <1>5, <1>7, <1>8, OneJobSteps DEF TypeInv

\* What the flush writes of one row, spawned or retired.
LEMMA WriteOfARow ==
    ASSUME IInv, NEW r \in Replicas, job[r].pc = "read", NEW s \in ToSpawn(r) \cup ToRetire(r)
    PROVE  LET w == WriteOf(r, s)
           IN  /\ w \in Write
               /\ w.status = Keep \/ w.hash = Keep => rows[s].status # "none"
               /\ w.hash # Keep => w.hash = Snapshot(r) /\ s \in w.hash.members
               /\ w.status = "retired" =>
                     s \in DOMAIN job[r].loaded /\ (w.capital = 0 \/ job[r].loaded[s].capital = 0)
               /\ s \in ToRetire(r) => w.status \in {"retiring", "retired"}
               /\ s \in ToSpawn(r) =>
                     \/ w.status = "active"
                     \/ w.status = Keep /\ job[r].seen[s].status = "active"
<1>0. TypeInv /\ job[r] \in Job /\ JobInv(r)
  BY DEF IInv, TypeInv
<1>1. Snapshot(r) \in Snap /\ Snapshot(r).members = job[r].members
  BY <1>0 DEF JobInv, LoadInv, AuditInv, Snapshot, Snap
<1>2. CASE s \in ToSpawn(r)
  <2> DEFINE row == job[r].seen[s]
  <2>1. s \notin ToRetire(r) /\ s \in Snapshot(r).members
    BY <1>1, <1>2 DEF ToSpawn, ToRetire
  <2>2. IF row.status = "none" THEN row.hash = None ELSE rows[s].status # "none"
    BY <1>0, <1>2 DEF JobInv, SeenInv
  <2>3. WriteOf(r, s) = SpawnWrite(row, Snapshot(r))
    BY <1>2 DEF WriteOf
  <2> HIDE DEF row
  <2> DEFINE w == SpawnWrite(row, Snapshot(r))
  <2>4. /\ w = [status |-> w.status, capital |-> Keep, hash |-> w.hash]
        /\ w.status = IF row.status = "active" THEN Keep ELSE "active"
        /\ w.hash = IF row.hash = Snapshot(r) THEN Keep ELSE Snapshot(r)
    BY DEF SpawnWrite, Changed
  <2> HIDE DEF w
  <2>5. w \in Write
    BY <1>1, <2>4 DEF Write
  <2>6. w.status = Keep \/ w.hash = Keep => rows[s].status # "none"
    BY <1>1, <2>2, <2>4, KeepIsApart
  <2> QED
    BY <1>1, <2>1, <2>3, <2>4, <2>5, <2>6, KeepIsApart DEF row, w
<1>3. CASE s \notin ToSpawn(r)
  <2> DEFINE row == job[r].loaded[s]
  <2>1. s \in ToRetire(r) /\ s \in DOMAIN job[r].loaded
    BY <1>3 DEF ToRetire
  <2>2. rows[s].status # "none"
    BY <1>0, <2>1 DEF JobInv, LoadInv
  <2>3. WriteOf(r, s) = RetireWrite(row)
    BY <1>3 DEF WriteOf
  <2> HIDE DEF row
  <2> DEFINE w == RetireWrite(row)
  <2>4. /\ w \in Write /\ w.hash = Keep /\ w.status \in {"retiring", "retired"}
        /\ w.status = "retired" => w.capital = 0 \/ row.capital = 0
    BY DEF RetireWrite, Changed, Write
  <2> HIDE DEF w
  <2> QED
    BY <1>3, <2>1, <2>2, <2>3, <2>4 DEF row, w
<1> QED
  BY <1>2, <1>3

\* A spawned row that the flush leaves out was read as active.
LEMMA LeftOutWasActive ==
    ASSUME IInv, NEW r \in Replicas, job[r].pc = "read", NEW s \in ToSpawn(r) \cup ToRetire(r),
           s \notin ToWrite(r)
    PROVE  s \in ToSpawn(r) /\ job[r].seen[s].status = "active"
<1>1. WriteOf(r, s).status = Keep
  BY DEF ToWrite
<1> QED
  BY <1>1, WriteOfARow, KeepIsApart

\* Every write of the transaction is well-formed and accounted for, and carries out
\* the plan.
LEMMA ApplyPreserves ==
    ASSUME IInv, NEW r \in Replicas, Apply(r)
    PROVE  IInv'
<1>0. TypeInv /\ LockInv /\ job[r] \in Job /\ JobInv(r) /\ job[r].pc = "read"
  BY DEF IInv, TypeInv, Apply
<1> DEFINE w == [s \in ToWrite(r) |-> WriteOf(r, s)]
           j == [job[r] EXCEPT !.pc = "applied", !.writes = w]
<1>1. ToWrite(r) \subseteq ToSpawn(r) \cup ToRetire(r) /\ ToSpawn(r) \cup ToRetire(r) \subseteq Symbols
  <2>1. DOMAIN job[r].loaded \subseteq Symbols /\ job[r].members \subseteq Symbols
    BY <1>0, RefreshAssumption DEF Job, Reads, JobInv, AuditInv
  <2> QED
    BY <2>1 DEF ToWrite, ToSpawn, ToRetire
<1>2. w \in Updates
  <2>1. w \in [ToWrite(r) -> Write]
    BY <1>0, <1>1, WriteOfARow
  <2> QED
    BY <1>1, <2>1, ReadsAndUpdates
<1>3. DOMAIN w = ToWrite(r) /\ \A s \in ToWrite(r) : w[s] = WriteOf(r, s)
  OBVIOUS
<1>4. job' = [job EXCEPT ![r] = j] /\ UNCHANGED <<tick, lock, rows, snaps, failures>>
  BY <1>0 DEF Apply, TypeInv
<1> HIDE DEF w
<1>5. /\ j \in Job
      /\ j.pc = "applied" /\ j.asof = job[r].asof /\ j.loaded = job[r].loaded /\ j.members = job[r].members
      /\ j.audit = job[r].audit /\ j.seen = job[r].seen /\ j.writes = w
  BY <1>0, <1>2 DEF Job
<1> HIDE DEF j
<1>6. job'[r] = j
  BY <1>0, <1>4 DEF TypeInv
<1>7. Snapshot(r)' = Snapshot(r) /\ ToSpawn(r)' = ToSpawn(r) /\ ToRetire(r)' = ToRetire(r)
  BY <1>5, <1>6 DEF Snapshot, ToSpawn, ToRetire
<1>8. LoadInv(r)' /\ AuditInv(r)' /\ SeenInv(r)'
  BY <1>0, <1>4, <1>5, <1>6, <1>7 DEF JobInv, LoadInv, AuditInv, SeenInv
<1>9. WritesInv(r)'
  <2>1. Snapshot(r) \in snaps \cup job[r].audit
    BY <1>0 DEF JobInv, AuditInv
  <2>2. ASSUME NEW s \in ToWrite(r) PROVE WriteInv(r, s)'
    BY <1>0, <1>1, <1>3, <1>4, <1>5, <1>6, <2>1, WriteOfARow DEF WriteInv
  <2> QED
    BY <1>3, <1>5, <1>6, <2>2 DEF WritesInv
<1>10. PlanInv(r)'
  <2>1. ASSUME NEW s \in ToRetire(r)
        PROVE  s \in DOMAIN w /\ w[s].status \in {"retiring", "retired"}
    <3>1. s \in ToWrite(r)
      BY <1>0, LeftOutWasActive DEF ToSpawn, ToRetire
    <3> QED
      BY <1>0, <1>3, <3>1, WriteOfARow
  <2>2. ASSUME NEW s \in ToSpawn(r)
        PROVE  \/ s \in DOMAIN w /\ w[s].status = "active"
               \/ job[r].seen[s].status = "active" /\ (s \in DOMAIN w => w[s].status = Keep)
    <3>1. CASE s \in ToWrite(r)
      BY <1>0, <1>3, <3>1, WriteOfARow
    <3>2. CASE s \notin ToWrite(r)
      BY <1>0, <1>3, <3>2, LeftOutWasActive
    <3> QED
      BY <3>1, <3>2
  <2> QED
    BY <1>1, <1>3, <1>5, <1>6, <1>7, <2>1, <2>2 DEF PlanInv
<1>11. InTick(r)' <=> lock' = r
  BY <1>0, <1>4, <1>5, <1>6 DEF InTick, LockInv
<1> QED
  BY <1>0, <1>4, <1>5, <1>8, <1>9, <1>10, <1>11, OneJobSteps DEF TypeInv, JobInv

\* What a commit does to one row.
LEMMA CommitOfARow ==
    ASSUME IInv, NEW r \in Replicas, Commit(r), NEW s \in Symbols
    PROVE  /\ rows'[s] \in Row
           /\ rows[s].status # "none" => rows'[s].status # "none"
           /\ rows'[s].status = "none" => rows'[s].hash = None
           /\ rows'[s].status # "none" => rows'[s].hash \in snaps' /\ s \in rows'[s].hash.members
<1>0. /\ job[r] \in Job /\ rows \in [Symbols -> Row] /\ snaps \subseteq Snap
      /\ JobInv(r) /\ MembersAudited /\ BlankInv
  BY DEF IInv, TypeInv
<1>1. snaps' = snaps \cup job[r].audit /\ job[r].audit \subseteq Snap
  BY <1>0 DEF Commit, Job
<1>2. CASE s \notin DOMAIN job[r].writes
  <2>1. rows'[s] = rows[s]
    BY <1>2 DEF Commit
  <2> QED
    BY <1>0, <1>1, <2>1 DEF MembersAudited, BlankInv
<1>3. CASE s \in DOMAIN job[r].writes
  <2> DEFINE w == job[r].writes[s]
  <2>1. rows'[s] = Written(rows[s], w)
    BY <1>3 DEF Commit
  <2>2. w \in Write /\ rows[s] \in Row
    BY <1>0, <1>3 DEF Job, Updates
  <2>3. /\ w.status = Keep \/ w.hash = Keep => rows[s].status # "none"
        /\ w.hash # Keep => w.hash \in snaps' /\ s \in w.hash.members
    BY <1>0, <1>1, <1>3 DEF JobInv, WritesInv, WriteInv
  <2> HIDE DEF w
  <2>4. /\ rows'[s].status = IF w.status = Keep THEN rows[s].status ELSE w.status
        /\ rows'[s].capital = IF w.capital = Keep THEN rows[s].capital ELSE w.capital
        /\ rows'[s].hash = IF w.hash = Keep THEN rows[s].hash ELSE w.hash
    BY <2>1 DEF Written
  <2>5. rows'[s].status # "none"
    BY <2>2, <2>3, <2>4 DEF Write
  <2>6. rows'[s].hash \in snaps' /\ s \in rows'[s].hash.members
    BY <1>0, <1>1, <2>3, <2>4 DEF MembersAudited
  <2>7. rows'[s] \in Row
    <3>1. rows'[s].status \in {"none", "active", "retiring", "retired"}
      BY <2>2, <2>4 DEF Write, Row
    <3>2. rows'[s].capital \in {0, 1}
      BY <2>2, <2>4 DEF Write, Row
    <3>3. rows'[s].hash \in Snap
      BY <1>0, <1>1, <2>6
    <3> QED
      BY <2>1, <3>1, <3>2, <3>3 DEF Written, Row, Snap
  <2> QED
    BY <2>5, <2>6, <2>7
<1> QED
  BY <1>2, <1>3

LEMMA CommitPreserves ==
    ASSUME IInv, NEW r \in Replicas, Commit(r)
    PROVE  IInv'
<1>0. TypeInv /\ LockInv
  BY DEF IInv
<1>1. /\ job' \in [Replicas -> Job]
      /\ job'[r] = Idle
      /\ \A o \in Replicas : o # r => job'[o] = job[o]
  BY <1>0, IdleIsAJob DEF Commit, TypeInv
<1>2. snaps \subseteq snaps' /\ snaps' \subseteq Snap
  BY <1>0 DEF Commit, TypeInv, Job
<1>3. rows' \in [Symbols -> Row]
  <2>1. rows' = [s \in Symbols |-> rows'[s]]
    BY DEF Commit
  <2> QED
    BY <2>1, CommitOfARow
<1>4. TypeInv'
  BY <1>0, <1>1, <1>2, <1>3 DEF TypeInv, Commit
<1>5. LockInv'
  BY <1>0, <1>1, IdleIsAJob DEF LockInv, InTick, Commit
<1>6. BlankInv' /\ MembersAudited'
  BY CommitOfARow DEF BlankInv, MembersAudited
<1>7. \A o \in Replicas : JobInv(o)'
  <2> SUFFICES ASSUME NEW o \in Replicas PROVE JobInv(o)'
    OBVIOUS
  <2>1. CASE o = r
    BY <1>1, <2>1, IdleIsAJob DEF JobInv, LoadInv, AuditInv, SeenInv, WritesInv, PlanInv
  <2>2. CASE o # r
    BY <1>0, <1>1, <1>2, <2>2, CommitOfARow, JobKept DEF IInv
  <2> QED
    BY <2>1, <2>2
<1> QED
  BY <1>4, <1>5, <1>6, <1>7 DEF IInv

\* A stamp changes the capital of one row on record.
LEMMA SetAllocationPreserves ==
    ASSUME IInv, NEW s \in Symbols, NEW amount \in {0, 1}, SetAllocation(s, amount)
    PROVE  IInv'
<1>0. TypeInv /\ LockInv
  BY DEF IInv
<1>1. /\ rows' \in [Symbols -> Row]
      /\ \A x \in Symbols : rows'[x].status = rows[x].status /\ rows'[x].hash = rows[x].hash
      /\ UNCHANGED <<tick, lock, snaps, job, failures>>
  <2>1. rows \in [Symbols -> Row] /\ rows[s] \in Row
    BY <1>0 DEF TypeInv
  <2> DEFINE n == [rows[s] EXCEPT !.capital = amount]
  <2>2. n \in Row /\ n.status = rows[s].status /\ n.hash = rows[s].hash
    BY <2>1 DEF Row
  <2>3. rows' = [rows EXCEPT ![s] = n] /\ UNCHANGED <<tick, lock, snaps, job, failures>>
    BY <2>1 DEF SetAllocation
  <2> HIDE DEF n
  <2> QED
    BY <2>1, <2>2, <2>3
<1>2. TypeInv' /\ LockInv' /\ MembersAudited' /\ BlankInv'
  BY <1>1 DEF IInv, TypeInv, LockInv, InTick, MembersAudited, BlankInv
<1>3. \A o \in Replicas : JobInv(o)'
  BY <1>0, <1>1, JobKept DEF IInv
<1> QED
  BY <1>2, <1>3 DEF IInv

\* IInv is inductive: one case per action.
LEMMA NextPreserves == IInv /\ [Next]_vars => IInv'
<1> SUFFICES ASSUME IInv, [Next]_vars PROVE IInv'
  OBVIOUS
<1>1. CASE \E r \in Replicas : Step(r) \/ Fail(r)
  <2> PICK r \in Replicas : Step(r) \/ Fail(r)
    BY <1>1
  <2>1. CASE \E force \in {FALSE, ForceAllowed} : Load(r, force)
    BY <2>1, LoadPreserves, RefreshAssumption
  <2>2. CASE TryLock(r) \/ InsertAudit(r) \/ Unlock(r)
    BY <2>2, MovePreserves
  <2>3. CASE SkipTick(r) \/ Fail(r) \/ KeyTaken(r)
    BY <2>3, DropPreserves
  <2>4. CASE \E members \in Memberships : Resolve(r, members)
    BY <2>4, ResolvePreserves
  <2>5. CASE ReadAudit(r)
    BY <2>5, ReadAuditPreserves
  <2>6. CASE ReadMembers(r)
    BY <2>6, ReadMembersPreserves
  <2>7. CASE Apply(r)
    BY <2>7, ApplyPreserves
  <2>8. CASE Commit(r)
    BY <2>8, CommitPreserves
  <2> QED
    BY <2>1, <2>2, <2>3, <2>4, <2>5, <2>6, <2>7, <2>8 DEF Step
<1>2. CASE \E s \in Symbols, amount \in {0, 1} : SetAllocation(s, amount)
  BY <1>2, SetAllocationPreserves
<1>3. CASE NextTick \/ UNCHANGED vars
  <2>1. tick' \in 1..LastTick /\ UNCHANGED <<lock, rows, snaps, job, failures>>
    BY <1>3, RefreshAssumption DEF NextTick, vars, IInv, TypeInv
  <2>2. \A o \in Replicas : JobInv(o)'
    BY <2>1, JobKept DEF IInv
  <2> QED
    BY <2>1, <2>2 DEF IInv, TypeInv, LockInv, InTick, MembersAudited, BlankInv
<1> QED
  BY <1>1, <1>2, <1>3 DEF Next

LEMMA IInvAlways == Spec => []IInv
  BY InitEstablishes, NextPreserves, PTL DEF Spec

\* The tables and the jobs keep their types.
THEOREM TypeCorrect == Spec => []TypeOK
<1>1. IInv => TypeOK
  <2> SUFFICES ASSUME IInv PROVE TypeOK
    OBVIOUS
  <2>1. ASSUME NEW r \in Replicas
        PROVE  /\ job[r].pc \in {"idle", "loaded", "locked", "resolved", "checked", "audited", "read",
                                 "applied", "returned"}
               /\ DOMAIN job[r].loaded \subseteq Symbols
               /\ DOMAIN job[r].seen \subseteq Symbols
               /\ DOMAIN job[r].writes \subseteq Symbols
    <3>1. job[r] \in Job
      BY DEF IInv, TypeInv
    <3> QED
      BY <3>1 DEF Job, Reads, Updates
  <2> QED
    BY <2>1 DEF TypeOK, IInv, TypeInv, Snap
<1> QED
  BY <1>1, IInvAlways, PTL

\* Exactly one replica resolves and writes at a time, for any number of replicas
\* and through any failures.
THEOREM OneResolverAlways == Spec => []OneResolver
<1>1. IInv => OneResolver
  BY DEF IInv, LockInv, OneResolver
<1> QED
  BY <1>1, IInvAlways, PTL

\* The running membership is always explained by the audit trail.
THEOREM MembersAlwaysAudited == Spec => []MembersAudited
<1>1. IInv => MembersAudited
  BY DEF IInv
<1> QED
  BY <1>1, IInvAlways, PTL
-----------------------------------------------------------------------------
(* What a commit does to the members.                                      *)

\* A job that is about to commit and goes idle without a failure has committed.
LEMMA OnlyACommitEnds ==
    ASSUME IInv, [Next]_vars, NEW r \in Replicas,
           job[r].pc = "returned", job'[r].pc = "idle", failures' = failures
    PROVE  Commit(r)
<1>0. job \in [Replicas -> Job] /\ failures \in Nat /\ job[r] \in Job
  BY DEF IInv, TypeInv
<1>1. CASE \E o \in Replicas : Step(o) \/ Fail(o)
  <2> PICK o \in Replicas : Step(o) \/ Fail(o)
    BY <1>1
  <2>1. o = r
    <3>1. CASE Step(o)
      <4>1. \E j : job' = [job EXCEPT ![o] = j]
        <5>1. ASSUME NEW p, job' = [job EXCEPT ![o].pc = p] PROVE \E j : job' = [job EXCEPT ![o] = j]
          BY <1>0, <5>1
        <5>2. CASE TryLock(o) \/ InsertAudit(o) \/ Unlock(o)
          BY <5>1, <5>2 DEF TryLock, InsertAudit, Unlock
        <5>3. CASE \E force \in {FALSE, ForceAllowed} : Load(o, force)
          BY <5>3 DEF Load
        <5>4. CASE SkipTick(o) \/ KeyTaken(o) \/ Commit(o)
          BY <5>4 DEF SkipTick, KeyTaken, Abandon, Commit
        <5>5. CASE (\E members \in Memberships : Resolve(o, members)) \/ ReadAudit(o)
          BY <1>0, <5>5 DEF Resolve, ReadAudit
        <5>6. CASE ReadMembers(o) \/ Apply(o)
          BY <1>0, <5>6 DEF ReadMembers, Apply
        <5> QED
          BY <3>1, <5>2, <5>3, <5>4, <5>5, <5>6 DEF Step
      <4> QED
        BY <1>0, <4>1
    <3>2. CASE Fail(o)
      BY <1>0, <3>2 DEF Fail
    <3> QED
      BY <3>1, <3>2
  <2>2. ~Fail(r)
    BY <1>0 DEF Fail
  <2> QED
    BY <2>1, <2>2 DEF Step, Load, TryLock, SkipTick, Resolve, ReadAudit, InsertAudit, ReadMembers,
                      Apply, Unlock, KeyTaken
<1>2. CASE \/ \E s \in Symbols, amount \in {0, 1} : SetAllocation(s, amount)
           \/ NextTick
           \/ UNCHANGED vars
  BY <1>2 DEF SetAllocation, NextTick, vars
<1> QED
  BY <1>1, <1>2 DEF Next

\* The active members after a commit.
LEMMA CommitMakesActive ==
    ASSUME IInv, NEW r \in Replicas, Commit(r)
    PROVE  /\ Active' \ job[r].members \subseteq Active \ DOMAIN job[r].loaded
           /\ job[r].members \ Active' \subseteq HadActive(r) \ Active
<1>0. job[r] \in Job /\ JobInv(r) /\ job[r].pc = "returned"
  BY DEF IInv, TypeInv, Commit
<1>1. /\ \A s \in ToRetire(r) :
            s \in DOMAIN job[r].writes /\ job[r].writes[s].status \in {"retiring", "retired"}
      /\ \A s \in ToSpawn(r) :
            \/ s \in DOMAIN job[r].writes /\ job[r].writes[s].status = "active"
            \/ /\ job[r].seen[s].status = "active"
               /\ s \in DOMAIN job[r].writes => job[r].writes[s].status = Keep
      /\ DOMAIN job[r].writes \subseteq ToSpawn(r) \cup ToRetire(r)
  BY <1>0 DEF JobInv, PlanInv
<1>2. ASSUME NEW s \in Symbols
      PROVE  rows'[s].status = IF s \in DOMAIN job[r].writes /\ job[r].writes[s].status # Keep
                               THEN job[r].writes[s].status ELSE rows[s].status
  BY DEF Commit, Written
<1>3. ASSUME NEW s \in Active', s \notin job[r].members
      PROVE  s \in Active \ DOMAIN job[r].loaded
  <2>1. s \in Symbols /\ rows'[s].status = "active"
    BY <1>3 DEF Active
  <2>2. s \notin ToRetire(r)
    BY <1>1, <1>2, <2>1, KeepIsApart
  <2>3. s \notin DOMAIN job[r].loaded /\ s \notin DOMAIN job[r].writes
    BY <1>1, <1>3, <2>2 DEF ToSpawn, ToRetire
  <2> QED
    BY <1>2, <2>1, <2>3 DEF Active
<1>4. ASSUME NEW s \in job[r].members, s \notin Active'
      PROVE  s \in HadActive(r) /\ s \notin Active
  <2>1. s \in Symbols /\ rows'[s].status # "active"
    BY <1>0, <1>4, RefreshAssumption DEF Active, Job
  <2>2. CASE s \in DOMAIN job[r].loaded
    <3>1. s \notin DOMAIN job[r].writes
      BY <1>1, <2>2 DEF ToSpawn, ToRetire
    <3>2. s \in HadActive(r)
      BY <1>0, <2>2 DEF HadActive, JobInv, LoadInv
    <3> QED
      BY <1>2, <2>1, <3>1, <3>2 DEF Active
  <2>3. CASE s \notin DOMAIN job[r].loaded
    <3>1. s \in ToSpawn(r) /\ DOMAIN job[r].seen = ToSpawn(r)
      BY <1>0, <2>3 DEF ToSpawn, JobInv, SeenInv
    <3>2. /\ job[r].seen[s].status = "active"
          /\ s \in DOMAIN job[r].writes => job[r].writes[s].status = Keep
      BY <1>1, <1>2, <2>1, <3>1, KeepIsApart
    <3> QED
      BY <1>2, <2>1, <3>1, <3>2 DEF HadActive, Active
  <2> QED
    BY <2>2, <2>3
<1> QED
  BY <1>3, <1>4

\* For any number of replicas, whatever failed, repeated or was skipped before: a job
\* that commits leaves active what it resolved, up to what other jobs have committed
\* since it read.
THEOREM CommitsWhatItResolved == Spec => CommitsItsResolution
<1>1. ASSUME IInv, [Next]_vars
      PROVE  [\A r \in Replicas :
                 job[r].pc = "returned" /\ job'[r].pc = "idle" /\ failures' = failures =>
                    /\ Active' \ job[r].members \subseteq Active \ DOMAIN job[r].loaded
                    /\ job[r].members \ Active' \subseteq HadActive(r) \ Active]_vars
  BY <1>1, OnlyACommitEnds, CommitMakesActive
<1> QED
  BY <1>1, IInvAlways, PTL DEF Spec, CommitsItsResolution
-----------------------------------------------------------------------------
(* What a commit does to the capital of the retired.                       *)

\* The commit of a job that retires a row with capital had loaded it without.
LEMMA CommitRetiresFlat ==
    ASSUME IInv, NEW r \in Replicas, Commit(r), NEW s \in Symbols,
           HeldWhenRetired(s)', ~HeldWhenRetired(s)
    PROVE  /\ job[r].pc = "returned" /\ job'[r].pc = "idle"
           /\ s \in DOMAIN job[r].loaded
           /\ job[r].loaded[s].capital = 0
           /\ rows[s].capital > 0
<1>0. job[r] \in Job /\ JobInv(r) /\ rows[s] \in Row /\ job'[r].pc = "idle"
  BY IdleIsAJob DEF IInv, TypeInv, Commit
<1>1. s \in DOMAIN job[r].writes
  BY DEF Commit, HeldWhenRetired
<1> DEFINE w == job[r].writes[s]
<1>2. rows'[s] = Written(rows[s], w)
  BY <1>1 DEF Commit
<1>3. w \in Write /\ WriteInv(r, s)
  BY <1>0, <1>1 DEF Job, Updates, JobInv, WritesInv
<1>4. w.status = "retired" => s \in DOMAIN job[r].loaded /\ (w.capital = 0 \/ job[r].loaded[s].capital = 0)
  BY <1>3 DEF WriteInv
<1> HIDE DEF w
<1>5. w.capital = Keep /\ rows[s].capital > 0
  BY <1>2, <1>3 DEF Written, Write, HeldWhenRetired
<1>6. w.status = "retired"
  BY <1>2, <1>5 DEF Written, HeldWhenRetired
<1> QED
  BY <1>0, <1>4, <1>5, <1>6, KeepIsApart DEF Commit

\* "retired (flat)" (app/db/models/universe.py:87-88), for any number of replicas and
\* symbols, both removal policies, whatever fails and whenever capital is stamped: a
\* row becomes retired with capital only by the commit of a job that had loaded it
\* without, before the stamp.
THEOREM RetiredFlatUnlessStamped == Spec => FlatUnlessStamped
<1>1. ASSUME IInv, [Next]_vars, NEW s \in Symbols, HeldWhenRetired(s)', ~HeldWhenRetired(s)
      PROVE  \E r \in Replicas : Commit(r)
  <2>1. rows' # rows
    BY <1>1 DEF HeldWhenRetired
  <2>2. CASE \E x \in Symbols, amount \in {0, 1} : SetAllocation(x, amount)
    <3> PICK x \in Symbols, amount \in {0, 1} : SetAllocation(x, amount)
      BY <2>2
    <3>1. rows \in [Symbols -> Row] /\ rows[s] \in Row
      BY <1>1 DEF IInv, TypeInv
    <3>2. rows' = [rows EXCEPT ![x].capital = amount] /\ rows[x].status \in {"active", "retiring"}
      BY DEF SetAllocation
    <3>3. rows'[s].status = rows[s].status /\ (s # x => rows'[s] = rows[s])
      BY <3>1, <3>2 DEF Row
    <3> QED
      BY <1>1, <3>2, <3>3 DEF HeldWhenRetired
  <2>3. CASE \E r \in Replicas : Step(r) \/ Fail(r)
    BY <2>1, <2>3 DEF Step, Load, TryLock, SkipTick, Resolve, ReadAudit, InsertAudit, ReadMembers,
                      Apply, Unlock, KeyTaken, Abandon, Fail
  <2>4. CASE NextTick \/ UNCHANGED vars
    BY <2>1, <2>4 DEF NextTick, vars
  <2> QED
    BY <1>1, <2>2, <2>3, <2>4 DEF Next
<1>2. ASSUME IInv, [Next]_vars
      PROVE  [\A s \in Symbols : HeldWhenRetired(s)' /\ ~HeldWhenRetired(s) =>
                 \E r \in Replicas :
                    /\ job[r].pc = "returned" /\ job'[r].pc = "idle"
                    /\ s \in DOMAIN job[r].loaded
                    /\ job[r].loaded[s].capital = 0
                    /\ rows[s].capital > 0]_vars
  BY <1>1, <1>2, CommitRetiresFlat
<1> QED
  BY <1>2, IInvAlways, PTL DEF Spec, FlatUnlessStamped
=============================================================================
