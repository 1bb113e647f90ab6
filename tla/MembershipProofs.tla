--------------------------- MODULE MembershipProofs ---------------------------
(***************************************************************************)
(* Proofs about MembershipHistory and MembershipWindows for every set of   *)
(* symbols, jobs and tenants, and any number of days and failures.         *)
(***************************************************************************)
EXTENDS MembershipWindows, SumLemmas

Job == [at : {"upsert", "close", "return"}, tenant : tenants, asof : Nat,
        open : SUBSET Symbols, close : SUBSET Symbols]

\* The latest day of a tenant, and its list.
Day(t) == Len(feed[t])

List(t) == feed[t][Day(t)]

\* No interval starts or ends after the latest day of its tenant.
DatesPast == \A r \in rows : r.from <= Day(r.tenant) /\ (r.to = Open \/ r.to <= Day(r.tenant))

\* A job works on the latest day.  Its opens are of the list and its closes are not; what
\* it has yet to do is what keeps the open intervals from being the list.
JobInv(j) ==
    LET t == job[j].tenant
    IN  /\ Day(t) # 0 /\ job[j].asof = Day(t)
        /\ job[j].open \subseteq List(t) /\ job[j].close \cap List(t) = {}
        /\ IF job[j].at = "upsert" THEN List(t) \subseteq OpenNow(t) \cup job[j].open
                                   ELSE List(t) \subseteq OpenNow(t)
        /\ IF job[j].at = "return" THEN OpenNow(t) \subseteq List(t)
                                   ELSE OpenNow(t) \subseteq List(t) \cup job[j].close

JobsCurrent == \A j \in Jobs : job[j] # NoJob => JobInv(j)

\* An applied day has been tried, and the list of the latest one is open.
AppliedInv ==
    \A t \in tenants :
        /\ \A d \in applied[t] : d # 0 /\ d <= Day(t)
        /\ Day(t) \in applied[t] => OpenNow(t) = List(t)

IInv == TypeOK /\ DatesPast /\ JobsCurrent /\ AppliedInv /\ HistoryFaithful

LEMMA NoJobIsApart == TypeOK => NoJob \notin Job
<1>1. SUFFICES ASSUME TypeOK, NoJob \in Job PROVE FALSE
  OBVIOUS
<1>2. tenants \subseteq UNION Writers
  BY <1>1 DEF TypeOK
<1> QED
  BY <1>1, <1>2, HistoryAssumption DEF Job

RowsOf(ts) == [tenant : ts, symbol : Symbols, from : Nat, to : Nat \cup {Open}]

OpenIn(rs, t) == {r.symbol : r \in {q \in rs : Visible(q, t) /\ q.to = Open}}

\* A tenant sees its own rows: a NULL tenant has the table to itself.
LEMMA VisibleIsOwn ==
    ASSUME NEW ts \in Writers, NEW t \in ts, NEW r \in RowsOf(ts)
    PROVE  Visible(r, t) <=> r.tenant = t
<1>1. r.tenant \in ts
  BY DEF RowsOf
<1>2. t = NoTenant => ts = {NoTenant}
  BY SharedAloneAssumption
<1> QED
  BY <1>1, <1>2 DEF Visible

LEMMA OpenSymbols ==
    ASSUME NEW ts \in Writers, NEW rs \in SUBSET RowsOf(ts), NEW t \in ts, NEW s
    PROVE  s \in OpenIn(rs, t) <=> \E r \in rs : r.tenant = t /\ r.to = Open /\ r.symbol = s
  BY VisibleIsOwn DEF OpenIn

LEMMA MemberSymbols ==
    ASSUME NEW ts \in Writers, NEW rs \in SUBSET RowsOf(ts), NEW t \in ts, NEW s, NEW d
    PROVE  s \in MembersOn(rs, t, d) <=>
               \E r \in rs : r.tenant = t /\ r.from <= d /\ After(r, d) /\ r.symbol = s
  BY VisibleIsOwn DEF MembersOn

\* A row that does not reach past day d is of a member on d just when it is open.
PastRow(r, d) == r.from <= d /\ (r.to = Open \/ r.to <= d)

LEMMA PastRowOpen ==
    ASSUME NEW ts, NEW r \in RowsOf(ts), NEW d \in Nat, PastRow(r, d)
    PROVE  r.from <= d /\ After(r, d) <=> r.to = Open
  BY HistoryAssumption DEF RowsOf, PastRow, After

\* On its latest day a tenant has the members whose intervals are open.
LEMMA LatestMembersAreOpen ==
    ASSUME NEW ts \in Writers, NEW rs \in SUBSET RowsOf(ts), NEW t \in ts, NEW d \in Nat,
           \A r \in rs : r.tenant = t => PastRow(r, d)
    PROVE  MembersOn(rs, t, d) = OpenIn(rs, t)
<1>1. ASSUME NEW r \in rs, r.tenant = t PROVE r.from <= d /\ After(r, d) <=> r.to = Open
  BY <1>1, PastRowOpen
<1>2. ASSUME NEW s PROVE s \in MembersOn(rs, t, d) <=> s \in OpenIn(rs, t)
  BY <1>1, OpenSymbols, MemberSymbols
<1> QED
  BY <1>2 DEF OpenIn

\* What the upsert of a job does to the answers of the table.
LEMMA UpsertChanges ==
    ASSUME TypeOK, DatesPast, NEW t \in tenants, NEW ss \in SUBSET Symbols
    PROVE  LET R == Upserted(t, ss, Day(t))
           IN  /\ R \in SUBSET RowsOf(tenants)
               /\ \A r \in R : PastRow(r, Day(r.tenant))
               /\ OpenIn(R, t) = OpenNow(t) \cup ss
               /\ \A u \in tenants \ {t} : OpenIn(R, u) = OpenNow(u)
               /\ \A u \in tenants : \A d \in Nat :
                     u # t \/ d < Day(t) => MembersOn(R, u, d) = MembersOn(rows, u, d)
<1> DEFINE R == Upserted(t, ss, Day(t))
           New == {Row(t, s, Day(t), Open) : s \in ss}
<1>1. Day(t) \in Nat /\ rows \in SUBSET RowsOf(tenants) /\ tenants \in Writers
  BY DEF TypeOK, Day, RowsOf
<1>2. New \in SUBSET RowsOf(tenants)
  BY <1>1 DEF Row, RowsOf
<1>3. R \in SUBSET RowsOf(tenants)
  BY <1>1, <1>2 DEF Upserted
<1>4. \A r \in R : PastRow(r, Day(r.tenant))
  BY <1>1 DEF Upserted, Row, DatesPast, PastRow
<1>5. \A r \in rows : r \in R \/ (r.tenant = t /\ r.symbol \in ss /\ r.from = Day(t))
  BY DEF Upserted, Conflicts
<1>6. \A r \in R : r \in rows \/ (r.tenant = t /\ r.symbol \in ss /\ r.from = Day(t) /\ r.to = Open)
  BY DEF Upserted, Row
<1>7. ASSUME NEW s \in ss PROVE \E r \in R : r.tenant = t /\ r.symbol = s /\ r.to = Open
  <2>1. Row(t, s, Day(t), Open) \in R
    BY DEF Upserted
  <2>2. Row(t, s, Day(t), Open).tenant = t /\ Row(t, s, Day(t), Open).symbol = s
        /\ Row(t, s, Day(t), Open).to = Open
    BY DEF Row
  <2> HIDE DEF R
  <2> QED
    BY <2>1, <2>2
<1>8. ASSUME NEW u \in tenants, NEW s
      PROVE  s \in OpenIn(R, u) <=> s \in OpenIn(rows, u) \/ (u = t /\ s \in ss)
  <2> HIDE DEF R
  <2> QED
    BY <1>1, <1>3, <1>5, <1>6, <1>7, OpenSymbols
<1>9. ASSUME NEW u \in tenants, NEW d \in Nat, u # t \/ d < Day(t), NEW s
      PROVE  s \in MembersOn(R, u, d) <=> s \in MembersOn(rows, u, d)
  <2>1. \A r \in R \cup rows : r.tenant = t /\ r.from = Day(t) => ~(r.tenant = u /\ r.from <= d)
    BY <1>1, <1>9
  <2> HIDE DEF R
  <2> QED
    BY <1>1, <1>3, <1>5, <1>6, <2>1, MemberSymbols
<1> HIDE DEF R
<1>10. OpenIn(R, t) = OpenIn(rows, t) \cup ss /\ \A u \in tenants \ {t} : OpenIn(R, u) = OpenIn(rows, u)
  BY <1>8
<1>11. \A u \in tenants : \A d \in Nat : u # t \/ d < Day(t) => MembersOn(R, u, d) = MembersOn(rows, u, d)
  BY <1>9
<1> QED
  BY <1>3, <1>4, <1>10, <1>11 DEF R, OpenIn, OpenNow

\* What the closing of a job does to them.
LEMMA CloseChanges ==
    ASSUME TypeOK, DatesPast, NEW t \in tenants, NEW ss \in SUBSET Symbols
    PROVE  LET R == Closed(t, ss, Day(t))
           IN  /\ R \in SUBSET RowsOf(tenants)
               /\ \A r \in R : PastRow(r, Day(r.tenant))
               /\ OpenIn(R, t) = OpenNow(t) \ ss
               /\ \A u \in tenants \ {t} : OpenIn(R, u) = OpenNow(u)
               /\ \A u \in tenants : \A d \in Nat :
                     u # t \/ d < Day(t) => MembersOn(R, u, d) = MembersOn(rows, u, d)
<1> DEFINE R == Closed(t, ss, Day(t))
           Shut(r) == r.symbol \in ss /\ r.to = Open /\ r.tenant = t
           After1(r) == IF Shut(r) THEN [r EXCEPT !.to = Day(t)] ELSE r
<1>1. Day(t) \in Nat /\ rows \in SUBSET RowsOf(tenants) /\ tenants \in Writers
  BY DEF TypeOK, Day, RowsOf
<1>2. R = {After1(r) : r \in rows}
  BY <1>1, VisibleIsOwn DEF Closed
<1>3. ASSUME NEW r \in rows
      PROVE  /\ After1(r) \in RowsOf(tenants)
             /\ After1(r).tenant = r.tenant /\ After1(r).symbol = r.symbol /\ After1(r).from = r.from
             /\ After1(r).to = IF Shut(r) THEN Day(t) ELSE r.to
  BY <1>1 DEF RowsOf
<1> HIDE DEF After1
<1>4. R \in SUBSET RowsOf(tenants)
  BY <1>2, <1>3
<1>5. \A r \in R : PastRow(r, Day(r.tenant))
  BY <1>1, <1>2, <1>3 DEF DatesPast, PastRow
<1>6. Day(t) # Open
  BY <1>1, HistoryAssumption
<1>7. ASSUME NEW u \in tenants, NEW s
      PROVE  s \in OpenIn(R, u) <=> s \in OpenIn(rows, u) /\ ~(u = t /\ s \in ss)
  <2>1. s \in OpenIn(R, u) <=> \E r \in rows : r.tenant = u /\ After1(r).to = Open /\ r.symbol = s
    BY <1>1, <1>2, <1>3, <1>4, OpenSymbols
  <2> HIDE DEF R
  <2>2. s \in OpenIn(rows, u) <=> \E r \in rows : r.tenant = u /\ r.to = Open /\ r.symbol = s
    BY <1>1, OpenSymbols
  <2> QED
    BY <1>3, <1>6, <2>1, <2>2
<1>8. ASSUME NEW u \in tenants, NEW d \in Nat, u # t \/ d < Day(t), NEW s
      PROVE  s \in MembersOn(R, u, d) <=> s \in MembersOn(rows, u, d)
  <2>1. ASSUME NEW r \in rows, r.tenant = u PROVE After(After1(r), d) <=> After(r, d)
    BY <1>1, <1>3, <1>6, <1>8, <2>1 DEF After
  <2>2. s \in MembersOn(R, u, d) <=>
            \E r \in rows : r.tenant = u /\ r.from <= d /\ After(After1(r), d) /\ r.symbol = s
    BY <1>1, <1>2, <1>3, <1>4, MemberSymbols
  <2>3. s \in MembersOn(rows, u, d) <=> \E r \in rows : r.tenant = u /\ r.from <= d /\ After(r, d) /\ r.symbol = s
    BY <1>1, MemberSymbols
  <2> QED
    BY <2>1, <2>2, <2>3
<1> HIDE DEF R
<1>9. OpenIn(R, t) = OpenIn(rows, t) \ ss /\ \A u \in tenants \ {t} : OpenIn(R, u) = OpenIn(rows, u)
  BY <1>7
<1>10. \A u \in tenants : \A d \in Nat : u # t \/ d < Day(t) => MembersOn(R, u, d) = MembersOn(rows, u, d)
  BY <1>8
<1> QED
  BY <1>4, <1>5, <1>9, <1>10 DEF R, OpenIn, OpenNow

LEMMA InitEstablishes == Init => IInv
<1> SUFFICES ASSUME Init PROVE IInv
  OBVIOUS
<1>1. \A t \in tenants : feed[t] = <<>> /\ <<>> \in Seq(SUBSET Symbols) /\ applied[t] = {}
  BY DEF Init
<1> QED
  BY <1>1 DEF Init, IInv, TypeOK, DatesPast, JobsCurrent, AppliedInv, HistoryFaithful

\* The job that apply_snapshot makes of what it reads.
LEMMA AppliedJob ==
    ASSUME TypeOK, NEW j \in Jobs, NEW t \in tenants, NEW d \in Nat, NEW list \in SUBSET Symbols,
           Apply(j, t, d, list)
    PROVE  /\ job' \in [Jobs -> {NoJob} \cup Job]
           /\ \A k \in Jobs \ {j} : job'[k] = job[k]
           /\ job'[j] = [at |-> "upsert", tenant |-> t, asof |-> d,
                         open |-> list \ OpenNow(t), close |-> OpenNow(t) \ list]
<1>1. OpenNow(t) \in SUBSET Symbols
  BY DEF TypeOK, OpenNow
<1> DEFINE new == [at |-> "upsert", tenant |-> t, asof |-> d,
                   open |-> list \ OpenNow(t), close |-> OpenNow(t) \ list]
<1>2. new \in Job
  BY <1>1 DEF Job
<1>3. job \in [Jobs -> {NoJob} \cup Job] /\ job' = [job EXCEPT ![j] = new]
  BY DEF TypeOK, Job, Apply
<1> HIDE DEF new
<1>4. job' \in [Jobs -> {NoJob} \cup Job] /\ (\A k \in Jobs \ {j} : job'[k] = job[k]) /\ job'[j] = new
  BY <1>2, <1>3
<1> QED
  BY <1>4 DEF new

\* Every job of a step that leaves rows and lists alone keeps what it knows of them.
LEMMA JobInvKept ==
    ASSUME UNCHANGED <<rows, feed, tenants>>, NEW j \in Jobs, job'[j] = job[j], JobInv(j)
    PROVE  JobInv(j)'
  BY DEF JobInv, Day, List, OpenNow

\* The facts about types that the steps use.
LEMMA Types ==
    ASSUME TypeOK, NEW t \in tenants
    PROVE  /\ tenants \in Writers
           /\ rows \in SUBSET RowsOf(tenants)
           /\ feed[t] \in Seq(SUBSET Symbols) /\ Day(t) \in Nat
           /\ \A d \in 1..Day(t) : feed[t][d] \in SUBSET Symbols
           /\ applied[t] \in SUBSET Nat
           /\ \A j \in Jobs : job[j] # NoJob => job[j] \in Job
  BY DEF TypeOK, RowsOf, Day, Job

\* A change of the rows of one tenant that opens intervals of its list, or closes others,
\* on its latest day.
TableStep(t) ==
    /\ UNCHANGED <<tenants, feed, applied, faults>>
    /\ rows' \in SUBSET RowsOf(tenants)
    /\ \A r \in rows' : PastRow(r, Day(r.tenant))
    /\ OpenNow(t)' \subseteq OpenNow(t) \cup List(t)
    /\ OpenNow(t) \cap List(t) \subseteq OpenNow(t)'
    /\ \A u \in tenants \ {t} : OpenNow(u)' = OpenNow(u)
    /\ \A u \in tenants : \A d \in Nat :
          u # t \/ d < Day(t) => MembersOn(rows', u, d) = MembersOn(rows, u, d)

LEMMA TableStepKeeps ==
    ASSUME IInv, NEW t \in tenants, TableStep(t)
    PROVE  DatesPast' /\ AppliedInv' /\ HistoryFaithful'
<1>1. \A u \in tenants : Day(u)' = Day(u) /\ List(u)' = List(u)
  BY DEF TableStep, Day, List
<1>2. DatesPast'
  BY <1>1 DEF TableStep, DatesPast, PastRow, IInv, TypeOK, RowsOf, Day
<1>3. AppliedInv'
  <2>1. ASSUME NEW u \in tenants, Day(u) \in applied[u] PROVE OpenNow(u)' = List(u)
    <3>1. OpenNow(u) = List(u)
      BY <2>1 DEF IInv, AppliedInv
    <3> QED
      BY <3>1 DEF TableStep
  <2> QED
    BY <1>1, <2>1 DEF TableStep, AppliedInv, IInv
<1>4. ASSUME NEW u \in tenants, NEW d \in applied[u] PROVE MembersOn(rows', u, d) = feed[u][d]
  <2>1. d \in Nat /\ Day(u) \in Nat /\ d <= Day(u) /\ tenants \in Writers
    BY Types DEF IInv, AppliedInv
  <2>2. CASE u # t \/ d < Day(t)
    BY <2>1, <2>2 DEF TableStep, IInv, HistoryFaithful
  <2>3. CASE u = t /\ d = Day(t)
    <3>1. MembersOn(rows', u, d) = OpenIn(rows', u)
      BY <2>1, <2>3, LatestMembersAreOpen DEF TableStep
    <3>2. OpenIn(rows', u) = OpenNow(u)'
      BY DEF OpenIn, OpenNow
    <3>3. OpenNow(u)' = List(u)'
      BY <1>1, <1>3, <2>3 DEF AppliedInv, TableStep
    <3> QED
      BY <1>1, <2>3, <3>1, <3>2, <3>3 DEF List
  <2> QED
    BY <2>1, <2>2, <2>3
<1>5. HistoryFaithful'
  BY <1>4 DEF HistoryFaithful, TableStep
<1> QED
  BY <1>2, <1>3, <1>5

LEMMA TableStepJobs ==
    ASSUME IInv, NEW t \in tenants, TableStep(t), NEW j \in Jobs, job[j] # NoJob, job'[j] = job[j]
    PROVE  JobInv(j)'
<1>1. JobInv(j) /\ job[j] \in Job
  BY Types DEF IInv, JobsCurrent
<1>2. job[j].tenant \in tenants
  BY <1>1 DEF Job
<1>3. Day(job[j].tenant)' = Day(job[j].tenant) /\ List(job[j].tenant)' = List(job[j].tenant)
  BY DEF TableStep, Day, List
<1>4. CASE job[j].tenant # t
  BY <1>1, <1>2, <1>3, <1>4 DEF JobInv, TableStep
<1>5. CASE job[j].tenant = t
  BY <1>1, <1>3, <1>5 DEF JobInv, TableStep
<1> QED
  BY <1>4, <1>5

LEMMA ReadKeeps == ASSUME IInv, NEW j \in Jobs, Read(j) PROVE IInv'
<1>1. PICK t \in tenants : \E list \in SUBSET Symbols :
          /\ Working(t) = {}
          /\ feed' = [feed EXCEPT ![t] = Append(@, list)]
          /\ Apply(j, t, Len(feed[t]) + 1, list)
  BY DEF Read
<1>2. PICK list \in SUBSET Symbols :
          /\ Working(t) = {}
          /\ feed' = [feed EXCEPT ![t] = Append(@, list)]
          /\ Apply(j, t, Day(t) + 1, list)
  BY <1>1 DEF Day
<1>3. UNCHANGED <<tenants, rows, applied, faults>> /\ job[j] = NoJob
  BY DEF Read
<1>4. feed \in [tenants -> Seq(SUBSET Symbols)] /\ Day(t) \in Nat
  BY Types DEF IInv, TypeOK
<1>5. feed'[t] = Append(feed[t], list) /\ \A u \in tenants \ {t} : feed'[u] = feed[u]
  BY <1>2, <1>4
<1>6. Day(t)' = Day(t) + 1 /\ List(t)' = list /\ \A d \in 1..Day(t) : feed'[t][d] = feed[t][d]
  BY <1>4, <1>5 DEF Day, List
<1>7. \A u \in tenants \ {t} : Day(u)' = Day(u) /\ List(u)' = List(u)
  BY <1>5 DEF Day, List
<1>8. /\ job' \in [Jobs -> {NoJob} \cup Job]
      /\ \A k \in Jobs \ {j} : job'[k] = job[k]
      /\ job'[j] = [at |-> "upsert", tenant |-> t, asof |-> Day(t) + 1,
                    open |-> list \ OpenNow(t), close |-> OpenNow(t) \ list]
  BY <1>2, <1>4, AppliedJob DEF IInv
<1>9. \A u \in tenants : OpenNow(u)' = OpenNow(u) /\ Day(u) \in Nat
  BY <1>3, Types DEF OpenNow, IInv
<1>10. TypeOK'
  <2>1. feed' \in [tenants -> Seq(SUBSET Symbols)]
    BY <1>2, <1>4
  <2> QED
    BY <1>3, <1>8, <2>1 DEF IInv, TypeOK, Job
<1>11. DatesPast'
  BY <1>3, <1>6, <1>7, <1>9 DEF DatesPast, IInv, TypeOK
<1>12. ASSUME NEW k \in Jobs, job'[k] # NoJob PROVE JobInv(k)'
  <2>1. CASE k = j
    BY <1>4, <1>6, <1>8, <1>9, <2>1 DEF JobInv
  <2>2. CASE k # j
    <3>1. job'[k] = job[k] /\ job[k] \in Job /\ JobInv(k)
      BY <1>8, <1>12, <2>2, Types DEF IInv, JobsCurrent
    <3>2. job[k].tenant \in tenants \ {t}
      BY <1>2, <1>8, <1>12, <2>2, <3>1 DEF Working, Job
    <3> QED
      BY <1>7, <1>9, <3>1, <3>2 DEF JobInv
  <2> QED
    BY <2>1, <2>2
<1>13. AppliedInv'
  <2>1. ASSUME NEW d \in applied[t] PROVE d # 0 /\ d <= Day(t)' /\ d # Day(t)'
    BY <1>6, <1>9, Types DEF IInv, AppliedInv
  <2> QED
    BY <1>3, <1>7, <1>9, <2>1 DEF IInv, AppliedInv
<1>14. HistoryFaithful'
  <2>1. ASSUME NEW u \in tenants, NEW d \in applied[u] PROVE feed'[u][d] = feed[u][d]
    <3>1. d \in 1..Day(u)
      BY Types DEF IInv, AppliedInv
    <3> QED
      BY <1>5, <1>6, <3>1
  <2> QED
    BY <1>3, <2>1 DEF IInv, HistoryFaithful
<1> QED
  BY <1>10, <1>11, <1>12, <1>13, <1>14 DEF IInv, JobsCurrent

LEMMA ReadAgainKeeps == ASSUME IInv, NEW j \in Jobs, ReadAgain(j) PROVE IInv'
<1>1. PICK t \in tenants : feed[t] # <<>> /\ Apply(j, t, Day(t), List(t))
  BY DEF ReadAgain, Day, List
<1>2. UNCHANGED <<tenants, feed, rows, applied, faults>>
  BY DEF ReadAgain
<1>3. Day(t) \in Nat /\ Day(t) # 0 /\ List(t) \in SUBSET Symbols
  <2>1. feed[t] \in Seq(SUBSET Symbols) /\ Day(t) \in Nat /\ \A d \in 1..Day(t) : feed[t][d] \in SUBSET Symbols
    BY Types DEF IInv
  <2>2. Day(t) # 0
    BY <1>1, <2>1 DEF Day
  <2> QED
    BY <2>1, <2>2 DEF List
<1>4. /\ job' \in [Jobs -> {NoJob} \cup Job]
      /\ \A k \in Jobs \ {j} : job'[k] = job[k]
      /\ job'[j] = [at |-> "upsert", tenant |-> t, asof |-> Day(t),
                    open |-> List(t) \ OpenNow(t), close |-> OpenNow(t) \ List(t)]
  BY <1>1, <1>3, AppliedJob DEF IInv
<1>5. TypeOK'
  BY <1>2, <1>4 DEF IInv, TypeOK, Job
<1>6. \A u \in tenants : OpenNow(u)' = OpenNow(u) /\ Day(u)' = Day(u) /\ List(u)' = List(u)
  BY <1>2 DEF OpenNow, Day, List
<1>7. ASSUME NEW k \in Jobs, job'[k] # NoJob PROVE JobInv(k)'
  <2>1. CASE k = j
    BY <1>3, <1>4, <1>6, <2>1 DEF JobInv
  <2>2. CASE k # j
    BY <1>2, <1>4, <1>7, <2>2, JobInvKept DEF IInv, JobsCurrent
  <2> QED
    BY <2>1, <2>2
<1> QED
  BY <1>2, <1>5, <1>6, <1>7 DEF IInv, JobsCurrent, DatesPast, AppliedInv, HistoryFaithful, Day

\* A job that goes on to its next step.
LEMMA JobMovesOn ==
    ASSUME IInv, NEW j \in Jobs, job[j] # NoJob, NEW at \in {"close", "return"},
           job' = [job EXCEPT ![j].at = at]
    PROVE  /\ job' \in [Jobs -> {NoJob} \cup Job]
           /\ \A k \in Jobs \ {j} : job'[k] = job[k]
           /\ job'[j] \in Job /\ job'[j].at = at
           /\ job'[j].tenant = job[j].tenant /\ job'[j].asof = job[j].asof
           /\ job'[j].open = job[j].open /\ job'[j].close = job[j].close
           /\ job[j] \in Job
           /\ job[j].tenant \in tenants /\ job[j].open \in SUBSET Symbols /\ job[j].close \in SUBSET Symbols
<1>1. job \in [Jobs -> {NoJob} \cup Job] /\ job[j] \in Job
  BY DEF IInv, TypeOK, Job
<1>2. [job[j] EXCEPT !.at = at] \in Job
  BY <1>1 DEF Job
<1> QED
  BY <1>1, <1>2 DEF Job

LEMMA UpsertKeeps == ASSUME IInv, NEW j \in Jobs, Upsert(j) PROVE IInv'
<1>0. PICK t \in tenants : job[j].tenant = t
  BY DEF Upsert, IInv, TypeOK
<1>1. /\ job' = [job EXCEPT ![j].at = "close"] /\ job[j] # NoJob /\ job[j].at = "upsert"
      /\ UNCHANGED <<tenants, feed, applied, faults>>
      /\ rows' = Upserted(t, job[j].open, job[j].asof)
  BY <1>0 DEF Upsert
<1>2. /\ job' \in [Jobs -> {NoJob} \cup Job]
      /\ \A k \in Jobs \ {j} : job'[k] = job[k]
      /\ job'[j] \in Job /\ job'[j].at = "close"
      /\ job'[j].tenant = t /\ job'[j].asof = job[j].asof
      /\ job'[j].open = job[j].open /\ job'[j].close = job[j].close
      /\ t \in tenants /\ job[j].open \in SUBSET Symbols /\ job[j] \in Job
  BY <1>0, <1>1, JobMovesOn
<1>3. JobInv(j) /\ job[j].asof = Day(t)
  BY <1>0, <1>1 DEF IInv, JobsCurrent, JobInv
<1>4. /\ rows' \in SUBSET RowsOf(tenants)
      /\ \A r \in rows' : PastRow(r, Day(r.tenant))
      /\ OpenIn(rows', t) = OpenNow(t) \cup job[j].open
      /\ \A u \in tenants \ {t} : OpenIn(rows', u) = OpenNow(u)
      /\ \A u \in tenants : \A d \in Nat :
            u # t \/ d < Day(t) => MembersOn(rows', u, d) = MembersOn(rows, u, d)
  BY <1>1, <1>2, <1>3, UpsertChanges DEF IInv
<1>5. \A u : OpenIn(rows', u) = OpenNow(u)'
  BY DEF OpenIn, OpenNow
<1>6. TableStep(t)
  BY <1>0, <1>1, <1>3, <1>4, <1>5 DEF TableStep, JobInv
<1>7. TypeOK'
  BY <1>1, <1>2, <1>4 DEF IInv, TypeOK, RowsOf, Job
<1>8. DatesPast' /\ AppliedInv' /\ HistoryFaithful'
  BY <1>2, <1>6, TableStepKeeps
<1>9. ASSUME NEW k \in Jobs, job'[k] # NoJob PROVE JobInv(k)'
  <2>1. CASE k = j
    <3>1. Day(t)' = Day(t) /\ List(t)' = List(t)
      BY <1>1 DEF Day, List
    <3> QED
      BY <1>0, <1>1, <1>2, <1>3, <1>4, <1>5, <2>1, <3>1 DEF JobInv
  <2>2. CASE k # j
    BY <1>2, <1>6, <1>9, <2>2, TableStepJobs
  <2> QED
    BY <2>1, <2>2
<1> QED
  BY <1>7, <1>8, <1>9 DEF IInv, JobsCurrent

LEMMA CloseKeeps == ASSUME IInv, NEW j \in Jobs, Close(j) PROVE IInv'
<1>0. PICK t \in tenants : job[j].tenant = t
  BY DEF Close, IInv, TypeOK
<1>1. /\ job' = [job EXCEPT ![j].at = "return"] /\ job[j] # NoJob /\ job[j].at = "close"
      /\ UNCHANGED <<tenants, feed, applied, faults>>
      /\ rows' = Closed(t, job[j].close, job[j].asof)
  BY <1>0 DEF Close
<1>2. /\ job' \in [Jobs -> {NoJob} \cup Job]
      /\ \A k \in Jobs \ {j} : job'[k] = job[k]
      /\ job'[j] \in Job /\ job'[j].at = "return"
      /\ job'[j].tenant = t /\ job'[j].asof = job[j].asof
      /\ job'[j].open = job[j].open /\ job'[j].close = job[j].close
      /\ t \in tenants /\ job[j].close \in SUBSET Symbols /\ job[j] \in Job
  BY <1>0, <1>1, JobMovesOn
<1>3. JobInv(j) /\ job[j].asof = Day(t)
  BY <1>0, <1>1 DEF IInv, JobsCurrent, JobInv
<1>4. /\ rows' \in SUBSET RowsOf(tenants)
      /\ \A r \in rows' : PastRow(r, Day(r.tenant))
      /\ OpenIn(rows', t) = OpenNow(t) \ job[j].close
      /\ \A u \in tenants \ {t} : OpenIn(rows', u) = OpenNow(u)
      /\ \A u \in tenants : \A d \in Nat :
            u # t \/ d < Day(t) => MembersOn(rows', u, d) = MembersOn(rows, u, d)
  BY <1>1, <1>2, <1>3, CloseChanges DEF IInv
<1>5. \A u : OpenIn(rows', u) = OpenNow(u)'
  BY DEF OpenIn, OpenNow
<1>6. TableStep(t)
  BY <1>0, <1>1, <1>3, <1>4, <1>5 DEF TableStep, JobInv
<1>7. TypeOK'
  BY <1>1, <1>2, <1>4 DEF IInv, TypeOK, RowsOf, Job
<1>8. DatesPast' /\ AppliedInv' /\ HistoryFaithful'
  BY <1>2, <1>6, TableStepKeeps
<1>9. ASSUME NEW k \in Jobs, job'[k] # NoJob PROVE JobInv(k)'
  <2>1. CASE k = j
    <3>1. Day(t)' = Day(t) /\ List(t)' = List(t)
      BY <1>1 DEF Day, List
    <3> QED
      BY <1>0, <1>1, <1>2, <1>3, <1>4, <1>5, <2>1, <3>1 DEF JobInv
  <2>2. CASE k # j
    BY <1>2, <1>6, <1>9, <2>2, TableStepJobs
  <2> QED
    BY <2>1, <2>2
<1> QED
  BY <1>7, <1>8, <1>9 DEF IInv, JobsCurrent

\* A job that is gone leaves the others as they are.
LEMMA JobGone ==
    ASSUME IInv, NEW j \in Jobs, job' = [job EXCEPT ![j] = NoJob], UNCHANGED <<tenants, feed, rows>>
    PROVE  /\ job' \in [Jobs -> {NoJob} \cup Job]
           /\ JobsCurrent'
<1>1. job \in [Jobs -> {NoJob} \cup Job]
  BY DEF IInv, TypeOK, Job
<1>2. job' \in [Jobs -> {NoJob} \cup Job]
  BY <1>1
<1>3. ASSUME NEW k \in Jobs, job'[k] # NoJob PROVE JobInv(k)'
  <2>1. job'[k] = job[k]
    BY <1>1, <1>3
  <2> QED
    BY <1>3, <2>1, JobInvKept DEF IInv, JobsCurrent
<1> QED
  BY <1>2, <1>3 DEF JobsCurrent

LEMMA ReturnKeeps == ASSUME IInv, NEW j \in Jobs, Return(j) PROVE IInv'
<1>0. PICK t \in tenants : job[j].tenant = t
  BY DEF Return, IInv, TypeOK
<1>1. /\ job' = [job EXCEPT ![j] = NoJob] /\ job[j] # NoJob /\ job[j].at = "return"
      /\ UNCHANGED <<tenants, feed, rows, faults>>
      /\ applied' = [applied EXCEPT ![t] = @ \cup {job[j].asof}]
  BY <1>0 DEF Return
<1>2. JobInv(j) /\ job[j] \in Job /\ t \in tenants
  BY <1>1, Types DEF IInv, JobsCurrent, Job, TypeOK
<1>3. job[j].asof = Day(t) /\ Day(t) \in Nat /\ Day(t) # 0 /\ OpenNow(t) = List(t)
  BY <1>0, <1>1, <1>2, Types DEF JobInv, IInv
<1>4. MembersOn(rows, t, Day(t)) = List(t)
  <2>1. \A r \in rows : r.tenant = t => PastRow(r, Day(t))
    BY DEF IInv, DatesPast, PastRow
  <2>2. MembersOn(rows, t, Day(t)) = OpenIn(rows, t)
    BY <1>2, <1>3, <2>1, Types, LatestMembersAreOpen DEF IInv
  <2> QED
    BY <1>3, <2>2 DEF OpenIn, OpenNow
<1>5. applied \in [tenants -> SUBSET Nat]
  BY DEF IInv, TypeOK
<1>6. applied'[t] = applied[t] \cup {Day(t)} /\ \A u \in tenants \ {t} : applied'[u] = applied[u]
  BY <1>1, <1>2, <1>3, <1>5
<1>7. \A u : Day(u)' = Day(u) /\ List(u)' = List(u) /\ OpenNow(u)' = OpenNow(u)
  BY <1>1 DEF Day, List, OpenNow
<1>8. job' \in [Jobs -> {NoJob} \cup Job] /\ JobsCurrent'
  BY <1>1, JobGone
<1>9. TypeOK'
  BY <1>1, <1>3, <1>5, <1>8 DEF IInv, TypeOK, Job
<1>10. DatesPast'
  BY <1>1, <1>7 DEF IInv, DatesPast
<1>11. AppliedInv'
  BY <1>1, <1>3, <1>6, <1>7 DEF IInv, AppliedInv
<1>12. HistoryFaithful'
  BY <1>1, <1>4, <1>6 DEF IInv, HistoryFaithful, List
<1> QED
  BY <1>8, <1>9, <1>10, <1>11, <1>12 DEF IInv

LEMMA DieKeeps == ASSUME IInv, NEW j \in Jobs, Die(j) PROVE IInv'
<1>1. job' = [job EXCEPT ![j] = NoJob] /\ UNCHANGED <<tenants, feed, rows, applied>> /\ faults' = faults + 1
  BY DEF Die
<1>2. job' \in [Jobs -> {NoJob} \cup Job] /\ JobsCurrent'
  BY <1>1, JobGone
<1> QED
  BY <1>1, <1>2 DEF IInv, TypeOK, Job, DatesPast, AppliedInv, HistoryFaithful, Day, List, OpenNow

LEMMA StepKeeps == IInv /\ [Next]_vars => IInv'
<1> SUFFICES ASSUME IInv, [Next]_vars PROVE IInv'
  OBVIOUS
<1>1. CASE UNCHANGED vars
  BY <1>1 DEF IInv, TypeOK, DatesPast, JobsCurrent, JobInv, AppliedInv, HistoryFaithful, Day, List, OpenNow, vars
<1>2. CASE Next
  BY <1>2, ReadKeeps, ReadAgainKeeps, UpsertKeeps, CloseKeeps, ReturnKeeps, DieKeeps DEF Next
<1> QED
  BY <1>1, <1>2

\* Rows, lists and jobs stay well-typed.
THEOREM TypeCorrect == Spec => []TypeOK
<1>1. IInv => TypeOK
  BY DEF IInv
<1> QED
  BY <1>1, InitEstablishes, StepKeeps, PTL DEF Spec

\* However many jobs apply a list, die over it or repeat it, an applied list stays what
\* the table answers for its day (ingestion.py:148-153).
THEOREM HistoryAlwaysFaithful == Spec => []HistoryFaithful
<1>1. IInv => HistoryFaithful
  BY DEF IInv
<1> QED
  BY <1>1, InitEstablishes, StepKeeps, PTL DEF Spec

\* What the other tenants read is not changed by a step of a job of t.
LEMMA RowsApart ==
    ASSUME IInv, NEW j \in Jobs, Upsert(j) \/ Close(j), NEW u \in tenants, u # job[j].tenant, NEW d \in Days
    PROVE  MembersOn(rows', u, d) = MembersOn(rows, u, d)
<1>1. PICK t \in tenants : job[j].tenant = t
  BY DEF Upsert, Close, IInv, TypeOK
<1>2. job[j] \in Job /\ JobInv(j) /\ job[j].asof = Day(t) /\ d \in Nat
  BY <1>1, Types DEF Upsert, Close, IInv, JobsCurrent, JobInv, Days
<1>3. CASE Upsert(j)
  BY <1>1, <1>2, <1>3, UpsertChanges DEF Upsert, IInv, Job
<1>4. CASE Close(j)
  BY <1>1, <1>2, <1>4, CloseChanges DEF Close, IInv, Job
<1> QED
  BY <1>3, <1>4

LEMMA StepApart ==
    ASSUME IInv, Next, NEW j \in Jobs, job'[j] # job[j], NEW u \in tenants, u # job[j].tenant, NEW d \in Days
    PROVE  MembersOn(rows', u, d) = MembersOn(rows, u, d)
<1>1. PICK k \in Jobs : Read(k) \/ ReadAgain(k) \/ Upsert(k) \/ Close(k) \/ Return(k) \/ Die(k)
  BY DEF Next
<1>2. CASE Upsert(k) \/ Close(k)
  <2>1. j = k
    BY <1>2 DEF Upsert, Close, IInv, TypeOK
  <2> QED
    BY <1>2, <2>1, RowsApart
<1>3. CASE Read(k) \/ ReadAgain(k) \/ Return(k) \/ Die(k)
  BY <1>3 DEF Read, ReadAgain, Return, Die
<1> QED
  BY <1>1, <1>2, <1>3

\* Whatever jobs run, a job of one tenant leaves the members of another alone.
THEOREM TenantsAlwaysApart == Spec => TenantsApart
<1>1. IInv /\ [Next]_vars =>
          [\A j \in Jobs : \A t \in tenants :
              job[j] # NoJob /\ job'[j] # job[j] /\ NoTenant \notin {t, job[j].tenant} /\ t # job[j].tenant
                  => \A d \in Days : MembersOn(rows', t, d) = MembersOn(rows, t, d)]_vars
  BY StepApart DEF vars
<1> QED
  BY <1>1, InitEstablishes, StepKeeps, PTL DEF Spec, TenantsApart
-----------------------------------------------------------------------------
(* The windows of a backtest: the days in their order, what one more list  *)
(* does to the windows, and the fold over all the days.                    *)

Ordered(o, D) == o \in [1..Cardinality(D) -> D] /\ \A i, j \in DOMAIN o : i < j => o[i] < o[j]

\* A finite set of days can be sorted: a day's place is the number of days up to it.
LEMMA DaysInOrder ==
    ASSUME NEW D \in SUBSET Nat, IsFiniteSet(D)
    PROVE  Ordered(InOrder(D), D)
<1> DEFINE n == Cardinality(D)
           UpTo(d) == {e \in D : e <= d}
           place == [d \in D |-> Cardinality(UpTo(d))]
           o == [k \in 1..n |-> CHOOSE d \in D : place[d] = k]
<1>1. n \in Nat /\ IsFiniteSet(1..n) /\ Cardinality(1..n) = n
  BY FS_CardinalityType, FS_Interval
<1>2. ASSUME NEW d \in D PROVE place[d] \in 1..n
  <2>1. UpTo(d) \in SUBSET D /\ UpTo(d) # {}
    OBVIOUS
  <2>2. IsFiniteSet(UpTo(d)) /\ Cardinality(UpTo(d)) \in Nat /\ Cardinality(UpTo(d)) <= n
    BY <2>1, FS_Subset, FS_CardinalityType
  <2>3. Cardinality(UpTo(d)) # 0
    BY <2>1, <2>2, FS_EmptySet
  <2> QED
    BY <1>1, <2>2, <2>3
<1>3. ASSUME NEW d \in D, NEW e \in D, d < e PROVE place[d] < place[e]
  <2>0. \A x \in D : x \in Nat
    OBVIOUS
  <2>1. UpTo(d) \in SUBSET UpTo(e) /\ e \in UpTo(e) /\ e \notin UpTo(d)
    <3>1. d \in Nat /\ e \in Nat /\ e <= e /\ ~ (e <= d)
      BY <1>3, <2>0
    <3>2. \A x \in D : x <= d => x <= e
      BY <1>3, <2>0, <3>1
    <3> QED
      BY <3>1, <3>2
  <2>2. IsFiniteSet(UpTo(e))
    BY FS_Subset
  <2>3. Cardinality(UpTo(d)) <= Cardinality(UpTo(e)) /\ Cardinality(UpTo(d)) # Cardinality(UpTo(e))
    BY <2>1, <2>2, FS_Subset
  <2> QED
    BY <1>1, <1>2, <2>3
<1>10. place \in [D -> 1..n]
  BY <1>2
<1> HIDE DEF place
<1>11. ASSUME NEW d \in D, NEW e \in D, place[d] = place[e] PROVE d = e
  <2>1. d \in Nat /\ e \in Nat /\ place[d] \in 1..n /\ place[e] \in 1..n
    BY <1>2
  <2>2. d < e \/ e < d \/ d = e
    BY <2>1
  <2>3. ~ (place[d] < place[e]) /\ ~ (place[e] < place[d])
    BY <1>1, <1>11, <2>1
  <2> QED
    BY <1>3, <2>2, <2>3
<1>4. place \in Injection(D, 1..n)
  BY <1>10, <1>11 DEF Injection, IsInjective
<1>5. \A k \in 1..n : \E d \in D : place[d] = k
  <2>1. place \in Surjection(D, 1..n)
    BY <1>1, <1>4, FS_Injection
  <2> QED
    BY <2>1 DEF Surjection
<1>6. \A k \in 1..n : o[k] \in D /\ place[o[k]] = k
  BY <1>5
<1> HIDE DEF o
<1>7. \A i, j \in 1..n : i < j => o[i] < o[j]
  <2> SUFFICES ASSUME NEW i \in 1..n, NEW j \in 1..n, i < j PROVE o[i] < o[j]
    OBVIOUS
  <2>1. o[i] \in D /\ o[j] \in D /\ place[o[i]] = i /\ place[o[j]] = j
    BY <1>6
  <2>3. o[i] \in Nat /\ o[j] \in Nat /\ i \in Nat /\ j \in Nat /\ ~ (j < i)
    <3>1. \A x \in D : x \in Nat
      OBVIOUS
    <3>2. i \in Nat /\ j \in Nat
      BY <1>1
    <3>3. ~ (j < i)
      BY <3>2
    <3> QED
      BY <2>1, <3>1, <3>2, <3>3
  <2>2. ~ (o[j] < o[i]) /\ o[i] # o[j]
    BY <1>3, <2>1, <2>3
  <2> QED
    BY <2>2, <2>3
<1>8. o \in [1..n -> D]
  BY <1>6 DEF o
<1>9. Ordered(o, D)
  BY <1>7, <1>8 DEF Ordered
<1> QED
  BY <1>9 DEF InOrder, Ordered

\* Every day has a place.
LEMMA DaysAll ==
    ASSUME NEW D \in SUBSET Nat, IsFiniteSet(D), NEW o, Ordered(o, D)
    PROVE  \A d \in D : \E k \in 1..Cardinality(D) : o[k] = d
<1> DEFINE n == Cardinality(D)
<1>1. n \in Nat /\ IsFiniteSet(1..n) /\ Cardinality(1..n) = n
  BY FS_CardinalityType, FS_Interval
<1>2. \A i, j \in 1..n : o[i] = o[j] => i = j
  <2> SUFFICES ASSUME NEW i \in 1..n, NEW j \in 1..n, o[i] = o[j], i # j PROVE FALSE
    OBVIOUS
  <2>1. o[i] \in Nat /\ o[j] \in Nat
    BY DEF Ordered
  <2>2. i < j \/ j < i
    BY <1>1
  <2> QED
    BY <2>1, <2>2 DEF Ordered
<1>3. o \in Injection(1..n, D)
  BY <1>2 DEF Ordered, Injection, IsInjective
<1>4. o \in Surjection(1..n, D)
  BY <1>1, <1>3, FS_Injection
<1> QED
  BY <1>4 DEF Surjection
-----------------------------------------------------------------------------
Had(f, s, d) == d # 0 /\ s \in f[d]

Latest(E, time) == Max({0} \cup {d \in E : d <= time})

LEMMA LatestStep ==
    ASSUME NEW E \in SUBSET Nat, NEW d \in Nat \ {0}, \A e \in E : e < d, NEW time \in Nat
    PROVE  Latest(E \cup {d}, time) = IF d <= time THEN d ELSE Latest(E, time)
<1>1. CASE d <= time
  <2> DEFINE S == {0} \cup {e \in E \cup {d} : e <= time}
  <2>1. d \in S /\ \A e \in S : d >= e
    BY <1>1
  <2>2. \A e \in S : e \in Nat
    <3>1. \A e \in E : e \in Nat
      OBVIOUS
    <3> QED
      BY <3>1
  <2> HIDE DEF S
  <2>3. Max(S) = d
    <3>1. Max(S) \in S /\ \A e \in S : Max(S) >= e
      BY <2>1 DEF Max
    <3>2. Max(S) \in Nat /\ d \in Nat /\ Max(S) >= d /\ d >= Max(S)
      BY <2>1, <2>2, <3>1
    <3> QED
      BY <3>2
  <2> QED
    BY <1>1, <2>3 DEF Latest, S
<1>2. CASE ~ (d <= time)
  <2>1. {e \in E \cup {d} : e <= time} = {e \in E : e <= time}
    BY <1>2
  <2> QED
    BY <1>2, <2>1 DEF Latest
<1> QED
  BY <1>1, <1>2

\* The accumulator of the fold.
Window == [symbol : Symbols, from : Nat, to : Nat]

Acc == [prev : SUBSET Symbols, since : [Symbols -> Nat], windows : SUBSET Window]

Within(w, time) == w.from <= time /\ time <= w.to

Covered(a, s, time) ==
    \/ \E w \in a.windows : w.symbol = s /\ Within(w, time)
    \/ s \in a.prev /\ a.since[s] <= time

Seen(a, s) == s \in a.prev \/ \E w \in a.windows : w.symbol = s

\* The symbols that may enter at a time, when the universe is resolved on the days E.
Admitted(f, E, s, time) == Had(f, s, Latest(E, time)) \/ (time \in E /\ Had(f, s, Latest(E, time - 1)))

\* What the fold has made of the lists f of the days E, when no day is later.
Follows(a, f, E) ==
    /\ a \in Acc
    /\ \A w \in a.windows : \E d \in E : w.to <= d
    /\ \A s \in a.prev : \E d \in E : a.since[s] <= d
    /\ \A s \in Symbols : \A time \in Nat :
          (\A e \in E : e <= time) => (s \in a.prev <=> Had(f, s, Latest(E, time)))
    /\ \A s \in Symbols : \A time \in Nat \ {0} : Covered(a, s, time) <=> Admitted(f, E, s, time)
    /\ \A d \in E : \A s \in f[d] : Seen(a, s)

Snap(f, d) == [asof |-> d, members |-> f[d]]

Snap0 == [asof : Nat, members : SUBSET Symbols]

LEMMA StepParts ==
    ASSUME NEW a \in Acc, NEW snap \in Snap0
    PROVE  LET b == WindowsStep(a, snap)
           IN  /\ b \in Acc
               /\ b.prev = snap.members
               /\ \A s \in Symbols : b.since[s] = IF s \in snap.members \ a.prev THEN snap.asof ELSE a.since[s]
               /\ \A w : w \in b.windows <=>
                     \/ w \in a.windows
                     \/ \E s \in a.prev \ snap.members : w = [symbol |-> s, from |-> a.since[s], to |-> snap.asof]
<1> DEFINE b == WindowsStep(a, snap)
           New == {[symbol |-> s, from |-> a.since[s], to |-> snap.asof] : s \in a.prev \ snap.members}
<1>1. /\ a.prev \in SUBSET Symbols /\ a.since \in [Symbols -> Nat] /\ a.windows \in SUBSET Window
      /\ snap.asof \in Nat /\ snap.members \in SUBSET Symbols
  BY DEF Acc, Snap0
<1>2. OpenSince(a, snap) \in [Symbols -> Nat]
  BY <1>1 DEF OpenSince
<1>3. New \in SUBSET Window
  BY <1>1 DEF Window
<1>4. b = [prev |-> snap.members, since |-> OpenSince(a, snap), windows |-> a.windows \cup New]
  BY DEF WindowsStep
<1>5. b \in Acc
  BY <1>1, <1>2, <1>3, <1>4 DEF Acc
<1>6. b.prev = snap.members /\ b.since = OpenSince(a, snap) /\ b.windows = a.windows \cup New
  BY <1>4
<1> HIDE DEF b
<1>7. \A s \in Symbols : b.since[s] = IF s \in snap.members \ a.prev THEN snap.asof ELSE a.since[s]
  BY <1>6 DEF OpenSince
<1> QED
  BY <1>5, <1>6, <1>7 DEF b

LEMMA FollowsStart ==
    ASSUME NEW f
    PROVE  Follows([prev |-> {}, since |-> [s \in Symbols |-> 0], windows |-> {}], f, {})
<1> DEFINE a == [prev |-> {}, since |-> [s \in Symbols |-> 0], windows |-> {}]
<1>1. a \in Acc /\ a.prev = {} /\ a.windows = {}
  BY DEF Acc
<1>2. \A time : Latest({}, time) = 0
  <2>1. \A time : {0} \cup {d \in {} : d <= time} = {0}
    OBVIOUS
  <2>2. Max({0}) = 0
    BY DEF Max
  <2> QED
    BY <2>1, <2>2 DEF Latest
<1> HIDE DEF a
<1>3. \A s, time : ~ Had(f, s, Latest({}, time)) /\ ~ Covered(a, s, time)
  BY <1>1, <1>2 DEF Had, Covered
<1>4. \A s, time : Covered(a, s, time) <=> Admitted(f, {}, s, time)
  BY <1>3 DEF Admitted
<1>5. /\ \A w \in a.windows : \E d \in {} : w.to <= d
      /\ \A s \in a.prev : \E d \in {} : a.since[s] <= d
      /\ \A d \in {} : \A s \in f[d] : Seen(a, s)
  BY <1>1
<1>6. \A s, time : s \in a.prev <=> Had(f, s, Latest({}, time))
  BY <1>1, <1>3
<1>7. Follows(a, f, {})
  BY <1>1, <1>4, <1>5, <1>6 DEF Follows
<1> QED
  BY <1>7 DEF a

\* One more list, of a later day.
LEMMA FollowsStep ==
    ASSUME NEW f, NEW E \in SUBSET Nat, NEW a, Follows(a, f, E),
           NEW d \in Nat \ {0}, \A e \in E : e < d, f[d] \in SUBSET Symbols
    PROVE  Follows(WindowsStep(a, Snap(f, d)), f, E \cup {d})
<1> DEFINE b == WindowsStep(a, Snap(f, d))
           snap == Snap(f, d)
           D == E \cup {d}
<1>1. snap \in Snap0 /\ snap.asof = d /\ snap.members = f[d]
  BY DEF Snap, Snap0
<1>2. a \in Acc /\ a.prev \in SUBSET Symbols /\ a.since \in [Symbols -> Nat] /\ a.windows \in SUBSET Window
  BY DEF Follows, Acc
<1>3. /\ b \in Acc
      /\ b.prev = f[d]
      /\ \A s \in Symbols : b.since[s] = IF s \in f[d] \ a.prev THEN d ELSE a.since[s]
      /\ \A w : w \in b.windows <=>
            \/ w \in a.windows
            \/ \E s \in a.prev \ f[d] : w = [symbol |-> s, from |-> a.since[s], to |-> d]
  <2> HIDE DEF snap
  <2> QED
    BY <1>1, <1>2, StepParts DEF snap
<1> HIDE DEF b, snap
<1>4. \A e \in E : e \in Nat /\ e <= d
  <2> SUFFICES ASSUME NEW e \in E PROVE e \in Nat /\ e <= d
    OBVIOUS
  <2>1. e \in Nat /\ d \in Nat
    BY Zenon
  <2>2. e < d
    BY Zenon
  <2> QED
    BY ONLY <2>1, <2>2
<1>5. \A s \in a.prev : a.since[s] \in Nat /\ a.since[s] < d
  <2> SUFFICES ASSUME NEW s \in a.prev PROVE a.since[s] \in Nat /\ a.since[s] < d
    OBVIOUS
  <2>1. PICK e \in E : a.since[s] <= e
    BY DEF Follows
  <2>2. a.since[s] \in Nat
    BY <1>2
  <2> QED
    BY <1>4, <2>1, <2>2
<1>6. \A w \in a.windows : w.from \in Nat /\ w.to \in Nat /\ w.to < d /\ w.symbol \in Symbols
  <2> SUFFICES ASSUME NEW w \in a.windows PROVE w.from \in Nat /\ w.to \in Nat /\ w.to < d /\ w.symbol \in Symbols
    OBVIOUS
  <2>1. PICK e \in E : w.to <= e
    BY DEF Follows
  <2>2. w.from \in Nat /\ w.to \in Nat /\ w.symbol \in Symbols
    BY <1>2 DEF Window
  <2> QED
    BY <1>4, <2>1, <2>2
<1>7. \A w \in b.windows : \E e \in D : w.to <= e
  <2> SUFFICES ASSUME NEW w \in b.windows PROVE w.to \in Nat /\ w.to <= d
    OBVIOUS
  <2> QED
    BY <1>3, <1>6
<1>8. \A s \in b.prev : \E e \in D : b.since[s] <= e
  <2> SUFFICES ASSUME NEW s \in b.prev PROVE b.since[s] <= d
    OBVIOUS
  <2>1. s \in Symbols
    BY <1>3
  <2> QED
    BY <1>3, <1>5, <2>1
<1>9. ASSUME NEW s \in Symbols, NEW time \in Nat, \A e \in D : e <= time
      PROVE  s \in b.prev <=> Had(f, s, Latest(D, time))
  <2>1. Latest(D, time) = d
    BY <1>9, LatestStep
  <2> QED
    BY <1>3, <2>1 DEF Had
<1>10. ASSUME NEW s \in Symbols, NEW time \in Nat \ {0}
       PROVE  Covered(b, s, time) <=> Admitted(f, D, s, time)
  <2>1. CASE time < d
    <3>1. Latest(D, time) = Latest(E, time) /\ Latest(D, time - 1) = Latest(E, time - 1)
      <4>1. time \in Nat /\ time - 1 \in Nat /\ ~ (d <= time) /\ ~ (d <= time - 1)
        BY <2>1
      <4> QED
        BY <4>1, LatestStep
    <3>2. time \in D <=> time \in E
      BY <2>1
    <3>3. Covered(a, s, time) <=> Admitted(f, D, s, time)
      BY <3>1, <3>2 DEF Follows, Admitted
    <3>4. Covered(a, s, time) <=> Covered(b, s, time)
      <4>1. ASSUME Covered(a, s, time) PROVE Covered(b, s, time)
        <5>1. CASE \E w \in a.windows : w.symbol = s /\ Within(w, time)
          BY <1>3, <5>1 DEF Covered
        <5>2. CASE s \in a.prev /\ a.since[s] <= time /\ s \in f[d]
          BY <1>3, <5>2 DEF Covered
        <5>3. CASE s \in a.prev /\ a.since[s] <= time /\ s \notin f[d]
          <6> DEFINE w == [symbol |-> s, from |-> a.since[s], to |-> d]
          <6>1. w \in b.windows
            BY <1>3, <5>3
          <6>2. w.symbol = s /\ Within(w, time)
            BY <2>1, <5>3 DEF Within
          <6> QED
            BY <6>1, <6>2 DEF Covered
        <5> QED
          BY <4>1, <5>1, <5>2, <5>3 DEF Covered
      <4>2. ASSUME Covered(b, s, time) PROVE Covered(a, s, time)
        <5>1. CASE s \in b.prev /\ b.since[s] <= time
          BY <1>3, <2>1, <5>1 DEF Covered
        <5>2. ASSUME NEW w \in b.windows, w.symbol = s, Within(w, time) PROVE Covered(a, s, time)
          <6>1. CASE w \in a.windows
            BY <5>2, <6>1 DEF Covered
          <6>2. ASSUME NEW u \in a.prev \ f[d], w = [symbol |-> u, from |-> a.since[u], to |-> d]
                PROVE  Covered(a, s, time)
            BY <5>2, <6>2 DEF Covered, Within
          <6> QED
            BY <1>3, <5>2, <6>1, <6>2
        <5> QED
          BY <4>2, <5>1, <5>2 DEF Covered
      <4> QED
        BY <4>1, <4>2
    <3> QED
      BY <3>3, <3>4
  <2>2. CASE time = d
    <3>1. Latest(D, time) = d /\ Latest(D, time - 1) = Latest(E, time - 1)
      <4>1. time \in Nat /\ time - 1 \in Nat /\ ~ (d <= time - 1)
        BY <2>2
      <4> QED
        BY <2>2, <4>1, LatestStep
    <3>2. s \in a.prev <=> Had(f, s, Latest(E, time - 1))
      <4>1. time - 1 \in Nat /\ \A e \in E : e <= time - 1
        BY <1>4, <2>2
      <4> QED
        BY <4>1 DEF Follows
    <3>3. Admitted(f, D, s, time) <=> s \in f[d] \/ s \in a.prev
      BY <2>2, <3>1, <3>2 DEF Admitted, Had
    <3>4. ASSUME s \in f[d] PROVE Covered(b, s, time)
      <4>1. b.since[s] <= d
        BY <1>3, <1>5, <3>4
      <4> QED
        BY <1>3, <2>2, <3>4, <4>1 DEF Covered
    <3>5. ASSUME s \in a.prev, s \notin f[d] PROVE Covered(b, s, time)
      <4> DEFINE w == [symbol |-> s, from |-> a.since[s], to |-> d]
      <4>1. w \in b.windows
        BY <1>3, <3>5
      <4>2. w.symbol = s /\ Within(w, time)
        BY <1>5, <2>2, <3>5 DEF Within
      <4> QED
        BY <4>1, <4>2 DEF Covered
    <3>6. ASSUME Covered(b, s, time) PROVE s \in f[d] \/ s \in a.prev
      <4>1. ASSUME NEW w \in b.windows, w.symbol = s, Within(w, time) PROVE s \in a.prev
        <5>1. w \notin a.windows
          BY <1>6, <2>2, <4>1 DEF Within
        <5>2. PICK u \in a.prev \ f[d] : w = [symbol |-> u, from |-> a.since[u], to |-> d]
          BY <1>3, <4>1, <5>1
        <5> QED
          BY <4>1, <5>2
      <4> QED
        BY <1>3, <3>6, <4>1 DEF Covered
    <3> QED
      BY <3>3, <3>4, <3>5, <3>6
  <2>3. CASE d < time
    <3>1. Latest(D, time) = d /\ time \notin D
      <4>1. d <= time
        BY <2>3
      <4>2. time \notin D
        BY <1>4, <2>3
      <4> QED
        BY <4>1, <4>2, LatestStep
    <3>2. Admitted(f, D, s, time) <=> s \in f[d]
      BY <3>1 DEF Admitted, Had
    <3>3. ASSUME s \in f[d] PROVE Covered(b, s, time)
      <4>1. b.since[s] <= time
        BY <1>3, <1>5, <2>3, <3>3
      <4> QED
        BY <1>3, <3>3, <4>1 DEF Covered
    <3>4. ASSUME Covered(b, s, time) PROVE s \in f[d]
      <4>1. ASSUME NEW w \in b.windows, w.symbol = s, Within(w, time) PROVE FALSE
        <5>1. w \notin a.windows
          BY <1>6, <2>3, <4>1 DEF Within
        <5>2. PICK u \in a.prev \ f[d] : w = [symbol |-> u, from |-> a.since[u], to |-> d]
          BY <1>3, <4>1, <5>1
        <5> QED
          BY <2>3, <4>1, <5>2 DEF Within
      <4> QED
        BY <1>3, <3>4, <4>1 DEF Covered
    <3> QED
      BY <3>2, <3>3, <3>4
  <2> QED
    BY <2>1, <2>2, <2>3
<1>11. ASSUME NEW e \in D, NEW s \in f[e] PROVE Seen(b, s)
  <2>1. CASE e = d
    BY <1>3, <1>11, <2>1 DEF Seen
  <2>2. CASE e \in E
    <3>1. Seen(a, s)
      BY <1>11, <2>2 DEF Follows
    <3>2. CASE \E w \in a.windows : w.symbol = s
      BY <1>3, <3>2 DEF Seen
    <3>3. CASE s \in a.prev /\ s \in f[d]
      BY <1>3, <3>3 DEF Seen
    <3>4. CASE s \in a.prev /\ s \notin f[d]
      <4>1. [symbol |-> s, from |-> a.since[s], to |-> d] \in b.windows
        BY <1>3, <3>4
      <4> QED
        BY <4>1 DEF Seen
    <3> QED
      BY <3>1, <3>2, <3>3, <3>4 DEF Seen
  <2> QED
    BY <2>1, <2>2
<1> HIDE DEF D
<1>12. Follows(b, f, D)
  BY <1>3, <1>7, <1>8, <1>9, <1>10, <1>11 DEF Follows
<1> QED
  BY <1>12 DEF b, D
-----------------------------------------------------------------------------
Acc0 == [prev |-> {}, since |-> [s \in Symbols |-> 0], windows |-> {}]

\* The fold of the windows, snapshot by snapshot.
LEMMA WindowsTrace ==
    ASSUME NEW snaps \in Seq(Snap0)
    PROVE  \E h : /\ h[0] = Acc0 /\ h[Len(snaps)] = FoldLeft(WindowsStep, Acc0, snaps)
                  /\ \A i \in 1..Len(snaps) : h[i] = WindowsStep(h[i - 1], snaps[i])
<1> DEFINE F == [x \in Acc \X Snap0 |-> WindowsStep(x[1], x[2])]
           D == DOMAIN snaps
           Solves(k) == k = [s \in SUBSET D |->
                               IF s = {} THEN Acc0 ELSE WindowsStep(k[s \ {Max(s)}], snaps[Max(s)])]
           k == CHOOSE k : Solves(k)
<1>1. ASSUME NEW a \in Acc, NEW snap \in Snap0
      PROVE  WindowsStep(a, snap) \in Acc /\ F[<<a, snap>>] = WindowsStep(a, snap)
  BY StepParts
<1>2. Foldable(Acc, Snap0, F, Acc0, snaps)
  <2>1. \A x \in Acc \X Snap0 : x[1] \in Acc /\ x[2] \in Snap0
    OBVIOUS
  <2>2. Acc0 \in Acc
    BY DEF Acc, Acc0
  <2> QED
    BY <1>1, <2>1, <2>2 DEF Foldable
<1>3. D = 1..Len(snaps) /\ Len(snaps) \in Nat /\ \A i \in D : snaps[i] \in Snap0
  OBVIOUS
<1>4. \A s \in SUBSET D : s # {} => Max(s) \in D
  BY <1>3, LastIndex
<1>5. \E e : Solves(e)
  <2>1. PICK e : FoldUnfolding(e, Acc, F, Acc0, snaps)
    BY <1>2, FoldUnfolds
  <2>2. ASSUME NEW s \in SUBSET D, s # {}
        PROVE  F[<<e[s \ {Max(s)}], snaps[Max(s)]>>] = WindowsStep(e[s \ {Max(s)}], snaps[Max(s)])
    <3>1. e[s \ {Max(s)}] \in Acc /\ snaps[Max(s)] \in Snap0
      BY <1>3, <1>4, <2>1, <2>2 DEF FoldUnfolding
    <3> HIDE DEF F
    <3> QED
      BY <1>1, <3>1
  <2> HIDE DEF F
  <2>3. Solves(e)
    BY <2>1, <2>2 DEF FoldUnfolding
  <2> QED
    BY <2>3
<1>6. Solves(k)
  <2> HIDE DEF Solves
  <2> QED
    BY <1>5
<1>7. FoldLeft(WindowsStep, Acc0, snaps) = k[D]
  BY DEF FoldLeft, MapThenFoldSet
<1> HIDE DEF k
<1>8. k[{}] = Acc0
  BY <1>6
<1>9. ASSUME NEW s \in SUBSET D, s # {}, k[s \ {Max(s)}] \in Acc
      PROVE  k[s] = F[<<k[s \ {Max(s)}], snaps[Max(s)]>>]
  <2>1. k[s] = WindowsStep(k[s \ {Max(s)}], snaps[Max(s)])
    BY <1>6, <1>9
  <2>2. snaps[Max(s)] \in Snap0
    BY <1>3, <1>4, <1>9
  <2> HIDE DEF F
  <2> QED
    BY <1>1, <1>9, <2>1, <2>2
<1> HIDE DEF F, Solves
<1>10. PICK h : TraceOf(h, Acc, F, Acc0, snaps) /\ h[Len(snaps)] = k[D]
  <2>1. FoldsInto(k, Acc, F, Acc0, snaps)
    BY <1>8, <1>9 DEF FoldsInto
  <2> QED
    BY <1>2, <2>1, FoldTrace
<1>11. ASSUME NEW i \in 1..Len(snaps) PROVE h[i] = WindowsStep(h[i - 1], snaps[i])
  <2>1. h[i - 1] \in Acc /\ snaps[i] \in Snap0
    BY <1>3, <1>10 DEF TraceOf
  <2> QED
    BY <1>1, <1>10, <2>1 DEF TraceOf
<1> QED
  BY <1>7, <1>10, <1>11 DEF TraceOf

\* Over all the days in their order.
LEMMA WindowsFollow ==
    ASSUME NEW f, NEW D \in SUBSET (Nat \ {0}), IsFiniteSet(D), \A d \in D : f[d] \in SUBSET Symbols,
           NEW snaps, snaps = [k \in 1..Cardinality(D) |-> Snap(f, InOrder(D)[k])]
    PROVE  Follows(FoldLeft(WindowsStep, Acc0, snaps), f, D)
<1> DEFINE o == InOrder(D)
           n == Cardinality(D)
           Past(i) == {o[j] : j \in 1..i}
<1>1. n \in Nat /\ o \in [1..n -> D] /\ \A i, j \in 1..n : i < j => o[i] < o[j]
  BY DaysInOrder, FS_CardinalityType DEF Ordered
<1>2. \A i \in 1..n : o[i] \in D /\ o[i] \in Nat \ {0} /\ f[o[i]] \in SUBSET Symbols
  BY <1>1
<1>3. Past(n) = D
  <2>1. \A d \in D : \E k \in 1..n : o[k] = d
    BY DaysInOrder, DaysAll
  <2> QED
    BY <1>2, <2>1
<1> HIDE DEF o, n
<1>4. snaps \in Seq(Snap0) /\ Len(snaps) = n /\ \A i \in 1..n : snaps[i] = Snap(f, o[i])
  <2>1. \A i \in 1..n : Snap(f, o[i]) \in Snap0
    BY <1>2 DEF Snap, Snap0
  <2>2. snaps = [k \in 1..n |-> Snap(f, o[k])]
    BY DEF o, n
  <2>3. snaps \in [1..n -> Snap0]
    BY <2>1, <2>2
  <2>4. Len(snaps) = n /\ snaps \in Seq(Snap0)
    <3>1. snaps \in Seq(Snap0) /\ DOMAIN snaps = 1..n
      BY ONLY <1>1, <2>3
    <3>2. DOMAIN snaps = 1..Len(snaps) /\ Len(snaps) \in Nat
      BY ONLY <3>1
    <3> QED
      BY ONLY <1>1, <3>1, <3>2
  <2> QED
    BY <2>2, <2>4
<1>5. PICK h : /\ h[0] = Acc0 /\ h[n] = FoldLeft(WindowsStep, Acc0, snaps)
               /\ \A i \in 1..n : h[i] = WindowsStep(h[i - 1], snaps[i])
  BY <1>4, WindowsTrace, ZenonT(30)
<1> DEFINE G == {i \in Nat : i <= n => Follows(h[i], f, Past(i))}
<1>6. 0 \in G
  <2>1. Past(0) = {}
    OBVIOUS
  <2> QED
    BY <1>5, <2>1, FollowsStart DEF Acc0
<1>7. ASSUME NEW i \in Nat, i \in G PROVE i + 1 \in G
  <2> SUFFICES ASSUME i + 1 <= n PROVE Follows(h[i + 1], f, Past(i + 1))
    OBVIOUS
  <2>1. i + 1 \in 1..n /\ (i + 1) - 1 = i /\ i <= n
    BY <1>1
  <2>2. Follows(h[i], f, Past(i))
    BY <1>7, <2>1
  <2>3. h[i + 1] = WindowsStep(h[i], Snap(f, o[i + 1]))
    BY <1>4, <1>5, <2>1
  <2>4. Past(i + 1) = Past(i) \cup {o[i + 1]}
    <3>1. 1..(i + 1) = (1..i) \cup {i + 1}
      OBVIOUS
    <3> QED
      BY <3>1
  <2>5. \A j \in 1..i : o[j] < o[i + 1] /\ o[j] \in Nat
    BY <1>1, <1>2, <2>1
  <2>6. Past(i) \in SUBSET Nat /\ \A e \in Past(i) : e < o[i + 1]
    BY <2>5
  <2> HIDE DEF Past
  <2> QED
    BY <1>2, <2>1, <2>2, <2>3, <2>4, <2>6, FollowsStep
<1>8. n \in G
  <2> HIDE DEF G
  <2> QED
    BY <1>1, <1>6, <1>7, InductionOnNumbers
<1>9. Follows(h[n], f, Past(n))
  BY <1>1, <1>8
<1> HIDE DEF Past
<1> QED
  BY <1>3, <1>5, <1>9

\* The windows let in those whose latest list has them, and those who leave right now.
LEMMA WindowsRight ==
    ASSUME IInv, NEW t \in tenants, NEW D \in SUBSET applied[t],
           NEW s \in Symbols, \E d \in D : s \in feed[t][d], NEW time \in 1..(Len(feed[t]) + 1)
    PROVE  EntryAllowed(Windows(t, D, Len(feed[t]) + 1), s, time) <=> Admitted(feed[t], D, s, time)
<1> DEFINE f == feed[t]
           horizon == Len(feed[t]) + 1
           snaps == Snapshots(t, D)
           end == FoldLeft(WindowsStep, Acc0, snaps)
           ws == Windows(t, D, horizon)
<1>1. Len(f) \in Nat /\ f \in Seq(SUBSET Symbols)
  BY DEF IInv, TypeOK
<1>2. \A d \in D : d \in 1..Len(f) /\ f[d] \in SUBSET Symbols
  <2>1. \A d \in D : d \in Nat /\ d # 0 /\ d <= Len(f)
    BY DEF IInv, TypeOK, AppliedInv, Day
  <2> QED
    BY <1>1, <2>1
<1>3. D \in SUBSET (Nat \ {0}) /\ IsFiniteSet(D)
  <2> HIDE DEF f
  <2>1. IsFiniteSet(1..Len(f))
    BY <1>1, FS_Interval
  <2>2. D \in SUBSET (1..Len(f))
    BY <1>2
  <2>3. IsFiniteSet(D)
    BY <2>1, <2>2, FS_Subset
  <2>4. \A d \in D : d \in Nat \ {0}
    BY <1>1, <1>2
  <2> QED
    BY <2>3, <2>4
<1>4. snaps = [k \in 1..Cardinality(D) |-> Snap(f, InOrder(D)[k])]
  <2>1. \A k \in 1..Cardinality(D) : InOrder(D)[k] \in D
    BY <1>3, DaysInOrder DEF Ordered
  <2>2. \A d \in D : MembersOn(rows, t, d) = f[d]
    BY DEF IInv, HistoryFaithful
  <2> QED
    BY <2>1, <2>2 DEF Snapshots, Snap
<1>5. Follows(end, f, D)
  <2> HIDE DEF snaps, f
  <2> QED
    BY <1>2, <1>3, <1>4, WindowsFollow
<1>6. ws = end.windows \cup {[symbol |-> q, from |-> end.since[q], to |-> horizon] : q \in end.prev}
  BY DEF Windows, Acc0
<1> HIDE DEF end, ws, snaps
<1>7. \E w \in ws : w.symbol = s
  <2>1. Seen(end, s)
    BY <1>5 DEF Follows
  <2>2. CASE s \in end.prev
    <3>1. [symbol |-> s, from |-> end.since[s], to |-> horizon] \in ws
      BY <1>6, <2>2
    <3> QED
      BY <3>1
  <2> QED
    BY <1>6, <2>1, <2>2 DEF Seen
<1>8. time \in Nat \ {0} /\ time <= horizon
  BY <1>1
<1>9. (\E w \in ws : w.symbol = s /\ Within(w, time)) <=> Covered(end, s, time)
  <2>1. ASSUME NEW w \in ws, w.symbol = s, Within(w, time) PROVE Covered(end, s, time)
    <3>1. CASE w \in end.windows
      BY <2>1, <3>1 DEF Covered
    <3>2. ASSUME NEW q \in end.prev, w = [symbol |-> q, from |-> end.since[q], to |-> horizon]
          PROVE  Covered(end, s, time)
      BY <2>1, <3>2 DEF Covered, Within
    <3> QED
      BY <1>6, <2>1, <3>1, <3>2
  <2>2. ASSUME s \in end.prev, end.since[s] <= time PROVE \E w \in ws : w.symbol = s /\ Within(w, time)
    <3> DEFINE w == [symbol |-> s, from |-> end.since[s], to |-> horizon]
    <3>1. w \in ws
      BY <1>6, <2>2
    <3>2. w.symbol = s /\ Within(w, time)
      BY <1>8, <2>2 DEF Within
    <3> QED
      BY <3>1, <3>2
  <2> QED
    BY <1>6, <2>1, <2>2 DEF Covered
<1>10. Covered(end, s, time) <=> Admitted(f, D, s, time)
  BY <1>5, <1>8 DEF Follows
<1> QED
  BY <1>7, <1>9, <1>10 DEF EntryAllowed, Within, ws

\* Over any of the applied days, resolved again and again, a backtest lets a symbol in when
\* the latest list has it and at the instant it leaves, and at no other time.
THEOREM EntriesAlwaysOfMembers == Spec => []EntriesWereMembers
<1>1. IInv => EntriesWereMembers
  <2> SUFFICES ASSUME IInv, NEW t \in tenants, NEW D \in SUBSET applied[t],
                      NEW s \in UNION {feed[t][e] : e \in D}, NEW time \in 1..(Len(feed[t]) + 1)
               PROVE  EntryAllowed(Windows(t, D, Len(feed[t]) + 1), s, time) <=> Admitted(feed[t], D, s, time)
    BY Zenon DEF EntriesWereMembers, Admitted, Had, Latest
  <2>3. PICK d \in D : s \in feed[t][d]
    OBVIOUS
  <2>1. d \in 1..Len(feed[t]) /\ feed[t] \in Seq(SUBSET Symbols)
    <3>1. d \in Nat /\ d # 0 /\ d <= Len(feed[t]) /\ feed[t] \in Seq(SUBSET Symbols)
      BY DEF IInv, TypeOK, AppliedInv, Day
    <3> QED
      BY <3>1
  <2>2. s \in Symbols
    BY <2>1, <2>3
  <2> QED
    BY <2>2, <2>3, WindowsRight
<1> QED
  BY <1>1, InitEstablishes, StepKeeps, PTL DEF Spec
==============================================================================
